-------------------------------- MODULE TlBa --------------------------------
(***************************************************************************)
(* Block-ack reordering in TL: the frames of a TID of a SoftAP station are *)
(* put in order in a buffer taken from a pool; an aging timer hands up     *)
(* what waits behind a hole for too long.                                  *)
(*                                                                         *)
(* Source: CORE/TL/src/wlan_qct_tl_ba.c, its caller WLANTL_STARxAuth in    *)
(* CORE/TL/src/wlan_qct_tl.c, and of CORE/VOSS/src/vos_timer.c and         *)
(* vos_lock.c what these make of them.                                     *)
(*                                                                         *)
(* Sessions are added and deleted on the MC thread.  Frames are reordered  *)
(* on the receive thread; as the aging timer is started there, its         *)
(* expiry is serialised to that thread, too.  reorderLock covers the       *)
(* reordering, the aging and the first part of the deletion.               *)
(***************************************************************************)
EXTENDS Integers, FiniteSets

CONSTANTS
  TID,       \* the station's TIDs: one session each
  Buffer,    \* reorderBufferPool
  WinSize,   \* the window's size
  MaxFrame,  \* bound: how many frames come in
  Setups,    \* bounds: what the station sends in a behaviour
  NoFrame, NoBuffer, NoTid

ASSUME SizeAssumption == WinSize \in Nat \ {0} /\ MaxFrame \in Nat

ASSUME NameAssumption ==
  NoFrame \notin 1..MaxFrame /\ NoBuffer \notin Buffer /\ NoTid \notin TID

\* The TIDs it has sessions of, how many frames it sends, and the slots of
\* their numbers: a run divides its cost between these.
ASSUME SetupAssumption ==
  Setups \subseteq [tids : SUBSET TID, frames : 0..MaxFrame,
                    slots : SUBSET (0 .. WinSize - 1)]

VARIABLES
  setup,
  ucExists,            \* per TID: whether the session exists
  ucCIndex,            \* per TID: the slot expected next
  pendingFramesCount,  \* per TID
  reorderBuffer,       \* per TID: its buffer, kept when the session is deleted
  lockInit,            \* per TID: whether reorderLock is initialised
  agingTimer,          \* per TID: its state
  isAvailable,         \* per buffer of the pool
  arrayBuffer,         \* per buffer: the frame in every slot
  timerMsg,            \* per TID: expiries queued for the receive thread
  rx, rxTid,           \* where the receive thread is, and for which TID
  rxFrame,             \* the frame it holds
  rxOut,               \* the chain it is about to hand up
  mc, mcTid,           \* where the MC thread is in WLANTL_BaSessionDel
  arrived,             \* frames that have come in
  delivered,           \* the frames handed up to HDD
  returned             \* the frames given back to the pool

sessionVars == <<setup, ucExists, reorderBuffer, lockInit, isAvailable>>
reorderVars == <<ucCIndex, pendingFramesCount, arrayBuffer>>
rxVars == <<rx, rxTid, rxFrame, rxOut>>
mcVars == <<mc, mcTid>>
frameVars == <<arrived, delivered, returned>>
vars == <<sessionVars, reorderVars, agingTimer, timerMsg, rxVars, mcVars,
          frameVars>>

Slot  == 0 .. WinSize - 1
Frame == 1 .. MaxFrame

EmptySlots == [s \in Slot |-> NoFrame]

Init ==
  /\ setup \in Setups
  /\ ucExists = [t \in TID |-> FALSE]
  /\ ucCIndex = [t \in TID |-> 0]
  /\ pendingFramesCount = [t \in TID |-> 0]
  /\ reorderBuffer = [t \in TID |-> NoBuffer]
  /\ lockInit = [t \in TID |-> FALSE]
  /\ agingTimer = [t \in TID |-> "unused"]
  /\ isAvailable = [b \in Buffer |-> TRUE]
  /\ arrayBuffer = [b \in Buffer |-> EmptySlots]
  /\ timerMsg = [t \in TID |-> 0]
  /\ rx = "idle" /\ rxTid = NoTid /\ rxFrame = NoFrame /\ rxOut = {}
  /\ mc = "idle" /\ mcTid = NoTid
  /\ arrived = 0 /\ delivered = {} /\ returned = {}

-----------------------------------------------------------------------------
(***************************************************************************)
(* A window is the part of a session that the reordering works on: the     *)
(* slot expected next, the count and the slots.                            *)
(***************************************************************************)
WindowOf(t) == [index   |-> ucCIndex[t],
                pending |-> pendingFramesCount[t],
                slots   |-> arrayBuffer[reorderBuffer[t]]]

SlotOf(i) == i % WinSize

\* The indices WLANTL_ChainFrontPkts goes through up to slot fwd, or through
\* the whole window; it comes to no slot a second time but to find it empty.
FullReach(w) == w.index .. w.index + WinSize - 1
Reach(w, fwd) ==
  IF w.index = fwd THEN FullReach(w)
  ELSE w.index .. (IF w.index < fwd THEN fwd ELSE fwd + WinSize)

SlotsOf(reach) == {SlotOf(i) : i \in reach}
Occupied(slots) == {s \in Slot : slots[s] # NoFrame}
LastOf(S) == CHOOSE i \in S : \A j \in S : j <= i

\* The frames found in reach, and the window without them:
\* WLANTL_ChainFrontPkts.
Chain(w, reach) == {w.slots[s] : s \in Occupied(w.slots) \cap SlotsOf(reach)}

Unchained(w, reach) ==
  LET front == {i \in reach : w.slots[SlotOf(i)] # NoFrame}
  IN  [index   |-> IF front = {} THEN w.index ELSE SlotOf(LastOf(front) + 1),
       pending |-> w.pending
                     - Cardinality(Occupied(w.slots) \cap SlotsOf(reach)),
       slots   |-> [s \in Slot |-> IF s \in SlotsOf(reach) THEN NoFrame
                                   ELSE w.slots[s]]]

\* WLANTL_QueueCurrent, for a slot that is free.
Queued(w, slot, frame) ==
  [index   |-> w.index,
   pending |-> w.pending + 1,
   slots   |-> [w.slots EXCEPT ![slot] = frame]]

At(w, index) == [index |-> index, pending |-> w.pending, slots |-> w.slots]

\* What a frame does: the window after it, the chain that goes up, and what
\* is returned to the pool.
Outcome(w, out, drop) == [window |-> w, out |-> out, drop |-> drop]

\* Fault: only the frames up to the forward index go up.
CycledUpTo(w, fwd, frame, drop) ==
  LET reach == Reach(w, fwd)
  IN  Outcome([Unchained(w, reach) EXCEPT !.pending = 0],
              Chain(w, reach) \cup {frame}, drop)

\* The slot is taken: everything goes up, the frame last.
Cycled(w, fwd, frame, drop) ==
  LET reach == FullReach(w)
  IN  Outcome([Unchained(w, reach) EXCEPT !.pending = 0],
              Chain(w, reach) \cup {frame}, drop)

(***************************************************************************)
(* What WLANTL_MSDUReorder does for each opcode that the hardware puts in  *)
(* a frame's descriptor.                                                   *)
(***************************************************************************)
Opcode == {"INVALID", "QCUR_FWDBUF", "FWDBUF_FWDCUR", "QCUR",
           "FWDBUF_QUEUECUR", "FWDBUF_DROPCUR", "FWDALL_DROPCUR",
           "FWDALL_QCUR", "DROPCUR"}

\* The frame is the one expected next and none waits behind it.
PassThrough(w, op) == op = "QCUR_FWDBUF" /\ w.pending = 0

QcurFwdbuf(w, slot, fwd, frame) ==
  LET q == Queued(w, slot, frame)
  IN  IF w.pending = 0 THEN Outcome(At(w, SlotOf(slot + 1)), {frame}, {})
      ELSE IF w.slots[slot] # NoFrame THEN Cycled(w, fwd, frame, {})
      ELSE Outcome(Unchained(q, Reach(q, fwd)), Chain(q, Reach(q, fwd)), {})

Qcur(w, slot, fwd, frame) ==
  IF w.slots[slot] # NoFrame THEN Cycled(w, fwd, frame, {})
  ELSE Outcome(Queued(w, slot, frame), {}, {})

\* The frames before fwd have gone up, and fwd is expected next.
Moved(w, fwd) == At(Unchained(w, Reach(w, fwd)), fwd)
Before(w, fwd) == Chain(w, Reach(w, fwd))

\* The frames chained first are returned when the slot turns out to be taken.
FwdbufQueuecur(w, slot, fwd, frame) ==
  IF Moved(w, fwd).slots[slot] # NoFrame
  THEN Cycled(Moved(w, fwd), fwd, frame, Before(w, fwd))
  ELSE Outcome(Queued(Moved(w, fwd), slot, frame), Before(w, fwd), {})

FwdallQcur(w, slot, frame) ==
  Outcome(At(Queued(Unchained(w, FullReach(w)), slot, frame), slot),
          Chain(w, FullReach(w)), {})

Reordered(w, op, slot, fwd, frame) ==
  CASE op = "INVALID"         -> Outcome(w, {frame}, {})
    [] op = "QCUR_FWDBUF"     -> QcurFwdbuf(w, slot, fwd, frame)
    [] op = "FWDBUF_FWDCUR"   ->
         Outcome(Moved(w, fwd), Before(w, fwd) \cup {frame}, {})
    [] op = "QCUR"            -> Qcur(w, slot, fwd, frame)
    [] op = "FWDBUF_QUEUECUR" -> FwdbufQueuecur(w, slot, fwd, frame)
    [] op = "FWDBUF_DROPCUR"  ->
         Outcome(Moved(w, fwd), Before(w, fwd), {frame})
    [] op = "FWDALL_DROPCUR"  ->
         Outcome(At(Unchained(w, FullReach(w)), 0), Chain(w, FullReach(w)),
                 {frame})
    [] op = "FWDALL_QCUR"     -> FwdallQcur(w, slot, frame)
    [] op = "DROPCUR"         -> Outcome(w, {}, {frame})

-----------------------------------------------------------------------------
(***************************************************************************)
(* The receive thread.                                                     *)
(***************************************************************************)

\* WLANTL_STARxAuth: a frame comes in, and the session is looked up.
RxFrame(t) ==
  /\ rx = "idle"
  /\ t \in setup.tids
  /\ arrived < setup.frames
  /\ arrived' = arrived + 1
  /\ rxFrame' = arrived + 1
  /\ rxTid' = t
  /\ IF ucExists[t] THEN rx' = "reorder" /\ UNCHANGED rxOut
                    ELSE rx' = "deliver" /\ rxOut' = {arrived + 1}
  /\ UNCHANGED <<sessionVars, reorderVars, agingTimer, timerMsg, mcVars,
                 delivered, returned>>

\* WLANTL_MSDUReorder takes the lock, unless that was destroyed.
RxLock ==
  /\ rx = "reorder"
  /\ IF lockInit[rxTid] THEN rx' = "locked" /\ UNCHANGED rxOut
                        ELSE rx' = "deliver" /\ rxOut' = {rxFrame}
  /\ UNCHANGED <<sessionVars, reorderVars, agingTimer, timerMsg, rxTid,
                 rxFrame, mcVars, frameVars>>

\* The session was deleted before the lock was taken.
RxGone ==
  /\ rx = "locked"
  /\ ~ucExists[rxTid]
  /\ rx' = "deliver"
  /\ rxOut' = {rxFrame}
  /\ UNCHANGED <<sessionVars, reorderVars, agingTimer, timerMsg, rxTid,
                 rxFrame, mcVars, frameVars>>

SetWindow(t, w) ==
  /\ ucCIndex' = [ucCIndex EXCEPT ![t] = w.index]
  /\ pendingFramesCount' = [pendingFramesCount EXCEPT ![t] = w.pending]
  /\ arrayBuffer' = [arrayBuffer EXCEPT ![reorderBuffer[t]] = w.slots]

\* Fault: the timer is not started again for what is left in the window.
TimerAfterMoved(state, moved, pending) ==
  IF state = "running" /\ moved THEN "stopped"
  ELSE IF pending > 0 /\ state = "stopped" THEN "running"
  ELSE state

\* The aging timer is stopped when the window has moved, and started when
\* there are frames and it is not running.
TimerAfter(state, moved, pending) ==
  LET stopped == IF state = "running" /\ moved THEN "stopped" ELSE state
  IN  IF pending > 0 /\ stopped = "stopped" THEN "running" ELSE stopped

\* Fault: the session is not looked up again under the lock.
RxReorderUnchecked(op, slot, fwd) ==
  /\ rx = "locked"
  /\ LET w == WindowOf(rxTid)
         o == Reordered(w, op, slot, fwd, rxFrame)
     IN  /\ SetWindow(rxTid, o.window)
         /\ rxOut' = o.out
         /\ returned' = returned \cup o.drop
         /\ agingTimer' =
              [agingTimer EXCEPT ![rxTid] =
                 IF PassThrough(w, op) THEN @
                 ELSE TimerAfter(@, o.window.index # w.index,
                                 o.window.pending)]
  /\ rx' = "deliver"
  /\ UNCHANGED <<sessionVars, timerMsg, rxTid, rxFrame, mcVars, arrived,
                 delivered>>

\* The rest of WLANTL_MSDUReorder, up to the release of the lock.
RxReorder(op, slot, fwd) ==
  /\ rx = "locked"
  /\ ucExists[rxTid]
  /\ LET w == WindowOf(rxTid)
         o == Reordered(w, op, slot, fwd, rxFrame)
     IN  /\ SetWindow(rxTid, o.window)
         /\ rxOut' = o.out
         /\ returned' = returned \cup o.drop
         /\ agingTimer' =
              [agingTimer EXCEPT ![rxTid] =
                 IF PassThrough(w, op) THEN @
                 ELSE TimerAfter(@, o.window.index # w.index,
                                 o.window.pending)]
  /\ rx' = "deliver"
  /\ UNCHANGED <<sessionVars, timerMsg, rxTid, rxFrame, mcVars, arrived,
                 delivered>>

\* pfnSTARx
RxDeliver ==
  /\ rx = "deliver"
  /\ delivered' = delivered \cup rxOut
  /\ rx' = "idle" /\ rxTid' = NoTid /\ rxFrame' = NoFrame /\ rxOut' = {}
  /\ UNCHANGED <<sessionVars, reorderVars, agingTimer, timerMsg, mcVars,
                 arrived, returned>>

\* SYS_MSG_ID_RX_TIMER: WLANTL_ReorderingAgingTimerExpierCB looks up the
\* session without the lock.
AgingStart(t) ==
  /\ rx = "idle"
  /\ timerMsg[t] > 0
  /\ timerMsg' = [timerMsg EXCEPT ![t] = @ - 1]
  /\ IF ucExists[t] THEN rx' = "aging" /\ rxTid' = t
                    ELSE UNCHANGED <<rx, rxTid>>
  /\ UNCHANGED <<sessionVars, reorderVars, agingTimer, rxFrame, rxOut, mcVars,
                 frameVars>>

AgingLock ==
  /\ rx = "aging"
  /\ IF lockInit[rxTid] THEN rx' = "agingLocked" /\ UNCHANGED rxTid
                        ELSE rx' = "idle" /\ rxTid' = NoTid
  /\ UNCHANGED <<sessionVars, reorderVars, agingTimer, timerMsg, rxFrame,
                 rxOut, mcVars, frameVars>>

\* Every frame of the window goes up at once, under the lock.
HandUp(t) ==
  LET w == WindowOf(t)
  IN  /\ SetWindow(t, Unchained(w, FullReach(w)))
      /\ delivered' = delivered \cup Chain(w, FullReach(w))

AgingRun ==
  /\ rx = "agingLocked"
  /\ IF ucExists[rxTid] /\ pendingFramesCount[rxTid] # 0
     THEN HandUp(rxTid)
     ELSE UNCHANGED <<reorderVars, delivered>>
  /\ rx' = "idle" /\ rxTid' = NoTid
  /\ UNCHANGED <<sessionVars, agingTimer, timerMsg, rxFrame, rxOut, mcVars,
                 arrived, returned>>

RxStep ==
  \/ RxLock \/ RxGone \/ RxDeliver \/ AgingLock \/ AgingRun
  \/ \E op \in Opcode, slot, fwd \in setup.slots : RxReorder(op, slot, fwd)

-----------------------------------------------------------------------------
\* vos_linux_timer_callback: the expiry is posted to the receive thread.
TimerExpire(t) ==
  /\ agingTimer[t] = "running"
  /\ agingTimer' = [agingTimer EXCEPT ![t] = "stopped"]
  /\ timerMsg' = [timerMsg EXCEPT ![t] = @ + 1]
  /\ UNCHANGED <<sessionVars, reorderVars, rxVars, mcVars, frameVars>>

-----------------------------------------------------------------------------
(***************************************************************************)
(* The MC thread.                                                          *)
(***************************************************************************)

\* Fault: the buffer is not marked as taken.
BaSessionAddShared(t, b) ==
  /\ mc = "idle"
  /\ t \in setup.tids
  /\ ~ucExists[t]
  /\ isAvailable[b]
  /\ reorderBuffer' = [reorderBuffer EXCEPT ![t] = b]
  /\ agingTimer' = [agingTimer EXCEPT ![t] = "stopped"]
  /\ IF lockInit[t]
     THEN UNCHANGED <<ucExists, lockInit, ucCIndex, pendingFramesCount>>
     ELSE /\ lockInit' = [lockInit EXCEPT ![t] = TRUE]
          /\ ucExists' = [ucExists EXCEPT ![t] = TRUE]
          /\ ucCIndex' = [ucCIndex EXCEPT ![t] = 0]
          /\ pendingFramesCount' = [pendingFramesCount EXCEPT ![t] = 0]
  /\ UNCHANGED <<setup, isAvailable, arrayBuffer, timerMsg, rxVars, mcVars,
                 frameVars>>

\* WLANTL_BaSessionAdd.  With a lock that is still initialised it fails after
\* it has taken a buffer.
BaSessionAdd(t, b) ==
  /\ mc = "idle"
  /\ t \in setup.tids
  /\ ~ucExists[t]
  /\ isAvailable[b]
  /\ isAvailable' = [isAvailable EXCEPT ![b] = FALSE]
  /\ reorderBuffer' = [reorderBuffer EXCEPT ![t] = b]
  /\ agingTimer' = [agingTimer EXCEPT ![t] = "stopped"]
  /\ IF lockInit[t]
     THEN UNCHANGED <<ucExists, lockInit, ucCIndex, pendingFramesCount>>
     ELSE /\ lockInit' = [lockInit EXCEPT ![t] = TRUE]
          /\ ucExists' = [ucExists EXCEPT ![t] = TRUE]
          /\ ucCIndex' = [ucCIndex EXCEPT ![t] = 0]
          /\ pendingFramesCount' = [pendingFramesCount EXCEPT ![t] = 0]
  /\ UNCHANGED <<setup, arrayBuffer, timerMsg, rxVars, mcVars, frameVars>>

RxHoldsLock(t) == rx \in {"locked", "agingLocked"} /\ rxTid = t

\* WLANTL_BaSessionDel, with the lock: the session is invalidated and its
\* frames go up.
DelInvalidate(t) ==
  /\ mc = "idle"
  /\ ucExists[t]
  /\ ~RxHoldsLock(t)
  /\ ucExists' = [ucExists EXCEPT ![t] = FALSE]
  /\ IF pendingFramesCount[t] # 0
     THEN HandUp(t)
     ELSE UNCHANGED <<reorderVars, delivered>>
  /\ mc' = "readTimer" /\ mcTid' = t
  /\ UNCHANGED <<setup, reorderBuffer, lockInit, isAvailable, agingTimer,
                 timerMsg, rxVars, arrived, returned>>

\* Its first call of vos_timer_getCurrentState, without the lock.
DelReadTimer ==
  /\ mc = "readTimer"
  /\ mc' = IF agingTimer[mcTid] = "running" THEN "stopTimer" ELSE "finish"
  /\ UNCHANGED <<sessionVars, reorderVars, agingTimer, timerMsg, rxVars, mcTid,
                 frameVars>>

\* vos_timer_stop; the deletion is given up when the timer has just expired.
DelStopTimer ==
  /\ mc = "stopTimer"
  /\ IF agingTimer[mcTid] = "running"
     THEN /\ agingTimer' = [agingTimer EXCEPT ![mcTid] = "stopped"]
          /\ mc' = "finish" /\ UNCHANGED mcTid
     ELSE mc' = "idle" /\ mcTid' = NoTid /\ UNCHANGED agingTimer
  /\ UNCHANGED <<sessionVars, reorderVars, timerMsg, rxVars, frameVars>>

\* The timer and the lock are destroyed, the latter unless the receive thread
\* holds it, and the buffer is given back.
DelFinish ==
  /\ mc = "finish"
  /\ agingTimer' = [agingTimer EXCEPT ![mcTid] = "unused"]
  /\ ucCIndex' = [ucCIndex EXCEPT ![mcTid] = 0]
  /\ lockInit' = [lockInit EXCEPT ![mcTid] = RxHoldsLock(mcTid)]
  /\ arrayBuffer' = [arrayBuffer EXCEPT ![reorderBuffer[mcTid]] = EmptySlots]
  /\ isAvailable' = [isAvailable EXCEPT ![reorderBuffer[mcTid]] = TRUE]
  /\ mc' = "idle" /\ mcTid' = NoTid
  /\ UNCHANGED <<setup, ucExists, pendingFramesCount, reorderBuffer, timerMsg,
                 rxVars, frameVars>>

DelStep == DelReadTimer \/ DelStopTimer \/ DelFinish

-----------------------------------------------------------------------------
Next ==
  \/ \E t \in TID : \/ RxFrame(t)
                    \/ AgingStart(t)
                    \/ TimerExpire(t)
                    \/ DelInvalidate(t)
                    \/ \E b \in Buffer : BaSessionAdd(t, b)
  \/ RxStep
  \/ DelStep

Spec == Init /\ [][Next]_vars

(***************************************************************************)
(* The threads run on, an expiry's message, of the receive thread's        *)
(* highest priority, gets its turn, and a running timer expires.  Nobody   *)
(* need send a frame or add or delete a session.                           *)
(***************************************************************************)
Fairness ==
  /\ WF_vars(RxStep) /\ WF_vars(DelStep)
  /\ \A t \in TID : SF_vars(AgingStart(t)) /\ WF_vars(TimerExpire(t))

FairSpec == Spec /\ Fairness

-----------------------------------------------------------------------------
TypeOK ==
  /\ setup \in Setups
  /\ ucExists \in [TID -> BOOLEAN]
  /\ ucCIndex \in [TID -> Slot]
  /\ pendingFramesCount \in [TID -> Nat]
  /\ reorderBuffer \in [TID -> Buffer \cup {NoBuffer}]
  /\ lockInit \in [TID -> BOOLEAN]
  /\ agingTimer \in [TID -> {"unused", "stopped", "running"}]
  /\ isAvailable \in [Buffer -> BOOLEAN]
  /\ arrayBuffer \in [Buffer -> [Slot -> Frame \cup {NoFrame}]]
  /\ timerMsg \in [TID -> Nat]
  /\ rx \in {"idle", "reorder", "locked", "deliver", "aging", "agingLocked"}
  /\ rxTid \in TID \cup {NoTid}
  /\ rxFrame \in Frame \cup {NoFrame}
  /\ rxOut \subseteq Frame
  /\ mc \in {"idle", "readTimer", "stopTimer", "finish"}
  /\ mcTid \in TID \cup {NoTid}
  /\ arrived \in 0..MaxFrame
  /\ delivered \subseteq Frame
  /\ returned \subseteq Frame

\* The frames in the buffers, in the receive thread's hands, and altogether.
Buffered == UNION {{arrayBuffer[b][s] : s \in Occupied(arrayBuffer[b])} :
                     b \in Buffer}
InHand == CASE rx \in {"reorder", "locked"} -> {rxFrame}
            [] rx = "deliver"               -> rxOut
            [] OTHER                        -> {}
Held == Buffered \cup InHand

(***************************************************************************)
(* The count that decides whether the aging and the deletion look for      *)
(* frames is the number of slots taken.                                    *)
(***************************************************************************)
PendingExact ==
  \A t \in TID : ucExists[t] =>
    pendingFramesCount[t] = Cardinality(Occupied(arrayBuffer[reorderBuffer[t]]))

(***************************************************************************)
(* "This ensures that no packets are bufferd after reorder buffer is       *)
(* cleaned": a buffer that is in no session holds no frame.                *)
(***************************************************************************)
NoFrameLeftBehind ==
  \A b \in Buffer :
    (\A t \in TID : ucExists[t] => reorderBuffer[t] # b)
      => Occupied(arrayBuffer[b]) = {}

(***************************************************************************)
(* Every session has a buffer of its own, taken from the pool.             *)
(***************************************************************************)
OwnBuffer ==
  \A t \in TID : ucExists[t] =>
    /\ reorderBuffer[t] \in Buffer
    /\ ~isAvailable[reorderBuffer[t]]
    /\ \A u \in TID \ {t} : ucExists[u] => reorderBuffer[u] # reorderBuffer[t]

(***************************************************************************)
(* Frames behind a hole are being aged: whenever a window holds a frame    *)
(* the aging timer runs, or its expiry is on the way to the thread.        *)
(***************************************************************************)
AgingCovers ==
  \A t \in TID : ucExists[t] /\ pendingFramesCount[t] > 0 =>
    \/ agingTimer[t] = "running"
    \/ timerMsg[t] > 0
    \/ rx \in {"aging", "agingLocked"} /\ rxTid = t

(***************************************************************************)
(* The sessions, their buffers and their timers in step with each other.   *)
(***************************************************************************)
ReorderInv == TypeOK /\ NoFrameLeftBehind /\ OwnBuffer /\ AgingCovers

(***************************************************************************)
(* No frame is lost, and none handled twice ("Frames should be protected   *)
(* from double handle"): what TL promises of the frames it is given.       *)
(***************************************************************************)
Promise == INSTANCE RxFrames WITH held <- Held
FramesKept == Promise!Spec

(***************************************************************************)
(* No frame waits in a buffer for ever, also behind a hole that nothing    *)
(* fills: the station sends a bounded number of frames, and a frame that   *)
(* has left comes to no buffer again.                                      *)
(***************************************************************************)
FramesLeave == <>[](Buffered = {})

=============================================================================
