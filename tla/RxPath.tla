------------------------------- MODULE RxPath -------------------------------
(***************************************************************************)
(* The receive path, from the DXE receive rings to the pool of packets     *)
(* that feeds them, in full power and across IMPS.                         *)
(*                                                                         *)
(* Sources: CORE/DXE/src/wlan_qct_dxe.c (rings, interrupt, power states),  *)
(* CORE/VOSS/src/vos_packet.c and CORE/WDI/WPAL/src/wlan_qct_pal_packet.c  *)
(* (the pool and its low resource callback), CORE/WDI/WPAL/src/            *)
(* wlan_qct_pal_device.c (interrupt control), CORE/WDI/CP/src/             *)
(* wlan_qct_wdi.c (who sets the power state).                              *)
(*                                                                         *)
(* Four contexts run concurrently: the interrupt; the RX thread, that      *)
(* pulls frames and refills the rings; the MC thread, that returns the     *)
(* packets of management frames and changes the power state; the TX        *)
(* thread, that only acknowledges a power state here.  The device fills    *)
(* descriptors in ring order.  A step of a thread reaches as far as the    *)
(* next access to state another context changes.                           *)
(***************************************************************************)
EXTENDS Integers, Sequences, FiniteSets

CONSTANTS
  NumDesc,    \* descriptors of a ring
  Threshold,  \* VPKT_RX_REPLENISH_THRESHOLD
  Setups      \* the combinations considered of [spare: packets of the pool
              \* that no ring holds at first; and bounds, data, mgmt: frames
              \* received, imps: times IMPS is entered, noMem: times the
              \* kernel has no buffer]

ASSUME SizeAssumption ==
  /\ NumDesc \in Nat \ {0}
  /\ Threshold \in Nat
  /\ Setups \subseteq [spare: Nat, data: Nat, mgmt: Nat, imps: Nat, noMem: Nat]

Channel  == {"hi", "lo"}
Channels == <<"hi", "lo">>   \* the order they are served in
Place    == 0 .. NumDesc - 1
Next1(i) == (i + 1) % NumDesc

VARIABLES
  \* The rings, per channel.  A descriptor is "valid": a locked packet for
  \* the device; "data" or "mgmt": filled; "empty": without a packet.
  desc, dma,         \* dma: where the device is
  head, tail,        \* headCtrlBlk, tailCtrlBlk
  numFreeDesc,
  numFragmentCurrentChain,
  \* Interrupt
  intSrc,            \* the channels with their interrupt status set
  irqDepth,          \* how often the interrupt is disabled
  rxIntDisabledByIMPS,
  driverReloadInProcessing,
  \* The RX thread
  rxQ,               \* messages: "isr", "avail", "power"
  rx,                \* where it is
  rxFor,             \* the message it handles
  rxImps,            \* whether its handler saw IMPS
  todo,              \* the channels it has still to serve
  frameCount,
  \* The pool
  freeList,          \* packets of rxRawFreeList
  replenishList,     \* packets of rxReplenishList
  lowResource,       \* whether rxRawLowResourceInfo.callback is set
  wpalCB,            \* whether wpalPacketAvailableCB is set
  freeRXPacket,      \* whether DXE holds the packet of a callback
  rxPalPacketUnavailable,
  upstairs,          \* packets of management frames PE holds
  \* Power
  hostPowerState,    \* "FULL" or "IMPS"
  riva,              \* "on" or "collapsed"
  txAck,             \* whether the TX thread has the power message queued
  setPowerStateEvent,
  mc,                \* where the MC thread is
  psm,               \* how far the power state has got: "full", "entering",
                     \* "asleep", "answered"
  \* Bounds
  setup, left        \* left: what the bounds still allow

ringVars  == <<desc, dma, head, tail, numFreeDesc>>
intVars   == <<intSrc, irqDepth>>
poolVars  == <<freeList, replenishList, lowResource, wpalCB, freeRXPacket>>
powerVars == <<hostPowerState, riva, txAck, setPowerStateEvent, psm>>
rxVars    == <<rx, rxFor, rxImps, todo, frameCount>>
vars == <<ringVars, numFragmentCurrentChain, intVars, rxIntDisabledByIMPS,
          driverReloadInProcessing, rxQ, rxVars, poolVars,
          rxPalPacketUnavailable, upstairs, powerVars, mc, setup, left>>

Init ==
  /\ desc = [c \in Channel |-> [i \in Place |-> "valid"]]
  /\ dma = [c \in Channel |-> 0]
  /\ head = [c \in Channel |-> 0]
  /\ tail = [c \in Channel |-> 0]
  /\ numFreeDesc = [c \in Channel |-> 0]
  /\ numFragmentCurrentChain = [c \in Channel |-> 0]
  /\ intSrc = {}
  /\ irqDepth = 0
  /\ rxIntDisabledByIMPS = FALSE
  /\ driverReloadInProcessing = FALSE
  /\ rxQ = <<>>
  /\ rx = "idle" /\ rxFor = "none" /\ rxImps = FALSE
  /\ todo = <<>> /\ frameCount = 0
  /\ setup \in Setups
  /\ left = setup
  /\ freeList = setup.spare
  /\ replenishList = 0
  /\ lowResource = FALSE
  /\ wpalCB = FALSE
  /\ freeRXPacket = FALSE
  /\ rxPalPacketUnavailable = FALSE
  /\ upstairs = 0
  /\ hostPowerState = "FULL"
  /\ riva = "on"
  /\ txAck = FALSE
  /\ setPowerStateEvent = FALSE
  /\ mc = "idle"
  /\ psm = "full"

Filled == {"data", "mgmt"}

-----------------------------------------------------------------------------
(* The device and the interrupt.                                           *)

\* The device fills the next descriptor of a ring, if it has a buffer.
Receive(c, kind) ==
  /\ riva = "on"
  /\ left[kind] > 0
  /\ desc[c][dma[c]] = "valid"
  /\ desc' = [desc EXCEPT ![c][dma[c]] = kind]
  /\ dma' = [dma EXCEPT ![c] = Next1(@)]
  /\ intSrc' = intSrc \cup {c}
  /\ left' = [left EXCEPT ![kind] = @ - 1]
  /\ UNCHANGED <<head, tail, numFreeDesc, numFragmentCurrentChain, irqDepth,
                 rxIntDisabledByIMPS, driverReloadInProcessing, rxQ, rxVars,
                 poolVars, rxPalPacketUnavailable, upstairs, powerVars, mc,
                 setup>>

\* dxeRXISR: the interrupt stays off until the RX thread has served it.
RxIsr ==
  /\ riva = "on"
  /\ irqDepth = 0
  /\ intSrc # {}
  /\ irqDepth' = 1
  /\ rxQ' = Append(rxQ, "isr")
  /\ UNCHANGED <<ringVars, numFragmentCurrentChain, intSrc,
                 rxIntDisabledByIMPS, driverReloadInProcessing, rxVars,
                 poolVars, rxPalPacketUnavailable, upstairs, powerVars, mc,
                 setup, left>>

\* Fault: enabling is counted even if the interrupt is not disabled.
EnabledUnbalanced == irqDepth - 1

\* wpalEnableInterrupt: enable_irq ignores an interrupt that is not disabled.
Enabled == IF irqDepth > 0 THEN irqDepth - 1 ELSE 0

-----------------------------------------------------------------------------
(* The pool.  A state of it is a record [free, replenish, low, wpal, dxe,  *)
(* avail, noMem]: dxe is freeRXPacket, avail says that the message for the *)
(* RX thread has been posted, noMem is what the bound still allows.        *)

Pool == [free |-> freeList, replenish |-> replenishList, low |-> lowResource,
         wpal |-> wpalCB, dxe |-> freeRXPacket, avail |-> FALSE,
         noMem |-> left.noMem]

PoolIs(p) ==
  /\ freeList' = p.free
  /\ replenishList' = p.replenish
  /\ lowResource' = p.low
  /\ wpalCB' = p.wpal
  /\ freeRXPacket' = p.dxe
  /\ left' = [left EXCEPT !.noMem = p.noMem]
  /\ rxQ' = IF p.avail THEN Append(rxQ, "avail") ELSE rxQ

\* Fault: the packet is kept for DXE, that is not told.
CalledBackQuietly(p) ==
  IF p.wpal THEN [p EXCEPT !.low = FALSE, !.dxe = TRUE]
            ELSE [p EXCEPT !.low = FALSE]

\* Fault: the callback stays registered.
CalledBackTwice(p) ==
  IF p.wpal THEN [p EXCEPT !.dxe = TRUE, !.avail = TRUE] ELSE p

\* The low resource callback, wpalPacketRXLowResourceCB, with a packet: it
\* has nobody to give it to while wpalPacketAvailableCB is NULL.
CalledBack(p) ==
  IF p.wpal THEN [p EXCEPT !.low = FALSE, !.dxe = TRUE, !.avail = TRUE]
            ELSE [p EXCEPT !.low = FALSE]

\* vos_pkti_replenish_raw_pool is due.
Due(p) == p.replenish > 0 /\ ~(p.replenish < Threshold /\ p.free > 0)

\* What it may do: n packets get a new buffer before the kernel has none.
Replenished(p) ==
  IF ~Due(p) THEN {p}
  ELSE {LET some == [p EXCEPT !.free = @ + n, !.replenish = @ - n,
                              !.noMem = @ - IF n < p.replenish THEN 1 ELSE 0]
        IN  IF n > 0 /\ p.low THEN CalledBack([some EXCEPT !.free = @ - 1])
                              ELSE some :
        n \in {k \in 0 .. p.replenish : k = p.replenish \/ p.noMem > 0}}

-----------------------------------------------------------------------------
(* The RX thread: handlers.                                                *)

\* dxeRXEventHandler, up to the test of the power state.
TakeIsr ==
  /\ rx = "idle" /\ rxQ # <<>> /\ Head(rxQ) = "isr"
  /\ rxQ' = Tail(rxQ)
  /\ IF driverReloadInProcessing
     THEN UNCHANGED <<rx, rxFor, rxImps, todo>>
     ELSE /\ rxFor' = "isr"
          /\ rxImps' = (hostPowerState = "IMPS")
          /\ rx' = IF rxImps' THEN "pull" ELSE "source"
          /\ todo' = IF rxImps' THEN Channels ELSE <<>>
  /\ UNCHANGED <<ringVars, numFragmentCurrentChain, intVars, frameCount,
                 rxIntDisabledByIMPS, driverReloadInProcessing, poolVars,
                 rxPalPacketUnavailable, upstairs, powerVars, mc, setup, left>>

\* dxeRXPacketAvailableEventHandler, up to the first ring.
TakeAvail ==
  /\ rx = "idle" /\ rxQ # <<>> /\ Head(rxQ) = "avail"
  /\ rxQ' = Tail(rxQ)
  /\ rxFor' = "avail"
  /\ todo' = Channels
  /\ rx' = "refill"
  /\ UNCHANGED <<ringVars, numFragmentCurrentChain, intVars, frameCount,
                 rxIntDisabledByIMPS, driverReloadInProcessing, poolVars,
                 rxImps, rxPalPacketUnavailable, upstairs, powerVars, mc,
                 setup, left>>

\* dxeRxThreadSetPowerStateEventHandler
TakePower ==
  /\ rx = "idle" /\ rxQ # <<>> /\ Head(rxQ) = "power"
  /\ rxQ' = Tail(rxQ)
  /\ txAck' = TRUE
  /\ UNCHANGED <<ringVars, numFragmentCurrentChain, intVars, rxVars,
                 rxIntDisabledByIMPS, driverReloadInProcessing, poolVars,
                 rxPalPacketUnavailable, upstairs, hostPowerState, riva,
                 setPowerStateEvent, psm, mc, setup, left>>

RxThreadOnly == UNCHANGED <<upstairs, powerVars, mc, setup>>

\* The interrupt status is read: the channels that have one, which stands for ED,
\* are served.
ReadSource ==
  /\ rx = "source"
  /\ todo' = (IF "hi" \in intSrc THEN <<"hi">> ELSE <<>>)
             \o (IF "lo" \in intSrc THEN <<"lo">> ELSE <<>>)
  /\ rx' = IF todo' = <<>> THEN "enable" ELSE "clean"
  /\ RxThreadOnly
  /\ UNCHANGED <<ringVars, numFragmentCurrentChain, intVars, rxFor, rxImps,
                 frameCount, rxIntDisabledByIMPS, driverReloadInProcessing,
                 rxQ, poolVars, rxPalPacketUnavailable, left>>

\* Fault: every status is cleaned, and not only that of the channel served.
CleanAll ==
  /\ rx = "clean"
  /\ intSrc' = {}
  /\ rx' = "pull"
  /\ RxThreadOnly
  /\ UNCHANGED <<ringVars, numFragmentCurrentChain, irqDepth, rxFor, rxImps,
                 todo, frameCount, rxIntDisabledByIMPS,
                 driverReloadInProcessing, rxQ, poolVars,
                 rxPalPacketUnavailable, left>>

\* dxeChannelCleanInt
CleanInt ==
  /\ rx = "clean"
  /\ intSrc' = intSrc \ {Head(todo)}
  /\ rx' = "pull"
  /\ RxThreadOnly
  /\ UNCHANGED <<ringVars, numFragmentCurrentChain, irqDepth, rxFor, rxImps,
                 todo, frameCount, rxIntDisabledByIMPS,
                 driverReloadInProcessing, rxQ, poolVars,
                 rxPalPacketUnavailable, left>>

\* A filled descriptor is taken and its frame handed up.  The packet of a
\* data frame comes back in the call, without its buffer; PE keeps the one of
\* a management frame.
Pull ==
  /\ rx = "pull"
  /\ LET c == Head(todo) IN
     /\ desc[c][head[c]] \in Filled
     /\ numFreeDesc' = [numFreeDesc EXCEPT ![c] = @ + 1]
     /\ desc' = [desc EXCEPT ![c][head[c]] = "empty"]
     /\ IF desc[c][head[c]] = "data"
        THEN /\ \E p \in Replenished([Pool EXCEPT !.replenish = @ + 1]) :
                   PoolIs(p)
             /\ UNCHANGED upstairs
        ELSE /\ upstairs' = upstairs + 1
             /\ UNCHANGED <<poolVars, rxQ, left>>
  /\ frameCount' = frameCount + 1
  /\ rx' = "refill"
  /\ UNCHANGED <<dma, head, tail, numFragmentCurrentChain, intVars, rxFor,
                 rxImps, todo, rxIntDisabledByIMPS, driverReloadInProcessing,
                 rxPalPacketUnavailable, powerVars, mc, setup>>

\* Fault: it goes where the last frame was taken from.
FillHead(c) ==
  /\ desc' = [desc EXCEPT ![c][head[c]] = "valid"]
  /\ tail' = [tail EXCEPT ![c] = Next1(@)]
  /\ numFreeDesc' = [numFreeDesc EXCEPT ![c] = @ - 1]

\* A packet goes into the descriptor at the tail.
Fill(c) ==
  /\ desc' = [desc EXCEPT ![c][tail[c]] = "valid"]
  /\ tail' = [tail EXCEPT ![c] = Next1(@)]
  /\ numFreeDesc' = [numFreeDesc EXCEPT ![c] = @ - 1]

\* Fault: the head stays where it is when there was no packet.
EndRefillStays(ok) ==
  /\ IF rxFor = "isr"
     THEN /\ rx' = "pull"
          /\ head' = [head EXCEPT ![Head(todo)] = IF ok THEN Next1(@) ELSE @]
          /\ UNCHANGED <<rxFor, todo>>
     ELSE /\ UNCHANGED head
          /\ IF ok /\ Len(todo) > 1
             THEN todo' = Tail(todo) /\ UNCHANGED <<rx, rxFor>>
             ELSE /\ todo' = <<>>
                  /\ rx' = IF hostPowerState = "IMPS" THEN "flag" ELSE "idle"
                  /\ rxFor' = IF rx' = "flag" THEN rxFor ELSE "none"
  /\ UNCHANGED <<rxImps, frameCount>>

\* dxeRXFrameRefillRing returns.  Without a packet the second ring is not
\* looked at.
EndRefill(ok) ==
  /\ IF rxFor = "isr"
     THEN /\ rx' = "pull"
          /\ head' = [head EXCEPT ![Head(todo)] = Next1(@)]
          /\ UNCHANGED <<rxFor, todo>>
     ELSE /\ UNCHANGED head
          /\ IF ok /\ Len(todo) > 1
             THEN todo' = Tail(todo) /\ UNCHANGED <<rx, rxFor>>
             ELSE /\ todo' = <<>>
                  /\ rx' = IF hostPowerState = "IMPS" THEN "flag" ELSE "idle"
                  /\ rxFor' = IF rx' = "flag" THEN rxFor ELSE "none"
  /\ UNCHANGED <<rxImps, frameCount>>

RefillFull ==
  /\ rx = "refill" /\ numFreeDesc[Head(todo)] = 0
  /\ EndRefill(TRUE)
  /\ RxThreadOnly
  /\ UNCHANGED <<desc, dma, tail, numFreeDesc, numFragmentCurrentChain,
                 intVars, rxIntDisabledByIMPS, driverReloadInProcessing, rxQ,
                 poolVars, rxPalPacketUnavailable, left>>

\* DXE waits for a packet: the one it was given, or nothing yet.
RefillWaiting ==
  /\ rx = "refill" /\ numFreeDesc[Head(todo)] > 0 /\ rxPalPacketUnavailable
  /\ IF freeRXPacket
     THEN /\ Fill(Head(todo))
          /\ freeRXPacket' = FALSE
          /\ rxPalPacketUnavailable' = FALSE
          /\ UNCHANGED <<head, rxVars>>
     ELSE /\ EndRefill(FALSE)
          /\ UNCHANGED <<desc, tail, numFreeDesc, freeRXPacket,
                         rxPalPacketUnavailable>>
  /\ RxThreadOnly
  /\ UNCHANGED <<dma, numFragmentCurrentChain, intVars, rxIntDisabledByIMPS,
                 driverReloadInProcessing, rxQ, freeList, replenishList,
                 lowResource, wpalCB, left>>

\* wpalPacketAlloc forgets its callback and asks the pool, that registers
\* another one when it has no packet.
RefillAlloc ==
  /\ rx = "refill" /\ numFreeDesc[Head(todo)] > 0 /\ ~rxPalPacketUnavailable
  /\ \E p \in Replenished([Pool EXCEPT !.wpal = FALSE]) :
       IF p.low \/ p.free = 0
       THEN /\ PoolIs([p EXCEPT !.low = TRUE])
            /\ rx' = "register"
            /\ UNCHANGED <<desc, tail, numFreeDesc>>
       ELSE /\ PoolIs([p EXCEPT !.free = @ - 1])
            /\ Fill(Head(todo))
            /\ UNCHANGED rx
  /\ RxThreadOnly
  /\ UNCHANGED <<dma, head, numFragmentCurrentChain, intVars, rxFor, rxImps,
                 todo, frameCount, rxIntDisabledByIMPS,
                 driverReloadInProcessing, rxPalPacketUnavailable>>

\* Only now does wpalPacketAlloc remember whom to tell, and DXE that it waits.
Register ==
  /\ rx = "register"
  /\ wpalCB' = TRUE
  /\ rxPalPacketUnavailable' = TRUE
  /\ EndRefill(FALSE)
  /\ RxThreadOnly
  /\ UNCHANGED <<desc, dma, tail, numFreeDesc, numFragmentCurrentChain,
                 intVars, rxIntDisabledByIMPS, driverReloadInProcessing, rxQ,
                 freeList, replenishList, lowResource, freeRXPacket, left>>

\* dxeRXFrameRouteUpperLayer meets a descriptor that is not filled.
EndPull ==
  /\ rx = "pull" /\ desc[Head(todo)][head[Head(todo)]] \notin Filled
  /\ rx' = "check"
  /\ RxThreadOnly
  /\ UNCHANGED <<ringVars, numFragmentCurrentChain, intVars, rxFor, rxImps,
                 todo, frameCount, rxIntDisabledByIMPS,
                 driverReloadInProcessing, rxQ, poolVars,
                 rxPalPacketUnavailable, left>>

\* Fault: one is enough.
WedgedAtOnce(c) ==
  /\ frameCount = 0
  /\ hostPowerState = "FULL"
  /\ \A i \in Place : desc[c][i] \notin Filled

\* Two interrupts without a frame, and none to be found in the ring.
Wedged(c) ==
  /\ frameCount = 0 /\ numFragmentCurrentChain[c] = 0
  /\ hostPowerState = "FULL"
  /\ \A i \in Place : desc[c][i] \notin Filled

\* The rest of dxeRXFrameReady, and on to the next ring.
EndChannel ==
  /\ rx = "check"
  /\ LET c == Head(todo) IN
     /\ driverReloadInProcessing' = (driverReloadInProcessing \/ Wedged(c))
     /\ numFragmentCurrentChain' =
          [numFragmentCurrentChain EXCEPT ![c] = frameCount]
  /\ frameCount' = 0
  /\ todo' = Tail(todo)
  /\ rx' = IF todo' = <<>> THEN IF rxImps THEN "flag" ELSE "enable"
                           ELSE IF rxImps THEN "pull" ELSE "clean"
  /\ RxThreadOnly
  /\ UNCHANGED <<ringVars, intVars, rxFor, rxImps, rxIntDisabledByIMPS, rxQ,
                 poolVars, rxPalPacketUnavailable, left>>

Idle == rx' = "idle" /\ rxFor' = "none" /\ rxImps' = FALSE /\ todo' = <<>>

\* Fault: the interrupt is enabled again only after a frame.
EnableAfterFrames ==
  /\ rx = "enable"
  /\ irqDepth' = IF \E c \in Channel : numFragmentCurrentChain[c] > 0
                 THEN Enabled ELSE irqDepth
  /\ rx' = "control"
  /\ RxThreadOnly
  /\ UNCHANGED <<ringVars, numFragmentCurrentChain, intSrc, rxFor, rxImps,
                 todo, frameCount, rxIntDisabledByIMPS,
                 driverReloadInProcessing, rxQ, poolVars,
                 rxPalPacketUnavailable, left>>

Enable ==
  /\ rx = "enable"
  /\ irqDepth' = Enabled
  /\ rx' = "control"
  /\ RxThreadOnly
  /\ UNCHANGED <<ringVars, numFragmentCurrentChain, intSrc, rxFor, rxImps,
                 todo, frameCount, rxIntDisabledByIMPS,
                 driverReloadInProcessing, rxQ, poolVars,
                 rxPalPacketUnavailable, left>>

\* The control registers of the channels are written.
Control ==
  /\ rx = "control"
  /\ Idle
  /\ RxThreadOnly
  /\ UNCHANGED <<ringVars, numFragmentCurrentChain, intVars, frameCount,
                 rxIntDisabledByIMPS, driverReloadInProcessing, rxQ, poolVars,
                 rxPalPacketUnavailable, left>>

\* Fault: nobody is told.
FlagForgotten ==
  /\ rx = "flag"
  /\ Idle
  /\ RxThreadOnly
  /\ UNCHANGED <<ringVars, numFragmentCurrentChain, intVars, frameCount,
                 rxIntDisabledByIMPS, driverReloadInProcessing, rxQ, poolVars,
                 rxPalPacketUnavailable, left>>

\* The interrupt is left to the change of the power state.
Flag ==
  /\ rx = "flag"
  /\ rxIntDisabledByIMPS' = TRUE
  /\ Idle
  /\ RxThreadOnly
  /\ UNCHANGED <<ringVars, numFragmentCurrentChain, intVars, frameCount,
                 driverReloadInProcessing, rxQ, poolVars,
                 rxPalPacketUnavailable, left>>

RxThread == \/ TakeIsr \/ TakeAvail \/ TakePower \/ ReadSource \/ CleanInt
            \/ Pull \/ RefillFull \/ RefillWaiting \/ RefillAlloc \/ Register
            \/ EndPull \/ EndChannel \/ Enable \/ Control \/ Flag

-----------------------------------------------------------------------------
(* The MC thread returns packets.                                          *)

McThreadOnly ==
  UNCHANGED <<ringVars, numFragmentCurrentChain, driverReloadInProcessing,
              rxVars, rxPalPacketUnavailable, riva, setup>>

PowerSame == UNCHANGED <<intVars, rxIntDisabledByIMPS, powerVars>>

\* vos_pkt_return_packet looks for the callback without the lock.
McReturn ==
  /\ mc = "idle" /\ upstairs > 0
  /\ upstairs' = upstairs - 1
  /\ mc' = IF lowResource THEN "call" ELSE "put"
  /\ McThreadOnly /\ PowerSame
  /\ UNCHANGED <<rxQ, poolVars, left>>

\* It calls what it finds there, which may be NULL by now.
McCall ==
  /\ mc = "call"
  /\ IF lowResource THEN PoolIs(CalledBack(Pool)) /\ mc' = "replenish"
                    ELSE mc' = "crashed" /\ UNCHANGED <<rxQ, poolVars, left>>
  /\ McThreadOnly /\ PowerSame
  /\ UNCHANGED upstairs

McPut ==
  /\ mc = "put"
  /\ PoolIs([Pool EXCEPT !.free = @ + 1])
  /\ mc' = "replenish"
  /\ McThreadOnly /\ PowerSame
  /\ UNCHANGED upstairs

McReplenish ==
  /\ mc = "replenish"
  /\ \E p \in Replenished(Pool) : PoolIs(p)
  /\ mc' = "idle"
  /\ McThreadOnly /\ PowerSame
  /\ UNCHANGED upstairs

-----------------------------------------------------------------------------
(* The power state.                                                        *)

\* WDI_ProcessEnterImpsReq, as far as its wait.
EnterImps ==
  /\ mc = "idle" /\ psm = "full" /\ left.imps > 0
  /\ left' = [left EXCEPT !.imps = @ - 1]
  /\ setPowerStateEvent' = FALSE
  /\ hostPowerState' = "IMPS"
  /\ rxQ' = Append(rxQ, "power")
  /\ mc' = "wait"
  /\ McThreadOnly
  /\ UNCHANGED <<intVars, rxIntDisabledByIMPS, poolVars, upstairs, txAck, psm>>

\* dxeTxThreadSetPowerStateEventHandler and WDI_SetPowerStateCb
TxAcks ==
  /\ txAck
  /\ txAck' = FALSE
  /\ setPowerStateEvent' = TRUE
  /\ McThreadOnly
  /\ UNCHANGED <<intVars, rxIntDisabledByIMPS, rxQ, poolVars, upstairs,
                 hostPowerState, psm, mc, left>>

\* Fault: the request does not wait.
AckedAtOnce == TRUE

\* The wait is over, and the request goes to the firmware.
Acked == setPowerStateEvent

SendEnter ==
  /\ mc = "wait" /\ Acked
  /\ mc' = "idle"
  /\ psm' = "entering"
  /\ McThreadOnly
  /\ UNCHANGED <<intVars, rxIntDisabledByIMPS, rxQ, poolVars, upstairs,
                 hostPowerState, txAck, setPowerStateEvent, left>>

RivaSame ==
  UNCHANGED <<ringVars, numFragmentCurrentChain, irqDepth,
              rxIntDisabledByIMPS, driverReloadInProcessing, rxQ, rxVars,
              poolVars, rxPalPacketUnavailable, upstairs, hostPowerState,
              txAck, setPowerStateEvent, mc, setup, left>>

\* The firmware refuses, or the device is collapsed.  Its interrupt status is
\* taken to be there again when it wakes up.
RivaRefuses ==
  /\ psm = "entering"
  /\ psm' = "answered"
  /\ RivaSame /\ UNCHANGED <<riva, intSrc>>

RivaCollapses ==
  /\ psm = "entering"
  /\ psm' = "asleep"
  /\ riva' = "collapsed"
  /\ RivaSame /\ UNCHANGED intSrc

\* Asked to leave IMPS, the device wakes up and the firmware answers.
RivaWakes ==
  /\ psm = "asleep"
  /\ psm' = "answered"
  /\ riva' = "on"
  /\ RivaSame /\ UNCHANGED intSrc

\* WLANDXE_SetPowerState(FULL) for the answer: the interrupt is enabled again
\* if it has been left off by now.
LeaveImps ==
  /\ mc = "idle" /\ psm = "answered"
  /\ rxIntDisabledByIMPS' = FALSE
  /\ irqDepth' = IF rxIntDisabledByIMPS THEN Enabled ELSE irqDepth
  /\ mc' = "setFull"
  /\ McThreadOnly
  /\ UNCHANGED <<intSrc, rxQ, poolVars, upstairs, hostPowerState, txAck,
                 setPowerStateEvent, psm, left>>

SetFull ==
  /\ mc = "setFull"
  /\ hostPowerState' = "FULL"
  /\ psm' = "full"
  /\ mc' = "idle"
  /\ McThreadOnly
  /\ UNCHANGED <<intVars, rxIntDisabledByIMPS, rxQ, poolVars, upstairs,
                 txAck, setPowerStateEvent, left>>

McThread == \/ McReturn \/ McCall \/ McPut \/ McReplenish
            \/ EnterImps \/ SendEnter \/ LeaveImps \/ SetFull
Riva     == RivaRefuses \/ RivaCollapses \/ RivaWakes

Next == \/ \E c \in Channel, kind \in Filled : Receive(c, kind)
        \/ RxIsr \/ RxThread \/ McThread \/ TxAcks \/ Riva

Spec == Init /\ [][Next]_vars

\* The kernel serves interrupts and schedules the threads; the firmware
\* answers.
FairSpec == /\ Spec
            /\ WF_vars(RxIsr) /\ WF_vars(RxThread) /\ WF_vars(McThread)
            /\ WF_vars(TxAcks) /\ WF_vars(Riva)

-----------------------------------------------------------------------------
(* Properties.                                                             *)

Empties(c) == {i \in Place : desc[c][i] = "empty"}
HasFrame(c) == \E i \in Place : desc[c][i] \in Filled
InQueue(msg) == \E i \in 1 .. Len(rxQ) : rxQ[i] = msg
Packets == freeList + replenishList + upstairs
           + (IF freeRXPacket THEN 1 ELSE 0)
           + (IF mc \in {"call", "put"} THEN 1 ELSE 0)
           + 2 * NumDesc - Cardinality(Empties("hi")) - Cardinality(Empties("lo"))

TypeOK ==
  /\ desc \in [Channel -> [Place -> Filled \cup {"valid", "empty"}]]
  /\ {dma, head, tail} \subseteq [Channel -> Place]
  /\ numFreeDesc \in [Channel -> 0 .. NumDesc]
  /\ numFragmentCurrentChain \in [Channel -> Nat]
  /\ intSrc \subseteq Channel
  /\ irqDepth \in 0 .. 1
  /\ rxQ \in Seq({"isr", "avail", "power"})
  /\ rx \in {"idle", "source", "clean", "pull", "refill", "register", "check",
             "enable", "control", "flag"}
  /\ rxFor \in {"none", "isr", "avail"}
  /\ todo \in {<<>>, <<"hi">>, <<"lo">>, Channels}
  /\ {frameCount, freeList, replenishList, upstairs} \subseteq Nat
  /\ {rxIntDisabledByIMPS, driverReloadInProcessing, rxImps, lowResource,
      wpalCB, freeRXPacket, rxPalPacketUnavailable, txAck,
      setPowerStateEvent} \subseteq BOOLEAN
  /\ hostPowerState \in {"FULL", "IMPS"}
  /\ riva \in {"on", "collapsed"}
  /\ psm \in {"full", "entering", "asleep", "answered"}
  /\ mc \in {"idle", "call", "put", "replenish", "wait", "setFull", "crashed"}
  /\ setup \in Setups
  /\ left \in [DOMAIN setup -> Nat]

\* The RX thread touches no register of a device that may be collapsed
\* (WLANDXE_SetPowerState: "we want to ensure DXE registers are not accessed
\* when RIVA may be power-collapsed").
RegistersQuiet ==
  riva = "collapsed" =>
    /\ rx \notin {"source", "clean", "control"}
    /\ rx = "refill" =>
         hostPowerState = "IMPS" \/ numFreeDesc[Head(todo)] = 0

\* The descriptors without a packet are the numFreeDesc ones from the tail
\* on: the device meets no hole between two buffers.
DescriptorsKept ==
  \A c \in Channel :
    Empties(c) = {(tail[c] + k) % NumDesc : k \in 0 .. numFreeDesc[c] - 1}

\* Between two frames the head is where the oldest frame is, so that the
\* search dxeRXFrameReady makes for a lost position never finds another one.
HeadInSync ==
  \A c \in Channel :
    ~(rx \in {"refill", "register"} /\ rxFor = "isr" /\ c = Head(todo)) =>
      (HasFrame(c) => desc[c][head[c]] \in Filled)

\* An interrupt that is off will be enabled: by the RX thread, or, as the
\* flag says, when IMPS is left.
InterruptAccounted ==
  irqDepth > 0 => \/ InQueue("isr")
                  \/ rxFor = "isr" /\ rx # "control"
                  \/ rxIntDisabledByIMPS
                  \/ driverReloadInProcessing

Quiet == /\ rx = "idle" /\ rxQ = <<>> /\ mc = "idle" /\ psm = "full"
         /\ ~driverReloadInProcessing

\* In full power, with every thread at rest, a frame in a ring has an
\* interrupt coming.
NothingStuck ==
  Quiet /\ (\E c \in Channel : HasFrame(c)) => irqDepth = 0 /\ intSrc # {}

\* The same for a driver that does not enter IMPS.
NothingStuckAwake == setup.imps = 0 => NothingStuck

\* Without IMPS the driver is not reloaded for interrupts without a frame,
\* however frames, interrupts and exhaustion of the pool interleave.
NoReload == setup.imps = 0 => ~driverReloadInProcessing

\* DXE waits for a packet only while the pool has none and will call back,
\* or while it holds one that a message tells it of.
RefillComes ==
  rxPalPacketUnavailable =>
    IF freeRXPacket THEN InQueue("avail") \/ rxFor = "avail"
                    ELSE lowResource /\ wpalCB /\ freeList = 0

\* The same while management frames do not exhaust the pool.
Ample == \/ setup.mgmt = 0
         \/ setup.noMem = 0 /\ setup.mgmt <= setup.spare
RefillComesIfAmple == Ample => RefillComes

\* A packet is in a ring, in the pool, with DXE or with PE, in one place only;
\* and none is lost while management frames do not exhaust the pool.
PacketsKept ==
  LET all == setup.spare + 2 * NumDesc
  IN  Packets <= all /\ (Ample => Packets = all)

\* What holds of the rings, the pool and the interrupt in every state.
RxInv ==
  /\ TypeOK /\ RegistersQuiet /\ DescriptorsKept
  /\ HeadInSync /\ InterruptAccounted /\ PacketsKept

\* Without IMPS every frame the device has filled in is pulled.
FramesLeave ==
  \A c \in Channel, i \in Place :
    (setup.imps = 0 /\ desc[c][i] \in Filled) ~> desc[c][i] \notin Filled

=============================================================================
