# prima WLAN host driver: TLA+ models, checks and proofs

The repository is the host driver of Qualcomm's "prima" WLAN subsystem: a
Linux kernel module (about 366 000 lines of C) that talks over shared memory
(SMD for control messages, DXE descriptor rings for data) to firmware on a
second processor ("Riva").  It has no tests and no design documents; what it
promises is said in its comments, assertions and trace messages.

The configuration modelled is the one the code calls the integrated SoC:
`FEATURE_WLAN_INTEGRATED_SOC` and `CONFIG_HAS_EARLYSUSPEND` defined, the
SDIO/HAL/SSC variants compiled out.  Paths below are relative to `src/CORE`.

## 1. Inventory

| Component | State it keeps | Operations | What is hard | What makes it correct |
|---|---|---|---|---|
| **VOSS scheduler** `VOSS/src/vos_sched.c`, `vos_mq.c`, `vos_api.c` | six MC, three TX, two RX message queues, a pool of wrappers, event flags per thread | post, serve, suspend, resume, stop, flush | posters, three threads, platform power management and a closing context interleave; lock only around each queue | no lost wakeup, no wrapper lost or duplicated, one consumer per queue, quiescent while suspended, shutdown ends |
| **VOSS watchdog / subsystem restart** `vos_sched.c` (VosWDThread), `wlan_hdd_early_suspend.c`, `wlan_hdd_main.c` | `resetInProgress`, `isLogpInProgress`, `isLoadUnloadInProgress`, event flag | crash report, reboot report, shutdown, re-init, module exit | interrupt-context reports race the thread and rmmod; second crash during recovery | shutdown only of a running driver, re-init only of a stopped one, module exit never during a restart |
| **WDI control transport (CTS)** `WDI/TRP/CTS` | transport state, pending send queue | open, close, send, SMD open/data/close notifications | interrupt against control thread, flow control by write-space interrupt | FIFO, nothing lost or sent twice, no send stuck while there is room |
| **WDI control path** `WDI/CP/src/wlan_qct_wdi.c` | pending request queue, expected response, response timer, global state | request, response, indication, device error, timeout, stop, shutdown for a restart | requests are queued, posted to the control thread and looked at again in a state assigned without the mutex; late answers; nested requests | one request outstanding, sent in order, none forgotten, the busy state always left |
| **WDI data path, DXE** `WDI/DP`, `WDI/TRP/DTS`, `DXE` | descriptor rings, low-resource flags, power state | post, complete, receive, replenish, power up/down | ring full/empty against interrupts, ownership handed over | no descriptor reused early, no packet lost or completed twice |
| **TL** `TL/src/wlan_qct_tl.c`, `wlan_qct_tl_ba.c`, `wlan_qct_tl_hosupport.c` | station table, per-TID reorder window, AC masks, suspend state | register, transmit fetch, receive, BA start/stop, suspend/resume | sequence numbers modulo 4096, aging timer against arrival | in order, at most once, window never holds what it passed |
| **SME core, CSR** `SME/src/sme_common`, `SME/src/csr` | active/pending command lists, roam state, scan lists | scan, join, roam, set key, disassociate | one active command; aborts and timeouts race completions | every command completes once; state machine legal |
| **PMC** `SME/src/pmc` | power state, device mode, deferred lists | enter/exit IMPS, BMPS, UAPSD, standby, WoWL | requests while a transition is under way | transitions legal, callbacks called once |
| **QoS** `SME/src/QoS` | flow and AC state machines | setup, modify, release | handoff, addts timer | per-flow status delivered once |
| **BTC, RRM, OEM data, P2P, CCM** `SME/src/{btc,rrm,oemData,p2p,ccm}` | deferred events, measurement and listen state | events from other modules | deferral while not ready | no event lost |
| **LIM (PE)** `MAC/src/pe/lim` | MLM and SME state per session, deferred message queue, timers | message handlers | deferral, timers against frames | legal state transitions, deferred messages replayed |
| **PMM, SCH, DPH, CFG, RRM** `MAC/src/pe/{pmm,sch,rrm}`, `MAC/src/dph`, `MAC/src/cfg` | power-save state, beacon schedule, station hash, configuration | handlers | state change while a response is due | legal transitions |
| **SAP** `SAP/src` | SoftAP FSM, channel, ACL | start, stop, assoc/disassoc events | stop during start | FSM legal |
| **BAP (BT-AMP)** `BAP/src` | physical and logical link FSMs, timers | HCI commands and events | timers against events | FSM legal |
| **WDA** `WDA/src` | suspend flags, request parameters, tx-complete | requests relayed to WDI | callbacks after timeout | each request freed once |
| **HDD** `HDD/src` | adapters, tx queues, ioctl contexts, restart timer | ioctls, netdev, early suspend, reload | contexts on stack against late callbacks, queue limits | no late callback uses a dead context, flow control restarts |
| **SVC** `SVC/src` | netlink clients | broadcast, receive | - | - |
| **SYS** `SYS` | - | dispatch of SYS messages, logging | - | - |
| **VOSS utilities** `vos_timer.c`, `vos_packet.c`, `vos_event.c`, `vos_list.c`, `vos_lock.c`, `vos_memory.c`, `vos_nvitem.c` | timers, packet pools | start, stop, destroy; get, return | timer callback against stop; low-resource callbacks | a stopped timer does not fire |
| **Firmware, Riva interfaces** `firmware_bin`, `riva/inc` | - | - | - | binary and generated headers: out of scope |


How they interact.  HDD, SME, PE, WDA, TL and WDI run on three worker threads
of the scheduler (MC for control, TX, RX) and call each other by posting
messages to each other's queues; timers post to the SYS queue.  WDA turns the
upper layers' messages into WDI requests, WDI sends them over CTS and hands the
answers back on the MC thread; frames go through TL and DXE on the TX and RX
threads.  Interrupts (SMD, DXE) post to the threads.  The platform's power
management suspends the threads through HDD; a crash of the firmware makes the
watchdog thread shut all of it down and start it again.

## 2. Modules

| Module | Part | Models |
|---|---|---|
| `VosSched` | the scheduler | the three worker loops (`ThreadWake` ... `ThreadResume`), posting (`PostTake`, `PostPut`, `PostSignal`), `wlan_suspend`/`wlan_resume` (`Pm...`), `hdd_wlan_shutdown` and `vos_sched_close` (`Shutdown...`, `Close...`, `Closer...`) |
| `VosWatchdog` | the restart | the SMD notifications (`Remote...`, `Report...`, `Notify...`), `VosWDThread` with `hdd_wlan_shutdown` and `hdd_wlan_re_init` (`Wd...`), `hdd_module_exit`/`hdd_wlan_exit` (`Exit...`) |
| `TlBa` | block-ack reordering | session add and delete, `WLANTL_MSDUReorder` and its opcodes, the aging timer and `WLANTL_ReorderingAgingTimerExpierCB` |
| `RxFrames` | abstract | what reordering promises: a frame that came in is held, handed up once, or given back |
| `WdiCts` | the control transport | notifications, opening, sending, deferring, draining, restart |
| `CtrlChannel` | abstract | a FIFO channel with sessions: within one, nothing is lost, repeated or overtaken |
| `WdiCp` | the WDI control path | the main state machine, the pending queue, `WDI_PALCtrlMsgCB`, responses and indications, the response timer, device errors, shutdown |
| `TxPath` | the transmit path | HDD's queues and their flow control (`Xmit...`, `Fetch...`), TL's pending flags and scheduling (`XmitPend`, `Data...`, `ClearPending`), the loop and the flow mask of WDA (`TxFrames`, `McPost`), both DXE rings and their interrupt, the packet pool and its callback |
| `RxPath` | the receive path | both DXE rings and their refilling, the interrupt, the RX thread's handlers, the pool of raw packets with its replenishing and callback, IMPS |
| `Pmc` | SME's command queue, PMC, CSR's held-back commands, HDD's standby | queueing and running of commands (`Start`, `ProcessQueue`, `Released`), every power state with its request, answer and failure, the timers, `hdd_enter_standby`/`hdd_exit_standby` |
| `WdaTx` | WDA towards TL | sending a management frame and waiting for it, the acknowledgement and its two timers in LIM's disassociation, stopping the data for a scan |
| `MCVosSched`, `MCTlBa`, `MCTxPath`, `MCRxPath`, `MCPmc`, `MCWdaTx` | configuration | queues, orders and situations of the runs |
| `*_proofs` | proofs | the theorems of section 5 |

**VosSched.**  Each thread has a label for every place between two accesses to
shared state: waiting, at the top of its loop, checking one queue after the
other, taking a message, handling it, confirming the suspension, initialising
and awaiting its resume completion.  A queue operation is one step (it holds
`mqLock`), an event bit is set, cleared or tested in one step.  Handling a
message returns its wrapper to the free queue.  Completions are counters, as in
Linux.  `wlan_suspend` goes through TX, RX, MC, waits for each with a timeout
and rolls back when one does not confirm; the timeout may happen at any time.
`ServiceOrder` is the source's order of the queues; a configuration restricts
it to the queues in use.

**VosWatchdog.**  The notifications run in interrupt context and are split at
every flag they read or set, as are the thread and the module's exit;
`wdLock` joins the test and the setting of `isLogpInProgress`.  `wlan` stands
for the driver's modules.  `ignored` is a history variable: a crash was
reported and not acted upon.

**TlBa.**  Slots and forward indices are taken modulo the window size; which
frames a forwarding chains is a set of slots between the current index and the
forward index, as the circular loops of the source walk them.  Frames are
numbers in order of arrival.  The lock is held from `RxLock` to `RxReorder`,
from `AgingLock` to `AgingRun` and within the deletion; a timer's expiry and its
callback's turn on the receive thread are separate.

**WdiCts.**  The control thread is split at every access to the transport's
state, because an interrupt can come between any two of them.  `session` is a
history variable: the driver talks to the firmware it set up.

**WdiCp.**  `WDI_PostMainEvent` and `WDI_MainRsp` hold the recursive mutex of
the control block from the first to the last line, callbacks to WDA included,
and are one step.  The control block is one record, `cb`, and the C functions
are operators from control block to control block, so that a step composes them
as the code nests the calls.  Requests carry numbers; their fate is a history.
`WDI_PALCtrlMsgCB` is two steps because it assigns the state outside the mutex.
A refused message takes one of the two ways of `WDI_SendMsg`: with a request
status callback it comes back as pending, without as a failure.

**TxPath.**  The stack's transmit function runs once per category and is split at
every access to what the TX thread shares with it: the queue, the category's bit,
`ucPktPending`, `uResCount`.  The TX thread's pass is a program counter `tx`, from
the management frame to the selection of the category, the clearing of its bits,
the fetch and the push into the ring.  A ring is a number of free descriptors with
what the hardware has done; `PushChain`, `CompFrame` and `ArmFor` keep the low
resource state of the ring and of the flow mask.  A frame takes two descriptors.
HDD's queue counts frames; which frame is which does not matter here.

**RxPath.**  A ring is an array of descriptors with head, tail and the device's
place.  The handler of the interrupt is split at every register, at every call of
the pool and where it reads the power state; the interrupt's depth counts
`disable_irq`.  The pool has two lists, to be refilled and ready.  The MC thread returns
the packets of management frames (`McReturn` ... `McReplenish`) and changes the
power state (`EnterImps` ... `SetFull`), with the acknowledgements of both threads.

**Pmc.**  A call of SME holds the SME lock from its first to its last line, its
queueing and the running of the queue included; `run` is that call, command by
command, because the timers of PMC do not take the lock and may fall between.
The C functions are operators from the state of PMC to the state of PMC, which the steps
compose as the code nests its calls.  A situation (`Setups`) says what the
station is connected to and how often everything happens.

**WdaTx.**  The MC thread and the TX thread are two program counters, split at every
access to `pTxCbFunc`, `VosPacketToFree`, the events and TL's flags.  Timers of
WDA and LIM expire into messages that wait for the MC thread, and a timer that is
stopped may have left one.  A frame is a number and its tag, its freeing and its
acknowledgement are kept per frame.

What connects the modules is the same code seen from two sides.  `TxPath`
and `WdaTx` share `ucTxSuspended` and TL's one management frame: the first lets them
change at any time, the second has the protocol that changes them.  `RxPath` enters
IMPS when `Pmc` would ask for it.  `VosSched` delivers the messages that
the others take as queued.

## 3. Runs

Every property of a passing run has a mutant in PROJECT.json, a plausible slip in
the code that the run then reports.

| Run | Bounds | Shows |
|---|---|---|
| `sched` | 1 poster, 2 wrappers, 2 MC queues and 1 RX queue, shutdown or unload | `WakeupInv`, `NoLostWakeup`: no message waits for a sleeping thread, a queue found non-empty yields a wrapper, the flush comes last; `PoolInv`: no wrapper is lost or in two places; a message is served and a shutdown ends |
| `sched_power` | 1 poster, 1 wrapper, RX queue, suspend and resume | `HandshakeInv`: no thread runs while the driver counts as suspended, and the handshake loses no wakeup |
| `watchdog` | 5 crashes, unload and failing re-init | shutdown only of a running driver, re-init only after a shutdown; `OutageCovered`: the flags block commands over the whole outage; a re-init is taken up, the unload ends |
| `reorder` | window 3, 2 buffers; 2 TIDs with 3 frames in two of the slots, or 1 TID with 4 frames in all | `ReorderInv`: no frame is left behind, a buffer has one owner, what waits is being aged; the pending count is exact, also when the window wraps around; implements `RxFrames`; every frame leaves |
| `transport` | room for 2, 6 messages, 3 crashes | implements `CtrlChannel`; what is deferred is sent |
| `control_path` | 6 requests of WDA (2 indications, 3 with a status callback), NV image of 2 fragments | `ControlInv`: one outstanding, BUSY has a cause, pending requests are dequeued, each is queued once; sent in order; each ends |
| `tx_path` | 2 categories: a pool of 1 packet and 3 frames of one, or a frame of each; a ring of 6 descriptors, 2 frames and a management frame | `TxInv`: the interrupt is armed when it must be, a stopped queue will be woken, no packet is lost; when all is at rest frames wait only where `ucPktPending` has been lost, a ring's recovery is reported, every frame leaves unless it is lost for good |
| `tx_path_rivals` | 2 categories with a frame each, a pool of 1 packet | **violated**: a category's frame waits while nothing is going on |
| `rx_path` | 2 rings of 2 descriptors, 6 situations: no memory, management frames, IMPS | `RxInv`: no register of a collapsed device is touched, head, tail and packets agree, an interrupt that is off will be enabled; nothing is stuck, no reload, the rings are refilled, every frame is pulled |
| `pmc` | 9 situations, up to 8 commands and calls each | `PmcInv`: commands run in the power they need, no command buffer is lost, HDD finds full power; PMC's request, its command and PE's answer match; the queue is served; `bmpsRequestQueued` has a cause; who waits for full power gets it |
| `pmc_full_power` | a command, an entry into UAPSD, a request for full power | **violated**: who waits for full power is forgotten |
| `wda_tx` | 8 situations: 3 frames, 2 disassociations (of two peers too, with no packet for the frame or a failing clean-up), 4 scans, lost messages | `WdaInv`: each frame is freed once, and not while somebody has it; data is suspended during a scan; each frame is freed, each disassociation that has a frame is confirmed or replaced, data resumes |

An invariant named for a module (`TxInv`, `RxInv`, ...) is the conjunction of named
parts, stated one by one with comments in the module; several mutants show that
each part can be broken.

Why the bounds are enough.  *sched*: the races are between one poster and one
thread over one queue and its bit; two queues of one thread give the priority
and the restart of the scan, a second thread the shared pool, two wrappers an
empty and a half-empty one.  *watchdog*: a crash while the module loads, a
restart, a crash within it, and two more after it; the thread's state repeats
after a restart.  *reorder*: two TIDs contend for the pool, and three
frames of two slots fill, pass and jump a hole; four frames carry a window of three
around its end.  *transport*: six messages fill a channel of two, defer
two, and are sent from a callback while others wait.  *control_path*: three
requests can be queued behind a dequeued one, and each kind of request meets
each of the others.  *tx_path*: a ring of six is in low resource after one frame and
full after two; one packet makes every fetch but the first fail; the stack
refills the queue while a pass is under way; two categories are enough for one to lose
what the other has announced, because the code looks at them one against the rest.  *rx_path*: two descriptors make a
ring full, half full and empty, and the head goes round twice; the four failures of
the kernel empty both rings.  *pmc*: one command active, one
pending and two more calls are enough for a state to change between a command's queueing
and its turn; each power state appears with those that can be asked for in it.
*wda_tx*: one frame given up, the next refused and the third sent while the first
completes is the longest chain of who frees what; a second disassociation meets the
callback, the timers and the pointer of the first.

**Fairness.**  Weak fairness of the steps of a kernel thread that is runnable,
of a callback that has begun and of a context that wakes threads; the scheduler
runs them all.  Nothing is assumed of posters, crashes, timeouts, the platform's
suspend and the module's load.  `reorder` adds that a timer that runs
expires; `transport` that the firmware reads its channel and answers what it
owes; `control_path` that the channel opens and that the firmware answers the
request it holds; `pmc` that PE answers PMC and completes commands; `wda_tx` that
the rings complete a frame, and `tx_path` and `rx_path` that the hardware sends and
raises the interrupts it has to.  In `TlBa` the start of the aging timer's callback is strongly
fair: a reordering that holds the receive thread may disable it again and again,
but its message is on the queue that the thread looks at first.  `RequestsEnd` and `DeferredIsSent` are excused by a crash:
then the restart clears what waits.  `FramesLeave` of `TxPath` supposes that a lost
`ucPktPending` is set again by a later announcement (`[]<>~Unseen`), which the code does
not see to (section 4), and that TL is not suspended for ever.
Deadlock checking is off where the driver really stops: after a shutdown, an
unload, or the last message the bound allows.

## 4. Findings

Two disagreements are the counterexamples of runs.  A request for full power
in BMPS appends an exit from BMPS to the queue; if an entry into UAPSD or WOWL
already waits there, the device is in UAPSD when the exit is processed, which is
then dropped (`SME/src/pmc/pmc.c:2240`), and the caller, who was told "callbackRoutine
will be called when completed" (`pmcApi.c:989`), is never called (`pmc_full_power`).

With two categories a frame may wait for ever while nothing is going on: `NothingStuck`
fails (`tx_path_rivals`).  `WLANTL_STATxAuth` looks whether the bit of another category is set
(`TL/src/wlan_qct_tl.c:5920`) and, if none was, clears `ucPktPending` (5930).  A sender of that
category that sets its bit and the flag in between loses the flag; the fetch then finds the
queue of the category served empty, so that nothing sets it again, and the pass
that the sender has asked for finds no station with frames.  The comment says that the order
"will prevent from exposing a race condition between checking with HDD for packets and setting
the flags to false" (5923-5926).  The next announcement of any category ends the wait.

The others were counterexamples of properties that no run states any more; a change
of a bound or of an excuse in the property named brings each back.

- *Scheduler.*  `wlan_resume` completes the resume event without the thread's lock,
  so that a resumption between the thread's confirmation and its `INIT_COMPLETION` is wiped
  (`VOSS/src/vos_sched.c:674`); a thread that confirms after the timeout is never
  resumed.
- *Restart.*  "module exit should never proceed if SSR is not completed"
  (`HDD/src/wlan_hdd_main.c:4201`): the loop tests `resetInProgress`, which is set only when the
  watchdog thread takes the request up.
- *Reordering.*  A deletion whose timer expires between the reading of its state and
  its stop returns without giving the buffer back (`TL/src/wlan_qct_tl_ba.c:713`).
- *Transport.*  The read interrupt is enabled without a second look at the channel
  (`wlan_qct_wdi_cts.c:979`): with a non-empty `Silent`, the messages that the firmware does
  not answer, `DeferredIsSent` fails.
- *Control path.*  After a device error "fail all incomming requests from this point
  on" (`wlan_qct_wdi.c:19111`) does not hold: the late answer of the outstanding
  request, a dequeued request whose message carries `WDI_STARTED_ST`, and a refused request
  without a status callback each start the state machine again.
- *Receive path.*  With IMPS `NothingStuck` fails: the handler that found the host in
  IMPS sets `rxIntDisabledByIMPS` after the MC thread has looked at it on the way to
  full power (`DXE/src/wlan_qct_dxe.c:2154`), and the interrupt stays off.  `NoReload`
  fails with IMPS too: two interrupts whose frames were pulled before count as
  a lost device (1872, "this should not happen").  `RefillComes` fails when the only
  spare packet is returned between the registration in the pool and the
  assignment of the callback (`wlan_qct_pal_packet.c:163`).
- *WDA.*  With `racing`, a late answer that runs between the timeout and
  `txSuspendTimedOut = TRUE` (`wlan_qct_wda.c:2065-2075`) leaves the flag set for ever, and
  each later scan is refused although no answer is due; or, if it reads the flag only after
  that (2011), it resumes the data in the middle of the scan that its own answer has let
  start, and `ScanWhileSuspended` fails.  A frame completed in the very
  moment of its timeout is not freed (10029-10048).

What the models do and no property forbids:
- `vos_sched_flush_rx_mqs` does not give its wrappers back to the pool, which
  `NoWrapperLost` takes account of; after a restart the pool is set up anew.
- `hdd_wlan_shutdown` resumes the threads HDD has recorded as suspended; one
  that confirmed after the timeout is not among them, and the shutdown waits for
  it for ever.  `sched` therefore has no suspension.
- `WLAN_REINIT` may be merged into the wakeup of the shutdown and found by the
  same pass of the watchdog loop, and a re-initialisation may be reported for a
  driver that ignored the crash before it.
- `WCTS_SendMessage` assigns its state after the close notification has
  (`wlan_qct_wdi_cts.c:977`); the open notification then posts a message instead
  of asking for the re-initialisation.
- The response timer's expiry may meet a later request (`wlan_qct_wdi.c:18770`)
  and restart a firmware that is well.
- *TxPath*: the failure of the post that should wake the TX thread is
  ignored (`wlan_qct_tl.c:1640`); a pass behind a management frame that does not fit
  starts itself again; `dxeTXCompFrame` compares the thresholds the wrong way round (2999).
- *RxPath*: when the kernel fails for every packet nobody replenishes the pool again
  (`vos_packet.c:196`); `vos_pkt_return_packet` looks for the callback without the lock
  (1334) and counts the list without it (1373).
- *Pmc*: the timeout of the wait for a key does not run the queue
  (`csrApiRoam.c:9411`); `bmpsRequestQueued` is left behind by a request processed in a
  standby that HDD has given up on (`pmc.h:143`); after such a standby the device is
  asleep while HDD thinks it is awake, and CSR's commands wait for the next resume; a
  P2P remain-on-channel is given to PE in STANDBY (`sme_Api.c:406`); a failing entry into
  WOWL leaves `wowlModeRequired` set and is tried again; a standby of a connected station
  that finds no free buffer is processed off the active list (section 5).
- *WdaTx*: the post to the TX thread that asks for suspension may fail unnoticed
  (`wlan_qct_tl.c:2956`), after which data stays suspended and scans are refused, as it
  does after a refused `WDI_FinishScanReq` (`wlan_qct_wda.c:2638`); the acknowledgement
  callback of an earlier disassociation confirms a new one before its frame is sent
  (10114); a frame whose kick failed is freed although the TX thread may have
  fetched it (10210; the model has this only with `racing`).
- *WdaTx*, LIM's disassociation: when the session or the peer is gone, or `limCleanupRxPath`
  fails, `limSendDisassocCnf` frees the request and leaves `pMlmDisassocReq` pointing at it
  (`MAC/src/pe/lim/limSendManagementFrames.c:3595-3616`, 3668-3684), so that the next
  acknowledgement, timer or departure of the peer reads and frees it again (`lim.freed`); when
  `limSendDisassocMgmtFrame` gets no packet or cannot fill it (3758-3802) it returns without
  a timer, and the stored request waits for somebody else's acknowledgement or for the peer to
  leave (`lim.unsent`); a request for another peer is stored over a pending one
  (`limProcessMlmReqMessages.c:2785`), which is then neither confirmed nor freed.
  `RequestsConfirmed` claims nothing of these three.

## 5. Proofs

All theorems hold for every value of the constants that satisfies the modules'
named assumptions; each is checked by TLAPS to the last leaf.

*Vos_proofs.*  `TypeCorrect`.  `WakeupInvariant`, `WakeupCorrect` and `GetCorrect`
rest on the invariant `WakeupInv`: no lost wakeup by itself is not inductive, because a
thread may be past a queue and not asleep yet.  `NoMissedMessage` says that every queue
the thread has passed since it cleared its bit is empty or has a poster that has
set, or is about to set, the bit; `ExitOrder` keeps the flush apart from the
threads; `GetNeverNull` is part of it, because its preservation needs the single
consumer.  `FlushCorrect` uses `ExitOrder` alone.  `PoolCorrect` proves that no
wrapper is in two places or in none (`PoolInv`), from lemmas on the range and
the injectivity of an appended and of a shortened sequence.
`HandshakeCorrect` holds whichever operations of the platform are allowed together.
What `wlan_suspend` has stopped so far has to stay stopped: a thread it has the
answer of is inside its suspended branch, and no resumption an earlier suspension
left behind is still to be taken (`Stands`, `StoppedSoFar`).  The handshake needs
this of every thread before the one it waits for, not only at its end.

Of the restart, in the same module: `WatchdogInv` adds to the properties what the flags say of
the thread's place (`OutageInv`) and that one outage is dealt with at a time
(`OneOutageInv`): a report is accepted only with `resetInProgress` and the flag bits
clear.  `ShutdownCorrect`, `OutageCorrect` and `ReInitCorrect`
follow from it, for any number of crashes.

*WdiCts_proofs.*  `CtsInv`, `TypeCorrect`, `DeferredCorrect` and the refinement
`ImplementsChannel`: with the channel's contents mapped to what SMD holds followed
by what is pending, every step is a step of `CtrlChannel` or a stutter.
`Consistent` ties state, queue and read interrupt together at every place of the
control thread; `Opening` and `Restarting` say what may be there outside a
session.

*TlBa_proofs.*  For any number of TIDs, buffers and frames and any window.  The first
half is about a window alone: a loop of the reordering is the set of indices it goes
through (at most `3 * WinSize`, taken modulo the size), and the lemmas say that it takes
just the frames of those slots to the chain, that the count stays that of the
occupied slots, that the forward index stays in the window (`LastIsElement`, from the
library's well-founded minimum) and that going through all of it empties it.  `SessionInv`, the inductive invariant, adds to
`ReorderInv` and `PendingExact` what their preservation needs: a frame is in one slot
of one buffer and what the receive thread holds in none (`OneSlot`, `OnePlace`), an
existing session has its lock and timer (`SessionReady`), and a session being deleted
still has its buffer to itself (`DelPlace`).  `ImplementsFrames` maps a frame that came in
to the held, handed up and returned ones of `RxFrames`; every step is one of its steps
or a stutter.

*WdiCp_proofs.*  For any requests of WDA and an NV image of any size.  The control
block is a record, and each C function an operator on it, so every function
has a lemma of what it keeps (`Kept`), whether it is called from a message, a
response or a timer.  `CpInv` is `Running` while the driver is up: each queued request is
in the pending queue, among the posted messages or in the control thread's hand
(`Placed`), BUSY has a cause, what is expected is what was sent; and `AtRest` after
the shutdown.  `SentInOrder` is an action property; its invariant `OrderInv` says that what
was posted and what the control thread has in hand is older than everything
that pends (`Line`).  That is not so once `rmmod` has sent its stop request, which
may overtake the request in hand; but then no state is left in which WDI sends another
(`Stopping`), and the property holds.

*WdaTx_proofs.*  For any number of frames, disassociations and scans.  `WdaInv` and
`ScanWhileSuspended` say nothing of who has a frame, so the invariant does: a frame is
in TL's slot, in the ring, with the TX thread or with the MC thread, and nowhere once
freed (`OnePlace`); the MC thread waits for it or has given it up and tagged it
(`Tagged`); the TX thread completes the one waited for, or about to be waited for, which is the
one to be freed until it is claimed (`InStep`).  `Suspension` and `Suspending` follow a suspension of
the data through request, answer, timeout and late answer.  In a situation that lets
a completion race the timeout (`setup.racing`, finding 10210 of section 4) only the
types are claimed, as in `WdaInv` itself.

*RxPath_proofs.*  For rings of any size, any threshold of the pool and any set of
situations.  `RxIInv` has a part for each thing that `RxInv` relates.  `Rings`: counted
from the tail a ring is `numFreeDesc` empty descriptors, some filled ones, and from
the device's place on the valid ones (`RingHas`); the head is on the oldest frame, or
one behind on the descriptor just taken.  `Power`: the message of a request for IMPS is
in one place, and once it is answered the RX thread is out of the handler that saw
full power, which is why no register of a collapsed device is touched.  `Service`: an
interrupt status stands for a frame that is there, just pulled, or pulled when the
ring was last served, and a frame has its status or its ring is being served; so
`NothingStuckAwake` and `NoReload`.  `Counted`: packets outside the rings match the holes in
them.  `Alone` and `Enough`: who waits for a packet when no management frame competes for
the pool, and why nobody waits when there is a packet for each; so
`RefillComesIfAmple`.  The theorems name no precondition but the one their property states
(no IMPS, or management frames that do not exhaust the pool).  The invariant was
checked by TLC over the run's constants before it was proved.

*TxPath_proofs.*  For any number of categories, queues and rings of any size, any
weight, low-water mark and threshold.  `TxInv` is not inductive, and `NothingStuck` and
`RecoveryComes` speak of a moment at which nothing happens; `TxIInv` says what leads there.
`Resources`: what TL counts down in a pass is what the ring has left, so that frames
fit when they are pushed.  `LowResource`: a ring is off exactly while it is in low
resource, as it is with few descriptors left, and it then has frames to reclaim.
`Interrupts`: what the driver takes for an enabled interrupt is one, or its handler is
under way, and a frame to reclaim has raised one.  `PassComes` are the ways in which
another pass comes: a message, a request for resources that `CompleteTX` has still to
look at, or the recovery of the low priority ring; `ResourcesCome`, `MgmtServed`,
`QueueAnnounced` and `AnnouncedServed` say who may rely on it: a sender that finds too few
resources, a management frame, and a category with frames.  One link is missing from that
chain, because the code has none: with two categories `ucPktPending` can be lost
(section 4), and `NothingStuck` is false.  `StuckOnlyUnseen` states what is left, for any number
of categories: frames wait only where that has happened.  The invariant was checked by TLC before it was
proved, with two categories too.

*Pmc_proofs.*  For any set of situations: any number of command buffers, of calls, of
power saves and suspensions, of lost answers and failed allocations.  None of the four
invariants is inductive; `PmcIInv` is, and they follow from it.  It adds to them who may
be in the middle of a call (`Calls`), what CSR holds back and until when (`HeldBack`),
which connection waits for a key and that none is in standby (`Connection`), that
IMPS is asked for only with no connection there or coming (`ImpsApart`: else
IMPS could be entered behind a connect that is still queued), that the one request for BMPS
stands in the queue in full power with nothing before it that leads out of it
(`BmpsRequested`: why `bmpsRequestQueued` is never left behind), and what each place of
HDD's suspension has achieved (`Suspending`: what it has disabled stays disabled, the full
power it was given lasts, the one request for standby is the one it waits for).
The proof follows the code's nesting of calls.  A C function is an operator from world to
world, and has a lemma of what it does to a world of the right type (`Same`, `Issued`,
`Enters`, `Settles`, `Bought`, `Steered`: it changes nothing the invariant cares for, it
appends one command, it settles the active command...); the lemmas compose as the
calls do, and each action needs only what its composition amounts to.  The order in the
queue is in `Has`, `Once` and `Before`, with lemmas for what an append, a push to the
front and a pop do to them and to the buffers in use.

The theorems assume `[]~StandbyStarved`: a standby that is at the head of the queue of a connected
station finds a buffer for the disconnect that is put before it.  Where it finds
none, `smeProcessCommand` processes the standby after it has taken it off the active list
(`sme_Api.c:680-729`), PE's answer meets no command, and `RequestMatched` fails.
`StandbySupplied` proves that this does not happen where there are at least two command buffers
(`SME_TOTAL_COMMAND` is 20), no connection waits for a key and no wait times out (`Ample`), so
that `SuppliedCorrect` has all four invariants there without a condition on the behaviour.  What it
takes is the last part of `PmcIInv`, `Fed`: while a standby is queued the device stays
in full power, and whenever nothing is active a buffer is free or a command of SME, which has one
to give back, is at the head.  All three conditions are needed, TLC shows each time how the standby
is starved without it: the standby takes the only buffer; a disconnect, for which CSR stops
waiting for the key, takes the last one and is queued behind the standby; or HDD has
given the standby up and enabled the power saves again, and the traffic timer, which takes no
lock, asks for BMPS with the buffer that was just given back.  None of the situations of `pmc`
reaches that either, which TLC has confirmed.

Only model-checked: all liveness:
`MessageServed`, `ShutdownCompletes`, `ReInitTakenUp`, `UnloadCompletes`, the `FramesLeave` of
`TlBa`, `TxPath` and `RxPath`, `DeferredIsSent`, `RequestsEnd`, `FullPowerComesIfSimple`,
`FramesFreed`, `RequestsConfirmed` and `DataResumes`.  Liveness under fairness, and ENABLED,
are beyond the prover.

## 6. Not modelled

- *Everywhere*: the checks for NULL arguments and magic numbers, memory
  exhaustion, formatting, logging, the SDIO, HAL and FTM variants.
- *VosSched*: signals to the completions' interruptible waits, the threads'
  re-opening after a restart (`VosWatchdog` has the restart), failures while the
  module loads, the timers behind the SYS queue.
- *VosWatchdog*: what the shutdown and re-initialisation do to each module;
  `vos_watchdog_close` sets its two bits in one step.
- *TlBa*: stations other than SoftAP's; station register and clear; an ADDBA is
  one step; the opcodes and slots come from hardware and are arbitrary within
  the window; the order within a chain; the replay check, which is not built in;
  the receive pool's threshold of zero.
- *WdiCts*: an opening that times out, closing at unload, lengths of messages, a
  failing `smd_write`, messages the firmware sends unasked.  The open notification
  after a crash comes between two messages of the control thread: a restart of
  the firmware takes seconds.
- *WdiCp*: the message contents and tables, `WDI_Close`, a response matched by its
  type (the model matches the request), memory exhaustion, the second status
  callback for a pending request, and the life after a restart.  The handlers
  `WDI_MainStartStarted`, `WDI_MainRspInit` and the request before the NV download
  are not reached from WDA.

- *TxPath*: frame formats, several stations, SoftAP and BT-AMP, frames WDI drops,
  thermal mitigation (`wlan_hdd_tx_rx.c:1137`), register errors of the rings.
- *RxPath*: BMPS and the power down, the timeout of the wait for the threads'
  acknowledgement (the host then counts as in IMPS), the resynchronisation with a
  device that has lost its place, which `HeadInSync` shows not to be needed.  An
  interrupt status is ED (a frame's end), which both channels serve; that RX high is served
  for DONE and MASKED too (`wlan_qct_dxe.c:2189-2200`) and RX low is not (2259) is left out.
- *Pmc*: several sessions, the veto of BT coexistence and of concurrency, deferred
  messages of PMC, purging of a session's commands, the votes for RF and XO (a vote for XO
  that fails would drop the entry into BMPS, `pmc.c:2198`; on the integrated SoC it always
  succeeds, `vos_power.c:1373`).
- *WdaTx*: the translation of some hundred requests into calls of WDI, configuration
  download, OEM measurements (not built), the transmission control indication; LIM's
  deauthentication, the twin of the disassociation, and the refusal of a request for a peer whose
  disassociation is pending, which changes nothing.

What no module covers is listed in PROJECT.json with the reason: frames,
configuration tables, scan results and encoders are data; the protocol
machines of LIM, CSR's roaming, SAP, QoS and BT-AMP would each be a module of its
own.

## 7. Plan

1. Done: the nine components of section 2, with proofs of all of them.
2. Later modules: the state machines of the SoftAP and of QoS, deferral in LIM, the
   contexts of HDD's ioctls, the timers of VOSS.
