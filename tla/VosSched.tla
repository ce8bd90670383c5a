------------------------------ MODULE VosSched ------------------------------
(***************************************************************************)
(* The vOSS scheduler: the worker threads MC, TX and RX, the message       *)
(* queues they serve, the pool of message wrappers every queue draws on,   *)
(* the suspend/resume handshake with the platform's power management, and  *)
(* the shutdown that drains the queues.                                    *)
(*                                                                         *)
(* Source: CORE/VOSS/src/vos_sched.c, vos_mq.c, vos_api.c (posting and     *)
(* returning messages), CORE/HDD/src/wlan_hdd_dev_pwr.c (wlan_suspend,     *)
(* wlan_resume), CORE/HDD/src/wlan_hdd_early_suspend.c (hdd_wlan_shutdown).*)
(*                                                                         *)
(* Every access to a queue is atomic (mqLock); every bit of an event flag  *)
(* is set, cleared and tested atomically (set_bit, clear_bit, test_bit).   *)
(* Everything between two such accesses may interleave with the others.    *)
(***************************************************************************)
EXTENDS Naturals, Sequences, FiniteSets, Functions

CONSTANTS
  Wrapper,      \* the VosMsgWrapper objects, VOS_CORE_MAX_MESSAGES of them
  NoWrapper,    \* the NULL wrapper
  Poster,       \* contexts that post messages: handlers, timers, interrupts
  Mq,           \* the message queues somebody posts to
  ServiceOrder, \* for each thread, its queues in the order it checks them
  Ops           \* what may happen: some of "suspend", "shutdown", "close"

Thread == {"MC", "TX", "RX"}

(***************************************************************************)
(* The order in which the loops of VosMCThread, VosTXThread and            *)
(* VosRXThread check their queues.  A configuration takes for ServiceOrder *)
(* this order, restricted to the queues in Mq.                             *)
(***************************************************************************)
DriverServiceOrder ==
  [MC |-> <<"wdiMcMq", "sysMcMq", "wdaMcMq", "peMcMq", "smeMcMq", "tlMcMq">>,
   TX |-> <<"sysTxMq", "tlTxMq", "wdiTxMq">>,
   RX |-> <<"sysRxMq", "wdiRxMq">>]

\* wlan_suspend stops the threads in this order; wlan_resume and the error
\* paths of wlan_suspend walk it backwards.
SuspendOrder == <<"TX", "RX", "MC">>

\* hdd_wlan_shutdown wakes, stops and flushes the threads in this order, and
\* so does vos_sched_close.
ShutdownOrder == <<"MC", "TX", "RX">>

QueuesOf(t) == Range(ServiceOrder[t])

ASSUME QueueAssumption ==
  /\ ServiceOrder \in [Thread -> Seq(Mq)]
  /\ Mq = UNION {QueuesOf(t) : t \in Thread}
  /\ \A t, u \in Thread : t # u => QueuesOf(t) \cap QueuesOf(u) = {}

ASSUME WrapperAssumption == NoWrapper \notin Wrapper

ASSUME OpsAssumption == Ops \subseteq {"suspend", "shutdown", "close"}

VARIABLES
  freeVosMq,   \* the wrappers on the free queue; their order is immaterial
  mq,          \* each message queue: a sequence of wrappers
  eventFlag,   \* mcEventFlag, txEventFlag, rxEventFlag as sets of bits
  pc, idx,     \* where each thread is; which queue of its order comes next
  cur,         \* pMsgWrapper, the wrapper whose message a thread handles
  poster,      \* where each posting context is in vos_mq_post_message
  susEvent,    \* the completions mc_sus_event_var, tx_..., rx_...
  resumeEvent, \* the completions ResumeMcEvent, ResumeTxEvent, ResumeRxEvent
  shutEvent,   \* the completions McShutdown, TxShutdown, RxShutdown
  isThreadSuspended, isWlanSuspended,   \* HDD's record of the suspension
  pm,          \* the platform's suspend and resume callbacks
  pmRegistered,\* whether those callbacks are registered
  closer       \* hdd_wlan_shutdown or vos_sched_close

threadVars == <<pc, idx, cur>>
queueVars  == <<freeVosMq, mq>>
susVars    == <<susEvent, resumeEvent, isThreadSuspended, isWlanSuspended>>
pmVars     == <<pm, pmRegistered>>
vars == <<freeVosMq, mq, eventFlag, pc, idx, cur, poster, susEvent,
          resumeEvent, shutEvent, isThreadSuspended, isWlanSuspended,
          pm, pmRegistered, closer>>

Init ==
  /\ freeVosMq = Wrapper
  /\ mq = [q \in Mq |-> <<>>]
  /\ eventFlag = [t \in Thread |-> {}]
  /\ pc = [t \in Thread |-> "wait"]
  /\ idx = [t \in Thread |-> 1]
  /\ cur = [t \in Thread |-> NoWrapper]
  /\ poster = [p \in Poster |-> [at |-> "idle"]]
  /\ susEvent = [t \in Thread |-> 0]
  /\ resumeEvent = [t \in Thread |-> 0]
  /\ shutEvent = [t \in Thread |-> 0]
  /\ isThreadSuspended = [t \in Thread |-> FALSE]
  /\ isWlanSuspended = FALSE
  /\ pm = [at |-> "idle", k |-> 1]
  /\ pmRegistered = TRUE
  /\ closer = [at |-> "idle", k |-> 1]

SetBit(t, bit)    == eventFlag' = [eventFlag EXCEPT ![t] = @ \cup {bit}]
ClearBit(t, bit)  == eventFlag' = [eventFlag EXCEPT ![t] = @ \ {bit}]
Complete(ev, t)   == [ev EXCEPT ![t] = @ + 1]
Reset(ev, t)      == [ev EXCEPT ![t] = 0]
Goto(t, label)    == pc' = [pc EXCEPT ![t] = label]
Owner(q)          == CHOOSE t \in Thread : q \in QueuesOf(t)

-----------------------------------------------------------------------------
(***************************************************************************)
(* Posting: vos_mq_post_message, vos_tx_mq_serialize, vos_rx_mq_serialize. *)
(* A post that finds no free wrapper returns VOS_STATUS_E_RESOURCES and    *)
(* changes nothing.                                                        *)
(***************************************************************************)
PostTake(p, q) ==
  /\ poster[p].at = "idle"
  /\ \E w \in freeVosMq :
       /\ freeVosMq' = freeVosMq \ {w}
       /\ poster' = [poster EXCEPT ![p] = [at |-> "put", q |-> q, w |-> w]]
  /\ UNCHANGED <<mq, eventFlag, threadVars, susVars, shutEvent, pmVars, closer>>

PostPut(p) ==
  /\ poster[p].at = "put"
  /\ mq' = [mq EXCEPT ![poster[p].q] = Append(@, poster[p].w)]
  /\ poster' = [poster EXCEPT ![p] = [at |-> "signal", q |-> poster[p].q]]
  /\ UNCHANGED <<freeVosMq, eventFlag, threadVars, susVars, shutEvent, pmVars,
                 closer>>

\* Fault: the signal goes to the MC thread whatever the queue.
PostSignalToMc(p) ==
  /\ poster[p].at = "signal"
  /\ SetBit("MC", "POST")
  /\ poster' = [poster EXCEPT ![p] = [at |-> "idle"]]
  /\ UNCHANGED <<queueVars, threadVars, susVars, shutEvent, pmVars, closer>>

PostSignal(p) ==
  /\ poster[p].at = "signal"
  /\ SetBit(Owner(poster[p].q), "POST")
  /\ poster' = [poster EXCEPT ![p] = [at |-> "idle"]]
  /\ UNCHANGED <<queueVars, threadVars, susVars, shutEvent, pmVars, closer>>

-----------------------------------------------------------------------------
(***************************************************************************)
(* The thread loops: VosMCThread, VosTXThread and VosRXThread.             *)
(***************************************************************************)

\* wait_event_interruptible returns; the POST bit is cleared.
ThreadWake(t) ==
  /\ pc[t] = "wait"
  /\ eventFlag[t] \cap {"POST", "SUSPEND"} # {}
  /\ ClearBit(t, "POST")
  /\ Goto(t, "top")
  /\ UNCHANGED <<queueVars, idx, cur, poster, susVars, shutEvent, pmVars, closer>>

\* The top of the inner loop, no shutdown requested: start over with the
\* first queue.
ThreadScan(t) ==
  /\ pc[t] = "top"
  /\ "SHUTDOWN" \notin eventFlag[t]
  /\ Goto(t, "check")
  /\ idx' = [idx EXCEPT ![t] = 1]
  /\ UNCHANGED <<queueVars, eventFlag, cur, poster, susVars, shutEvent, pmVars,
                 closer>>

\* Shutdown: unblock whoever waits for the suspension, and exit.
ThreadExit(t) ==
  /\ pc[t] = "top"
  /\ "SHUTDOWN" \in eventFlag[t]
  /\ ClearBit(t, "SUSPEND")
  /\ susEvent' = IF "SUSPEND" \in eventFlag[t] THEN Complete(susEvent, t)
                                               ELSE susEvent
  /\ shutEvent' = Complete(shutEvent, t)
  /\ Goto(t, "exited")
  /\ UNCHANGED <<queueVars, idx, cur, poster, resumeEvent, isThreadSuspended,
                 isWlanSuspended, pmVars, closer>>

\* vos_is_mq_empty on the next queue of the order.
ThreadCheck(t) ==
  /\ pc[t] = "check"
  /\ idx[t] <= Len(ServiceOrder[t])
  /\ IF mq[ServiceOrder[t][idx[t]]] = <<>>
     THEN idx' = [idx EXCEPT ![t] = @ + 1] /\ UNCHANGED pc
     ELSE Goto(t, "get") /\ UNCHANGED idx
  /\ UNCHANGED <<queueVars, eventFlag, cur, poster, susVars, shutEvent, pmVars,
                 closer>>

\* Fault: the message is handled while it is still on its queue.
ThreadPeek(t) ==
  /\ pc[t] = "get"
  /\ mq[ServiceOrder[t][idx[t]]] # <<>>
  /\ cur' = [cur EXCEPT ![t] = Head(mq[ServiceOrder[t][idx[t]]])]
  /\ Goto(t, "handle")
  /\ UNCHANGED <<queueVars, eventFlag, idx, poster, susVars, shutEvent, pmVars,
                 closer>>

\* vos_mq_get on that queue.  The code asserts that it yields a wrapper; when
\* it does not, VosRXThread starts over for wdiRxMq, and all else gives up.
ThreadGet(t) ==
  /\ pc[t] = "get"
  /\ LET q == ServiceOrder[t][idx[t]]
     IN  IF mq[q] # <<>>
         THEN /\ cur' = [cur EXCEPT ![t] = Head(mq[q])]
              /\ mq' = [mq EXCEPT ![q] = Tail(@)]
              /\ Goto(t, "handle")
         ELSE /\ Goto(t, IF q = "wdiRxMq" THEN "top" ELSE "wait")
              /\ UNCHANGED <<mq, cur>>
  /\ UNCHANGED <<freeVosMq, eventFlag, idx, poster, susVars, shutEvent, pmVars,
                 closer>>

\* The module's handler has run; vos_core_return_msg frees the wrapper.
ThreadReturn(t) ==
  /\ pc[t] = "handle"
  /\ freeVosMq' = freeVosMq \cup {cur[t]}
  /\ cur' = [cur EXCEPT ![t] = NoWrapper]
  /\ Goto(t, "top")
  /\ UNCHANGED <<mq, eventFlag, idx, poster, susVars, shutEvent, pmVars, closer>>

\* Fault: the POST bit is cleared after the scan as well.
ThreadIdleClearsPost(t) ==
  /\ pc[t] = "check"
  /\ idx[t] > Len(ServiceOrder[t])
  /\ Goto(t, IF "SUSPEND" \in eventFlag[t] THEN "suspend" ELSE "wait")
  /\ eventFlag' = [eventFlag EXCEPT ![t] = @ \ {"SUSPEND", "POST"}]
  /\ UNCHANGED <<queueVars, idx, cur, poster, susVars, shutEvent, pmVars, closer>>

\* All queues were empty: go back to sleep, or start to suspend.
ThreadIdle(t) ==
  /\ pc[t] = "check"
  /\ idx[t] > Len(ServiceOrder[t])
  /\ Goto(t, IF "SUSPEND" \in eventFlag[t] THEN "suspend" ELSE "wait")
  /\ ClearBit(t, "SUSPEND")
  /\ UNCHANGED <<queueVars, idx, cur, poster, susVars, shutEvent, pmVars, closer>>

\* complete(&mc_sus_event_var)
ThreadConfirmSuspend(t) ==
  /\ pc[t] = "suspend"
  /\ susEvent' = Complete(susEvent, t)
  /\ Goto(t, "initResume")
  /\ UNCHANGED <<queueVars, eventFlag, idx, cur, poster, resumeEvent, shutEvent,
                 isThreadSuspended, isWlanSuspended, pmVars, closer>>

\* INIT_COMPLETION(ResumeMcEvent)
ThreadInitResume(t) ==
  /\ pc[t] = "initResume"
  /\ resumeEvent' = Reset(resumeEvent, t)
  /\ Goto(t, "suspended")
  /\ UNCHANGED <<queueVars, eventFlag, idx, cur, poster, susEvent, shutEvent,
                 isThreadSuspended, isWlanSuspended, pmVars, closer>>

\* wait_for_completion_interruptible(&ResumeMcEvent) returns.
ThreadResume(t) ==
  /\ pc[t] = "suspended"
  /\ resumeEvent[t] > 0
  /\ resumeEvent' = [resumeEvent EXCEPT ![t] = @ - 1]
  /\ Goto(t, "wait")
  /\ UNCHANGED <<queueVars, eventFlag, idx, cur, poster, susEvent, shutEvent,
                 isThreadSuspended, isWlanSuspended, pmVars, closer>>

ThreadStep(t) ==
  \/ ThreadWake(t) \/ ThreadScan(t) \/ ThreadExit(t) \/ ThreadCheck(t)
  \/ ThreadGet(t) \/ ThreadReturn(t) \/ ThreadIdle(t)
  \/ ThreadConfirmSuspend(t) \/ ThreadInitResume(t) \/ ThreadResume(t)

-----------------------------------------------------------------------------
(***************************************************************************)
(* Platform power management: hddDevSuspendHdlr with wlan_suspend, and     *)
(* hddDevResumeHdlr with wlan_resume.                                      *)
(***************************************************************************)

PmSuspend ==
  /\ "suspend" \in Ops /\ pmRegistered
  /\ pm.at = "idle"
  /\ ~isWlanSuspended
  /\ pm' = [at |-> "indicate", k |-> 1]
  /\ UNCHANGED <<queueVars, eventFlag, threadVars, poster, susVars, shutEvent,
                 pmRegistered, closer>>

\* init_completion of the event, then set the thread's SUSPEND bit.
PmIndicate ==
  /\ pm.at = "indicate"
  /\ susEvent' = Reset(susEvent, SuspendOrder[pm.k])
  /\ SetBit(SuspendOrder[pm.k], "SUSPEND")
  /\ pm' = [pm EXCEPT !.at = "await"]
  /\ UNCHANGED <<queueVars, threadVars, poster, resumeEvent, shutEvent,
                 isThreadSuspended, isWlanSuspended, pmRegistered, closer>>

\* Fault: the result of the wait for the confirmation is not looked at.
PmConfirmedUnchecked ==
  /\ pm.at = "await"
  /\ isThreadSuspended' = [isThreadSuspended EXCEPT ![SuspendOrder[pm.k]] = TRUE]
  /\ pm' = IF pm.k < Len(SuspendOrder) THEN [at |-> "indicate", k |-> pm.k + 1]
                                       ELSE [at |-> "idle", k |-> 1]
  /\ isWlanSuspended' = (isWlanSuspended \/ pm.k = Len(SuspendOrder))
  /\ UNCHANGED <<queueVars, eventFlag, threadVars, poster, susEvent, resumeEvent,
                 shutEvent, pmRegistered, closer>>

\* The thread confirmed within 200 ms.
PmConfirmed ==
  LET t == SuspendOrder[pm.k]
  IN  /\ pm.at = "await"
      /\ susEvent[t] > 0
      /\ susEvent' = [susEvent EXCEPT ![t] = @ - 1]
      /\ isThreadSuspended' = [isThreadSuspended EXCEPT ![t] = TRUE]
      /\ IF pm.k < Len(SuspendOrder)
         THEN /\ pm' = [at |-> "indicate", k |-> pm.k + 1]
              /\ UNCHANGED isWlanSuspended
         ELSE /\ pm' = [at |-> "idle", k |-> 1]
              /\ isWlanSuspended' = TRUE
      /\ UNCHANGED <<queueVars, eventFlag, threadVars, poster, resumeEvent,
                     shutEvent, pmRegistered, closer>>

\* It did not: withdraw the indication, then resume the threads before it.
PmTimeout ==
  LET t == SuspendOrder[pm.k]
  IN  /\ pm.at = "await"
      /\ susEvent[t] = 0
      /\ ClearBit(t, "SUSPEND")
      /\ pm' = IF pm.k = 1 THEN [at |-> "idle", k |-> 1]
                           ELSE [at |-> "rollback", k |-> pm.k - 1]
      /\ UNCHANGED <<queueVars, threadVars, poster, susVars, shutEvent,
                     pmRegistered, closer>>

\* One thread of the error path of wlan_suspend, or of wlan_resume.
PmWakeThread ==
  LET t == SuspendOrder[pm.k]
  IN  /\ pm.at \in {"rollback", "resume"}
      /\ resumeEvent' = Complete(resumeEvent, t)
      /\ isThreadSuspended' = [isThreadSuspended EXCEPT ![t] = FALSE]
      /\ IF pm.k > 1
         THEN /\ pm' = [pm EXCEPT !.k = @ - 1]
              /\ UNCHANGED isWlanSuspended
         ELSE /\ pm' = [at |-> "idle", k |-> 1]
              /\ isWlanSuspended' = IF pm.at = "resume" THEN FALSE
                                                        ELSE isWlanSuspended
      /\ UNCHANGED <<queueVars, eventFlag, threadVars, poster, susEvent,
                     shutEvent, pmRegistered, closer>>

PmResume ==
  /\ pmRegistered
  /\ pm.at = "idle"
  /\ isWlanSuspended
  /\ pm' = [at |-> "resume", k |-> Len(SuspendOrder)]
  /\ UNCHANGED <<queueVars, eventFlag, threadVars, poster, susVars, shutEvent,
                 pmRegistered, closer>>

PmStep == PmIndicate \/ PmConfirmed \/ PmTimeout \/ PmWakeThread

-----------------------------------------------------------------------------
(***************************************************************************)
(* Shutdown.  hdd_wlan_shutdown (subsystem restart) deregisters the        *)
(* platform callbacks and wakes the threads HDD believes suspended, then   *)
(* stops the threads one by one and flushes their queues; vos_sched_close  *)
(* (driver unload, after hdd_wlan_exit deregistered the callbacks) does    *)
(* the latter two.                                                         *)
(***************************************************************************)
CloserAt(label, k) == closer' = [at |-> label, k |-> k]

CloserNext(label, next) ==
  IF closer.k < Len(ShutdownOrder) THEN CloserAt(label, closer.k + 1)
                                   ELSE CloserAt(next, 1)

\* hdd_wlan_shutdown may run at any time: the remote subsystem crashed.
ShutdownBegin ==
  /\ "shutdown" \in Ops
  /\ closer.at = "idle"
  /\ pmRegistered' = FALSE
  /\ CloserAt("wake", 1)
  /\ UNCHANGED <<queueVars, eventFlag, threadVars, poster, susVars, shutEvent, pm>>

\* rmmod runs in user space, which is frozen during a system suspend.
CloseBegin ==
  /\ "close" \in Ops
  /\ closer.at = "idle"
  /\ pm.at = "idle" /\ ~isWlanSuspended
  /\ pmRegistered' = FALSE
  /\ CloserAt("stop", 1)
  /\ UNCHANGED <<queueVars, eventFlag, threadVars, poster, susVars, shutEvent, pm>>

\* "Wakeup all driver threads"
ShutdownWake ==
  LET t == ShutdownOrder[closer.k]
  IN  /\ closer.at = "wake"
      /\ resumeEvent' = IF isThreadSuspended[t] THEN Complete(resumeEvent, t)
                                                ELSE resumeEvent
      /\ isThreadSuspended' = [isThreadSuspended EXCEPT ![t] = FALSE]
      /\ CloserNext("wake", "stop")
      /\ isWlanSuspended' = IF closer.k = Len(ShutdownOrder) THEN FALSE
                                                             ELSE isWlanSuspended
      /\ UNCHANGED <<queueVars, eventFlag, threadVars, poster, susEvent,
                     shutEvent, pmVars>>

\* Fault: the thread's POST bit is not set with its SHUTDOWN bit.
CloserStopNoPost ==
  /\ closer.at = "stop"
  /\ SetBit(ShutdownOrder[closer.k], "SHUTDOWN")
  /\ CloserAt("join", closer.k)
  /\ UNCHANGED <<queueVars, threadVars, poster, susVars, shutEvent, pmVars>>

\* Set the SHUTDOWN and the POST bit, and wake the thread.
CloserStop ==
  /\ closer.at = "stop"
  /\ eventFlag' = [eventFlag EXCEPT ![ShutdownOrder[closer.k]] =
                                      @ \cup {"SHUTDOWN", "POST"}]
  /\ CloserAt("join", closer.k)
  /\ UNCHANGED <<queueVars, threadVars, poster, susVars, shutEvent, pmVars>>

\* Fault: the thread's exit is not waited for.
CloserJoinNoWait ==
  /\ closer.at = "join"
  /\ CloserNext("stop", "flush")
  /\ UNCHANGED <<queueVars, eventFlag, threadVars, poster, susVars, shutEvent,
                 pmVars>>

\* wait_for_completion_interruptible(&McShutdown) returns.
CloserJoin ==
  LET t == ShutdownOrder[closer.k]
  IN  /\ closer.at = "join"
      /\ shutEvent[t] > 0
      /\ shutEvent' = [shutEvent EXCEPT ![t] = @ - 1]
      /\ CloserNext("stop", "flush")
      /\ UNCHANGED <<queueVars, eventFlag, threadVars, poster, susVars, pmVars>>

\* The wrappers vos_sched_flush_mc_mqs and vos_sched_flush_tx_mqs return to
\* the core; vos_sched_flush_rx_mqs returns none of those it takes.
Flushed(t) ==
  IF t = "RX" THEN {}
  ELSE UNION {Range(mq[q]) : q \in QueuesOf(t)}

CloserFlush ==
  LET t == ShutdownOrder[closer.k]
  IN  /\ closer.at = "flush"
      /\ freeVosMq' = freeVosMq \cup Flushed(t)
      /\ mq' = [q \in Mq |-> IF q \in QueuesOf(t) THEN <<>> ELSE mq[q]]
      /\ CloserNext("flush", "done")
      /\ UNCHANGED <<eventFlag, threadVars, poster, susVars, shutEvent, pmVars>>

CloserStep == ShutdownWake \/ CloserStop \/ CloserJoin \/ CloserFlush

-----------------------------------------------------------------------------
PosterStep(p) == PostPut(p) \/ PostSignal(p)

Next ==
  \/ \E p \in Poster : PosterStep(p) \/ \E q \in Mq : PostTake(p, q)
  \/ \E t \in Thread : ThreadStep(t)
  \/ PmSuspend \/ PmResume \/ PmStep
  \/ ShutdownBegin \/ CloseBegin \/ CloserStep

Spec == Init /\ [][Next]_vars

(***************************************************************************)
(* The kernel schedules every runnable thread, and a context that began to *)
(* post, to suspend or to shut down goes on.  Nothing forces a message, a  *)
(* suspension or a shutdown to begin.                                      *)
(***************************************************************************)
Fairness ==
  /\ \A t \in Thread : WF_vars(ThreadStep(t))
  /\ \A p \in Poster : WF_vars(PosterStep(p))
  /\ WF_vars(PmStep)
  /\ WF_vars(CloserStep)

FairSpec == Spec /\ Fairness

-----------------------------------------------------------------------------
Label == {"wait", "top", "check", "get", "handle", "suspend", "initResume",
          "suspended", "exited"}

EventBit == {"POST", "SUSPEND", "SHUTDOWN"}

PosterState == [at : {"idle"}] \cup [at : {"put"}, q : Mq, w : Wrapper]
                               \cup [at : {"signal"}, q : Mq]

PmState == [at : {"idle", "indicate", "await", "rollback", "resume"}, k : 1..3]

CloserState == [at : {"idle", "wake", "stop", "join", "flush", "done"}, k : 1..3]

(***************************************************************************)
(* Every variable has its type, and a thread that is about to take from a  *)
(* queue or to handle a message knows which.                               *)
(***************************************************************************)
TypeOK ==
  /\ freeVosMq \subseteq Wrapper
  /\ mq \in [Mq -> Seq(Wrapper)]
  /\ eventFlag \in [Thread -> SUBSET EventBit]
  /\ pc \in [Thread -> Label]
  /\ idx \in [Thread -> Nat \ {0}]
  /\ cur \in [Thread -> Wrapper \cup {NoWrapper}]
  /\ \A t \in Thread : /\ pc[t] = "get" => idx[t] <= Len(ServiceOrder[t])
                       /\ (pc[t] = "handle") <=> (cur[t] # NoWrapper)
  /\ poster \in [Poster -> PosterState]
  /\ susEvent \in [Thread -> Nat]
  /\ resumeEvent \in [Thread -> Nat]
  /\ shutEvent \in [Thread -> Nat]
  /\ isThreadSuspended \in [Thread -> BOOLEAN]
  /\ isWlanSuspended \in BOOLEAN
  /\ pm \in PmState
  /\ pmRegistered \in BOOLEAN
  /\ closer \in CloserState

\* Some poster has put a message on a queue of t and has yet to set the bit.
SignalDue(t) == \E p \in Poster : /\ poster[p].at = "signal"
                                  /\ poster[p].q \in QueuesOf(t)

(***************************************************************************)
(* No lost wakeup: a thread that sleeps, or that is suspended, while one   *)
(* of its queues holds a message has its POST bit set or is about to have  *)
(* it set.  The thread clears the bit before it scans its queues, and a    *)
(* poster sets it after it has put the message (vos_mq_post_message); in   *)
(* the other order a message posted during a scan would stay behind.       *)
(***************************************************************************)
NoLostWakeup ==
  \A t \in Thread, q \in Mq :
    (/\ q \in QueuesOf(t) /\ mq[q] # <<>>
     /\ pc[t] \in {"wait", "suspend", "initResume", "suspended"})
      => "POST" \in eventFlag[t] \/ SignalDue(t)

(***************************************************************************)
(* The VOS_ASSERT of the thread loops: when a thread saw that a queue is   *)
(* not empty, vos_mq_get on it yields a wrapper.  Test and removal are     *)
(* separate critical sections, so this rests on the thread being the       *)
(* queue's only consumer, and on the flush coming after the thread's exit. *)
(***************************************************************************)
GetNeverNull ==
  \A t \in Thread : pc[t] = "get" => mq[ServiceOrder[t][idx[t]]] # <<>>

(***************************************************************************)
(* What the two properties above rest on.  Of the queues a thread has      *)
(* passed since it last cleared its POST bit, any that holds a message now *)
(* got it afterwards, so its poster sets the bit; and the thread that has  *)
(* signalled McShutdown, or its like, has left its loop for good.          *)
(***************************************************************************)
Passed(t, i) == \/ pc[t] \in {"wait", "suspend", "initResume", "suspended"}
                \/ pc[t] = "check" /\ i < idx[t]

NoMissedMessage(t) ==
  \A i \in 1..Len(ServiceOrder[t]) :
    mq[ServiceOrder[t][i]] # <<>> /\ Passed(t, i)
      => "POST" \in eventFlag[t] \/ SignalDue(t)

ExitOrder ==
  /\ \A t \in Thread : shutEvent[t] > 0 => pc[t] = "exited"
  /\ closer.at \in {"stop", "join"} =>
       \A j \in 1..3 : j < closer.k => pc[ShutdownOrder[j]] = "exited"
  /\ closer.at \in {"flush", "done"} => \A t \in Thread : pc[t] = "exited"

WakeupInv == /\ TypeOK
             /\ ExitOrder
             /\ GetNeverNull
             /\ \A t \in Thread : NoMissedMessage(t)

\* Where a wrapper may be.
HeldByPoster == {poster[p].w : p \in {r \in Poster : poster[r].at = "put"}}
Handled      == {cur[t] : t \in {u \in Thread : pc[u] = "handle"}}
OnQueues     == UNION {Range(mq[q]) : q \in Mq}
Somewhere    == freeVosMq \cup HeldByPoster \cup Handled \cup OnQueues

(***************************************************************************)
(* A wrapper is never in two places: not on two queues, not twice on one,  *)
(* not on a queue or on the free queue while a thread handles it.  Were it *)
(* so, one message would overwrite another.                                *)
(***************************************************************************)
NoDuplicateWrapper ==
  /\ freeVosMq \cap (HeldByPoster \cup Handled) = {}
  /\ HeldByPoster \cap Handled = {}
  /\ \A q \in Mq :
       /\ IsInjective(mq[q])
       /\ Range(mq[q]) \cap (freeVosMq \cup HeldByPoster \cup Handled) = {}
  /\ \A q, r \in Mq : q # r => Range(mq[q]) \cap Range(mq[r]) = {}
  /\ \A t, u \in Thread : pc[t] = "handle" /\ cur[t] = cur[u] => t = u
  /\ \A p, r \in Poster : /\ poster[p].at = "put" /\ poster[r].at = "put"
                          /\ poster[p].w = poster[r].w
                          => p = r

\* vos_sched_flush_rx_mqs has run.
RxFlushed == closer.at = "done"

(***************************************************************************)
(* Until the receive queues are flushed every wrapper is in the free       *)
(* queue, on a message queue, with a posting context or with a thread: the *)
(* pool of VOS_CORE_MAX_MESSAGES wrappers never shrinks.                   *)
(***************************************************************************)
NoWrapperLost == ~RxFlushed => Somewhere = Wrapper

(***************************************************************************)
(* The bookkeeping of messages: both of the above.                         *)
(***************************************************************************)
PoolInv == TypeOK /\ NoDuplicateWrapper /\ NoWrapperLost

(***************************************************************************)
(* While HDD takes the driver for suspended, and no shutdown has begun, no *)
(* thread runs: each stands between its confirmation and its resumption,   *)
(* so the platform may collapse power.                                     *)
(***************************************************************************)
QuiescentWhileSuspended ==
  isWlanSuspended /\ pm.at = "idle" /\ closer.at = "idle"
    => \A t \in Thread : /\ isThreadSuspended[t]
                         /\ pc[t] \in {"initResume", "suspended"}

(***************************************************************************)
(* The handshake of suspend and resume: it keeps the threads quiet and     *)
(* makes them miss no message.                                             *)
(***************************************************************************)
HandshakeInv == WakeupInv /\ QuiescentWhileSuspended

(***************************************************************************)
(* The queues are flushed only when all threads have left their loops:     *)
(* vos_sched_flush_mc_mqs runs in the closing context and would otherwise  *)
(* be a second consumer.                                                   *)
(***************************************************************************)
FlushAfterExit ==
  closer.at \in {"flush", "done"} => \A t \in Thread : pc[t] = "exited"

(***************************************************************************)
(* A message is handled: if the queues a thread checks before q are empty  *)
(* from some time on, every message on q leaves it, unless a shutdown      *)
(* begins.  Without the hypothesis it need not, the loops starting over    *)
(* with the first queue after each message.                                *)
(***************************************************************************)
MessageServed ==
  \A t \in Thread : \A i \in 1..Len(ServiceOrder[t]) :
    LET q == ServiceOrder[t][i]
        higherEmpty == \A j \in 1..(i - 1) : mq[ServiceOrder[t][j]] = <<>>
    IN  <>[]higherEmpty =>
          \A w \in Wrapper : w \in Range(mq[q])
                               ~> (w \notin Range(mq[q]) \/ closer.at # "idle")

(***************************************************************************)
(* A shutdown ends: hdd_wlan_shutdown and vos_sched_close wait without a   *)
(* timeout for each thread's exit.                                         *)
(***************************************************************************)
ShutdownCompletes == (closer.at # "idle") ~> (closer.at = "done")

=============================================================================
