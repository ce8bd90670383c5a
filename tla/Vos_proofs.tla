----------------------------- MODULE Vos_proofs -----------------------------
(***************************************************************************)
(* Safety of the vOSS threads, VosSched, for any number of wrappers,       *)
(* posting contexts and queues, and any combination of suspensions and     *)
(* shutdowns; and of the restart, VosWatchdog, for any number of crashes.  *)
(* Neither uses anything of the other.                                     *)
(***************************************************************************)
EXTENDS VosSched, VosWatchdog, SequenceTheorems, TLAPS

LEMMA OrderFacts ==
  /\ Len(SuspendOrder) = 3 /\ Len(ShutdownOrder) = 3
  /\ \A k \in 1..3 : SuspendOrder[k] \in Thread /\ ShutdownOrder[k] \in Thread
  /\ \A t \in Thread : \E k \in 1..3 : ShutdownOrder[k] = t
  BY DEF SuspendOrder, ShutdownOrder, Thread

LEMMA OwnerFacts ==
  ASSUME NEW q \in Mq
  PROVE  Owner(q) \in Thread /\ q \in QueuesOf(Owner(q))
  <1>1. \E t \in Thread : q \in QueuesOf(t)
    BY QueueAssumption DEF QueueAssumption
  <1> QED BY <1>1 DEF Owner

LEMMA QueuesOfIndices ==
  ASSUME NEW t \in Thread
  PROVE  QueuesOf(t) = {ServiceOrder[t][i] : i \in 1..Len(ServiceOrder[t])}
  BY QueueAssumption, RangeEquality DEF QueueAssumption, QueuesOf

LEMMA QueuesOfType == \A t \in Thread : QueuesOf(t) \subseteq Mq
  BY QueueAssumption DEF QueueAssumption

\* The queue a thread looks at is one of its own, and so one of Mq.
LEMMA ServedQueue ==
  ASSUME NEW t \in Thread, NEW i \in Nat \ {0}, i <= Len(ServiceOrder[t])
  PROVE  ServiceOrder[t][i] \in Mq /\ ServiceOrder[t][i] \in QueuesOf(t)
  <1>1. ServiceOrder[t] \in Seq(Mq)
    BY QueueAssumption DEF QueueAssumption
  <1>2. i \in 1..Len(ServiceOrder[t])
    BY <1>1
  <1> QED BY <1>1, <1>2, QueuesOfIndices

LEMMA InitType == Init => TypeOK
  <1>1. NoWrapper \notin Wrapper
    BY WrapperAssumption DEF WrapperAssumption
  <1>2. [at |-> "idle"] \in PosterState
    BY DEF PosterState
  <1>3. <<>> \in Seq(Wrapper) /\ 1 \in 1..3
    OBVIOUS
  <1>4. [at |-> "idle", k |-> 1] \in PmState
    BY <1>3 DEF PmState
  <1>5. [at |-> "idle", k |-> 1] \in CloserState
    BY <1>3 DEF CloserState
  <1> SUFFICES ASSUME Init PROVE TypeOK
    OBVIOUS
  <1>6. mq \in [Mq -> Seq(Wrapper)] /\ poster \in [Poster -> PosterState]
    BY <1>2, <1>3 DEF Init
  <1>7. idx \in [Thread -> Nat \ {0}] /\ pc \in [Thread -> Label]
    BY DEF Init, Label
  <1>8. /\ cur \in [Thread -> Wrapper \cup {NoWrapper}]
        /\ \A t \in Thread : pc[t] = "wait" /\ cur[t] = NoWrapper
    BY DEF Init
  <1> QED BY <1>4, <1>5, <1>6, <1>7, <1>8 DEF Init, TypeOK

-----------------------------------------------------------------------------
LEMMA PosterType ==
  ASSUME TypeOK, NEW p \in Poster, PosterStep(p) \/ \E q \in Mq : PostTake(p, q)
  PROVE  TypeOK'
  <1>1. ASSUME NEW q \in Mq, PostTake(p, q) PROVE TypeOK'
    BY <1>1 DEF TypeOK, PostTake, PosterState, threadVars, susVars, pmVars
  <1>2. ASSUME PostPut(p) PROVE TypeOK'
    <2>1. poster[p].q \in Mq /\ poster[p].w \in Wrapper
      BY <1>2 DEF TypeOK, PostPut, PosterState
    <2> QED
      BY <1>2, <2>1 DEF TypeOK, PostPut, PosterState, threadVars, susVars, pmVars
  <1>3. ASSUME PostSignal(p) PROVE TypeOK'
    <2>1. poster[p].q \in Mq
      BY <1>3 DEF TypeOK, PostSignal, PosterState
    <2>2. Owner(poster[p].q) \in Thread
      BY <2>1, OwnerFacts
    <2>3. eventFlag' \in [Thread -> SUBSET EventBit]
      BY <1>3, <2>2 DEF TypeOK, PostSignal, SetBit, EventBit
    <2>4. poster' \in [Poster -> PosterState]
      BY <1>3 DEF TypeOK, PostSignal, PosterState
    <2> QED
      BY <1>3, <2>3, <2>4 DEF TypeOK, PostSignal, threadVars, susVars, pmVars,
         queueVars
  <1> QED BY <1>1, <1>2, <1>3 DEF PosterStep

LEMMA ThreadType ==
  ASSUME TypeOK, NEW t \in Thread, ThreadStep(t)
  PROVE  TypeOK'
  <1> USE DEF TypeOK, Label, queueVars, susVars, pmVars, Goto
  <1>0. NoWrapper \notin Wrapper
    BY WrapperAssumption DEF WrapperAssumption
  <1>1. CASE ThreadWake(t)
    BY <1>1 DEF ThreadWake, ClearBit
  <1>2. CASE ThreadScan(t)
    BY <1>2 DEF ThreadScan
  <1>3. CASE ThreadExit(t)
    BY <1>3 DEF ThreadExit, ClearBit, Complete
  <1>4. CASE ThreadCheck(t)
    <2>1. idx[t] + 1 \in Nat \ {0}
      OBVIOUS
    <2>2. idx' \in [Thread -> Nat \ {0}]
      BY <1>4, <2>1 DEF ThreadCheck
    <2>3. (pc' = [pc EXCEPT ![t] = "get"] /\ idx' = idx) \/ pc' = pc
      BY <1>4 DEF ThreadCheck
    <2> QED BY <1>4, <2>2, <2>3 DEF ThreadCheck
  <1>5. CASE ThreadGet(t)
    <2> DEFINE q == ServiceOrder[t][idx[t]]
    <2>1. q \in Mq
      BY <1>5, ServedQueue DEF ThreadGet
    <2>2. CASE mq[q] # <<>>
      <3>1. Head(mq[q]) \in Wrapper /\ Tail(mq[q]) \in Seq(Wrapper)
        BY <2>1, <2>2
      <3>2. /\ cur' = [cur EXCEPT ![t] = Head(mq[q])]
            /\ mq' = [mq EXCEPT ![q] = Tail(@)]
            /\ pc' = [pc EXCEPT ![t] = "handle"]
        BY <1>5, <2>2 DEF ThreadGet
      <3>3. mq' \in [Mq -> Seq(Wrapper)]
        BY <3>1, <3>2, <2>1
      <3> QED BY <1>5, <1>0, <3>1, <3>2, <3>3 DEF ThreadGet
    <2>3. CASE mq[q] = <<>>
      BY <1>5, <2>3 DEF ThreadGet
    <2> QED BY <2>2, <2>3
  <1>6. CASE ThreadReturn(t)
    BY <1>6, <1>0 DEF ThreadReturn
  <1>7. CASE ThreadIdle(t)
    BY <1>7 DEF ThreadIdle, ClearBit
  <1>8. CASE ThreadConfirmSuspend(t)
    BY <1>8 DEF ThreadConfirmSuspend, Complete
  <1>9. CASE ThreadInitResume(t)
    BY <1>9 DEF ThreadInitResume, Reset
  <1>10. CASE ThreadResume(t)
    BY <1>10 DEF ThreadResume
  <1> QED
    BY <1>1, <1>2, <1>3, <1>4, <1>5, <1>6, <1>7, <1>8, <1>9, <1>10
    DEF ThreadStep

LEMMA PmType ==
  ASSUME TypeOK, PmSuspend \/ PmResume \/ PmStep
  PROVE  TypeOK'
  <1> USE DEF TypeOK, queueVars, threadVars, susVars, pmVars
  <1>0. Len(SuspendOrder) = 3 /\ SuspendOrder[pm.k] \in Thread
    BY OrderFacts DEF PmState
  <1>1. CASE PmSuspend
    BY <1>1 DEF PmSuspend, PmState
  <1>2. CASE PmResume
    BY <1>0, <1>2 DEF PmResume, PmState
  <1>3. CASE PmIndicate
    <2>1. eventFlag' \in [Thread -> SUBSET EventBit]
      BY <1>0, <1>3 DEF PmIndicate, SetBit, EventBit
    <2>2. susEvent' \in [Thread -> Nat]
      BY <1>0, <1>3 DEF PmIndicate, Reset
    <2>3. pm' \in PmState
      BY <1>3 DEF PmIndicate, PmState
    <2> QED BY <1>3, <2>1, <2>2, <2>3 DEF PmIndicate
  <1>4. CASE PmConfirmed
    <2>1. pm' \in PmState
      BY <1>0, <1>4 DEF PmConfirmed, PmState
    <2>2. susEvent' \in [Thread -> Nat]
      BY <1>0, <1>4 DEF PmConfirmed
    <2>3. isThreadSuspended' \in [Thread -> BOOLEAN] /\ isWlanSuspended' \in BOOLEAN
      BY <1>0, <1>4 DEF PmConfirmed
    <2> QED BY <1>4, <2>1, <2>2, <2>3 DEF PmConfirmed
  <1>5. CASE PmTimeout
    <2>1. eventFlag' \in [Thread -> SUBSET EventBit]
      BY <1>0, <1>5 DEF PmTimeout, ClearBit
    <2>2. pm' \in PmState
      BY <1>0, <1>5 DEF PmTimeout, PmState
    <2> QED BY <1>5, <2>1, <2>2 DEF PmTimeout
  <1>6. CASE PmWakeThread
    <2>0. pm.k \in 1..3 /\ (pm.k > 1 => pm.k - 1 \in 1..3) /\ 1 \in 1..3
      BY DEF PmState
    <2>1. pm' \in PmState
      <3>1. CASE pm.k > 1
        BY <1>6, <2>0, <3>1 DEF PmWakeThread, PmState
      <3>2. CASE ~(pm.k > 1)
        BY <1>6, <2>0, <3>2 DEF PmWakeThread, PmState
      <3> QED BY <3>1, <3>2
    <2>2. resumeEvent' \in [Thread -> Nat]
      BY <1>0, <1>6 DEF PmWakeThread, Complete
    <2>3. isThreadSuspended' \in [Thread -> BOOLEAN] /\ isWlanSuspended' \in BOOLEAN
      BY <1>0, <1>6 DEF PmWakeThread
    <2> QED BY <1>6, <2>1, <2>2, <2>3 DEF PmWakeThread
  <1> QED BY <1>1, <1>2, <1>3, <1>4, <1>5, <1>6 DEF PmStep

\* What the flush returns are wrappers.
LEMMA FlushedType ==
  ASSUME TypeOK, NEW t \in Thread
  PROVE  Flushed(t) \subseteq Wrapper
  <1>1. ASSUME NEW q \in QueuesOf(t) PROVE Range(mq[q]) \subseteq Wrapper
    <2>1. mq[q] \in Seq(Wrapper)
      BY QueuesOfType DEF TypeOK
    <2> QED BY <2>1, RangeOfSeq
  <1> QED BY <1>1 DEF Flushed

LEMMA CloserType ==
  ASSUME TypeOK, ShutdownBegin \/ CloseBegin \/ CloserStep
  PROVE  TypeOK'
  <1> USE DEF TypeOK, queueVars, threadVars, susVars, pmVars, CloserAt,
              CloserNext
  <1>0. Len(ShutdownOrder) = 3 /\ ShutdownOrder[closer.k] \in Thread
    BY OrderFacts DEF CloserState
  <1>1. CASE ShutdownBegin
    <2>1. closer' \in CloserState
      BY <1>1 DEF ShutdownBegin, CloserState
    <2> QED BY <1>1, <2>1 DEF ShutdownBegin
  <1>2. CASE CloseBegin
    <2>1. closer' \in CloserState
      BY <1>2 DEF CloseBegin, CloserState
    <2> QED BY <1>2, <2>1 DEF CloseBegin
  <1>3. CASE ShutdownWake
    <2>1. closer' \in CloserState
      BY <1>0, <1>3 DEF ShutdownWake, CloserState
    <2>2. resumeEvent' \in [Thread -> Nat]
      BY <1>0, <1>3 DEF ShutdownWake, Complete
    <2>3. isThreadSuspended' \in [Thread -> BOOLEAN] /\ isWlanSuspended' \in BOOLEAN
      BY <1>0, <1>3 DEF ShutdownWake
    <2> QED BY <1>3, <2>1, <2>2, <2>3 DEF ShutdownWake
  <1>4. CASE CloserStop
    <2>1. closer' \in CloserState
      BY <1>4 DEF CloserStop, CloserState
    <2>2. eventFlag' \in [Thread -> SUBSET EventBit]
      BY <1>0, <1>4 DEF CloserStop, EventBit
    <2> QED BY <1>4, <2>1, <2>2 DEF CloserStop
  <1>5. CASE CloserJoin
    <2>1. closer' \in CloserState
      BY <1>0, <1>5 DEF CloserJoin, CloserState
    <2>2. shutEvent' \in [Thread -> Nat]
      BY <1>0, <1>5 DEF CloserJoin
    <2> QED BY <1>5, <2>1, <2>2 DEF CloserJoin
  <1>6. CASE CloserFlush
    <2>1. Flushed(ShutdownOrder[closer.k]) \subseteq Wrapper
      BY <1>0, FlushedType
    <2>2. mq' \in [Mq -> Seq(Wrapper)]
      BY <1>6 DEF CloserFlush
    <2>3. closer' \in CloserState
      BY <1>0, <1>6 DEF CloserFlush, CloserState
    <2> QED BY <1>0, <1>6, <2>1, <2>2, <2>3 DEF CloserFlush
  <1> QED BY <1>1, <1>2, <1>3, <1>4, <1>5, <1>6 DEF CloserStep

LEMMA TypeStep == TypeOK /\ [Next]_vars => TypeOK'
  <1> SUFFICES ASSUME TypeOK, [Next]_vars PROVE TypeOK'
    OBVIOUS
  <1>1. CASE Next
    BY <1>1, PosterType, ThreadType, PmType, CloserType DEF Next
  <1>2. CASE UNCHANGED vars
    BY <1>2 DEF vars, TypeOK
  <1> QED BY <1>1, <1>2

(***************************************************************************)
(* Every variable keeps its type, for every set of queues, wrappers and    *)
(* posting contexts and every service order: see TypeOK.                   *)
(***************************************************************************)
THEOREM TypeCorrect == Spec => []TypeOK
  BY InitType, TypeStep, PTL DEF Spec

-----------------------------------------------------------------------------
(***************************************************************************)
(* Every action that is not a step of a thread or of the closing context   *)
(* leaves pc, idx, shutEvent and closer alone.                             *)
(***************************************************************************)
LEMMA OthersLeaveControl ==
  ASSUME \/ \E p \in Poster : PosterStep(p) \/ \E q \in Mq : PostTake(p, q)
         \/ PmSuspend \/ PmResume \/ PmStep
  PROVE  UNCHANGED <<pc, idx, shutEvent, closer>>
  BY DEF PosterStep, PostTake, PostPut, PostSignal, PmSuspend, PmResume, PmStep,
     PmIndicate, PmConfirmed, PmTimeout, PmWakeThread, threadVars

LEMMA CloserLeavesThreads ==
  ASSUME ShutdownBegin \/ CloseBegin \/ CloserStep
  PROVE  UNCHANGED <<pc, idx, cur>>
  BY DEF ShutdownBegin, CloseBegin, CloserStep, ShutdownWake, CloserStop,
     CloserJoin, CloserFlush, threadVars

\* A thread that has left its loop takes no more steps.
LEMMA ExitIsFinal ==
  ASSUME TypeOK, NEW t \in Thread, ThreadStep(t)
  PROVE  /\ pc[t] # "exited"
         /\ \A u \in Thread : u # t => pc'[u] = pc[u] /\ idx'[u] = idx[u]
         /\ UNCHANGED closer
  BY DEF TypeOK, ThreadStep, ThreadWake, ThreadScan, ThreadExit, ThreadCheck,
     ThreadGet, ThreadReturn, ThreadIdle, ThreadConfirmSuspend,
     ThreadInitResume, ThreadResume, Goto

LEMMA ExitOrderThread ==
  ASSUME TypeOK, ExitOrder, NEW t \in Thread, ThreadStep(t)
  PROVE  ExitOrder'
  <1>1. \A u \in Thread : pc[u] = "exited" => pc'[u] = "exited"
    BY ExitIsFinal
  <1>2. \A u \in Thread : shutEvent'[u] > 0 => pc'[u] = "exited"
    <2>1. CASE ThreadExit(t)
      BY <1>1, <2>1 DEF ThreadExit, Complete, Goto, ExitOrder, TypeOK
    <2>2. CASE ~ThreadExit(t)
      <3>1. shutEvent' = shutEvent
        BY <2>2 DEF ThreadStep, ThreadWake, ThreadScan, ThreadCheck, ThreadGet,
           ThreadReturn, ThreadIdle, ThreadConfirmSuspend, ThreadInitResume,
           ThreadResume
      <3> QED BY <1>1, <3>1 DEF ExitOrder
    <2> QED BY <2>1, <2>2
  <1> QED BY <1>1, <1>2, ExitIsFinal, OrderFacts DEF ExitOrder

LEMMA ExitOrderCloser ==
  ASSUME TypeOK, ExitOrder, ShutdownBegin \/ CloseBegin \/ CloserStep
  PROVE  ExitOrder'
  <1> USE DEF ExitOrder, CloserAt, CloserNext
  <1>0. pc' = pc
    BY CloserLeavesThreads
  <1>a. /\ Len(ShutdownOrder) = 3
        /\ closer.k \in 1..3
        /\ ShutdownOrder[closer.k] \in Thread
    BY OrderFacts DEF TypeOK, CloserState
  <1>1. CASE ShutdownBegin
    BY <1>0, <1>1 DEF ShutdownBegin
  <1>2. CASE CloseBegin
    BY <1>0, <1>2 DEF CloseBegin
  <1>3. CASE ShutdownWake
    BY <1>0, <1>a, <1>3 DEF ShutdownWake
  <1>4. CASE CloserStop
    BY <1>0, <1>4 DEF CloserStop
  <1>5. CASE CloserJoin
    <2> DEFINE t == ShutdownOrder[closer.k]
    <2>1. shutEvent[t] > 0 /\ closer.at = "join"
      BY <1>5 DEF CloserJoin
    <2>2. \A j \in 1..3 : j < closer.k + 1 => pc[ShutdownOrder[j]] = "exited"
      BY <1>a, <2>1
    <2>3. \A u \in Thread : shutEvent'[u] > 0 => shutEvent[u] > 0
      BY <1>a, <1>5 DEF CloserJoin, TypeOK
    <2>4. CASE closer.k < 3
      BY <1>0, <1>a, <1>5, <2>2, <2>3, <2>4 DEF CloserJoin
    <2>5. CASE closer.k = 3
      <3>1. \A u \in Thread : pc[u] = "exited"
        BY <2>2, <2>5, OrderFacts
      <3> QED BY <1>0, <1>a, <1>5, <2>5, <3>1 DEF CloserJoin
    <2> QED BY <1>a, <2>4, <2>5
  <1>6. CASE CloserFlush
    BY <1>0, <1>a, <1>6 DEF CloserFlush
  <1> QED BY <1>1, <1>2, <1>3, <1>4, <1>5, <1>6 DEF CloserStep

LEMMA ExitOrderStep == TypeOK /\ ExitOrder /\ [Next]_vars => ExitOrder'
  <1> SUFFICES ASSUME TypeOK, ExitOrder, [Next]_vars PROVE ExitOrder'
    OBVIOUS
  <1>1. CASE UNCHANGED <<pc, shutEvent, closer>>
    BY <1>1 DEF ExitOrder
  <1>2. CASE \E t \in Thread : ThreadStep(t)
    BY <1>2, ExitOrderThread
  <1>3. CASE ShutdownBegin \/ CloseBegin \/ CloserStep
    BY <1>3, ExitOrderCloser
  <1> QED BY <1>1, <1>2, <1>3, OthersLeaveControl DEF Next, vars

(***************************************************************************)
(* The queues are flushed only after every thread has left its loop: see   *)
(* FlushAfterExit.                                                         *)
(***************************************************************************)
THEOREM FlushCorrect == Spec => []FlushAfterExit
  <1>1. Init => ExitOrder
    BY DEF Init, ExitOrder
  <1>2. ExitOrder => FlushAfterExit
    BY DEF ExitOrder, FlushAfterExit
  <1> QED BY <1>1, <1>2, InitType, TypeStep, ExitOrderStep, PTL DEF Spec

-----------------------------------------------------------------------------
(***************************************************************************)
(* What may change under a thread's feet: posts put messages on its queues *)
(* and set its bits, and nothing takes a message away.                     *)
(***************************************************************************)
LEMMA DistinctQueues ==
  ASSUME NEW t \in Thread, NEW u \in Thread, t # u,
         NEW i \in Nat \ {0}, i <= Len(ServiceOrder[t]),
         NEW j \in Nat \ {0}, j <= Len(ServiceOrder[u])
  PROVE  ServiceOrder[t][i] # ServiceOrder[u][j]
  <1>1. ServiceOrder[t][i] \in QueuesOf(t) /\ ServiceOrder[u][j] \in QueuesOf(u)
    BY ServedQueue
  <1> QED BY <1>1, QueueAssumption DEF QueueAssumption

LEMMA OrderIndex ==
  ASSUME NEW t \in Thread, NEW i \in 1..Len(ServiceOrder[t])
  PROVE  i \in Nat \ {0} /\ i <= Len(ServiceOrder[t])
  <1>1. Len(ServiceOrder[t]) \in Nat
    BY QueueAssumption DEF QueueAssumption
  <1> QED BY <1>1

\* A step that leaves t's control alone, puts no unsignalled message on t's
\* queues and withdraws no signal keeps NoMissedMessage(t).
LEMMA MissedFrame ==
  ASSUME NEW t \in Thread, NoMissedMessage(t),
         pc'[t] = pc[t], idx'[t] = idx[t],
         \A q \in QueuesOf(t) : mq'[q] # <<>> =>
            \/ mq[q] # <<>>
            \/ "POST" \in eventFlag'[t] \/ SignalDue(t)',
         "POST" \in eventFlag[t] => "POST" \in eventFlag'[t],
         SignalDue(t) => "POST" \in eventFlag'[t] \/ SignalDue(t)'
  PROVE  NoMissedMessage(t)'
  <1> SUFFICES ASSUME NEW i \in 1..Len(ServiceOrder[t]),
                      mq'[ServiceOrder[t][i]] # <<>>, Passed(t, i)'
               PROVE  "POST" \in eventFlag'[t] \/ SignalDue(t)'
    BY DEF NoMissedMessage
  <1>1. Passed(t, i)
    BY DEF Passed
  <1>2. ServiceOrder[t][i] \in QueuesOf(t)
    BY QueuesOfIndices
  <1> QED BY <1>1, <1>2 DEF NoMissedMessage

LEMMA PosterKeepsMessages ==
  ASSUME TypeOK, NEW p \in Poster,
         PosterStep(p) \/ \E q \in Mq : PostTake(p, q),
         NEW t \in Thread, NoMissedMessage(t)
  PROVE  NoMissedMessage(t)'
  <1>0. pc' = pc /\ idx' = idx
    BY OthersLeaveControl
  <1>1. ASSUME NEW q \in Mq, PostTake(p, q) PROVE NoMissedMessage(t)'
    <2>1. mq' = mq /\ eventFlag' = eventFlag
      BY <1>1 DEF PostTake
    <2>2. SignalDue(t) => SignalDue(t)'
      BY <1>1 DEF PostTake, SignalDue, TypeOK
    <2> QED BY <1>0, <2>1, <2>2, MissedFrame
  <1>2. CASE PostPut(p)
    <2>1. /\ eventFlag' = eventFlag
          /\ poster'[p] = [at |-> "signal", q |-> poster[p].q]
          /\ mq' = [mq EXCEPT ![poster[p].q] = Append(@, poster[p].w)]
      BY <1>2 DEF PostPut, TypeOK
    <2>2. SignalDue(t) => SignalDue(t)'
      BY <1>2 DEF PostPut, SignalDue, TypeOK
    <2>3. poster[p].q \in QueuesOf(t) => SignalDue(t)'
      BY <2>1 DEF SignalDue
    <2>4. \A q \in QueuesOf(t) : q # poster[p].q => mq'[q] = mq[q]
      BY <2>1, QueuesOfType DEF TypeOK
    <2> QED BY <1>0, <2>1, <2>2, <2>3, <2>4, MissedFrame
  <1>3. CASE PostSignal(p)
    <2> DEFINE u == Owner(poster[p].q)
    <2>1. poster[p].q \in Mq
      BY <1>3 DEF PostSignal, TypeOK, PosterState
    <2>2. u \in Thread /\ poster[p].q \in QueuesOf(u)
      BY <2>1, OwnerFacts
    <2>3. poster[p].q \in QueuesOf(t) => u = t
      BY <2>2, QueueAssumption DEF QueueAssumption
    <2>4. /\ mq' = mq
          /\ eventFlag' = [eventFlag EXCEPT ![u] = @ \cup {"POST"}]
      BY <1>3 DEF PostSignal, queueVars, SetBit
    <2>5. "POST" \in eventFlag'[u]
      BY <2>2, <2>4 DEF TypeOK
    <2>6. SignalDue(t) => "POST" \in eventFlag'[t] \/ SignalDue(t)'
      BY <1>3, <2>3, <2>5 DEF PostSignal, SignalDue, TypeOK
    <2>7. "POST" \in eventFlag[t] => "POST" \in eventFlag'[t]
      BY <2>2, <2>4 DEF TypeOK
    <2> QED BY <1>0, <2>4, <2>6, <2>7, MissedFrame
  <1> QED BY <1>1, <1>2, <1>3 DEF PosterStep

LEMMA PmKeepsMessages ==
  ASSUME TypeOK, PmSuspend \/ PmResume \/ PmStep,
         NEW t \in Thread, NoMissedMessage(t)
  PROVE  NoMissedMessage(t)'
  <1>0. pc' = pc /\ idx' = idx
    BY OthersLeaveControl
  <1>1. mq' = mq /\ poster' = poster
    BY DEF PmSuspend, PmResume, PmStep, PmIndicate, PmConfirmed, PmTimeout,
       PmWakeThread, queueVars
  <1>2. "POST" \in eventFlag[t] => "POST" \in eventFlag'[t]
    <2>1. CASE PmIndicate
      BY <2>1 DEF TypeOK, PmIndicate, SetBit
    <2>2. CASE PmTimeout
      BY <2>2 DEF TypeOK, PmTimeout, ClearBit
    <2>3. CASE ~PmIndicate /\ ~PmTimeout
      BY <2>3 DEF PmSuspend, PmResume, PmStep, PmConfirmed, PmWakeThread
    <2> QED BY <2>1, <2>2, <2>3
  <1> QED BY <1>0, <1>1, <1>2, MissedFrame DEF SignalDue

LEMMA CloserKeepsMessages ==
  ASSUME TypeOK, ShutdownBegin \/ CloseBegin \/ CloserStep,
         NEW t \in Thread, NoMissedMessage(t)
  PROVE  NoMissedMessage(t)'
  <1>0. pc' = pc /\ idx' = idx
    BY CloserLeavesThreads
  <1>1. poster' = poster /\ \A q \in Mq : mq'[q] # <<>> => mq[q] # <<>>
    BY DEF ShutdownBegin, CloseBegin, CloserStep, ShutdownWake, CloserStop,
       CloserJoin, CloserFlush, queueVars
  <1>2. "POST" \in eventFlag[t] => "POST" \in eventFlag'[t]
    <2>1. CASE CloserStop
      BY <2>1 DEF TypeOK, CloserStop
    <2>2. CASE ~CloserStop
      BY <2>2 DEF ShutdownBegin, CloseBegin, CloserStep, ShutdownWake,
         CloserJoin, CloserFlush
    <2> QED BY <2>1, <2>2
  <1> QED BY <1>0, <1>1, <1>2, MissedFrame, QueuesOfType DEF SignalDue

\* A thread's step and the queues of another thread.
LEMMA OtherThreadKeepsMessages ==
  ASSUME TypeOK, NEW u \in Thread, ThreadStep(u),
         NEW t \in Thread, t # u, NoMissedMessage(t)
  PROVE  NoMissedMessage(t)'
  <1>0. pc'[t] = pc[t] /\ idx'[t] = idx[t]
    BY ExitIsFinal
  <1>1. poster' = poster /\ \A q \in QueuesOf(t) : mq'[q] = mq[q]
    <2>1. CASE ThreadGet(u)
      <3>1. ServiceOrder[u][idx[u]] \in QueuesOf(u)
        BY <2>1, ServedQueue DEF TypeOK, ThreadGet
      <3>2. ServiceOrder[u][idx[u]] \notin QueuesOf(t)
        BY <3>1, QueueAssumption DEF QueueAssumption
      <3> QED BY <2>1, <3>2, QueuesOfType DEF TypeOK, ThreadGet
    <2>2. CASE ~ThreadGet(u)
      BY <2>2 DEF ThreadStep, ThreadWake, ThreadScan, ThreadExit, ThreadCheck,
         ThreadReturn, ThreadIdle, ThreadConfirmSuspend, ThreadInitResume,
         ThreadResume, queueVars
    <2> QED BY <2>1, <2>2
  <1>2. eventFlag'[t] = eventFlag[t]
    BY DEF TypeOK, ThreadStep, ThreadWake, ThreadScan, ThreadExit, ThreadCheck,
       ThreadGet, ThreadReturn, ThreadIdle, ThreadConfirmSuspend,
       ThreadInitResume, ThreadResume, ClearBit
  <1> QED BY <1>0, <1>1, <1>2, MissedFrame DEF SignalDue

LEMMA ThreadKeepsMessages ==
  ASSUME WakeupInv, NEW t \in Thread, ThreadStep(t)
  PROVE  NoMissedMessage(t)'
  <1> USE DEF WakeupInv, Goto
  <1>1. CASE ThreadWake(t) \/ ThreadScan(t) \/ ThreadExit(t) \/ ThreadReturn(t)
    <2>1. pc'[t] \in {"top", "exited"} \/ (pc'[t] = "check" /\ idx'[t] = 1)
      BY <1>1 DEF ThreadWake, ThreadScan, ThreadExit, ThreadReturn, TypeOK
    <2>2. \A i \in 1..Len(ServiceOrder[t]) : ~Passed(t, i)'
      BY <2>1 DEF Passed
    <2> QED BY <2>2 DEF NoMissedMessage
  <1>2. CASE ThreadGet(t)
    <2>1. pc'[t] = "handle"
      BY <1>2 DEF ThreadGet, TypeOK, GetNeverNull
    <2> QED BY <2>1 DEF Passed, NoMissedMessage
  <1>3. CASE ThreadCheck(t)
    <2>0. UNCHANGED <<mq, eventFlag, poster>>
      BY <1>3 DEF ThreadCheck, queueVars
    <2>1. CASE mq[ServiceOrder[t][idx[t]]] = <<>>
      <3>1. pc'[t] = "check" /\ idx'[t] = idx[t] + 1
        BY <1>3, <2>1 DEF ThreadCheck, TypeOK
      <3>2. \A i \in 1..Len(ServiceOrder[t]) :
              Passed(t, i)' => Passed(t, i) \/ i = idx[t]
        BY <1>3, <3>1, OrderIndex DEF Passed, ThreadCheck, TypeOK
      <3> QED BY <2>0, <2>1, <3>2 DEF NoMissedMessage, SignalDue
    <2>2. CASE mq[ServiceOrder[t][idx[t]]] # <<>>
      <3>1. pc'[t] = "get"
        BY <1>3, <2>2 DEF ThreadCheck, TypeOK
      <3> QED BY <3>1 DEF Passed, NoMissedMessage
    <2> QED BY <2>1, <2>2
  <1>4. CASE ThreadIdle(t)
    <2>1. \A i \in 1..Len(ServiceOrder[t]) : Passed(t, i)
      BY <1>4, OrderIndex DEF Passed, ThreadIdle, TypeOK
    <2>2. /\ mq' = mq /\ poster' = poster
          /\ "POST" \in eventFlag[t] => "POST" \in eventFlag'[t]
      BY <1>4 DEF ThreadIdle, ClearBit, TypeOK, queueVars
    <2> QED BY <2>1, <2>2 DEF NoMissedMessage, SignalDue
  <1>5. CASE ThreadConfirmSuspend(t) \/ ThreadInitResume(t) \/ ThreadResume(t)
    <2>1. UNCHANGED <<mq, eventFlag, poster>>
      BY <1>5 DEF ThreadConfirmSuspend, ThreadInitResume, ThreadResume, queueVars
    <2>2. \A i \in 1..Len(ServiceOrder[t]) : Passed(t, i)
      BY <1>5 DEF ThreadConfirmSuspend, ThreadInitResume, ThreadResume, Passed
    <2> QED BY <2>1, <2>2 DEF NoMissedMessage, SignalDue
  <1> QED BY <1>1, <1>2, <1>3, <1>4, <1>5 DEF ThreadStep

-----------------------------------------------------------------------------
LEMMA GetFrame ==
  ASSUME TypeOK, GetNeverNull, NEW t \in Thread,
         pc'[t] = "get" => pc[t] = "get" /\ idx'[t] = idx[t],
         \A q \in QueuesOf(t) : mq[q] # <<>> => mq'[q] # <<>>
  PROVE  pc'[t] = "get" => mq'[ServiceOrder[t][idx'[t]]] # <<>>
  <1> SUFFICES ASSUME pc'[t] = "get" PROVE mq'[ServiceOrder[t][idx[t]]] # <<>>
    OBVIOUS
  <1>1. ServiceOrder[t][idx[t]] \in QueuesOf(t)
    BY ServedQueue DEF TypeOK
  <1> QED BY <1>1 DEF GetNeverNull

LEMMA ThreadKeepsGet ==
  ASSUME TypeOK, GetNeverNull, NEW u \in Thread, ThreadStep(u)
  PROVE  GetNeverNull'
  <1> SUFFICES ASSUME NEW t \in Thread
               PROVE  pc'[t] = "get" => mq'[ServiceOrder[t][idx'[t]]] # <<>>
    BY DEF GetNeverNull
  <1>1. CASE ThreadGet(u)
    <2>1. pc'[u] # "get"
      BY <1>1 DEF ThreadGet, Goto, TypeOK
    <2>2. CASE t # u
      <3>1. ServiceOrder[u][idx[u]] \in QueuesOf(u)
        BY <1>1, ServedQueue DEF TypeOK, ThreadGet
      <3>2. ServiceOrder[u][idx[u]] \notin QueuesOf(t)
        BY <2>2, <3>1, QueueAssumption DEF QueueAssumption
      <3>3. \A q \in QueuesOf(t) : mq'[q] = mq[q]
        BY <1>1, <3>2, QueuesOfType DEF TypeOK, ThreadGet
      <3> QED BY <2>2, <3>3, ExitIsFinal, GetFrame
    <2> QED BY <2>1, <2>2
  <1>2. CASE ThreadCheck(u) /\ t = u
    BY <1>2 DEF ThreadCheck, queueVars, Goto, TypeOK
  <1>3. CASE ~ThreadGet(u) /\ (ThreadCheck(u) => t # u)
    <2>1. mq' = mq
      BY <1>3 DEF ThreadStep, ThreadWake, ThreadScan, ThreadExit, ThreadCheck,
         ThreadReturn, ThreadIdle, ThreadConfirmSuspend, ThreadInitResume,
         ThreadResume, queueVars
    <2>2. CASE t # u
      BY <2>1, <2>2, ExitIsFinal, GetFrame
    <2>3. CASE t = u
      <3>1. pc'[t] # "get"
        BY <1>3, <2>3 DEF ThreadStep, ThreadWake, ThreadScan, ThreadExit,
           ThreadReturn, ThreadIdle, ThreadConfirmSuspend, ThreadInitResume,
           ThreadResume, Goto, TypeOK
      <3> QED BY <3>1
    <2> QED BY <2>2, <2>3
  <1> QED BY <1>1, <1>2, <1>3

LEMMA OthersKeepGet ==
  ASSUME TypeOK, GetNeverNull, ExitOrder,
         \/ \E p \in Poster : PosterStep(p) \/ \E q \in Mq : PostTake(p, q)
         \/ PmSuspend \/ PmResume \/ PmStep
         \/ ShutdownBegin \/ CloseBegin \/ CloserStep
  PROVE  GetNeverNull'
  <1>0. pc' = pc /\ idx' = idx
    BY OthersLeaveControl, CloserLeavesThreads
  <1>1. CASE CloserFlush
    BY <1>0, <1>1 DEF CloserFlush, ExitOrder, GetNeverNull
  <1>2. CASE ~CloserFlush
    <2>1. \A q \in Mq : mq[q] # <<>> => mq'[q] # <<>>
      <3>1. ASSUME NEW p \in Poster, PostPut(p), NEW q \in Mq, mq[q] # <<>>
            PROVE  mq'[q] # <<>>
        <4>1. poster[p].w \in Wrapper /\ mq[q] \in Seq(Wrapper)
          BY <3>1 DEF PostPut, TypeOK, PosterState
        <4>2. Append(mq[q], poster[p].w) # <<>>
          <5> DEFINE s == mq[q]
                     w == poster[p].w
          <5>1. Len(Append(s, w)) = Len(s) + 1 /\ Len(s) \in Nat
            BY <4>1
          <5>2. Len(<<>>) = 0
            OBVIOUS
          <5> QED BY <5>1, <5>2
        <4>3. mq' = [mq EXCEPT ![poster[p].q] = Append(@, poster[p].w)]
          BY <3>1 DEF PostPut
        <4>4. CASE q = poster[p].q
          BY <4>2, <4>3, <4>4 DEF TypeOK
        <4>5. CASE q # poster[p].q
          BY <3>1, <4>3, <4>5 DEF TypeOK
        <4> QED BY <4>4, <4>5
      <3>2. CASE ~\E p \in Poster : PostPut(p)
        <4>1. mq' = mq
          BY <1>2, <3>2 DEF PosterStep, PostTake, PostSignal, PmSuspend, PmResume,
             PmStep, PmIndicate, PmConfirmed, PmTimeout, PmWakeThread,
             ShutdownBegin, CloseBegin, CloserStep, ShutdownWake, CloserStop,
             CloserJoin, queueVars
        <4> QED BY <4>1
      <3> QED BY <3>1, <3>2
    <2> QED BY <1>0, <2>1, GetFrame, QueuesOfType DEF GetNeverNull
  <1> QED BY <1>1, <1>2

-----------------------------------------------------------------------------
LEMMA WakeupInit == Init => WakeupInv
  BY InitType, OrderIndex, ServedQueue
  DEF Init, WakeupInv, ExitOrder, GetNeverNull, NoMissedMessage

LEMMA WakeupStep == WakeupInv /\ [Next]_vars => WakeupInv'
  <1> SUFFICES ASSUME WakeupInv, [Next]_vars PROVE WakeupInv'
    OBVIOUS
  <1>0. TypeOK' /\ ExitOrder'
    BY TypeStep, ExitOrderStep DEF WakeupInv
  <1>1. CASE UNCHANGED vars
    BY <1>0, <1>1 DEF vars, WakeupInv, GetNeverNull, NoMissedMessage, Passed,
       SignalDue
  <1>2. ASSUME NEW u \in Thread, ThreadStep(u) PROVE WakeupInv'
    <2>1. \A t \in Thread : NoMissedMessage(t)'
      BY <1>2, ThreadKeepsMessages, OtherThreadKeepsMessages DEF WakeupInv
    <2> QED BY <1>0, <1>2, <2>1, ThreadKeepsGet DEF WakeupInv
  <1>3. CASE \/ \E p \in Poster : PosterStep(p) \/ \E q \in Mq : PostTake(p, q)
             \/ PmSuspend \/ PmResume \/ PmStep
             \/ ShutdownBegin \/ CloseBegin \/ CloserStep
    <2>1. \A t \in Thread : NoMissedMessage(t)'
      BY <1>3, PosterKeepsMessages, PmKeepsMessages, CloserKeepsMessages
      DEF WakeupInv
    <2> QED BY <1>0, <1>3, <2>1, OthersKeepGet DEF WakeupInv
  <1> QED BY <1>1, <1>2, <1>3 DEF Next

LEMMA WakeupImplies == WakeupInv => NoLostWakeup /\ GetNeverNull
  <1> SUFFICES ASSUME WakeupInv, NEW t \in Thread, NEW q \in Mq,
                      q \in QueuesOf(t), mq[q] # <<>>,
                      pc[t] \in {"wait", "suspend", "initResume", "suspended"}
               PROVE  "POST" \in eventFlag[t] \/ SignalDue(t)
    BY DEF NoLostWakeup, WakeupInv
  <1>1. PICK i \in 1..Len(ServiceOrder[t]) : q = ServiceOrder[t][i]
    BY QueuesOfIndices
  <1> QED BY <1>1 DEF WakeupInv, NoMissedMessage, Passed

(***************************************************************************)
(* No message waits for a thread that sleeps on without being woken: see   *)
(* NoLostWakeup.                                                           *)
(***************************************************************************)
THEOREM WakeupCorrect == Spec => []NoLostWakeup
  BY WakeupInit, WakeupStep, WakeupImplies, PTL DEF Spec

(***************************************************************************)
(* The invariant itself holds, with the exits that the flush rests on and  *)
(* the assertions of the thread loops: see WakeupInv.                      *)
(***************************************************************************)
THEOREM WakeupInvariant == Spec => []WakeupInv
  BY WakeupInit, WakeupStep, PTL DEF Spec

(***************************************************************************)
(* The assertions of the thread loops hold: see GetNeverNull.              *)
(***************************************************************************)
THEOREM GetCorrect == Spec => []GetNeverNull
  BY WakeupInit, WakeupStep, WakeupImplies, PTL DEF Spec

-----------------------------------------------------------------------------
(***************************************************************************)
(* The pool of wrappers.                                                   *)
(***************************************************************************)
LEMMA RangeAppend ==
  ASSUME NEW S, NEW s \in Seq(S), NEW e \in S
  PROVE  /\ Range(Append(s, e)) = Range(s) \cup {e}
         /\ IsInjective(s) /\ e \notin Range(s) => IsInjective(Append(s, e))
  <1> DEFINE r == Append(s, e)
  <1>1. /\ r \in Seq(S) /\ Len(r) = Len(s) + 1 /\ Len(s) \in Nat
        /\ \A i \in 1..Len(s) : r[i] = s[i]
        /\ r[Len(s) + 1] = e
    BY AppendProperties
  <1>2. /\ Range(r) = {r[i] : i \in 1..Len(r)}
        /\ Range(s) = {s[i] : i \in 1..Len(s)}
    BY <1>1, RangeEquality
  <1>3. DOMAIN r = 1..Len(r) /\ DOMAIN s = 1..Len(s)
    BY <1>1
  <1>4. Range(r) = Range(s) \cup {e}
    BY <1>1, <1>2
  <1>5. ASSUME IsInjective(s), e \notin Range(s) PROVE IsInjective(r)
    <2> SUFFICES ASSUME NEW a \in 1..Len(r), NEW b \in 1..Len(r), r[a] = r[b]
                 PROVE  a = b
      BY <1>3 DEF IsInjective
    <2>1. CASE a \in 1..Len(s) /\ b \in 1..Len(s)
      BY <1>1, <1>3, <1>5, <2>1 DEF IsInjective
    <2>2. CASE a = Len(s) + 1 \/ b = Len(s) + 1
      BY <1>1, <1>2, <1>5, <2>2
    <2> QED BY <1>1, <2>1, <2>2
  <1> QED BY <1>4, <1>5

LEMMA RangeTail ==
  ASSUME NEW S, NEW s \in Seq(S), s # <<>>
  PROVE  /\ Range(s) = {Head(s)} \cup Range(Tail(s))
         /\ IsInjective(s) => /\ Head(s) \notin Range(Tail(s))
                              /\ IsInjective(Tail(s))
  <1> DEFINE r == Tail(s)
  <1>1. /\ r \in Seq(S) /\ Len(r) = Len(s) - 1 /\ Len(s) \in Nat /\ Len(s) > 0
        /\ \A i \in 1..Len(r) : r[i] = s[i + 1]
        /\ Head(s) = s[1]
    <2>1. /\ Head(s) \in S /\ r \in Seq(S) /\ Len(r) = Len(s) - 1
          /\ \A i \in 1 .. Len(r) : r[i] = s[i + 1]
      BY HeadTailProperties
    <2>2. Len(s) \in Nat /\ Len(s) # 0
      BY EmptySeq, LenProperties
    <2>3. Len(s) > 0
      BY <2>2
    <2>4. Head(s) = s[1]
      OBVIOUS
    <2> HIDE DEF r
    <2> QED BY <2>1, <2>2, <2>3, <2>4
  <1>2. /\ Range(r) = {r[i] : i \in 1..Len(r)}
        /\ Range(s) = {s[i] : i \in 1..Len(s)}
    BY <1>1, RangeEquality
  <1>3. DOMAIN r = 1..Len(r) /\ DOMAIN s = 1..Len(s)
    BY <1>1
  <1>4. Range(s) = {Head(s)} \cup Range(r)
    <2>1. \A i \in 1..Len(s) : i = 1 \/ (i - 1 \in 1..Len(r) /\ r[i - 1] = s[i])
      BY <1>1
    <2>2. \A i \in 1..Len(r) : i + 1 \in 1..Len(s) /\ r[i] = s[i + 1]
      BY <1>1
    <2>3. Range(s) \subseteq {Head(s)} \cup Range(r)
      <3> SUFFICES ASSUME NEW i \in 1..Len(s), s[i] # Head(s)
                   PROVE  s[i] \in Range(r)
        BY <1>2
      <3>1. i - 1 \in 1..Len(r) /\ r[i - 1] = s[i]
        BY <1>1, <2>1
      <3> QED BY <1>2, <3>1
    <2>4. Range(r) \subseteq Range(s)
      BY <1>2, <2>2
    <2>5. Head(s) \in Range(s)
      BY <1>1, <1>2
    <2> QED BY <2>3, <2>4, <2>5
  <1>5. ASSUME IsInjective(s) PROVE Head(s) \notin Range(r) /\ IsInjective(r)
    <2>1. Head(s) \notin Range(r)
      <3> SUFFICES ASSUME NEW i \in 1..Len(r), Head(s) = r[i] PROVE FALSE
        BY <1>2
      <3>1. i + 1 \in DOMAIN s /\ 1 \in DOMAIN s /\ s[i + 1] = s[1]
        BY <1>1, <1>3
      <3>2. i + 1 = 1
        BY <1>5, <3>1 DEF IsInjective
      <3> QED BY <3>2
    <2>2. IsInjective(r)
      <3> SUFFICES ASSUME NEW a \in 1..Len(r), NEW b \in 1..Len(r), r[a] = r[b]
                   PROVE  a = b
        BY <1>3 DEF IsInjective
      <3>1. a + 1 \in DOMAIN s /\ b + 1 \in DOMAIN s /\ s[a + 1] = s[b + 1]
        BY <1>1, <1>3
      <3>2. a + 1 = b + 1
        BY <1>5, <3>1 DEF IsInjective
      <3> QED BY <3>2
    <2> QED BY <2>1, <2>2
  <1> QED BY <1>4, <1>5

\* Who holds a wrapper, element by element.
LEMMA Holders ==
  /\ \A w : w \in HeldByPoster <=> \E p \in Poster : poster[p].at = "put" /\ poster[p].w = w
  /\ \A w : w \in Handled <=> \E t \in Thread : pc[t] = "handle" /\ cur[t] = w
  /\ \A w : w \in HeldByPoster' <=> \E p \in Poster : poster'[p].at = "put" /\ poster'[p].w = w
  /\ \A w : w \in Handled' <=> \E t \in Thread : pc'[t] = "handle" /\ cur'[t] = w
  /\ \A w : w \in OnQueues <=> \E q \in Mq : w \in Range(mq[q])
  /\ \A w : w \in OnQueues' <=> \E q \in Mq : w \in Range(mq'[q])
  BY DEF HeldByPoster, Handled, OnQueues

LEMMA QueueType ==
  ASSUME TypeOK, NEW q \in Mq
  PROVE  mq[q] \in Seq(Wrapper) /\ Range(mq[q]) \subseteq Wrapper
  <1>1. mq[q] \in Seq(Wrapper)
    BY DEF TypeOK
  <1> QED BY <1>1, RangeOfSeq

\* A step that leaves the pool alone.
LEMMA PoolFrame ==
  ASSUME NoDuplicateWrapper, NoWrapperLost, RxFlushed => RxFlushed',
         UNCHANGED <<freeVosMq, mq, cur>>,
         HeldByPoster' = HeldByPoster,
         \A p \in Poster : poster'[p].at = "put" =>
            poster[p].at = "put" /\ poster'[p].w = poster[p].w,
         \A t \in Thread : pc'[t] = "handle" <=> pc[t] = "handle"
  PROVE  NoDuplicateWrapper' /\ NoWrapperLost'
  <1>1. Handled' = Handled
    BY DEF Handled
  <1> QED BY <1>1 DEF NoDuplicateWrapper, NoWrapperLost, Somewhere, OnQueues

LEMMA PoolTake ==
  ASSUME PoolInv, NEW p \in Poster, NEW q \in Mq, PostTake(p, q)
  PROVE  NoDuplicateWrapper' /\ NoWrapperLost'
  <1> USE DEF PoolInv
  <1>1. PICK w \in freeVosMq :
          /\ freeVosMq' = freeVosMq \ {w}
          /\ poster' = [poster EXCEPT ![p] = [at |-> "put", q |-> q, w |-> w]]
    BY DEF PostTake
  <1>2. UNCHANGED <<mq, pc, cur, closer>>
    BY DEF PostTake, threadVars
  <1>3. poster[p].at = "idle" /\ poster'[p].at = "put" /\ poster'[p].w = w
    BY <1>1 DEF PostTake, TypeOK
  <1>4. \A r \in Poster : r # p => poster'[r] = poster[r]
    BY <1>1 DEF TypeOK
  <1>5. HeldByPoster' = HeldByPoster \cup {w} /\ Handled' = Handled
    <2>1. \A x : x \in HeldByPoster' <=> x \in HeldByPoster \/ x = w
      BY <1>3, <1>4, Holders
    <2> QED BY <1>2, <2>1 DEF Handled
  <1>6. w \notin HeldByPoster /\ w \notin Handled /\ \A m \in Mq : w \notin Range(mq[m])
    BY <1>1 DEF NoDuplicateWrapper
  <1>7. \A r, s \in Poster : /\ poster'[r].at = "put" /\ poster'[s].at = "put"
                             /\ poster'[r].w = poster'[s].w
                             => r = s
    BY <1>3, <1>4, <1>6, Holders DEF NoDuplicateWrapper
  <1>8. NoDuplicateWrapper'
    BY <1>1, <1>2, <1>5, <1>6, <1>7 DEF NoDuplicateWrapper
  <1>9. Somewhere' = Somewhere
    BY <1>1, <1>2, <1>5 DEF Somewhere, OnQueues
  <1> QED BY <1>2, <1>8, <1>9 DEF NoWrapperLost, RxFlushed

LEMMA PoolPut ==
  ASSUME PoolInv, NEW p \in Poster, PostPut(p)
  PROVE  NoDuplicateWrapper' /\ NoWrapperLost'
  <1> USE DEF PoolInv
  <1> DEFINE q == poster[p].q
             w == poster[p].w
  <1>1. q \in Mq /\ w \in Wrapper /\ poster[p].at = "put"
    BY DEF PostPut, TypeOK, PosterState
  <1>2. /\ UNCHANGED <<freeVosMq, pc, cur, closer>>
        /\ mq'[q] = Append(mq[q], w)
        /\ \A m \in Mq : m # q => mq'[m] = mq[m]
    BY <1>1 DEF PostPut, threadVars, TypeOK
  <1>3. poster'[p].at = "signal" /\ \A r \in Poster : r # p => poster'[r] = poster[r]
    BY DEF PostPut, TypeOK
  <1>4. w \in HeldByPoster
    BY <1>1, Holders
  <1>5. HeldByPoster' = HeldByPoster \ {w} /\ Handled' = Handled
    <2>1. \A x : x \in HeldByPoster' <=> x \in HeldByPoster /\ x # w
      BY <1>1, <1>3, Holders DEF NoDuplicateWrapper
    <2> QED BY <1>2, <2>1 DEF Handled
  <1>6. w \notin freeVosMq /\ w \notin Handled /\ \A m \in Mq : w \notin Range(mq[m])
    BY <1>4 DEF NoDuplicateWrapper
  <1>7. Range(mq'[q]) = Range(mq[q]) \cup {w} /\ IsInjective(mq'[q])
    BY <1>1, <1>2, <1>6, QueueType, RangeAppend DEF NoDuplicateWrapper
  <1>8. \A r, s \in Poster : /\ poster'[r].at = "put" /\ poster'[s].at = "put"
                             /\ poster'[r].w = poster'[s].w
                             => r = s
    BY <1>3 DEF NoDuplicateWrapper
  <1>9. \A m \in Mq : /\ IsInjective(mq'[m])
                      /\ Range(mq'[m]) = IF m = q THEN Range(mq[q]) \cup {w}
                                                  ELSE Range(mq[m])
    BY <1>2, <1>7 DEF NoDuplicateWrapper
  <1>10. NoDuplicateWrapper'
    <2>1. \A m \in Mq : Range(mq'[m]) \cap (freeVosMq' \cup HeldByPoster' \cup Handled') = {}
      BY <1>2, <1>5, <1>6, <1>9 DEF NoDuplicateWrapper
    <2>2. \A m, n \in Mq : m # n => Range(mq'[m]) \cap Range(mq'[n]) = {}
      BY <1>6, <1>9 DEF NoDuplicateWrapper
    <2> QED BY <1>2, <1>5, <1>8, <1>9, <2>1, <2>2 DEF NoDuplicateWrapper
  <1>11. OnQueues' = OnQueues \cup {w}
    <2>1. \A x : x \in OnQueues' <=> x \in OnQueues \/ x = w
      BY <1>1, <1>9, Holders
    <2> QED BY <2>1
  <1>12. Somewhere' = Somewhere
    BY <1>2, <1>4, <1>5, <1>11 DEF Somewhere
  <1> QED BY <1>2, <1>10, <1>12 DEF NoWrapperLost, RxFlushed

LEMMA PoolGet ==
  ASSUME PoolInv, NEW t \in Thread, ThreadGet(t)
  PROVE  NoDuplicateWrapper' /\ NoWrapperLost'
  <1> USE DEF PoolInv
  <1> DEFINE q == ServiceOrder[t][idx[t]]
             w == Head(mq[q])
  <1>1. q \in Mq
    BY ServedQueue DEF ThreadGet, TypeOK
  <1>2. UNCHANGED <<freeVosMq, poster, closer>> /\ HeldByPoster' = HeldByPoster
    BY DEF ThreadGet, HeldByPoster
  <1>3. CASE mq[q] = <<>>
    <2>1. /\ UNCHANGED <<mq, cur>> /\ pc[t] = "get"
          /\ pc' = [pc EXCEPT ![t] = IF q = "wdiRxMq" THEN "top" ELSE "wait"]
      BY <1>3 DEF ThreadGet, Goto
    <2>2. \A u \in Thread : pc'[u] = "handle" <=> pc[u] = "handle"
      BY <2>1 DEF TypeOK
    <2> QED BY <1>2, <2>1, <2>2, PoolFrame DEF RxFlushed
  <1>4. CASE mq[q] # <<>>
    <2>1. /\ mq'[q] = Tail(mq[q]) /\ \A m \in Mq : m # q => mq'[m] = mq[m]
          /\ pc[t] = "get" /\ pc'[t] = "handle" /\ cur'[t] = w
          /\ \A u \in Thread : u # t => pc'[u] = pc[u] /\ cur'[u] = cur[u]
      BY <1>1, <1>4 DEF ThreadGet, Goto, TypeOK
    <2>2. /\ Range(mq[q]) = {w} \cup Range(mq'[q])
          /\ w \notin Range(mq'[q]) /\ IsInjective(mq'[q])
      BY <1>1, <1>4, <2>1, QueueType, RangeTail DEF NoDuplicateWrapper
    <2>3. Handled' = Handled \cup {w}
      <3>1. \A x : x \in Handled' <=> x \in Handled \/ x = w
        BY <2>1, Holders
      <3> QED BY <3>1
    <2>4. /\ w \notin freeVosMq /\ w \notin HeldByPoster /\ w \notin Handled
          /\ \A m \in Mq : m # q => w \notin Range(mq[m])
      BY <1>1, <2>2 DEF NoDuplicateWrapper
    <2>5. \A u, v \in Thread : pc'[u] = "handle" /\ cur'[u] = cur'[v] => u = v
      <3> SUFFICES ASSUME NEW u \in Thread, NEW v \in Thread,
                          pc'[u] = "handle", cur'[u] = cur'[v]
                   PROVE  u = v
        OBVIOUS
      <3>1. \A x \in Thread : cur[x] # w
        <4> SUFFICES ASSUME NEW x \in Thread, cur[x] = w PROVE FALSE
          OBVIOUS
        <4>1. w \in Wrapper
          BY <1>1, <2>2, QueueType
        <4>2. cur[x] # NoWrapper
          BY <4>1, WrapperAssumption DEF WrapperAssumption
        <4>3. pc[x] = "handle"
          BY <4>2 DEF TypeOK
        <4> QED BY <2>4, <4>3, Holders
      <3> QED BY <2>1, <3>1 DEF NoDuplicateWrapper
    <2>6. \A m \in Mq : /\ IsInjective(mq'[m])
                        /\ Range(mq'[m]) = IF m = q THEN Range(mq[q]) \ {w}
                                                    ELSE Range(mq[m])
      <3> SUFFICES ASSUME NEW m \in Mq
                   PROVE  /\ IsInjective(mq'[m])
                          /\ Range(mq'[m]) = IF m = q THEN Range(mq[q]) \ {w}
                                                      ELSE Range(mq[m])
        OBVIOUS
      <3>1. CASE m = q
        <4>1. Range(mq'[q]) = Range(mq[q]) \ {w}
          BY <2>2
        <4> QED BY <2>2, <3>1, <4>1
      <3>2. CASE m # q
        <4>1. mq'[m] = mq[m]
          BY <2>1, <3>2
        <4> QED BY <3>2, <4>1 DEF NoDuplicateWrapper
      <3> QED BY <3>1, <3>2
    <2>7. NoDuplicateWrapper'
      <3>1. \A m \in Mq : Range(mq'[m]) \cap (freeVosMq' \cup HeldByPoster' \cup Handled') = {}
        BY <1>2, <2>3, <2>4, <2>6 DEF NoDuplicateWrapper
      <3>2. \A m, n \in Mq : m # n => Range(mq'[m]) \cap Range(mq'[n]) = {}
        BY <2>6 DEF NoDuplicateWrapper
      <3> QED BY <1>2, <2>3, <2>4, <2>5, <2>6, <3>1, <3>2 DEF NoDuplicateWrapper
    <2>8. OnQueues = OnQueues' \cup {w}
      <3>1. \A x : x \in OnQueues <=> x \in OnQueues' \/ x = w
        BY <1>1, <2>2, <2>6, Holders
      <3> QED BY <3>1
    <2>9. Somewhere' = Somewhere
      BY <1>2, <2>3, <2>8 DEF Somewhere
    <2> QED BY <1>2, <2>7, <2>9 DEF NoWrapperLost, RxFlushed
  <1> QED BY <1>3, <1>4

LEMMA PoolReturn ==
  ASSUME PoolInv, NEW t \in Thread, ThreadReturn(t)
  PROVE  NoDuplicateWrapper' /\ NoWrapperLost'
  <1> USE DEF PoolInv
  <1> DEFINE w == cur[t]
  <1>1. /\ UNCHANGED <<mq, poster, closer>>
        /\ HeldByPoster' = HeldByPoster
        /\ freeVosMq' = freeVosMq \cup {w}
    BY DEF ThreadReturn, HeldByPoster
  <1>2. /\ pc[t] = "handle" /\ pc'[t] = "top" /\ cur'[t] = NoWrapper
        /\ \A u \in Thread : u # t => pc'[u] = pc[u] /\ cur'[u] = cur[u]
    BY DEF ThreadReturn, Goto, TypeOK
  <1>3. w \in Handled
    BY <1>2, Holders
  <1>4. Handled' = Handled \ {w}
    <2>1. \A x : x \in Handled' <=> x \in Handled /\ x # w
      BY <1>2, Holders DEF NoDuplicateWrapper
    <2> QED BY <2>1
  <1>5. w \notin HeldByPoster /\ \A m \in Mq : w \notin Range(mq[m])
    BY <1>3 DEF NoDuplicateWrapper
  <1>6. \A u, v \in Thread : pc'[u] = "handle" /\ cur'[u] = cur'[v] => u = v
    <2> SUFFICES ASSUME NEW u \in Thread, NEW v \in Thread,
                        pc'[u] = "handle", cur'[u] = cur'[v]
                 PROVE  u = v
      OBVIOUS
    <2>1. u # t /\ cur[u] # NoWrapper
      BY <1>2 DEF TypeOK
    <2> QED BY <1>2, <2>1 DEF NoDuplicateWrapper
  <1>7. NoDuplicateWrapper'
    BY <1>1, <1>4, <1>5, <1>6 DEF NoDuplicateWrapper
  <1>8. Somewhere' = Somewhere
    BY <1>1, <1>3, <1>4 DEF Somewhere, OnQueues
  <1> QED BY <1>1, <1>7, <1>8 DEF NoWrapperLost, RxFlushed

LEMMA PoolFlush ==
  ASSUME PoolInv, CloserFlush
  PROVE  NoDuplicateWrapper' /\ NoWrapperLost'
  <1> USE DEF PoolInv
  <1> DEFINE t == ShutdownOrder[closer.k]
  <1>0. t \in Thread /\ closer.k \in 1..3 /\ Len(ShutdownOrder) = 3
    BY OrderFacts DEF TypeOK, CloserState
  <1>1. /\ UNCHANGED <<poster, pc, cur>>
        /\ HeldByPoster' = HeldByPoster /\ Handled' = Handled
        /\ freeVosMq' = freeVosMq \cup Flushed(t)
    BY DEF CloserFlush, threadVars, HeldByPoster, Handled
  <1>2. \A m \in Mq : mq'[m] = IF m \in QueuesOf(t) THEN <<>> ELSE mq[m]
    BY DEF CloserFlush
  <1>3. Range(<<>>) = {} /\ IsInjective(<<>>)
    BY DEF Range, IsInjective
  <1>4. \A m \in Mq : /\ IsInjective(mq'[m])
                      /\ Range(mq'[m]) = IF m \in QueuesOf(t) THEN {} ELSE Range(mq[m])
    BY <1>2, <1>3 DEF NoDuplicateWrapper
  <1>5. \A w \in Flushed(t) : \E m \in QueuesOf(t) : w \in Range(mq[m])
    BY DEF Flushed
  <1>6. Flushed(t) \cap (HeldByPoster \cup Handled) = {}
    BY <1>0, <1>5, QueuesOfType DEF NoDuplicateWrapper
  <1>7. \A m \in Mq : m \notin QueuesOf(t) => Range(mq[m]) \cap Flushed(t) = {}
    BY <1>0, <1>5, QueuesOfType DEF NoDuplicateWrapper
  <1>8. NoDuplicateWrapper'
    BY <1>1, <1>4, <1>6, <1>7 DEF NoDuplicateWrapper
  <1>9. ASSUME ~RxFlushed' PROVE Somewhere' = Wrapper
    <2>1. closer.k < 3 /\ closer.at = "flush"
      BY <1>0, <1>9 DEF CloserFlush, CloserNext, CloserAt, RxFlushed
    <2>2. t # "RX"
      BY <1>0, <2>1 DEF ShutdownOrder
    <2>3. Flushed(t) = UNION {Range(mq[q]) : q \in QueuesOf(t)}
      BY <2>2 DEF Flushed
    <2>4. OnQueues = OnQueues' \cup Flushed(t)
      <3>1. \A x : x \in Flushed(t) <=> \E m \in QueuesOf(t) : x \in Range(mq[m])
        BY <2>3
      <3>2. \A x : x \in OnQueues <=> x \in OnQueues' \/ x \in Flushed(t)
        BY <1>0, <1>4, <3>1, QueuesOfType, Holders
      <3> QED BY <3>2
    <2> QED BY <1>1, <2>1, <2>4 DEF Somewhere, NoWrapperLost, RxFlushed
  <1> QED BY <1>8, <1>9 DEF NoWrapperLost

\* The other steps leave the pool alone.
LEMMA PoolOther ==
  ASSUME PoolInv,
         \/ \E p \in Poster : PostSignal(p)
         \/ \E t \in Thread : ThreadStep(t) /\ ~ThreadGet(t) /\ ~ThreadReturn(t)
         \/ PmSuspend \/ PmResume \/ PmStep
         \/ ShutdownBegin \/ CloseBegin
         \/ ShutdownWake \/ CloserStop \/ CloserJoin
         \/ UNCHANGED vars
  PROVE  NoDuplicateWrapper' /\ NoWrapperLost'
  <1> USE DEF PoolInv
  <1>1. CASE \E t \in Thread : ThreadStep(t) /\ ~ThreadGet(t) /\ ~ThreadReturn(t)
    <2>1. PICK t \in Thread : ThreadStep(t) /\ ~ThreadGet(t) /\ ~ThreadReturn(t)
      BY <1>1
    <2>2. /\ UNCHANGED <<freeVosMq, mq, cur, poster, closer>>
          /\ pc[t] # "handle"
          /\ pc' = pc \/ \E l \in Label \ {"handle"} : pc' = [pc EXCEPT ![t] = l]
      BY <2>1 DEF ThreadStep, ThreadWake, ThreadScan, ThreadExit, ThreadCheck,
         ThreadIdle, ThreadConfirmSuspend, ThreadInitResume, ThreadResume,
         queueVars, Goto, Label
    <2>3. \A u \in Thread : pc'[u] = "handle" <=> pc[u] = "handle"
      BY <2>2 DEF TypeOK
    <2>4. HeldByPoster' = HeldByPoster
      BY <2>2 DEF HeldByPoster
    <2> QED BY <2>2, <2>3, <2>4, PoolFrame DEF RxFlushed
  <1>2. CASE \E p \in Poster : PostSignal(p)
    <2>1. PICK p \in Poster : PostSignal(p)
      BY <1>2
    <2>2. UNCHANGED <<freeVosMq, mq, cur, pc, closer>>
      BY <2>1 DEF PostSignal, queueVars, threadVars
    <2>3. \A r \in Poster : /\ poster'[r].at = "put" <=> poster[r].at = "put"
                            /\ poster[r].at = "put" => poster'[r] = poster[r]
      BY <2>1 DEF PostSignal, TypeOK
    <2>4. HeldByPoster' = HeldByPoster
      <3>1. \A x : x \in HeldByPoster' <=> x \in HeldByPoster
        BY <2>3, Holders
      <3> QED BY <3>1
    <2> QED BY <2>2, <2>3, <2>4, PoolFrame DEF RxFlushed
  <1>3. CASE PmSuspend \/ PmResume \/ PmStep \/ UNCHANGED vars
    <2>1. UNCHANGED <<freeVosMq, mq, cur, pc, poster, closer>>
      BY <1>3 DEF PmSuspend, PmResume, PmStep, PmIndicate, PmConfirmed,
         PmTimeout, PmWakeThread, queueVars, threadVars, vars
    <2>2. HeldByPoster' = HeldByPoster
      BY <2>1 DEF HeldByPoster
    <2> QED BY <2>1, <2>2, PoolFrame DEF RxFlushed
  <1>4. CASE ShutdownBegin \/ CloseBegin \/ ShutdownWake \/ CloserStop \/ CloserJoin
    <2>1. UNCHANGED <<freeVosMq, mq, cur, pc, poster>> /\ closer.at # "done"
      BY <1>4 DEF ShutdownBegin, CloseBegin, ShutdownWake, CloserStop,
         CloserJoin, queueVars, threadVars
    <2>2. HeldByPoster' = HeldByPoster
      BY <2>1 DEF HeldByPoster
    <2> QED BY <2>1, <2>2, PoolFrame DEF RxFlushed
  <1> QED BY <1>1, <1>2, <1>3, <1>4

LEMMA PoolInit == Init => PoolInv
  <1> SUFFICES ASSUME Init PROVE NoDuplicateWrapper /\ NoWrapperLost
    BY InitType DEF PoolInv
  <1>1. HeldByPoster = {} /\ Handled = {}
    BY DEF Init, HeldByPoster, Handled
  <1>2. \A q \in Mq : Range(mq[q]) = {} /\ IsInjective(mq[q])
    BY DEF Init, Range, IsInjective
  <1>3. OnQueues = {}
    BY <1>2 DEF OnQueues
  <1>4. /\ freeVosMq = Wrapper
        /\ \A t \in Thread : pc[t] = "wait"
        /\ \A p \in Poster : poster[p].at = "idle"
    BY DEF Init
  <1>5. NoDuplicateWrapper
    BY <1>1, <1>2, <1>4 DEF NoDuplicateWrapper
  <1> QED BY <1>1, <1>3, <1>4, <1>5 DEF NoWrapperLost, Somewhere

LEMMA PoolStep == PoolInv /\ [Next]_vars => PoolInv'
  <1> SUFFICES ASSUME PoolInv, [Next]_vars
               PROVE  NoDuplicateWrapper' /\ NoWrapperLost'
    BY TypeStep DEF PoolInv
  <1>1. CASE \E p \in Poster : PosterStep(p) \/ \E q \in Mq : PostTake(p, q)
    BY <1>1, PoolTake, PoolPut, PoolOther DEF PosterStep
  <1>2. CASE \E t \in Thread : ThreadStep(t)
    BY <1>2, PoolGet, PoolReturn, PoolOther
  <1>3. CASE CloserStep
    BY <1>3, PoolFlush, PoolOther DEF CloserStep
  <1>4. CASE PmSuspend \/ PmResume \/ PmStep \/ ShutdownBegin \/ CloseBegin
    BY <1>4, PoolOther
  <1> QED BY <1>1, <1>2, <1>3, <1>4, PoolOther DEF Next

(***************************************************************************)
(* Every wrapper is in exactly one place until the receive queues are      *)
(* flushed, and never in two: see NoDuplicateWrapper and NoWrapperLost.    *)
(***************************************************************************)
THEOREM PoolCorrect == Spec => []PoolInv
  BY PoolInit, PoolStep, PTL DEF Spec

-----------------------------------------------------------------------------
(***************************************************************************)
(* The handshake of suspend and resume.  A confirmation may be left over   *)
(* from a suspension that timed out, and a resumption from one that was    *)
(* rolled back; what counts is where the thread stands when its            *)
(* confirmation is taken.                                                  *)
(***************************************************************************)

\* The thread is stopped, and no resumption is left that would let it go on.
Stands(t) == /\ pc[t] \in {"initResume", "suspended"}
             /\ pc[t] = "suspended" => resumeEvent[t] = 0

\* wlan_suspend has stopped the k-th thread of its order.
StoppedSoFar(k) == \/ pm.at \in {"indicate", "await"} /\ k < pm.k
                   \/ pm.at = "idle" /\ isWlanSuspended

Handshake ==
  /\ \A t \in Thread : "SHUTDOWN" \notin eventFlag[t]
  /\ isWlanSuspended => pm.at \in {"idle", "resume"}
  /\ \A k \in 1..3 :
       StoppedSoFar(k) => /\ isThreadSuspended[SuspendOrder[k]]
                          /\ Stands(SuspendOrder[k])
  /\ pm.at = "await" /\ susEvent[SuspendOrder[pm.k]] > 0
       => Stands(SuspendOrder[pm.k])

HandshakeIInv == WakeupInv /\ (closer.at = "idle" => Handshake)

LEMMA PmFields ==
  ASSUME TypeOK
  PROVE  /\ pm.k \in 1..3
         /\ pm.at \in {"idle", "indicate", "await", "rollback", "resume"}
         /\ SuspendOrder[pm.k] \in Thread
         /\ \A j, k \in 1..3 : SuspendOrder[j] = SuspendOrder[k] => j = k
         /\ \A t \in Thread : \E k \in 1..3 : SuspendOrder[k] = t
         /\ \A k \in 1..3 : SuspendOrder[k] \in Thread
  <1>1. /\ \A j, k \in 1..3 : SuspendOrder[j] = SuspendOrder[k] => j = k
        /\ \A t \in Thread : \E k \in 1..3 : SuspendOrder[k] = t
        /\ \A k \in 1..3 : SuspendOrder[k] \in Thread
    BY DEF SuspendOrder, Thread
  <1>2. /\ pm.k \in 1..3
        /\ pm.at \in {"idle", "indicate", "await", "rollback", "resume"}
    BY DEF TypeOK, PmState
  <1> QED BY <1>1, <1>2

LEMMA HandshakeThread ==
  ASSUME TypeOK, Handshake, NEW t \in Thread, ThreadStep(t)
  PROVE  Handshake'
  <1>1. UNCHANGED <<pm, isThreadSuspended, isWlanSuspended>>
    BY DEF ThreadStep, ThreadWake, ThreadScan, ThreadExit, ThreadCheck, ThreadGet,
       ThreadReturn, ThreadIdle, ThreadConfirmSuspend, ThreadInitResume,
       ThreadResume, susVars, pmVars
  <1>2. \A u \in Thread : eventFlag'[u] \subseteq eventFlag[u]
    BY DEF TypeOK, ThreadStep, ThreadWake, ThreadScan, ThreadExit, ThreadCheck,
       ThreadGet, ThreadReturn, ThreadIdle, ThreadConfirmSuspend, ThreadInitResume,
       ThreadResume, ClearBit
  <1>3. ~ThreadExit(t)
    BY DEF Handshake, ThreadExit
  \* The confirmation and what follows it stop the thread.
  <1>4. /\ \A u \in Thread : Stands(u) => Stands(u)'
        /\ \A u \in Thread : susEvent'[u] = susEvent[u] \/ Stands(u)'
    <2>1. CASE ThreadConfirmSuspend(t)
      BY <2>1 DEF ThreadConfirmSuspend, Complete, Goto, Stands, TypeOK
    <2>2. CASE ThreadInitResume(t)
      BY <2>2 DEF ThreadInitResume, Reset, Goto, Stands, TypeOK
    <2>3. CASE ThreadResume(t)
      BY <2>3 DEF ThreadResume, Goto, Stands, TypeOK
    <2>4. CASE \/ ThreadWake(t) \/ ThreadScan(t) \/ ThreadCheck(t) \/ ThreadGet(t)
               \/ ThreadReturn(t) \/ ThreadIdle(t)
      <3>1. UNCHANGED susVars /\ pc[t] \notin {"initResume", "suspended"}
        BY <2>4 DEF ThreadWake, ThreadScan, ThreadCheck, ThreadGet, ThreadReturn,
           ThreadIdle
      <3>2. \A u \in Thread : u # t => pc'[u] = pc[u]
        BY ExitIsFinal
      <3> QED BY <3>1, <3>2 DEF Stands, susVars
    <2> QED BY <1>3, <2>1, <2>2, <2>3, <2>4 DEF ThreadStep
  <1>5. \A k : StoppedSoFar(k)' <=> StoppedSoFar(k)
    BY <1>1 DEF StoppedSoFar
  <1> QED BY <1>1, <1>2, <1>4, <1>5, PmFields DEF Handshake

LEMMA HandshakePoster ==
  ASSUME TypeOK, Handshake,
         \E p \in Poster : PosterStep(p) \/ \E q \in Mq : PostTake(p, q)
  PROVE  Handshake'
  <1>1. UNCHANGED <<pc, susEvent, resumeEvent, isThreadSuspended, isWlanSuspended, pm>>
    BY DEF PosterStep, PostTake, PostPut, PostSignal, threadVars, susVars, pmVars
  <1>2. \A u \in Thread : "SHUTDOWN" \in eventFlag'[u] => "SHUTDOWN" \in eventFlag[u]
    <2>1. ASSUME NEW p \in Poster, PostSignal(p)
          PROVE  \A u \in Thread : "SHUTDOWN" \in eventFlag'[u] => "SHUTDOWN" \in eventFlag[u]
      <3>1. eventFlag' = [eventFlag EXCEPT ![Owner(poster[p].q)] = @ \cup {"POST"}]
        BY <2>1 DEF PostSignal, SetBit
      <3> QED BY <3>1 DEF TypeOK
    <2>2. ASSUME NEW p \in Poster, PostPut(p) \/ \E q \in Mq : PostTake(p, q)
          PROVE  eventFlag' = eventFlag
      BY <2>2 DEF PostPut, PostTake
    <2> QED BY <2>1, <2>2 DEF PosterStep
  <1>3. /\ \A u : Stands(u)' <=> Stands(u)
        /\ \A k : StoppedSoFar(k)' <=> StoppedSoFar(k)
    BY <1>1 DEF Stands, StoppedSoFar
  <1> QED BY <1>1, <1>2, <1>3 DEF Handshake

LEMMA HandshakePm ==
  ASSUME TypeOK, Handshake, PmSuspend \/ PmResume \/ PmStep
  PROVE  Handshake'
  <1>1. /\ \A u \in Thread : "SHUTDOWN" \in eventFlag'[u] => "SHUTDOWN" \in eventFlag[u]
        /\ pc' = pc
    <2>1. pc' = pc
      BY OthersLeaveControl
    <2>2. CASE PmIndicate
      <3>1. eventFlag' = [eventFlag EXCEPT ![SuspendOrder[pm.k]] = @ \cup {"SUSPEND"}]
        BY <2>2 DEF PmIndicate, SetBit
      <3> QED BY <2>1, <3>1 DEF TypeOK
    <2>3. CASE PmTimeout
      <3>1. eventFlag' = [eventFlag EXCEPT ![SuspendOrder[pm.k]] = @ \ {"SUSPEND"}]
        BY <2>3 DEF PmTimeout, ClearBit
      <3> QED BY <2>1, <3>1 DEF TypeOK
    <2>4. CASE PmSuspend \/ PmResume \/ PmConfirmed \/ PmWakeThread
      <3>1. eventFlag' = eventFlag
        BY <2>4 DEF PmSuspend, PmResume, PmConfirmed, PmWakeThread
      <3> QED BY <2>1, <3>1
    <2> QED BY <2>2, <2>3, <2>4 DEF PmStep
  <1>n. /\ pm.k \in 1..3 /\ Len(SuspendOrder) = 3 /\ SuspendOrder[pm.k] \in Thread
        /\ \A j, k \in 1..3 : SuspendOrder[j] = SuspendOrder[k] => j = k
        /\ \A k \in 1..3 : SuspendOrder[k] \in Thread
    BY PmFields, OrderFacts
  <1>2. CASE PmSuspend
    <2>1. UNCHANGED <<resumeEvent, isThreadSuspended, isWlanSuspended>>
          /\ ~isWlanSuspended /\ pm'.at = "indicate" /\ pm'.k = 1
      BY <1>2 DEF PmSuspend, susVars
    <2>2. \A k \in 1..3 : ~StoppedSoFar(k)'
      BY <2>1 DEF StoppedSoFar
    <2> QED BY <1>1, <2>1, <2>2 DEF Handshake
  <1>3. CASE PmResume
    <2>1. pm'.at = "resume"
      BY <1>3 DEF PmResume
    <2> QED BY <1>1, <2>1 DEF Handshake, StoppedSoFar
  <1>4. CASE PmIndicate
    <2>1. /\ UNCHANGED <<resumeEvent, isThreadSuspended, isWlanSuspended>>
          /\ pm.at = "indicate" /\ pm'.at = "await" /\ pm'.k = pm.k
          /\ susEvent'[SuspendOrder[pm.k]] = 0
      BY <1>4, <1>n DEF PmIndicate, Reset, TypeOK, PmState
    <2>2. \A k \in 1..3 : StoppedSoFar(k)' => StoppedSoFar(k)
      BY <2>1 DEF StoppedSoFar
    <2>3. \A u : Stands(u)' <=> Stands(u)
      BY <1>1, <2>1 DEF Stands
    <2> QED BY <1>1, <2>1, <2>2, <2>3 DEF Handshake
  <1>5. CASE PmConfirmed
    <2>1. /\ UNCHANGED resumeEvent /\ pm.at = "await"
          /\ susEvent[SuspendOrder[pm.k]] > 0
          /\ isThreadSuspended'[SuspendOrder[pm.k]]
          /\ \A u \in Thread : isThreadSuspended[u] => isThreadSuspended'[u]
          /\ \/ pm.k < 3 /\ pm' = [at |-> "indicate", k |-> pm.k + 1]
                /\ UNCHANGED isWlanSuspended
             \/ pm.k = 3 /\ pm' = [at |-> "idle", k |-> 1] /\ isWlanSuspended'
      <3>1. isThreadSuspended' = [isThreadSuspended EXCEPT ![SuspendOrder[pm.k]] = TRUE]
        BY <1>5 DEF PmConfirmed
      <3>2. /\ isThreadSuspended'[SuspendOrder[pm.k]]
            /\ \A u \in Thread : isThreadSuspended[u] => isThreadSuspended'[u]
        BY <3>1, <1>n DEF TypeOK
      <3>3. /\ UNCHANGED resumeEvent /\ pm.at = "await"
            /\ susEvent[SuspendOrder[pm.k]] > 0
        BY <1>5 DEF PmConfirmed
      <3>4. CASE pm.k < 3
        BY <1>5, <1>n, <3>2, <3>3, <3>4 DEF PmConfirmed
      <3>5. CASE ~(pm.k < 3)
        <4>1. pm.k = 3
          BY <1>n, <3>5
        <4> QED BY <4>1, <1>5, <1>n, <3>2, <3>3, <3>5 DEF PmConfirmed
      <3> QED BY <3>4, <3>5
    <2>2. \A u : Stands(u)' <=> Stands(u)
      BY <1>1, <2>1 DEF Stands
    <2>3. Stands(SuspendOrder[pm.k])
      BY <2>1 DEF Handshake
    <2>4. \A k \in 1..3 : StoppedSoFar(k)' => StoppedSoFar(k) \/ k = pm.k
      BY <1>n, <2>1 DEF StoppedSoFar
    <2>5. pm'.at \in {"indicate", "idle"} /\ (isWlanSuspended' => pm'.at = "idle")
      BY <2>1 DEF Handshake
    <2> QED BY <1>1, <1>n, <2>1, <2>2, <2>3, <2>4, <2>5 DEF Handshake
  <1>6. CASE PmTimeout
    <2>1. /\ UNCHANGED <<resumeEvent, isThreadSuspended, isWlanSuspended>>
          /\ pm.at = "await" /\ pm'.at \in {"idle", "rollback"}
      BY <1>6 DEF PmTimeout, susVars
    <2>2. ~isWlanSuspended
      BY <2>1 DEF Handshake
    <2>3. \A k \in 1..3 : ~StoppedSoFar(k)'
      BY <2>1, <2>2 DEF StoppedSoFar
    <2> QED BY <1>1, <2>1, <2>2, <2>3 DEF Handshake
  <1>7. CASE PmWakeThread
    <2>1. /\ pm.at \in {"rollback", "resume"}
          /\ \/ pm'.at = pm.at /\ UNCHANGED isWlanSuspended
             \/ /\ pm'.at = "idle"
                /\ isWlanSuspended' = (IF pm.at = "resume" THEN FALSE
                                                           ELSE isWlanSuspended)
      <3>1. pm \in PmState /\ pm.at \in {"rollback", "resume"}
        BY <1>7 DEF PmWakeThread, TypeOK
      <3>2. CASE pm.k > 1
        <4>1. pm' = [pm EXCEPT !.k = @ - 1] /\ UNCHANGED isWlanSuspended
          BY <1>7, <3>2 DEF PmWakeThread
        <4> QED BY <3>1, <4>1 DEF PmState
      <3>3. CASE ~(pm.k > 1)
        <4>1. /\ pm' = [at |-> "idle", k |-> 1]
              /\ isWlanSuspended' = IF pm.at = "resume" THEN FALSE ELSE isWlanSuspended
          BY <1>7, <3>3, Zenon DEF PmWakeThread
        <4>2. pm'.at = "idle"
          BY <4>1
        <4> QED BY <3>1, <4>1, <4>2, Zenon
      <3> QED BY <3>2, <3>3
    <2>2. isWlanSuspended' => pm'.at = "resume"
      BY <2>1 DEF Handshake
    <2>3. \A k \in 1..3 : ~StoppedSoFar(k)'
      BY <2>1, <2>2 DEF StoppedSoFar
    <2> QED BY <1>1, <2>1, <2>2, <2>3 DEF Handshake
  <1> QED BY <1>2, <1>3, <1>4, <1>5, <1>6, <1>7 DEF PmStep

LEMMA HandshakeStep == HandshakeIInv /\ [Next]_vars => HandshakeIInv'
  <1> SUFFICES ASSUME HandshakeIInv, [Next]_vars, closer'.at = "idle"
               PROVE  Handshake'
    BY WakeupStep DEF HandshakeIInv
  <1>1. ~(ShutdownBegin \/ CloseBegin \/ CloserStep)
    <2>1. CASE ShutdownBegin \/ CloseBegin \/ CloserStop
      BY <2>1 DEF ShutdownBegin, CloseBegin, CloserStop, CloserAt
    <2>2. CASE ShutdownWake \/ CloserJoin \/ CloserFlush
      <3>1. ASSUME NEW l \in {"wake", "stop"}, NEW m \in {"stop", "flush"}, CloserNext(l, m)
            PROVE  closer'.at # "idle"
        BY <3>1 DEF CloserNext, CloserAt
      <3>2. ASSUME CloserNext("flush", "done") PROVE closer'.at # "idle"
        BY <3>2 DEF CloserNext, CloserAt
      <3> QED BY <2>2, <3>1, <3>2 DEF ShutdownWake, CloserJoin, CloserFlush
    <2> QED BY <2>1, <2>2 DEF CloserStep
  <1>2. closer' = closer
    BY <1>1, OthersLeaveControl, ExitIsFinal DEF Next, HandshakeIInv, WakeupInv, vars
  <1>3. TypeOK /\ Handshake
    BY <1>2 DEF HandshakeIInv, WakeupInv
  <1>4. CASE UNCHANGED vars
    BY <1>3, <1>4 DEF vars, Handshake, Stands, StoppedSoFar
  <1> QED BY <1>1, <1>3, <1>4, HandshakeThread, HandshakePoster, HandshakePm DEF Next

LEMMA HandshakeInit == Init => HandshakeIInv
  <1> SUFFICES ASSUME Init PROVE Handshake
    BY WakeupInit DEF HandshakeIInv
  <1>1. /\ \A t \in Thread : eventFlag[t] = {}
        /\ pm.at = "idle" /\ ~isWlanSuspended
    BY DEF Init
  <1> QED BY <1>1 DEF Handshake, StoppedSoFar

(***************************************************************************)
(* While HDD takes the driver for suspended no thread runs, whatever       *)
(* confirmations and resumptions earlier suspensions left behind when they *)
(* timed out and were rolled back, and whether or not the driver may also  *)
(* be shut down; and no message is missed: see HandshakeInv.               *)
(***************************************************************************)
THEOREM HandshakeCorrect == Spec => []HandshakeInv
  <1>1. HandshakeIInv => HandshakeInv
    <2> SUFFICES ASSUME HandshakeIInv, isWlanSuspended, pm.at = "idle",
                        closer.at = "idle", NEW t \in Thread
                 PROVE  isThreadSuspended[t] /\ pc[t] \in {"initResume", "suspended"}
      BY DEF HandshakeInv, QuiescentWhileSuspended, HandshakeIInv
    <2>1. PICK k \in 1..3 : SuspendOrder[k] = t
      BY PmFields DEF HandshakeIInv, WakeupInv
    <2> QED BY <2>1 DEF HandshakeIInv, Handshake, StoppedSoFar, Stands
  <1> QED BY <1>1, HandshakeInit, HandshakeStep, PTL DEF Spec

-----------------------------------------------------------------------------
(***************************************************************************)
(* The restart.                                                            *)
(***************************************************************************)
LEMMA WdTypeStep ==
  ASSUME WdTypeOK, [WdNext]_wdVars
  PROVE  WdTypeOK'
  <1> USE DEF WdTypeOK, ReInitLabel
  <1>1. CASE RemoteCrash
    BY <1>1, MaxCrashAssumption DEF RemoteCrash, hddVars
  <1>2. CASE RemoteBoot
    BY <1>2 DEF RemoteBoot, hddVars
  <1>3. CASE NotifyStep
    <2>1. CASE ReportCrash \/ ReportCheckUnload
      BY <2>1 DEF ReportCrash, ReportCheckUnload, hddVars
    <2>2. CASE NotifyAsk
      BY <2>2 DEF NotifyAsk, hddVars, SetWdBit, WdBit
    <2>3. CASE NotifyPost
      BY <2>3 DEF NotifyPost, hddVars, SetWdBit, WdBit
    <2> QED BY <1>3, <2>1, <2>2, <2>3 DEF NotifyStep
  <1>4. CASE WdStep
    <2>1. CASE WdFinishShutdown \/ WdNothing
      <3>1. CASE WdFinishShutdown
        BY <3>1 DEF WdFinishShutdown, envVars
      <3>2. CASE WdNothing
        BY <3>2 DEF WdNothing, hddVars, envVars
      <3> QED BY <2>1, <3>1, <3>2
    <2>3. CASE WdWake \/ WdExit
      <3>1. wdEventFlag' \subseteq WdBit
        BY <2>3 DEF WdWake, WdExit, ClearWdBit
      <3>2. CASE WdWake
        BY <3>1, <3>2 DEF WdWake, hddVars, envVars
      <3>3. CASE WdExit
        BY <3>1, <3>3 DEF WdExit, hddVars, envVars
      <3> QED BY <2>3, <3>2, <3>3
    <2>4. CASE WdStartShutdown \/ WdStartReInit
      <3>1. wdEventFlag' \subseteq WdBit
        BY <2>4 DEF WdStartShutdown, WdStartReInit, ClearWdBit
      <3>2. CASE WdStartShutdown
        BY <3>1, <3>2 DEF WdStartShutdown, hddVars, envVars
      <3>3. CASE WdStartReInit
        BY <3>1, <3>3 DEF WdStartReInit, hddVars, envVars
      <3> QED BY <2>4, <3>2, <3>3
    <2>2. CASE WdReInitOpen \/ WdReInitStart \/ WdReInitUnblock
               \/ WdReInitDone \/ WdReInitFail
      BY <2>2 DEF WdReInitOpen, WdReInitStart, WdReInitUnblock, WdReInitDone,
           WdReInitFail, hddVars, envVars
    <2> QED BY <1>4, <2>1, <2>2, <2>3, <2>4 DEF WdStep
  <1>5. CASE ExitCheck \/ ModuleStep
    <2>1. CASE ExitStopWatchdog
      BY <2>1 DEF ExitStopWatchdog, hddVars, envVars, WdBit
    <2>2. CASE ~ExitStopWatchdog
      BY <1>5, <2>2 DEF ExitCheck, ModuleStep, LoadDone, ExitBegin, ExitClose,
           ExitDone, hddVars, envVars
    <2> QED BY <2>1, <2>2
  <1>6. CASE UNCHANGED wdVars
    BY <1>6 DEF wdVars
  <1> QED BY <1>1, <1>2, <1>3, <1>4, <1>5, <1>6 DEF WdNext

\* Once the module's exit has passed its test it never goes back.
LEMMA InUseStep ==
  ASSUME WdTypeOK, [WdNext]_wdVars, InUse'
  PROVE  InUse
  BY DEF InUse, WdNext, wdVars, RemoteCrash, RemoteBoot, NotifyStep, ReportCrash,
     ReportCheckUnload, NotifyAsk, NotifyPost, WdStep, WdWake, WdExit,
     WdStartShutdown, WdFinishShutdown, WdStartReInit, WdNothing, WdReInitOpen,
     WdReInitStart, WdReInitUnblock, WdReInitDone, WdReInitFail, ExitCheck,
     ModuleStep, LoadDone, ExitBegin, ExitClose, ExitStopWatchdog, ExitDone

(***************************************************************************)
(* An outage is covered by resetInProgress, whatever reports are ignored.  *)
(***************************************************************************)
LEMMA OutageStep ==
  ASSUME WdTypeOK, OutageInv, InUse, InUse', [WdNext]_wdVars
  PROVE  OutageInv'
  <1> USE DEF OutageInv, WdTypeOK, InUse, ReInitLabel
  <1>1. CASE RemoteCrash \/ RemoteBoot \/ NotifyStep
    BY <1>1 DEF RemoteCrash, RemoteBoot, NotifyStep, ReportCrash,
         ReportCheckUnload, NotifyAsk, NotifyPost, hddVars, SetWdBit
  <1>2. CASE WdStep
    <2>1. CASE WdWake \/ WdExit \/ WdStartShutdown \/ WdFinishShutdown
               \/ WdStartReInit \/ WdNothing
      BY <2>1 DEF WdWake, WdExit, WdStartShutdown, WdFinishShutdown,
           WdStartReInit, WdNothing, hddVars, ClearWdBit
    <2>2. CASE WdReInitOpen \/ WdReInitStart \/ WdReInitUnblock
               \/ WdReInitDone \/ WdReInitFail
      BY <2>2 DEF WdReInitOpen, WdReInitStart, WdReInitUnblock, WdReInitDone,
           WdReInitFail, hddVars
    <2> QED BY <1>2, <2>1, <2>2 DEF WdStep
  <1>3. CASE ExitCheck \/ ModuleStep
    BY <1>3 DEF ExitCheck, ModuleStep, LoadDone, ExitBegin, ExitClose,
         ExitStopWatchdog, ExitDone, hddVars
  <1>4. CASE UNCHANGED wdVars
    BY <1>4 DEF wdVars
  <1> QED BY <1>1, <1>2, <1>3, <1>4 DEF WdNext

(***************************************************************************)
(* As long as no report is ignored, one outage is dealt with at a time.    *)
(***************************************************************************)
LEMMA OneOutageStep ==
  ASSUME WdTypeOK, OutageInv, OneOutageInv, InUse, InUse', ~ignored',
         [WdNext]_wdVars
  PROVE  OneOutageInv'
  <1> USE DEF OutageInv, OneOutageInv, WdTypeOK, InUse, ReInitLabel,
        ShutdownPending, ReInitPending, AwaitingReInit
  <1>1. CASE RemoteCrash
    BY <1>1 DEF RemoteCrash, hddVars
  <1>2. CASE ReportCrash
    BY <1>2 DEF ReportCrash
  <1>3. CASE ReportCheckUnload
    BY <1>3 DEF ReportCheckUnload, hddVars
  <1>4. CASE RemoteBoot
    BY <1>4 DEF RemoteBoot, Listening, hddVars
  <1>5. CASE NotifyAsk
    BY <1>5 DEF NotifyAsk, hddVars, SetWdBit
  <1>6. CASE NotifyPost
    BY <1>6 DEF NotifyPost, hddVars, SetWdBit
  <1>7. CASE WdWake \/ WdExit \/ WdNothing
    BY <1>7 DEF WdWake, WdExit, WdNothing, hddVars, envVars, ClearWdBit
  <1>8. CASE WdStartShutdown
    BY <1>8 DEF WdStartShutdown, hddVars, envVars, ClearWdBit
  <1>9. CASE WdFinishShutdown
    BY <1>9 DEF WdFinishShutdown, envVars
  <1>10. CASE WdStartReInit
    BY <1>10 DEF WdStartReInit, hddVars, envVars, ClearWdBit
  <1>11. CASE WdReInitOpen \/ WdReInitStart
    BY <1>11 DEF WdReInitOpen, WdReInitStart, hddVars, envVars
  <1>12. CASE WdReInitUnblock
    BY <1>12 DEF WdReInitUnblock, envVars
  <1>13. CASE WdReInitDone
    BY <1>13 DEF WdReInitDone, envVars
  <1>14. CASE WdReInitFail
    BY <1>14 DEF WdReInitFail, envVars
  <1>15. CASE ExitCheck \/ ModuleStep
    BY <1>15 DEF ExitCheck, ModuleStep, LoadDone, ExitBegin, ExitClose,
         ExitStopWatchdog, ExitDone, hddVars, envVars
  <1>16. CASE UNCHANGED wdVars
    BY <1>16 DEF wdVars
  <1> QED BY <1>1, <1>2, <1>3, <1>4, <1>5, <1>6, <1>7, <1>8, <1>9, <1>10,
       <1>11, <1>12, <1>13, <1>14, <1>15, <1>16 DEF WdNext, NotifyStep, WdStep

\* A report once ignored stays so in the history.
LEMMA IgnoredStep ==
  ASSUME WdTypeOK, [WdNext]_wdVars, ~ignored'
  PROVE  ~ignored
  BY Zenon DEF WdNext, wdVars, RemoteCrash, RemoteBoot, NotifyStep, ReportCrash,
     ReportCheckUnload, NotifyAsk, NotifyPost, WdStep, WdWake, WdExit,
     WdStartShutdown, WdFinishShutdown, WdStartReInit, WdNothing, WdReInitOpen,
     WdReInitStart, WdReInitUnblock, WdReInitDone, WdReInitFail, ExitCheck,
     ModuleStep, LoadDone, ExitBegin, ExitClose, ExitStopWatchdog, ExitDone

(***************************************************************************)
(* The inductive invariant.                                                *)
(***************************************************************************)
THEOREM WatchdogCorrect == WdSpec => []WatchdogInv
  <1>1. WdInit => WatchdogInv
    <2>1. ASSUME WdInit PROVE WdTypeOK
      <3>1. crashes \in 0..MaxCrash
        BY <2>1, MaxCrashAssumption DEF WdInit
      <3>2. wdEventFlag \subseteq WdBit
        BY <2>1 DEF WdInit
      <3> QED BY <2>1, <3>1, <3>2 DEF WdInit, WdTypeOK, ReInitLabel
    <2>2. WdInit => OutageInv
      BY DEF WdInit, OutageInv
    <2>3. WdInit => OneOutageInv
      BY DEF WdInit, OneOutageInv, ShutdownPending, ReInitPending, ReInitLabel
    <2> QED BY <2>1, <2>2, <2>3 DEF WatchdogInv
  <1>2. WatchdogInv /\ [WdNext]_wdVars => WatchdogInv'
    BY WdTypeStep, InUseStep, OutageStep, OneOutageStep, IgnoredStep
       DEF WatchdogInv
  <1> QED BY <1>1, <1>2, PTL DEF WdSpec

(***************************************************************************)
(* vos_watchdog never shuts down a driver that is not up: see              *)
(* ShutdownOnlyWhenUp.                                                     *)
(***************************************************************************)
THEOREM ShutdownCorrect == WdSpec => []ShutdownOnlyWhenUp
  <1>1. WatchdogInv => ShutdownOnlyWhenUp
    BY DEF WatchdogInv, OutageInv, ShutdownOnlyWhenUp
  <1> QED BY <1>1, WatchdogCorrect, PTL

(***************************************************************************)
(* The module's exit waits for the end of an outage, and commands are      *)
(* blocked throughout it as long as no crash report is ignored: see        *)
(* ResetCoversOutage and CommandsBlocked.                                  *)
(***************************************************************************)
THEOREM OutageCorrect == WdSpec => []OutageCovered
  <1>1. WatchdogInv => ResetCoversOutage
    BY DEF WatchdogInv, OutageInv, ResetCoversOutage
  <1>2. WatchdogInv => CommandsBlocked
    BY DEF WatchdogInv, OutageInv, OneOutageInv, CommandsBlocked
  <1>3. WatchdogInv => OutageCovered
    BY <1>1, <1>2 DEF OutageCovered
  <1> QED BY <1>3, WatchdogCorrect, PTL

(***************************************************************************)
(* The driver is re-initialised only when it is down as long as no crash   *)
(* report is ignored: see ReInitAfterShutdown.                             *)
(***************************************************************************)
THEOREM ReInitCorrect == WdSpec => []ReInitAfterShutdown
  <1>1. WatchdogInv => ReInitAfterShutdown
    BY DEF WatchdogInv, OneOutageInv, ReInitAfterShutdown
  <1> QED BY <1>1, WatchdogCorrect, PTL

=============================================================================
