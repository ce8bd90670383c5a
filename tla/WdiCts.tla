------------------------------- MODULE WdiCts -------------------------------
(***************************************************************************)
(* The control transport: it sends the driver's control messages to the    *)
(* remote processor over an SMD channel, defers what the channel has no    *)
(* room for, and takes part in the restart of the remote processor.        *)
(*                                                                         *)
(* Source: CORE/WDI/TRP/CTS/src/wlan_qct_wdi_cts.c, with the callers that  *)
(* order its operations: WDI_Shutdown and WDI_Init (CORE/WDI/CP), the      *)
(* shutdown of the driver's threads (hdd_wlan_shutdown).                   *)
(*                                                                         *)
(* SMD calls WCTS_NotifyCallback in interrupt context; everything else     *)
(* runs in the control (MC) thread, the restart in the watchdog's.  An     *)
(* interrupt can come between any two steps of the control thread: mc      *)
(* names the place in the code the thread has reached.  A notification is  *)
(* one step with the event that causes it: a later interrupt is the same   *)
(* as a later event.                                                       *)
(***************************************************************************)
EXTENDS Naturals, Sequences

CONSTANTS
  Room,      \* how many messages the channel holds
  MaxMsg,    \* bound: how many messages are sent
  MaxCrash,  \* bound: how often the remote processor crashes
  Silent     \* the messages the remote processor does not answer

ASSUME RoomAssumption == Room \in Nat \ {0}

ASSUME BoundAssumption == MaxMsg \in Nat /\ MaxCrash \in Nat

VARIABLES
  wctsState, wctsPendingQueue,
  readIntr,        \* whether the remote end interrupts us when it reads
  mcq,             \* the WDI message queue of the control thread
  mc,              \* where the control thread is
  ret,             \* where it goes when WCTS_SendMessage returns
  opened,          \* whether WCTS_OpenTransport has returned
  ssr, reInit,     \* the restart: "up", "asked" or "down"; re-init asked
  remote, fifo,    \* the remote processor, and the channel towards it
  owed, inbox,     \* the answers it owes, its messages not read yet
  next, crashes,   \* messages sent and crashes so far
  session          \* history: the driver talks to the firmware it set up

ctsVars == <<wctsState, wctsPendingQueue, readIntr>>
ssrVars == <<opened, ssr, reInit, session>>
remVars == <<remote, owed, crashes>>
vars == <<wctsState, wctsPendingQueue, readIntr, mcq, mc, ret, opened, ssr,
          reInit, remote, fifo, owed, inbox, next, crashes, session>>

\* WCTS_OpenTransport has opened the SMD channel and waits for it.
Init ==
  /\ wctsState = "OPEN_PENDING" /\ wctsPendingQueue = <<>>
  /\ readIntr = TRUE
  /\ mcq = <<>> /\ mc = "idle" /\ ret = "idle"
  /\ opened = FALSE /\ ssr = "up" /\ reInit = FALSE /\ session = FALSE
  /\ remote = "opening" /\ fifo = <<>> /\ owed = 0 /\ inbox = 0
  /\ next = 1 /\ crashes = 0

-----------------------------------------------------------------------------
(* The SMD channel's notifications, in interrupt context. *)

\* SMD_EVENT_DATA goes to the control thread unless the remote end is closed.
NotifyData ==
  mcq' = IF wctsState = "REM_CLOSED" THEN mcq ELSE Append(mcq, "data")

\* The channel opens, empty: a restart when it was closed before.  A restart
\* of the firmware takes seconds, the control thread's current message does
\* not.
NotifyOpen ==
  /\ remote \in {"opening", "crashed"} /\ mc = "idle"
  /\ remote' = "up" /\ fifo' = <<>> /\ owed' = 0 /\ inbox' = 0
  /\ \/ /\ wctsState = "REM_CLOSED"
        /\ reInit' = TRUE
        /\ UNCHANGED mcq
     \/ /\ wctsState # "REM_CLOSED"
        /\ mcq' = Append(mcq, "open")
        /\ UNCHANGED reInit
  /\ UNCHANGED <<ctsVars, mc, ret, opened, ssr, next, crashes, session>>

\* The remote processor crashes: the watchdog is told, which ignores it while
\* it deals with an earlier crash.
NotifyClose ==
  /\ remote = "up" /\ opened /\ crashes < MaxCrash
  /\ remote' = "crashed" /\ crashes' = crashes + 1
  /\ wctsState' = "REM_CLOSED"
  /\ ssr' = IF ssr = "up" THEN "asked" ELSE ssr
  /\ session' = FALSE
  /\ UNCHANGED <<wctsPendingQueue, readIntr, mcq, mc, ret, opened, reInit,
                 fifo, owed, inbox, next>>

\* The remote processor reads a message, and SMD tells us when we asked it to.
RemoteRead ==
  /\ remote = "up" /\ fifo # <<>>
  /\ fifo' = Tail(fifo)
  /\ owed' = IF Head(fifo) \in Silent THEN owed ELSE owed + 1
  /\ \/ readIntr /\ NotifyData
     \/ ~readIntr /\ UNCHANGED mcq
  /\ UNCHANGED <<ctsVars, ssrVars, mc, ret, remote, inbox, next, crashes>>

RemoteAnswer ==
  /\ remote = "up" /\ owed > 0
  /\ owed' = owed - 1 /\ inbox' = inbox + 1
  /\ NotifyData
  /\ UNCHANGED <<ctsVars, ssrVars, mc, ret, remote, fifo, next, crashes>>

-----------------------------------------------------------------------------
(* The control thread serves its WDI messages. *)

\* WCTS_PALOpenCallback lets WCTS_OpenTransport proceed.
PALOpenCallback ==
  /\ mc = "idle" /\ ssr # "down" /\ mcq # <<>> /\ Head(mcq) = "open"
  /\ mcq' = Tail(mcq)
  /\ wctsState' = IF wctsState = "OPEN_PENDING" THEN "OPEN" ELSE wctsState
  /\ UNCHANGED <<wctsPendingQueue, readIntr, mc, ret, ssrVars, remVars, fifo,
                 inbox, next>>

\* WCTS_OpenTransport has been woken up.
OpenTransport ==
  /\ ~opened /\ wctsState = "OPEN"
  /\ opened' = TRUE /\ readIntr' = FALSE /\ session' = TRUE
  /\ UNCHANGED <<wctsState, wctsPendingQueue, mcq, mc, ret, ssr, reInit,
                 remVars, fifo, inbox, next>>

PALDataCallback ==
  /\ mc = "idle" /\ ssr # "down" /\ mcq # <<>> /\ Head(mcq) = "data"
  /\ mcq' = Tail(mcq) /\ mc' = "read"
  /\ UNCHANGED <<ctsVars, ret, ssrVars, remVars, fifo, inbox, next>>

\* WCTS_PALReadCallback hands a message up, and the control path may send one
\* from within the callback.
ReadMessage ==
  /\ mc = "read" /\ inbox > 0
  /\ inbox' = inbox - 1
  /\ \/ UNCHANGED <<mc, ret, next>>
     \/ next <= MaxMsg /\ mc' = "send" /\ ret' = "read" /\ next' = next + 1
  /\ UNCHANGED <<ctsVars, mcq, ssrVars, remVars, fifo>>

\* Fault in ReadDone: WCTS_PALDataCallback reads and does not write.
ReadDoneOnly ==
  /\ mc = "read" /\ inbox = 0
  /\ mc' = "idle"
  /\ UNCHANGED <<ctsVars, mcq, ret, ssrVars, remVars, fifo, inbox, next>>

\* Nothing more to read: WCTS_PALWriteCallback has work only when deferred.
ReadDone ==
  /\ mc = "read" /\ inbox = 0
  /\ mc' = IF wctsState = "DEFERRED" THEN "drain" ELSE "idle"
  /\ UNCHANGED <<ctsVars, mcq, ret, ssrVars, remVars, fifo, inbox, next>>

\* smd_write: a message written to a crashed processor is gone.
Write(msg) == fifo' = IF remote = "up" THEN Append(fifo, msg) ELSE fifo

\* WCTS_PALWriteCallback sends while there is room.
DrainWrite ==
  /\ mc = "drain" /\ wctsPendingQueue # <<>> /\ Len(fifo) < Room
  /\ wctsPendingQueue' = Tail(wctsPendingQueue)
  /\ Write(Head(wctsPendingQueue))
  /\ UNCHANGED <<wctsState, readIntr, mcq, mc, ret, ssrVars, remVars, inbox,
                 next>>

DrainFull ==
  /\ mc = "drain" /\ wctsPendingQueue # <<>> /\ Len(fifo) >= Room
  /\ mc' = "idle"
  /\ UNCHANGED <<ctsVars, mcq, ret, ssrVars, remVars, fifo, inbox, next>>

DrainEmpty ==
  /\ mc = "drain" /\ wctsPendingQueue = <<>>
  /\ mc' = "drained"
  /\ UNCHANGED <<ctsVars, mcq, ret, ssrVars, remVars, fifo, inbox, next>>

DrainOpen ==
  /\ mc = "drained"
  /\ wctsState' = "OPEN" /\ mc' = "disable"
  /\ UNCHANGED <<wctsPendingQueue, readIntr, mcq, ret, ssrVars, remVars, fifo,
                 inbox, next>>

\* Fault in DrainDisable: the remote read interrupt stays on.
DrainNotDisable ==
  /\ mc = "disable" /\ mc' = "idle"
  /\ UNCHANGED <<ctsVars, mcq, ret, ssrVars, remVars, fifo, inbox, next>>

DrainDisable ==
  /\ mc = "disable"
  /\ readIntr' = FALSE /\ mc' = "idle"
  /\ UNCHANGED <<wctsState, wctsPendingQueue, mcq, ret, ssrVars, remVars, fifo,
                 inbox, next>>

-----------------------------------------------------------------------------
(* WCTS_SendMessage, always in the control thread. *)

\* The message in the hands of WCTS_SendMessage.
Msg == next - 1

SendMessage ==
  /\ mc = "idle" /\ opened /\ ssr # "down" /\ next <= MaxMsg
  /\ mc' = "send" /\ ret' = "idle" /\ next' = next + 1
  /\ UNCHANGED <<ctsVars, mcq, ssrVars, remVars, fifo, inbox>>

\* Fault in SendWrite: the room is tested, the state is not.
SendWriteUntested ==
  /\ mc = "send"
  /\ \/ Len(fifo) < Room /\ Write(Msg) /\ mc' = ret
     \/ Len(fifo) >= Room /\ mc' = "queue" /\ UNCHANGED fifo
  /\ UNCHANGED <<ctsVars, mcq, ret, ssrVars, remVars, inbox, next>>

\* The test of the state, and smd_write when there is room.
SendWrite ==
  /\ mc = "send"
  /\ \/ /\ wctsState = "OPEN" /\ Len(fifo) < Room
        /\ Write(Msg) /\ mc' = ret
     \/ /\ \/ wctsState = "OPEN" /\ Len(fifo) >= Room
           \/ wctsState = "DEFERRED"
        /\ mc' = "queue" /\ UNCHANGED fifo
     \/ /\ wctsState \notin {"OPEN", "DEFERRED"}
        /\ mc' = ret /\ UNCHANGED fifo
  /\ UNCHANGED <<ctsVars, mcq, ret, ssrVars, remVars, inbox, next>>

\* The message is put on the pending queue and the state becomes deferred.
SendQueue ==
  /\ mc = "queue"
  /\ wctsPendingQueue' = Append(wctsPendingQueue, Msg)
  /\ wctsState' = "DEFERRED"
  /\ mc' = IF wctsState = "DEFERRED" THEN ret ELSE "enable"
  /\ UNCHANGED <<readIntr, mcq, ret, ssrVars, remVars, fifo, inbox, next>>

SendEnable ==
  /\ mc = "enable"
  /\ readIntr' = TRUE /\ mc' = ret
  /\ UNCHANGED <<wctsState, wctsPendingQueue, mcq, ret, ssrVars, remVars, fifo,
                 inbox, next>>

-----------------------------------------------------------------------------
(* The restart, in the watchdog thread. *)

\* hdd_wlan_shutdown waits for the control thread to exit, clears the pending
\* queue (WCTS_ClearPendingQueue) and flushes the message queues.
Shutdown ==
  /\ ssr = "asked" /\ mc = "idle"
  /\ ssr' = "down" /\ wctsPendingQueue' = <<>> /\ mcq' = <<>>
  /\ UNCHANGED <<wctsState, readIntr, mc, ret, opened, reInit, session,
                 remVars, fifo, inbox, next>>

\* hdd_wlan_re_init: the message queues are set up again, and
\* WCTS_OpenTransport finds the channel open.
ReOpenTransport ==
  /\ ssr = "down" /\ reInit
  /\ ssr' = "up" /\ reInit' = FALSE /\ mcq' = <<>>
  /\ wctsState' = "OPEN" /\ readIntr' = FALSE
  /\ session' = (remote = "up")
  /\ UNCHANGED <<wctsPendingQueue, mc, ret, opened, remVars, fifo, inbox, next>>

-----------------------------------------------------------------------------
Remote == NotifyOpen \/ NotifyClose \/ RemoteRead \/ RemoteAnswer

McServe ==
  \/ PALOpenCallback \/ PALDataCallback \/ ReadMessage \/ ReadDone
  \/ DrainWrite \/ DrainFull \/ DrainEmpty \/ DrainOpen \/ DrainDisable
  \/ SendWrite \/ SendQueue \/ SendEnable

Next ==
  Remote \/ McServe \/ SendMessage \/ OpenTransport \/ Shutdown
  \/ ReOpenTransport

Spec == Init /\ [][Next]_vars

\* The control thread is scheduled, and a running firmware serves the channel.
FairSpec ==
  /\ Spec
  /\ WF_vars(McServe)
  /\ WF_vars(RemoteRead) /\ WF_vars(RemoteAnswer)

-----------------------------------------------------------------------------
StateType ==
  /\ wctsState \in {"OPEN_PENDING", "OPEN", "DEFERRED", "REM_CLOSED"}
  /\ mc \in {"idle", "read", "drain", "drained", "disable", "send", "queue",
             "enable"}
  /\ ret \in {"idle", "read"}
  /\ ssr \in {"up", "asked", "down"}
  /\ remote \in {"opening", "up", "crashed"}

FlagType ==
  /\ readIntr \in BOOLEAN /\ opened \in BOOLEAN
  /\ reInit \in BOOLEAN /\ session \in BOOLEAN

QueueType ==
  /\ wctsPendingQueue \in Seq(Nat) /\ fifo \in Seq(Nat)
  /\ mcq \in Seq({"open", "data"})

CountType ==
  /\ owed \in Nat /\ inbox \in Nat /\ crashes \in Nat
  /\ next \in Nat \ {0}

TypeOK == StateType /\ FlagType /\ QueueType /\ CountType

\* Between two messages of a session the transport is deferred exactly when it
\* holds messages back, and exactly then the remote end's reads are reported:
\* the state machine of WCTS_SendMessage and WCTS_PALWriteCallback.
DeferredWhilePending ==
  session /\ mc = "idle" =>
    /\ wctsState = IF wctsPendingQueue = <<>> THEN "OPEN" ELSE "DEFERRED"
    /\ readIntr = (wctsPendingQueue # <<>>)

-----------------------------------------------------------------------------
(* The parts of the inductive invariant behind these properties. *)

\* What the state, the pending queue and the read interrupt say of each other
\* at every place of the control thread.
Consistent ==
  /\ mc \in {"idle", "read", "send", "queue"} =>
       /\ wctsState = IF wctsPendingQueue = <<>> THEN "OPEN" ELSE "DEFERRED"
       /\ readIntr = (wctsPendingQueue # <<>>)
  /\ mc = "enable" => wctsState = "DEFERRED" /\ wctsPendingQueue # <<>>
  /\ mc = "drain" => wctsState = "DEFERRED" /\ readIntr
  /\ mc = "drained" => wctsState = "DEFERRED" /\ wctsPendingQueue = <<>>
  /\ mc = "disable" => wctsState = "OPEN" /\ wctsPendingQueue = <<>>

InSession ==
  session => opened /\ ssr = "up" /\ remote = "up" /\ Consistent

\* Until the transport is open nothing is sent, so nothing is answered.
Opening ==
  ~opened =>
    /\ wctsState \in {"OPEN_PENDING", "OPEN"} /\ wctsPendingQueue = <<>>
    /\ fifo = <<>> /\ owed = 0 /\ mcq \in Seq({"open"}) /\ mc = "idle"
    /\ ssr = "up" /\ ~reInit /\ ~session
    /\ remote = "up" \/ (remote = "opening" /\ mcq = <<>>
                          /\ wctsState = "OPEN_PENDING")

\* A re-initialisation is asked for only while the transport knows that the
\* remote end closed; it then sends nothing until it is opened again.
Restarting ==
  /\ wctsState = "REM_CLOSED" => ssr # "up"
  /\ reInit => /\ wctsState = "REM_CLOSED" /\ fifo = <<>>
               /\ mc \in {"idle", "read", "send"}
  /\ ssr = "down" => wctsPendingQueue = <<>> /\ mc = "idle"

Sending == mc \in {"send", "queue"} => next >= 2

CtsInv == TypeOK /\ InSession /\ Opening /\ Restarting /\ Sending

-----------------------------------------------------------------------------
\* The message WCTS_SendMessage accepted last.
Accepted == IF mc \in {"send", "queue"} THEN next - 2 ELSE next - 1

Channel == INSTANCE CtrlChannel WITH
  up <- session, chan <- fifo \o wctsPendingQueue, last <- Accepted

\* The transport is a FIFO channel: within a session no message is lost,
\* repeated or overtaken, whether it was deferred or not, and a session that
\* follows a restart does not begin with messages of the one before.
ChannelSpec == Channel!Spec

\* A deferred message is sent, unless the remote processor crashes: "we enable
\* the remote read interrupt so that we'll be notified when messages are read
\* from the remote end" (WCTS_SendMessage).
DeferredIsSent ==
  session /\ wctsPendingQueue # <<>> ~> wctsPendingQueue = <<>> \/ ~session

=============================================================================
