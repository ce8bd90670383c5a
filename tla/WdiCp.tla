------------------------------- MODULE WdiCp -------------------------------
(***************************************************************************)
(* The WDI control path (wlan_qct_wdi.c): the state machine that sends the *)
(* requests of the upper layers to the firmware one at a time, queues      *)
(* those that come meanwhile, and hands the responses up.                  *)
(*                                                                         *)
(* The control thread runs the transport's callbacks, the dequeued         *)
(* requests, the response timer and WDA; insmod and rmmod download the NV  *)
(* image, start and stop from their own context.  WDI_PostMainEvent holds  *)
(* a recursive mutex from its first to its last line, callbacks to the     *)
(* upper layers included, and is one step.                                 *)
(***************************************************************************)
EXTENDS Naturals, Sequences, Functions

CONSTANTS
  MaxReq,       \* requests of WDA are numbered from 2 to MaxReq
  Suspend,      \* those that are host-suspend indications: no response
  Told,         \* those with a request status callback (wdiReqStatusCB)
  Fragments     \* fragments of the NV image (usTotalFragment)

NvDownload == 0
StartReq   == 1
WdaReq     == 2 .. MaxReq
StopReq    == MaxReq + 1
Request    == 0 .. StopReq
NoReq      == MaxReq + 2      \* no request, and WDI_MAX_RESP

ASSUME MaxReqAssumption    == MaxReq \in Nat /\ MaxReq >= 2
ASSUME SuspendAssumption   == Suspend \subseteq WdaReq
ASSUME ToldAssumption      == Told \subseteq WdaReq
ASSUME FragmentsAssumption == Fragments \in Nat \ {0}

VARIABLES
  cb,       \* gWDICb, and what its functions change with it: see CbType
  mc,       \* the request WDI_PALCtrlMsgCB has in hand, or NoReq
  caller,   \* how far insmod and rmmod have got
  next,     \* the next request of WDA
  expiry,   \* an expiry of the response timer is in the SYS queue
  fw        \* the firmware is "up" or "down"

vars == <<cb, mc, caller, next, expiry, fw>>

State  == {"INIT", "STARTED", "STOPPED", "BUSY"}
Caller == {"nv", "nvWait", "startWait", "stop", "stopWait", "shut"}

\* new: not posted yet; queued: waits in the driver; sent: the firmware has it.
Fate == {"new", "queued", "sent", "answered", "failed"}

CbType ==
  [uGlobalState        : State,
   wdiExpectedResponse : Request \cup {NoReq},
   bCTOpened           : BOOLEAN,
   wptPendingQueue     : Seq(Request),
   posted              : Seq([req : Request, val : State]),
                         \* WDI messages to the control thread
   hal                 : SUBSET Request,   \* not answered by the firmware
   timer               : BOOLEAN,          \* the response timer runs
   usCurrentFragment   : 0 .. Fragments,
   wdiFailed           : BOOLEAN,          \* WDA: a fatal error was indicated
   fate                : [Request -> Fate]]

Init ==
  /\ cb = [uGlobalState |-> "INIT", wdiExpectedResponse |-> NoReq,
           bCTOpened |-> FALSE, wptPendingQueue |-> <<>>, posted |-> <<>>,
           hal |-> {}, timer |-> FALSE, usCurrentFragment |-> 0,
           wdiFailed |-> FALSE, fate |-> [r \in Request |-> "new"]]
  /\ mc = NoReq /\ caller = "nv" /\ next = 2 /\ expiry = FALSE /\ fw = "up"

-----------------------------------------------------------------------------
(* The functions of wlan_qct_wdi.c, from a control block to a control block *)

WithFate(c, rs, f) ==
  [c EXCEPT !.fate = [r \in Request |-> IF r \in rs THEN f ELSE @[r]]]

\* Fault: the request is put at the front of the list.
QueuePendingReqFront(c, r) ==
  [WithFate(c, {r}, "queued") EXCEPT
     !.wptPendingQueue = <<r>> \o @]

QueuePendingReq(c, r) ==
  [WithFate(c, {r}, "queued") EXCEPT
     !.wptPendingQueue = Append(@, r)]

\* Fault: the request stays in the list.
DequeuePendingReqPeek(c) ==
  IF c.wptPendingQueue = <<>> THEN c
  ELSE [c EXCEPT !.posted = Append(@, [req |-> Head(c.wptPendingQueue),
                                       val |-> c.uGlobalState]),
                 !.uGlobalState = "BUSY"]

\* The first pending request goes to the control thread with the state it is
\* to be looked at in; until then the state is BUSY.
DequeuePendingReq(c) ==
  IF c.wptPendingQueue = <<>> THEN c
  ELSE [c EXCEPT !.wptPendingQueue = Tail(@),
                 !.posted = Append(@, [req |-> Head(c.wptPendingQueue),
                                       val |-> c.uGlobalState]),
                 !.uGlobalState = "BUSY"]

ClearPendingRequests(c) ==
  [WithFate(c, Range(c.wptPendingQueue), "failed") EXCEPT
     !.wptPendingQueue = <<>>]

\* The state is STOPPED, what is pending fails and WDA is told of a fatal error.
DetectedDeviceError(c) ==
  [ClearPendingRequests(c) EXCEPT !.uGlobalState = "STOPPED",
                                  !.wdiFailed = TRUE]

\* What WDI_SendMsg does when the transport took the message.
Sent(c, r) ==
  [WithFate(c, {r}, "sent") EXCEPT
     !.wdiExpectedResponse = r, !.hal = @ \cup {r}, !.timer = TRUE,
     !.usCurrentFragment = IF r = NvDownload THEN @ + 1 ELSE @]

\* Fault: a host-suspend indication, which has no response, leaves the state
\* machine busy.
ProcessRequestBusy(c, r, old) ==
  LET expects == [c EXCEPT !.wdiExpectedResponse = IF r \in Suspend THEN @ ELSE r]
      refused == WithFate(DetectedDeviceError(expects), {r}, "failed")
      restore(d) == DequeuePendingReq([d EXCEPT !.uGlobalState = old])
  IN  CASE fw = "up" /\ r \in Suspend    -> WithFate(c, {r}, "answered")
        [] fw = "up" /\ r \notin Suspend -> Sent(c, r)
        [] fw = "down" /\ r \in Told \ Suspend -> refused
        [] OTHER                               -> restore(refused)

\* The processing of a request in state old.  A refused one comes back as a
\* failure, for which WDI_PostMainEvent restores the old state, or as pending
\* when it has a status callback; a host-suspend indication is done when sent.
ProcessRequest(c, r, old) ==
  LET expects == [c EXCEPT !.wdiExpectedResponse = IF r \in Suspend THEN @ ELSE r]
      refused == WithFate(DetectedDeviceError(expects), {r}, "failed")
      restore(d) == DequeuePendingReq([d EXCEPT !.uGlobalState = old])
  IN  CASE fw = "up" /\ r \in Suspend    -> restore(WithFate(c, {r}, "answered"))
        [] fw = "up" /\ r \notin Suspend -> Sent(c, r)
        [] fw = "down" /\ r \in Told \ Suspend -> refused
        [] OTHER                               -> restore(refused)

\* The states in which wdiMainFSM processes the event of a request at once.  A
\* dequeued NV download of a started device is posted as a request.
Served(r) ==
  CASE r = StopReq    -> {"STARTED", "STOPPED"}
    [] r = NvDownload -> {"INIT", "STOPPED", "STARTED"}
    [] OTHER          -> {"STARTED"}

PostMainEvent(c, r) ==
  LET old  == c.uGlobalState
      busy == [c EXCEPT !.uGlobalState = "BUSY"]
  IN  CASE old = "BUSY"                             -> QueuePendingReq(c, r)
        [] old = "INIT" /\ r \notin {NvDownload, StopReq}
                                                    -> QueuePendingReq(busy, r)
        [] old = "INIT" /\ r = NvDownload /\ ~c.bCTOpened
                                                    -> QueuePendingReq(c, r)
        [] old \in Served(r) /\ (old = "INIT" => c.bCTOpened)
                                                    -> ProcessRequest(busy, r, old)
        [] OTHER -> DequeuePendingReq(WithFate(c, {r}, "failed"))

\* Fault: the response does not dequeue the next request.
ResponseNoDequeue(c, r, ok) ==
  LET taken == [WithFate(c, {r}, IF ok THEN "answered" ELSE "failed") EXCEPT
                  !.hal = @ \ {r}, !.timer = FALSE,
                  !.wdiExpectedResponse = NoReq]
      more  == r = NvDownload /\ c.usCurrentFragment # Fragments
      after(d, s) == [d EXCEPT !.uGlobalState = s]
  IN  CASE r # c.wdiExpectedResponse -> [c EXCEPT !.hal = @ \ {r}]
        [] r = c.wdiExpectedResponse /\ ~ok ->
             after(DetectedDeviceError(taken), "STOPPED")
        [] r = c.wdiExpectedResponse /\ ok /\ r = StopReq ->
             after(taken, "STOPPED")
        [] r = c.wdiExpectedResponse /\ ok /\ more ->
             after(PostMainEvent(taken, r), "STARTED")
        [] OTHER -> after(taken, "STARTED")

\* WDI_RXMsgCTSCB and WDI_MainRsp for a response; ok is its status, which some
\* responses take for a device error.
Response(c, r, ok) ==
  LET taken == [WithFate(c, {r}, IF ok THEN "answered" ELSE "failed") EXCEPT
                  !.hal = @ \ {r}, !.timer = FALSE,
                  !.wdiExpectedResponse = NoReq]
      more  == r = NvDownload /\ c.usCurrentFragment # Fragments
      after(d, s) == DequeuePendingReq([d EXCEPT !.uGlobalState = s])
  IN  CASE r # c.wdiExpectedResponse -> [c EXCEPT !.hal = @ \ {r}]
        [] r = c.wdiExpectedResponse /\ ~ok ->
             after(DetectedDeviceError(taken), "STOPPED")
        [] r = c.wdiExpectedResponse /\ ok /\ r = StopReq ->
             after(taken, "STOPPED")
        [] r = c.wdiExpectedResponse /\ ok /\ more ->
             after(PostMainEvent(taken, r), "STARTED")
        [] OTHER -> after(taken, "STARTED")

\* Fault: the state is what it was although the request was sent.
IndicationKeepsState(c, r) ==
  [PostMainEvent(c, r) EXCEPT !.uGlobalState = c.uGlobalState]

\* An indication of the RSSI, to which TL answers with a request from within
\* the callback: the state is what it was, or BUSY when the request was sent.
Indication(c, r) ==
  LET posted == PostMainEvent(c, r)
  IN  [posted EXCEPT !.uGlobalState =
         IF posted.fate[r] = "sent" THEN "BUSY" ELSE c.uGlobalState]

-----------------------------------------------------------------------------
(* insmod and rmmod *)

Alive == caller # "shut"

WdiNvDownloadReq ==
  /\ caller = "nv" /\ caller' = "nvWait"
  /\ cb' = PostMainEvent(cb, NvDownload)
  /\ UNCHANGED <<mc, next, expiry, fw>>

WdiStart ==
  /\ caller = "nvWait" /\ cb.fate[NvDownload] = "answered"
  /\ caller' = "startWait"
  /\ cb' = PostMainEvent(cb, StartReq)
  /\ UNCHANGED <<mc, next, expiry, fw>>

\* WDA_stop gives up when WDI has failed.  WDI_Stop clears what is pending in
\* one critical section and posts its event in another.
WdiStopClear ==
  /\ caller = "startWait" /\ cb.fate[StartReq] = "answered" /\ ~cb.wdiFailed
  /\ caller' = "stop"
  /\ cb' = ClearPendingRequests(cb)
  /\ UNCHANGED <<mc, next, expiry, fw>>

WdiStopPost ==
  /\ caller = "stop" /\ caller' = "stopWait"
  /\ cb' = PostMainEvent(cb, StopReq)
  /\ UNCHANGED <<mc, next, expiry, fw>>

-----------------------------------------------------------------------------
(* The control thread *)

McIdle == Alive /\ mc = NoReq

\* Fault: the request that waits for the channel is not dequeued.
NotifyOpenOnly ==
  /\ McIdle /\ ~cb.bCTOpened
  /\ cb' = [cb EXCEPT !.bCTOpened = TRUE]
  /\ UNCHANGED <<mc, caller, next, expiry, fw>>

NotifyOpen ==
  /\ McIdle /\ ~cb.bCTOpened
  /\ cb' = DequeuePendingReq([cb EXCEPT !.bCTOpened = TRUE])
  /\ UNCHANGED <<mc, caller, next, expiry, fw>>

\* WDI_PALCtrlMsgCB assigns the state without the mutex ("possible race
\* condition here if a request comes in between") ...
PALCtrlMsgRestore ==
  /\ McIdle /\ cb.posted # <<>>
  /\ mc' = Head(cb.posted).req
  /\ cb' = [cb EXCEPT !.uGlobalState = Head(cb.posted).val,
                      !.posted = Tail(@)]
  /\ UNCHANGED <<caller, next, expiry, fw>>

\* ... and posts the request's event.
PALCtrlMsgPost ==
  /\ Alive /\ mc # NoReq /\ mc' = NoReq
  /\ cb' = PostMainEvent(cb, mc)
  /\ UNCHANGED <<caller, next, expiry, fw>>

WdaRequest ==
  /\ McIdle /\ cb.fate[StartReq] = "answered" /\ next \in WdaReq
  /\ next' = next + 1
  /\ cb' = PostMainEvent(cb, next)
  /\ UNCHANGED <<mc, caller, expiry, fw>>

RxResponse ==
  /\ McIdle
  /\ \E r \in cb.hal, ok \in BOOLEAN :
       /\ r = NvDownload => ok
       /\ cb' = Response(cb, r, ok)
  /\ fw = "up"
  /\ UNCHANGED <<mc, caller, next, expiry, fw>>

RxIndication ==
  /\ McIdle /\ fw = "up" /\ cb.fate[StartReq] = "answered"
  /\ next \in WdaReq \ Suspend
  /\ next' = next + 1
  /\ cb' = Indication(cb, next)
  /\ UNCHANGED <<mc, caller, expiry, fw>>

\* A message whose length is not the one its header says.  It comes after the
\* start request, which registers the handler that WDA is told of errors by.
RxInvalid ==
  /\ McIdle /\ fw = "up" /\ cb.fate[StartReq] \notin {"new", "queued"}
  /\ cb' = DetectedDeviceError(cb)
  /\ UNCHANGED <<mc, caller, next, expiry, fw>>

\* WDI_ResponseTimerCB: a request that is waited for makes the driver restart
\* the firmware (wpalRivaSubystemRestart).
ResponseTimerCB ==
  /\ McIdle /\ expiry /\ expiry' = FALSE
  /\ fw' = IF cb.wdiExpectedResponse # NoReq THEN "down" ELSE fw
  /\ UNCHANGED <<cb, mc, caller, next>>

-----------------------------------------------------------------------------
(* The timer, the firmware and the watchdog thread *)

TimerExpire ==
  /\ Alive /\ cb.timer
  /\ cb' = [cb EXCEPT !.timer = FALSE]
  /\ expiry' = TRUE
  /\ UNCHANGED <<mc, caller, next, fw>>

Crash ==
  /\ Alive /\ fw = "up" /\ cb.bCTOpened /\ fw' = "down"
  /\ UNCHANGED <<cb, mc, caller, next, expiry>>

\* The threads have left: what was posted to the control thread is flushed.
WdiShutdown ==
  /\ McIdle /\ fw = "down"
  /\ caller' = "shut"
  /\ cb' = [ClearPendingRequests(cb) EXCEPT
              !.uGlobalState = "INIT", !.timer = FALSE, !.posted = <<>>]
  /\ expiry' = FALSE
  /\ UNCHANGED <<mc, next, fw>>

Next ==
  \/ WdiNvDownloadReq \/ WdiStart \/ WdiStopClear \/ WdiStopPost
  \/ NotifyOpen \/ PALCtrlMsgRestore \/ PALCtrlMsgPost \/ WdaRequest
  \/ RxResponse \/ RxIndication \/ RxInvalid \/ ResponseTimerCB
  \/ TimerExpire \/ Crash \/ WdiShutdown

Spec == Init /\ [][Next]_vars

\* The threads are scheduled, the channel is opened and the firmware answers.
FairSpec ==
  /\ Spec
  /\ WF_vars(WdiNvDownloadReq) /\ WF_vars(WdiStart) /\ WF_vars(WdiStopPost)
  /\ WF_vars(NotifyOpen) /\ WF_vars(PALCtrlMsgRestore)
  /\ WF_vars(PALCtrlMsgPost) /\ WF_vars(RxResponse)

-----------------------------------------------------------------------------
(* Properties *)

\* The type invariant.
TypeOK ==
  /\ cb \in CbType /\ mc \in Request \cup {NoReq} /\ caller \in Caller
  /\ next \in 2 .. (MaxReq + 1) /\ expiry \in BOOLEAN /\ fw \in {"up", "down"}

\* Requests that wait: in the pending queue, on their way to the control
\* thread, and in its hand.
Waiting ==
  [i \in 1 .. Len(cb.posted) |-> cb.posted[i].req] \o cb.wptPendingQueue
    \o (IF mc = NoReq THEN <<>> ELSE <<mc>>)

\* The firmware has at most one request, the one whose response is expected:
\* WDI keeps one response callback (pfncRspCB), and a second request sent would
\* take the first one's response for an unexpected one and drop it.
OneOutstanding ==
  Alive /\ fw = "up" /\ ~cb.wdiFailed =>
    cb.hal = {cb.wdiExpectedResponse} \ {NoReq}

\* Somebody will lead the state machine out of BUSY: a response is expected, or
\* a dequeued request is on its way.  Everything else only queues up.
BusyHasCause ==
  cb.uGlobalState = "BUSY" =>
    cb.wdiExpectedResponse # NoReq \/ cb.posted # <<>>

\* A request pends only while somebody will dequeue it: the state machine is
\* busy, about to be (WDI_PALCtrlMsgCB), or waits for the channel to open.
PendingIsDequeued ==
  cb.wptPendingQueue # <<>> =>
    cb.uGlobalState = "BUSY" \/ mc # NoReq \/ ~cb.bCTOpened

\* A request that was queued waits in one place: it is neither forgotten nor
\* processed twice, whatever fails, stops or crashes.
QueuedOnce ==
  Alive =>
    /\ \A r \in Request : cb.fate[r] = "queued" <=> r \in Range(Waiting)
    /\ \A i, j \in 1 .. Len(Waiting) : Waiting[i] = Waiting[j] => i = j

\* The state machine and its queues: all of the above.
ControlInv ==
  TypeOK /\ OneOutstanding /\ BusyHasCause /\ PendingIsDequeued /\ QueuedOnce

\* WDA's requests reach the firmware in the order in which they were made,
\* whether they were queued or not, until WDA was told of a fatal error.
Reached == {"sent", "answered"}

SentInOrder ==
  [][~cb.wdiFailed =>
       \A r \in WdaReq :
         cb.fate[r] \notin Reached /\ cb'.fate[r] \in Reached
           => \A q \in 2 .. (r - 1) : cb.fate[q] # "queued"]_vars

\* Every request that WDI accepts is answered or failed, unless the firmware
\* crashes or WDA was told of a fatal error.
RequestsEnd ==
  \A r \in Request :
    cb.fate[r] \in {"queued", "sent"}
      ~> (cb.fate[r] \in {"answered", "failed"} \/ cb.wdiFailed \/ fw = "down")

=============================================================================
