---------------------------- MODULE WdiCp_proofs ----------------------------
(***************************************************************************)
(* Proofs about WdiCp, for any number of requests of WDA, any of them host *)
(* suspend indications, and an NV image of any size.                       *)
(***************************************************************************)
EXTENDS WdiCp, SequenceTheorems, TLAPS

(***************************************************************************)
(* The functions of WDI, field by field.                                   *)
(***************************************************************************)
Posted == [req : Request, val : State]

LEMMA RequestType ==
  /\ NvDownload \in Request /\ StartReq \in Request /\ StopReq \in Request
  /\ WdaReq \subseteq Request /\ NoReq \notin Request
  /\ NvDownload # StartReq /\ NvDownload # StopReq /\ StartReq # StopReq
  /\ NvDownload \notin WdaReq /\ StartReq \notin WdaReq /\ StopReq \notin WdaReq
  /\ Request = {NvDownload, StartReq, StopReq} \cup WdaReq
  /\ NvDownload \notin Suspend /\ StartReq \notin Suspend /\ StopReq \notin Suspend
  BY MaxReqAssumption, SuspendAssumption
  DEF NvDownload, StartReq, StopReq, WdaReq, Request, NoReq

\* What the functions do to a sequence keeps it one.
LEMMA SeqSteps ==
  ASSUME NEW S
  PROVE  /\ <<>> \in Seq(S)
         /\ \A s \in Seq(S), e \in S : Append(s, e) \in Seq(S)
         /\ \A s \in Seq(S) : s # <<>> => Head(s) \in S /\ Tail(s) \in Seq(S)
  OBVIOUS

LEMMA FieldType ==
  ASSUME NEW c \in CbType
  PROVE  /\ c.uGlobalState \in State
         /\ c.wdiExpectedResponse \in Request \cup {NoReq}
         /\ c.bCTOpened \in BOOLEAN
         /\ c.wptPendingQueue \in Seq(Request)
         /\ c.posted \in Seq(Posted)
         /\ c.hal \in SUBSET Request
         /\ c.timer \in BOOLEAN
         /\ c.usCurrentFragment \in 0 .. Fragments
         /\ c.wdiFailed \in BOOLEAN
         /\ c.fate \in [Request -> Fate]
  BY DEF CbType, Posted

\* A control block is its fields.
LEMMA SameFields ==
  ASSUME NEW c \in CbType, NEW d \in CbType,
         c.uGlobalState = d.uGlobalState,
         c.wdiExpectedResponse = d.wdiExpectedResponse,
         c.bCTOpened = d.bCTOpened, c.wptPendingQueue = d.wptPendingQueue,
         c.posted = d.posted, c.hal = d.hal, c.timer = d.timer,
         c.usCurrentFragment = d.usCurrentFragment,
         c.wdiFailed = d.wdiFailed, c.fate = d.fate
  PROVE  c = d
  BY DEF CbType

At(c, s) == [c EXCEPT !.uGlobalState = s]

LEMMA AtFields ==
  ASSUME NEW c \in CbType, NEW s \in State
  PROVE  /\ At(c, s) \in CbType
         /\ At(c, s).uGlobalState = s
         /\ At(c, s).wdiExpectedResponse = c.wdiExpectedResponse
         /\ At(c, s).bCTOpened = c.bCTOpened
         /\ At(c, s).wptPendingQueue = c.wptPendingQueue
         /\ At(c, s).posted = c.posted
         /\ At(c, s).hal = c.hal
         /\ At(c, s).timer = c.timer
         /\ At(c, s).usCurrentFragment = c.usCurrentFragment
         /\ At(c, s).wdiFailed = c.wdiFailed
         /\ At(c, s).fate = c.fate
  BY DEF At, CbType

LEMMA WithFateFields ==
  ASSUME NEW c \in CbType, NEW rs, NEW f \in Fate
  PROVE  LET d == WithFate(c, rs, f)
         IN  /\ d \in CbType
             /\ d.uGlobalState = c.uGlobalState
             /\ d.wdiExpectedResponse = c.wdiExpectedResponse
             /\ d.bCTOpened = c.bCTOpened
             /\ d.wptPendingQueue = c.wptPendingQueue
             /\ d.posted = c.posted
             /\ d.hal = c.hal
             /\ d.timer = c.timer
             /\ d.usCurrentFragment = c.usCurrentFragment
             /\ d.wdiFailed = c.wdiFailed
             /\ \A r \in Request : d.fate[r] = IF r \in rs THEN f ELSE c.fate[r]
  BY DEF WithFate, CbType

LEMMA QueueFields ==
  ASSUME NEW c \in CbType, NEW r \in Request
  PROVE  LET d == QueuePendingReq(c, r)
         IN  /\ d \in CbType
             /\ d.uGlobalState = c.uGlobalState
             /\ d.wdiExpectedResponse = c.wdiExpectedResponse
             /\ d.bCTOpened = c.bCTOpened
             /\ d.wptPendingQueue = Append(c.wptPendingQueue, r)
             /\ d.posted = c.posted
             /\ d.hal = c.hal
             /\ d.timer = c.timer
             /\ d.usCurrentFragment = c.usCurrentFragment
             /\ d.wdiFailed = c.wdiFailed
             /\ \A q \in Request : d.fate[q] = IF q = r THEN "queued" ELSE c.fate[q]
  <1> DEFINE e == WithFate(c, {r}, "queued")
  <1>1. /\ e \in CbType /\ e.uGlobalState = c.uGlobalState
        /\ e.wdiExpectedResponse = c.wdiExpectedResponse
        /\ e.bCTOpened = c.bCTOpened /\ e.wptPendingQueue = c.wptPendingQueue
        /\ e.posted = c.posted /\ e.hal = c.hal /\ e.timer = c.timer
        /\ e.usCurrentFragment = c.usCurrentFragment /\ e.wdiFailed = c.wdiFailed
        /\ \A q \in Request : e.fate[q] = IF q = r THEN "queued" ELSE c.fate[q]
    BY WithFateFields DEF Fate
  <1>2. QueuePendingReq(c, r) = [e EXCEPT !.wptPendingQueue = Append(@, r)]
    BY DEF QueuePendingReq
  <1> HIDE DEF e
  <1>3. Append(e.wptPendingQueue, r) \in Seq(Request)
    BY <1>1, SeqSteps DEF CbType
  <1>4. LET d == QueuePendingReq(c, r)
        IN  /\ d \in CbType /\ d.uGlobalState = e.uGlobalState
            /\ d.wptPendingQueue = Append(e.wptPendingQueue, r)
            /\ d.wdiExpectedResponse = e.wdiExpectedResponse
            /\ d.bCTOpened = e.bCTOpened /\ d.posted = e.posted
            /\ d.hal = e.hal /\ d.timer = e.timer
            /\ d.usCurrentFragment = e.usCurrentFragment
            /\ d.wdiFailed = e.wdiFailed /\ d.fate = e.fate
    BY <1>2, <1>3, <1>1 DEF CbType
  <1> QED BY <1>1, <1>4

LEMMA DequeueFields ==
  ASSUME NEW c \in CbType, c.wptPendingQueue # <<>>
  PROVE  LET d == DequeuePendingReq(c)
         IN  /\ d \in CbType
             /\ d.uGlobalState = "BUSY"
             /\ d.wdiExpectedResponse = c.wdiExpectedResponse
             /\ d.bCTOpened = c.bCTOpened
             /\ d.wptPendingQueue = Tail(c.wptPendingQueue)
             /\ d.posted = Append(c.posted, [req |-> Head(c.wptPendingQueue),
                                             val |-> c.uGlobalState])
             /\ d.hal = c.hal
             /\ d.timer = c.timer
             /\ d.usCurrentFragment = c.usCurrentFragment
             /\ d.wdiFailed = c.wdiFailed
             /\ d.fate = c.fate
  <1> DEFINE m == [req |-> Head(c.wptPendingQueue), val |-> c.uGlobalState]
  <1>1. Head(c.wptPendingQueue) \in Request /\ Tail(c.wptPendingQueue) \in Seq(Request)
    BY SeqSteps DEF CbType
  <1>2. m \in Posted /\ c.posted \in Seq(Posted)
    BY <1>1 DEF CbType, Posted
  <1>3. Append(c.posted, m) \in Seq(Posted)
    <2> HIDE DEF m
    <2> QED BY <1>2, SeqSteps
  <1>4. DequeuePendingReq(c) = [c EXCEPT !.wptPendingQueue = Tail(c.wptPendingQueue),
                                  !.posted = Append(c.posted, m),
                                  !.uGlobalState = "BUSY"]
    BY DEF DequeuePendingReq
  <1> HIDE DEF m
  <1> QED BY <1>1, <1>3, <1>4 DEF CbType, State, Posted, m

LEMMA ClearFields ==
  ASSUME NEW c \in CbType
  PROVE  LET d == ClearPendingRequests(c)
         IN  /\ d \in CbType
             /\ d.uGlobalState = c.uGlobalState
             /\ d.wdiExpectedResponse = c.wdiExpectedResponse
             /\ d.bCTOpened = c.bCTOpened
             /\ d.wptPendingQueue = <<>>
             /\ d.posted = c.posted
             /\ d.hal = c.hal
             /\ d.timer = c.timer
             /\ d.usCurrentFragment = c.usCurrentFragment
             /\ d.wdiFailed = c.wdiFailed
             /\ \A q \in Request : d.fate[q] = IF q \in Range(c.wptPendingQueue)
                                               THEN "failed" ELSE c.fate[q]
  <1> DEFINE rs == Range(c.wptPendingQueue)
             e == WithFate(c, rs, "failed")
  <1>1. /\ e \in CbType /\ e.uGlobalState = c.uGlobalState
        /\ e.wdiExpectedResponse = c.wdiExpectedResponse
        /\ e.bCTOpened = c.bCTOpened
        /\ e.posted = c.posted /\ e.hal = c.hal /\ e.timer = c.timer
        /\ e.usCurrentFragment = c.usCurrentFragment /\ e.wdiFailed = c.wdiFailed
        /\ \A q \in Request : e.fate[q] = IF q \in rs THEN "failed" ELSE c.fate[q]
    BY WithFateFields DEF Fate
  <1>2. ClearPendingRequests(c) = [e EXCEPT !.wptPendingQueue = <<>>]
    BY DEF ClearPendingRequests
  <1> HIDE DEF e
  <1>3. <<>> \in Seq(Request)
    BY SeqSteps
  <1>4. LET d == ClearPendingRequests(c)
        IN  /\ d \in CbType /\ d.uGlobalState = e.uGlobalState
            /\ d.wptPendingQueue = <<>>
            /\ d.wdiExpectedResponse = e.wdiExpectedResponse
            /\ d.bCTOpened = e.bCTOpened /\ d.posted = e.posted
            /\ d.hal = e.hal /\ d.timer = e.timer
            /\ d.usCurrentFragment = e.usCurrentFragment
            /\ d.wdiFailed = e.wdiFailed /\ d.fate = e.fate
    BY <1>2, <1>3, <1>1 DEF CbType
  <1> QED BY <1>1, <1>4

LEMMA DetectedFields ==
  ASSUME NEW c \in CbType
  PROVE  LET d == DetectedDeviceError(c)
         IN  /\ d \in CbType
             /\ d.uGlobalState = "STOPPED"
             /\ d.wdiExpectedResponse = c.wdiExpectedResponse
             /\ d.bCTOpened = c.bCTOpened
             /\ d.wptPendingQueue = <<>>
             /\ d.posted = c.posted
             /\ d.hal = c.hal
             /\ d.timer = c.timer
             /\ d.usCurrentFragment = c.usCurrentFragment
             /\ d.wdiFailed = TRUE
             /\ \A q \in Request : d.fate[q] = IF q \in Range(c.wptPendingQueue)
                                               THEN "failed" ELSE c.fate[q]
  <1> DEFINE e == ClearPendingRequests(c)
  <1>1. e \in CbType
    BY ClearFields
  <1>2. DetectedDeviceError(c) = [e EXCEPT !.uGlobalState = "STOPPED", !.wdiFailed = TRUE]
    BY DEF DetectedDeviceError
  <1> HIDE DEF e
  <1>3. LET d == DetectedDeviceError(c)
        IN  /\ d \in CbType /\ d.uGlobalState = "STOPPED" /\ d.wdiFailed = TRUE
            /\ d.wdiExpectedResponse = e.wdiExpectedResponse
            /\ d.bCTOpened = e.bCTOpened /\ d.wptPendingQueue = e.wptPendingQueue
            /\ d.posted = e.posted /\ d.hal = e.hal /\ d.timer = e.timer
            /\ d.usCurrentFragment = e.usCurrentFragment /\ d.fate = e.fate
    BY <1>1, <1>2 DEF CbType, State
  <1> QED BY <1>3, ClearFields DEF e

LEMMA SentFields ==
  ASSUME NEW c \in CbType, NEW r \in Request,
         r = NvDownload => c.usCurrentFragment < Fragments
  PROVE  LET d == Sent(c, r)
         IN  /\ d \in CbType
             /\ d.uGlobalState = c.uGlobalState
             /\ d.wdiExpectedResponse = r
             /\ d.bCTOpened = c.bCTOpened
             /\ d.wptPendingQueue = c.wptPendingQueue
             /\ d.posted = c.posted
             /\ d.hal = c.hal \cup {r}
             /\ d.usCurrentFragment = IF r = NvDownload THEN c.usCurrentFragment + 1
                                                        ELSE c.usCurrentFragment
             /\ d.wdiFailed = c.wdiFailed
             /\ \A q \in Request : d.fate[q] = IF q = r THEN "sent" ELSE c.fate[q]
  <1> DEFINE e == WithFate(c, {r}, "sent")
  <1>1. e \in CbType
    BY WithFateFields DEF Fate
  <1>2. Sent(c, r) = [e EXCEPT !.wdiExpectedResponse = r, !.hal = @ \cup {r},
                        !.timer = TRUE,
                        !.usCurrentFragment = IF r = NvDownload THEN @ + 1 ELSE @]
    BY DEF Sent
  <1> HIDE DEF e
  <1>3. c.usCurrentFragment = e.usCurrentFragment
    BY WithFateFields DEF e, Fate
  <1> DEFINE n == IF r = NvDownload THEN e.usCurrentFragment + 1
                                    ELSE e.usCurrentFragment
  <1>4. n \in 0 .. Fragments /\ e.hal \cup {r} \in SUBSET Request
    BY <1>1, <1>3, FragmentsAssumption DEF CbType
  <1> HIDE DEF n
  <1>7. Sent(c, r) = [e EXCEPT !.wdiExpectedResponse = r, !.hal = e.hal \cup {r},
                        !.timer = TRUE, !.usCurrentFragment = n]
    BY <1>2 DEF n
  <1>5. LET d == Sent(c, r)
        IN  /\ d \in CbType /\ d.uGlobalState = e.uGlobalState
            /\ d.wdiExpectedResponse = r
            /\ d.bCTOpened = e.bCTOpened /\ d.wptPendingQueue = e.wptPendingQueue
            /\ d.posted = e.posted /\ d.hal = e.hal \cup {r} /\ d.fate = e.fate
            /\ d.usCurrentFragment = n
            /\ d.wdiFailed = e.wdiFailed
    BY <1>1, <1>4, <1>7 DEF CbType
  <1>6. /\ e.uGlobalState = c.uGlobalState
        /\ e.bCTOpened = c.bCTOpened /\ e.wptPendingQueue = c.wptPendingQueue
        /\ e.posted = c.posted /\ e.hal = c.hal /\ e.wdiFailed = c.wdiFailed
        /\ \A q \in Request : e.fate[q] = IF q = r THEN "sent" ELSE c.fate[q]
    BY WithFateFields DEF e, Fate
  <1> QED BY <1>3, <1>5, <1>6 DEF n

-----------------------------------------------------------------------------
(***************************************************************************)
(* The inductive invariant.  It is stated of a control block and of the    *)
(* requests in hand, those that are in none of its queues while their      *)
(* event is being posted, so that it can be carried through the functions  *)
(* that a step of WDI is composed of.                                      *)
(***************************************************************************)
Waits(c, q) ==
  \/ \E i \in 1 .. Len(c.posted) : c.posted[i].req = q
  \/ \E i \in 1 .. Len(c.wptPendingQueue) : c.wptPendingQueue[i] = q

\* No request is in two places of the queues.
Once(c) ==
  /\ \A i, j \in 1 .. Len(c.posted) : c.posted[i].req = c.posted[j].req => i = j
  /\ \A i, j \in 1 .. Len(c.wptPendingQueue) :
       c.wptPendingQueue[i] = c.wptPendingQueue[j] => i = j
  /\ \A i \in 1 .. Len(c.posted), j \in 1 .. Len(c.wptPendingQueue) :
       c.posted[i].req # c.wptPendingQueue[j]

\* The requests that are queued, and no others, are in the queues.
Placed(c, hand) ==
  \A q \in Request : Waits(c, q) <=> c.fate[q] = "queued" /\ q \notin hand

\* No request is to be looked at in state BUSY.
Ready(c) == \A i \in 1 .. Len(c.posted) : c.posted[i].val # "BUSY"

HasCause(c) ==
  c.uGlobalState = "BUSY" => c.wdiExpectedResponse # NoReq \/ c.posted # <<>>

\* Until WDI fails one thing goes on at a time: a dequeued request is on its
\* way, or a response is expected, which is the one the firmware owes.
InStep(c) ==
  ~c.wdiFailed =>
    /\ Len(c.posted) <= 1
    /\ c.posted # <<>> => c.uGlobalState = "BUSY" /\ c.wdiExpectedResponse = NoReq
    /\ c.uGlobalState # "BUSY" => c.wdiExpectedResponse = NoReq
    /\ c.hal = {c.wdiExpectedResponse} \ {NoReq}

HalSent(c) == \A q \in c.hal : c.fate[q] = "sent"

\* The download of the NV image comes first: it finds WDI in its initial state
\* and before any failure, and every fragment is sent once.
NvFirst(c) ==
  /\ c.uGlobalState = "INIT" \/ (\E i \in 1 .. Len(c.posted) : c.posted[i].val = "INIT")
       => c.fate[NvDownload] \notin {"sent", "answered"}
  /\ c.wdiFailed => c.fate[NvDownload] \in {"answered", "failed"}
  /\ c.fate[NvDownload] \in {"new", "queued"} => c.usCurrentFragment < Fragments

NotOpened(c) ==
  ~c.bCTOpened =>
    /\ c.uGlobalState = "INIT" /\ c.posted = <<>> /\ c.hal = {}
    /\ c.wdiExpectedResponse = NoReq /\ ~c.wdiFailed
    /\ c.fate[NvDownload] \in {"new", "queued"}

Kept(c, hand) ==
  /\ c \in CbType
  /\ Once(c) /\ Placed(c, hand) /\ Ready(c) /\ HasCause(c)
  /\ InStep(c) /\ HalSent(c) /\ NvFirst(c) /\ NotOpened(c)

Hand == {mc} \ {NoReq}

\* Which requests have been made.
Made ==
  /\ caller = "nv" => cb.fate[NvDownload] = "new"
  /\ caller \in {"nv", "nvWait"} => cb.fate[StartReq] = "new"
  /\ caller \in {"nv", "nvWait", "startWait", "stop"} => cb.fate[StopReq] = "new"
  /\ caller \in {"startWait", "stop", "stopWait"} => cb.fate[StartReq] # "new"
  /\ (\E r \in WdaReq : cb.fate[r] # "new") => cb.fate[StartReq] # "new"
  /\ \A r \in WdaReq : r >= next => cb.fate[r] = "new"
  /\ (\E r \in Request \ {NvDownload} : cb.fate[r] # "new")
       => cb.fate[NvDownload] = "answered"
  /\ mc # NoReq => cb.fate[mc] = "queued" /\ cb.bCTOpened

Running == Kept(cb, Hand) /\ Made /\ PendingIsDequeued

\* Shut down: nothing goes on any more.
AtRest ==
  /\ cb.uGlobalState = "INIT" /\ cb.wptPendingQueue = <<>> /\ cb.posted = <<>>
  /\ mc = NoReq

CpInv == TypeOK /\ (IF Alive THEN Running ELSE AtRest)

LEMMA AppendElements ==
  ASSUME NEW S, NEW s \in Seq(S), NEW e \in S
  PROVE  /\ Append(s, e) \in Seq(S)
         /\ Len(Append(s, e)) = Len(s) + 1 /\ Len(s) \in Nat
         /\ \A i \in 1 .. Len(s) : Append(s, e)[i] = s[i]
         /\ Append(s, e)[Len(s) + 1] = e
         /\ 1 .. Len(s) + 1 = 1 .. Len(s) \cup {Len(s) + 1}
  OBVIOUS

LEMMA TailElements ==
  ASSUME NEW S, NEW s \in Seq(S), s # <<>>
  PROVE  /\ Tail(s) \in Seq(S) /\ Head(s) \in S /\ Head(s) = s[1]
         /\ Len(s) \in Nat \ {0} /\ Len(Tail(s)) = Len(s) - 1
         /\ \A i \in 1 .. Len(Tail(s)) : i + 1 \in 1 .. Len(s) /\ Tail(s)[i] = s[i + 1]
         /\ \A i \in 1 .. Len(s) : i = 1 \/ (i - 1 \in 1 .. Len(Tail(s)) /\ Tail(s)[i - 1] = s[i])
  OBVIOUS

LEMMA RangeIs ==
  ASSUME NEW S, NEW s \in Seq(S), NEW q
  PROVE  q \in Range(s) <=> \E i \in 1 .. Len(s) : s[i] = q
  BY DEF Range

\* A request in hand is put at the end of the list.
LEMMA QueueKeeps ==
  ASSUME NEW c, NEW hand, Kept(c, hand), NEW r \in Request, r \in hand,
         r \notin c.hal, r = NvDownload => ~c.wdiFailed /\ c.usCurrentFragment < Fragments
  PROVE  Kept(QueuePendingReq(c, r), hand \ {r})
  <1> DEFINE d == QueuePendingReq(c, r)
             old == c.wptPendingQueue
  <1>1. c \in CbType /\ old \in Seq(Request)
    BY FieldType DEF Kept
  <1>2. /\ d \in CbType
        /\ d.uGlobalState = c.uGlobalState
        /\ d.wdiExpectedResponse = c.wdiExpectedResponse
        /\ d.bCTOpened = c.bCTOpened
        /\ d.wptPendingQueue = Append(old, r)
        /\ d.posted = c.posted
        /\ d.hal = c.hal
        /\ d.usCurrentFragment = c.usCurrentFragment
        /\ d.wdiFailed = c.wdiFailed
        /\ \A q \in Request : d.fate[q] = IF q = r THEN "queued" ELSE c.fate[q]
    BY <1>1, QueueFields
  <1> DEFINE new == d.wptPendingQueue
  <1>3. /\ Len(new) = Len(old) + 1 /\ Len(old) \in Nat
        /\ \A i \in 1 .. Len(old) : new[i] = old[i]
        /\ new[Len(old) + 1] = r
        /\ 1 .. Len(old) + 1 = 1 .. Len(old) \cup {Len(old) + 1}
    BY <1>1, <1>2, AppendElements
  <1>4. ~Waits(c, r)
    BY DEF Kept, Placed
  <1> HIDE DEF d, new, old
  <1>5. \A q : Waits(d, q) <=> Waits(c, q) \/ q = r
    <2>1. \A q : (\E i \in 1 .. Len(new) : new[i] = q)
                  <=> (\E i \in 1 .. Len(old) : old[i] = q) \/ q = r
      BY <1>3
    <2> QED BY <1>2, <2>1 DEF Waits, new, old
  <1>6. Once(d)
    <2>1. \A i, j \in 1 .. Len(new) : new[i] = new[j] => i = j
      <3>1. \A i \in 1 .. Len(old) : old[i] # r
        BY <1>4 DEF Waits, old
      <3>2. \A i, j \in 1 .. Len(old) : old[i] = old[j] => i = j
        BY DEF Kept, Once, old
      <3> QED BY <1>3, <3>1, <3>2
    <2>2. \A i \in 1 .. Len(c.posted), j \in 1 .. Len(new) : c.posted[i].req # new[j]
      BY <1>3, <1>4 DEF Kept, Once, Waits, old
    <2> QED BY <1>2, <2>1, <2>2 DEF Kept, Once, new
  <1>7. Placed(d, hand \ {r})
    BY <1>2, <1>5 DEF Kept, Placed
  <1>8. Ready(d) /\ HasCause(d) /\ InStep(d)
    BY <1>2 DEF Kept, Ready, HasCause, InStep
  <1>9. HalSent(d)
    BY <1>1, <1>2, FieldType DEF Kept, HalSent
  <1>10. NvFirst(d) /\ NotOpened(d)
    BY <1>2, RequestType DEF Kept, NvFirst, NotOpened
  <1> QED BY <1>2, <1>6, <1>7, <1>8, <1>9, <1>10 DEF Kept, d

\* The first pending request is sent to the control thread.
LEMMA DequeueKeeps ==
  ASSUME NEW c, NEW hand, Kept(c, hand), c.bCTOpened, c.uGlobalState # "BUSY"
  PROVE  LET d == DequeuePendingReq(c)
         IN  /\ Kept(d, hand) /\ d.fate = c.fate /\ d.bCTOpened
             /\ d.wptPendingQueue = <<>> \/ d.uGlobalState = "BUSY"
  <1> DEFINE d == DequeuePendingReq(c)
             old == c.wptPendingQueue
             new == d.wptPendingQueue
             m == [req |-> Head(old), val |-> c.uGlobalState]
  <1>1. c \in CbType /\ old \in Seq(Request) /\ c.posted \in Seq(Posted)
        /\ c.uGlobalState \in State
    BY FieldType DEF Kept
  <1>2. CASE old = <<>>
    BY <1>2 DEF DequeuePendingReq
  <1>3. CASE old # <<>>
    <2>1. /\ d \in CbType
          /\ d.uGlobalState = "BUSY"
          /\ d.wdiExpectedResponse = c.wdiExpectedResponse
          /\ d.bCTOpened = c.bCTOpened
          /\ d.wptPendingQueue = Tail(old)
          /\ d.posted = Append(c.posted, m)
          /\ d.hal = c.hal
          /\ d.usCurrentFragment = c.usCurrentFragment
          /\ d.wdiFailed = c.wdiFailed
          /\ d.fate = c.fate
      BY <1>1, <1>3, DequeueFields
    <2>2. /\ Head(old) \in Request /\ Head(old) = old[1]
          /\ Len(old) \in Nat \ {0} /\ Len(new) = Len(old) - 1
          /\ \A i \in 1 .. Len(new) : i + 1 \in 1 .. Len(old) /\ new[i] = old[i + 1]
          /\ \A i \in 1 .. Len(old) : i = 1 \/ (i - 1 \in 1 .. Len(new) /\ new[i - 1] = old[i])
      BY <1>1, <1>3, <2>1, TailElements
    <2>3. m \in Posted /\ m.req = Head(old) /\ m.val = c.uGlobalState
      BY <1>1, <2>2 DEF Posted
    <2> HIDE DEF m
    <2>4. /\ Len(d.posted) = Len(c.posted) + 1 /\ Len(c.posted) \in Nat
          /\ \A i \in 1 .. Len(c.posted) : d.posted[i] = c.posted[i]
          /\ d.posted[Len(c.posted) + 1] = m
          /\ 1 .. Len(c.posted) + 1 = 1 .. Len(c.posted) \cup {Len(c.posted) + 1}
      BY <1>1, <2>1, <2>3, AppendElements
    <2>5. d.posted # <<>>
      BY <2>4
    <2> HIDE DEF d, new, old
    <2>6. /\ \A i, j \in 1 .. Len(old) : old[i] = old[j] => i = j
          /\ \A i, j \in 1 .. Len(c.posted) : c.posted[i].req = c.posted[j].req => i = j
          /\ \A i \in 1 .. Len(c.posted), j \in 1 .. Len(old) : c.posted[i].req # old[j]
      BY DEF Kept, Once, old
    <2>7. \A q : Waits(d, q) <=> Waits(c, q)
      <3>1. \A q : (\E i \in 1 .. Len(old) : old[i] = q)
                    <=> q = Head(old) \/ \E i \in 1 .. Len(new) : new[i] = q
        BY <2>2
      <3>2. \A q : (\E i \in 1 .. Len(d.posted) : d.posted[i].req = q)
                    <=> q = Head(old) \/ \E i \in 1 .. Len(c.posted) : c.posted[i].req = q
        BY <2>3, <2>4
      <3> QED BY <3>1, <3>2 DEF Waits, new, old
    <2>8. Once(d)
      <3>1. \A i, j \in 1 .. Len(new) : new[i] = new[j] => i = j
        BY <2>2, <2>6
      <3> DEFINE n == Len(c.posted)
      <3>4. \A i \in 1 .. Len(d.posted) :
              \/ i \in 1 .. n /\ d.posted[i].req = c.posted[i].req
              \/ i = n + 1 /\ d.posted[i].req = old[1]
        BY <2>2, <2>3, <2>4
      <3>5. 1 \in 1 .. Len(old) /\ \A j \in 1 .. Len(new) : j + 1 # 1
        BY <2>2
      <3>6. \A i \in 1 .. n : c.posted[i].req # old[1]
        BY <2>6, <3>5
      <3>7. \A j \in 1 .. Len(new) : new[j] # old[1]
        BY <2>2, <2>6, <3>5
      <3>8. \A i \in 1 .. n, j \in 1 .. Len(new) : c.posted[i].req # new[j]
        BY <2>2, <2>6
      <3>2. \A i, j \in 1 .. Len(d.posted) : d.posted[i].req = d.posted[j].req => i = j
        BY <2>6, <3>4, <3>6
      <3>3. \A i \in 1 .. Len(d.posted), j \in 1 .. Len(new) : d.posted[i].req # new[j]
        BY <3>4, <3>7, <3>8
      <3> QED BY <3>1, <3>2, <3>3 DEF Once, new
    <2>9. Placed(d, hand)
      BY <2>1, <2>7 DEF Kept, Placed
    <2>10. Ready(d) /\ HasCause(d)
      BY <2>1, <2>3, <2>4, <2>5 DEF Kept, Ready, HasCause
    <2>11. InStep(d)
      BY <2>1, <2>4 DEF Kept, InStep
    <2>12. HalSent(d) /\ NotOpened(d)
      BY <2>1 DEF Kept, HalSent, NotOpened
    <2>13. NvFirst(d)
      BY <2>1, <2>3, <2>4 DEF Kept, NvFirst
    <2> QED
      BY <2>1, <2>8, <2>9, <2>10, <2>11, <2>12, <2>13 DEF Kept, d
  <1> QED BY <1>2, <1>3

\* A request in hand is done.
LEMMA FateKeeps ==
  ASSUME NEW c, NEW hand, Kept(c, hand), NEW r \in Request, r \in hand, r \notin c.hal,
         NEW f \in {"answered", "failed"}, r = NvDownload => f = "failed" /\ c.bCTOpened
  PROVE  Kept(WithFate(c, {r}, f), hand \ {r})
  <1> DEFINE d == WithFate(c, {r}, f)
  <1>1. c \in CbType /\ f \in Fate
    BY DEF Kept, Fate
  <1>2. /\ d \in CbType
        /\ d.uGlobalState = c.uGlobalState
        /\ d.wdiExpectedResponse = c.wdiExpectedResponse
        /\ d.bCTOpened = c.bCTOpened
        /\ d.wptPendingQueue = c.wptPendingQueue
        /\ d.posted = c.posted
        /\ d.hal = c.hal
        /\ d.usCurrentFragment = c.usCurrentFragment
        /\ d.wdiFailed = c.wdiFailed
        /\ \A q \in Request : d.fate[q] = IF q = r THEN f ELSE c.fate[q]
    BY <1>1, WithFateFields
  <1> HIDE DEF d
  <1>3. \A q : Waits(d, q) <=> Waits(c, q)
    BY <1>2 DEF Waits
  <1>4. Placed(d, hand \ {r})
    BY <1>2, <1>3 DEF Kept, Placed
  <1>5. Once(d) /\ Ready(d) /\ HasCause(d) /\ InStep(d)
    BY <1>2 DEF Kept, Once, Ready, HasCause, InStep
  <1>6. HalSent(d)
    BY <1>1, <1>2, FieldType DEF Kept, HalSent
  <1>7. NvFirst(d) /\ NotOpened(d)
    BY <1>2, RequestType DEF Kept, NvFirst, NotOpened
  <1> QED BY <1>2, <1>4, <1>5, <1>6, <1>7 DEF Kept, d

\* A request in hand reaches the firmware.
LEMMA SentKeeps ==
  ASSUME NEW c, NEW hand, Kept(c, hand), NEW r \in Request, r \in hand,
         c.fate[r] \in {"new", "queued"}, c.bCTOpened, c.uGlobalState # "BUSY"
  PROVE  LET d == Sent(At(c, "BUSY"), r)
         IN  /\ Kept(d, hand \ {r}) /\ d.bCTOpened /\ d.uGlobalState = "BUSY"
             /\ \A q \in Request : d.fate[q] = IF q = r THEN "sent" ELSE c.fate[q]
  <1> DEFINE b == At(c, "BUSY")
             d == Sent(b, r)
  <1>1. c \in CbType /\ c.hal \subseteq Request
    BY FieldType DEF Kept
  <1>2. r = NvDownload => ~c.wdiFailed /\ c.usCurrentFragment < Fragments
    BY DEF Kept, NvFirst
  <1>3. /\ b \in CbType /\ b.uGlobalState = "BUSY"
        /\ b.wdiExpectedResponse = c.wdiExpectedResponse
        /\ b.bCTOpened = c.bCTOpened /\ b.wptPendingQueue = c.wptPendingQueue
        /\ b.posted = c.posted /\ b.hal = c.hal
        /\ b.usCurrentFragment = c.usCurrentFragment
        /\ b.wdiFailed = c.wdiFailed /\ b.fate = c.fate
    BY <1>1, AtFields DEF State
  <1> HIDE DEF b
  <1>14. r = NvDownload => b.usCurrentFragment < Fragments
    BY <1>2, <1>3
  <1>15. b \in CbType
    BY <1>3
  <1>4. /\ d \in CbType
        /\ d.uGlobalState = "BUSY"
        /\ d.wdiExpectedResponse = r
        /\ d.bCTOpened = c.bCTOpened
        /\ d.wptPendingQueue = c.wptPendingQueue
        /\ d.posted = c.posted
        /\ d.hal = c.hal \cup {r}
        /\ d.wdiFailed = c.wdiFailed
        /\ d.usCurrentFragment = IF r = NvDownload THEN c.usCurrentFragment + 1
                                                   ELSE c.usCurrentFragment
        /\ \A q \in Request : d.fate[q] = IF q = r THEN "sent" ELSE c.fate[q]
    <2>1. /\ d \in CbType
          /\ d.uGlobalState = b.uGlobalState
          /\ d.wdiExpectedResponse = r
          /\ d.bCTOpened = b.bCTOpened
          /\ d.wptPendingQueue = b.wptPendingQueue
          /\ d.posted = b.posted
          /\ d.hal = b.hal \cup {r}
          /\ d.usCurrentFragment = IF r = NvDownload THEN b.usCurrentFragment + 1
                                                     ELSE b.usCurrentFragment
          /\ d.wdiFailed = b.wdiFailed
          /\ \A q \in Request : d.fate[q] = IF q = r THEN "sent" ELSE b.fate[q]
      BY <1>14, <1>15, SentFields
    <2> HIDE DEF d
    <2> QED BY <1>3, <2>1
  <1> HIDE DEF d
  <1>5. ~c.wdiFailed => c.posted = <<>> /\ c.hal = {}
    BY DEF Kept, InStep
  <1>6. r # NoReq
    BY RequestType
  <1>7. \A q : Waits(d, q) <=> Waits(c, q)
    BY <1>4 DEF Waits
  <1>8. Placed(d, hand \ {r})
    BY <1>4, <1>7 DEF Kept, Placed
  <1>9. Once(d) /\ Ready(d) /\ HasCause(d)
    BY <1>4, <1>6 DEF Kept, Once, Ready, HasCause
  <1>10. InStep(d)
    <2> SUFFICES ASSUME ~c.wdiFailed PROVE Len(<<>>) <= 1 /\ {r} = {r} \ {NoReq}
      BY <1>4, <1>5 DEF InStep
    <2> QED BY <1>6
  <1>11. HalSent(d)
    BY <1>1, <1>4 DEF Kept, HalSent
  <1>12. NvFirst(d)
    <2>1. CASE r = NvDownload
      <3>1. \A i \in 1 .. Len(d.posted) : FALSE
        BY <1>2, <1>4, <1>5, <2>1
      <3> QED BY <1>2, <1>4, <2>1, <3>1, RequestType DEF NvFirst
    <2>2. CASE r # NvDownload
      BY <1>4, <2>2, RequestType DEF Kept, NvFirst
    <2> QED BY <2>1, <2>2
  <1>13. NotOpened(d)
    BY <1>4 DEF NotOpened
  <1> QED
    BY <1>4, <1>8, <1>9, <1>10, <1>11, <1>12, <1>13 DEF Kept, d, b

\* WDI is told that it failed: whatever state it is left in, and whatever
\* response it expects, it keeps the invariant.
LEMMA FailedKeeps ==
  ASSUME NEW c, NEW hand, Kept(c, hand), c.bCTOpened, NEW d \in CbType,
         d.uGlobalState \in State \ {"BUSY"},
         d.uGlobalState = "INIT" => d.fate[NvDownload] \notin {"sent", "answered"},
         d.bCTOpened, d.wptPendingQueue = <<>>, d.posted = c.posted,
         d.hal \subseteq c.hal, d.wdiFailed,
         NEW out \in SUBSET hand, out \cap d.hal = {},
         \A q \in out : q \in Request => d.fate[q] \notin {"new", "queued", "sent"},
         NvDownload \in out => d.fate[NvDownload] = "failed",
         NvDownload \notin out => c.fate[NvDownload] \in {"answered", "failed"},
         \A q \in Request \ out :
           d.fate[q] = IF q \in Range(c.wptPendingQueue) THEN "failed" ELSE c.fate[q]
  PROVE  Kept(d, hand \ out)
  <1>1. c \in CbType /\ c.hal \subseteq Request /\ c.wptPendingQueue \in Seq(Request)
    BY FieldType DEF Kept
  <1>2. \A q : q \in Range(c.wptPendingQueue)
                <=> \E i \in 1 .. Len(c.wptPendingQueue) : c.wptPendingQueue[i] = q
    BY <1>1, RangeIs
  <1>3. Len(d.wptPendingQueue) = 0
    OBVIOUS
  <1>4. \A q : Waits(d, q) <=> \E i \in 1 .. Len(c.posted) : c.posted[i].req = q
    BY <1>3 DEF Waits
  <1>5. \A q \in Request : Waits(d, q) <=> d.fate[q] = "queued" /\ q \notin hand \ out
    <2> TAKE q \in Request
    <2>1. q \in Range(c.wptPendingQueue) => ~Waits(d, q)
      BY <1>2, <1>4 DEF Kept, Once
    <2>2. q \notin Range(c.wptPendingQueue) => (Waits(d, q) <=> Waits(c, q))
      BY <1>2, <1>4 DEF Waits
    <2>3. q \in Range(c.wptPendingQueue) => q \notin hand
      BY <1>2 DEF Kept, Placed, Waits
    <2>4. q \in out => ~Waits(c, q)
      BY DEF Kept, Placed
    <2> QED BY <2>1, <2>2, <2>3, <2>4 DEF Kept, Placed
  <1>6. Placed(d, hand \ out)
    BY <1>5 DEF Placed
  <1>7. Once(d) /\ Ready(d) /\ HasCause(d) /\ InStep(d)
    BY <1>3 DEF Kept, Once, Ready, HasCause, InStep
  <1>8. HalSent(d)
    <2> SUFFICES ASSUME NEW q \in d.hal PROVE d.fate[q] = "sent"
      BY DEF HalSent
    <2>1. q \in Request \ out /\ c.fate[q] = "sent"
      BY <1>1 DEF Kept, HalSent
    <2>2. q \notin Range(c.wptPendingQueue)
      BY <1>2, <2>1 DEF Kept, Placed, Waits
    <2> QED BY <2>1, <2>2
  <1>9. d.fate[NvDownload] \in {"answered", "failed"}
    BY RequestType
  <1>10. NvFirst(d)
    <2>1. ASSUME NvDownload \notin out, \E i \in 1 .. Len(c.posted) : c.posted[i].val = "INIT"
          PROVE  d.fate[NvDownload] # "answered"
      BY <2>1, RequestType DEF Kept, NvFirst
    <2> QED BY <1>9, <2>1 DEF NvFirst
  <1> QED BY <1>6, <1>7, <1>8, <1>10 DEF Kept, NotOpened

-----------------------------------------------------------------------------
(***************************************************************************)
(* WDI_PostMainEvent.                                                      *)
(***************************************************************************)

\* What a posted event does to the requests: its own is no longer new, another
\* one can only fail out of the pending queue, and none is left there unless
\* the state machine is busy or the channel is not open.
Posts(c, d, r, hand) ==
  /\ d.bCTOpened = c.bCTOpened
  /\ d.wptPendingQueue = <<>> \/ d.uGlobalState = "BUSY" \/ ~d.bCTOpened
  /\ d.fate[r] # "new"
  /\ \A q \in Request \ {r} :
       \/ d.fate[q] = c.fate[q]
       \/ c.fate[q] = "queued" /\ q \notin hand /\ d.fate[q] = "failed"

LEMMA BusyIsAt == \A c : [c EXCEPT !.uGlobalState = "BUSY"] = At(c, "BUSY")
  BY DEF At

\* A control block that was made busy, changed in its fates and put back.
LEMMA Restored ==
  ASSUME NEW c \in CbType, NEW rs, NEW f \in Fate
  PROVE  At(WithFate(At(c, "BUSY"), rs, f), c.uGlobalState) = WithFate(c, rs, f)
  <1> DEFINE b == At(c, "BUSY")
             w == WithFate(b, rs, f)
             d == At(w, c.uGlobalState)
             e == WithFate(c, rs, f)
  <1>1. /\ b \in CbType /\ b.wdiExpectedResponse = c.wdiExpectedResponse
        /\ b.bCTOpened = c.bCTOpened /\ b.wptPendingQueue = c.wptPendingQueue
        /\ b.posted = c.posted /\ b.hal = c.hal /\ b.timer = c.timer
        /\ b.usCurrentFragment = c.usCurrentFragment
        /\ b.wdiFailed = c.wdiFailed /\ b.fate = c.fate
    BY AtFields DEF State
  <1> HIDE DEF b
  <1>2. /\ w \in CbType /\ w.wdiExpectedResponse = b.wdiExpectedResponse
        /\ w.bCTOpened = b.bCTOpened /\ w.wptPendingQueue = b.wptPendingQueue
        /\ w.posted = b.posted /\ w.hal = b.hal /\ w.timer = b.timer
        /\ w.usCurrentFragment = b.usCurrentFragment
        /\ w.wdiFailed = b.wdiFailed
        /\ \A r \in Request : w.fate[r] = IF r \in rs THEN f ELSE b.fate[r]
    BY <1>1, WithFateFields
  <1> HIDE DEF w
  <1>3. c.uGlobalState \in State
    BY FieldType
  <1>4. /\ d \in CbType /\ d.wdiExpectedResponse = w.wdiExpectedResponse
        /\ d.uGlobalState = c.uGlobalState
        /\ d.bCTOpened = w.bCTOpened /\ d.wptPendingQueue = w.wptPendingQueue
        /\ d.posted = w.posted /\ d.hal = w.hal /\ d.timer = w.timer
        /\ d.usCurrentFragment = w.usCurrentFragment
        /\ d.wdiFailed = w.wdiFailed /\ d.fate = w.fate
    BY <1>2, <1>3, AtFields
  <1> HIDE DEF d
  <1>5. /\ e \in CbType /\ e.uGlobalState = c.uGlobalState
        /\ e.wdiExpectedResponse = c.wdiExpectedResponse
        /\ e.bCTOpened = c.bCTOpened /\ e.wptPendingQueue = c.wptPendingQueue
        /\ e.posted = c.posted /\ e.hal = c.hal /\ e.timer = c.timer
        /\ e.usCurrentFragment = c.usCurrentFragment
        /\ e.wdiFailed = c.wdiFailed
        /\ \A r \in Request : e.fate[r] = IF r \in rs THEN f ELSE c.fate[r]
    BY WithFateFields
  <1> HIDE DEF e
  <1>6. d.fate = e.fate
    <2>1. d.fate \in [Request -> Fate] /\ e.fate \in [Request -> Fate]
      BY <1>4, <1>5, FieldType
    <2>2. \A r \in Request : d.fate[r] = e.fate[r]
      BY <1>1, <1>2, <1>4, <1>5
    <2> QED BY <2>1, <2>2
  <1>7. d = e
    BY <1>1, <1>2, <1>4, <1>5, <1>6, SameFields
  <1> QED BY <1>7 DEF b, w, d, e

\* A request that the transport refuses.
Expects(c, r) == [c EXCEPT !.wdiExpectedResponse = IF r \in Suspend THEN @ ELSE r]
Refused(c, r) == WithFate(DetectedDeviceError(Expects(c, r)), {r}, "failed")

LEMMA RefusedFields ==
  ASSUME NEW c \in CbType, NEW r \in Request
  PROVE  LET d == Refused(At(c, "BUSY"), r)
         IN  /\ d \in CbType /\ d.uGlobalState = "STOPPED"
             /\ d.bCTOpened = c.bCTOpened /\ d.wptPendingQueue = <<>>
             /\ d.posted = c.posted /\ d.hal = c.hal /\ d.wdiFailed
             /\ d.fate[r] = "failed"
             /\ \A q \in Request \ {r} :
                  d.fate[q] = IF q \in Range(c.wptPendingQueue) THEN "failed" ELSE c.fate[q]
  <1> DEFINE b == At(c, "BUSY")
             e == Expects(b, r)
             f == DetectedDeviceError(e)
             d == WithFate(f, {r}, "failed")
  <1>1. /\ b \in CbType /\ b.wdiExpectedResponse = c.wdiExpectedResponse
        /\ b.bCTOpened = c.bCTOpened /\ b.wptPendingQueue = c.wptPendingQueue
        /\ b.posted = c.posted /\ b.hal = c.hal /\ b.fate = c.fate
    BY AtFields DEF State
  <1> HIDE DEF b
  <1>2. /\ e \in CbType
        /\ e.bCTOpened = b.bCTOpened /\ e.wptPendingQueue = b.wptPendingQueue
        /\ e.posted = b.posted /\ e.hal = b.hal /\ e.fate = b.fate
    BY <1>1 DEF Expects, CbType
  <1> HIDE DEF e
  <1>3. /\ f \in CbType /\ f.uGlobalState = "STOPPED"
        /\ f.bCTOpened = e.bCTOpened /\ f.wptPendingQueue = <<>>
        /\ f.posted = e.posted /\ f.hal = e.hal /\ f.wdiFailed = TRUE
        /\ \A q \in Request : f.fate[q] = IF q \in Range(e.wptPendingQueue)
                                          THEN "failed" ELSE e.fate[q]
    BY <1>2, DetectedFields
  <1> HIDE DEF f
  <1>4. /\ d \in CbType /\ d.uGlobalState = f.uGlobalState
        /\ d.bCTOpened = f.bCTOpened /\ d.wptPendingQueue = f.wptPendingQueue
        /\ d.posted = f.posted /\ d.hal = f.hal /\ d.wdiFailed = f.wdiFailed
        /\ \A q \in Request : d.fate[q] = IF q \in {r} THEN "failed" ELSE f.fate[q]
    BY <1>3, WithFateFields DEF Fate
  <1> HIDE DEF d
  <1>5. /\ d \in CbType /\ d.uGlobalState = "STOPPED"
        /\ d.bCTOpened = c.bCTOpened /\ d.wptPendingQueue = <<>>
        /\ d.posted = c.posted /\ d.hal = c.hal /\ d.wdiFailed
        /\ d.fate[r] = "failed"
        /\ \A q \in Request \ {r} :
             d.fate[q] = IF q \in Range(c.wptPendingQueue) THEN "failed" ELSE c.fate[q]
    BY <1>1, <1>2, <1>3, <1>4
  <1>6. d = Refused(At(c, "BUSY"), r)
    BY DEF d, f, e, b, Refused
  <1> QED BY <1>5, <1>6

\* The event of a request in hand: it is queued, sent, done or refused, and
\* the control block keeps its invariant.
LEMMA PostKeeps ==
  ASSUME NEW c, NEW hand, Kept(c, hand), NEW r \in Request, r \in hand,
         c.fate[r] \in {"new", "queued"},
         r # NvDownload => c.fate[NvDownload] = "answered"
  PROVE  LET d == PostMainEvent(c, r)
         IN  Kept(d, hand \ {r}) /\ Posts(c, d, r, hand)
  <1> DEFINE d == PostMainEvent(c, r)
             b == At(c, "BUSY")
             old == c.uGlobalState
  <1>1. /\ c \in CbType /\ old \in State /\ c.bCTOpened \in BOOLEAN
        /\ c.wptPendingQueue \in Seq(Request) /\ c.hal \subseteq Request
        /\ c.fate \in [Request -> Fate]
    BY FieldType DEF Kept
  <1>2. r \notin c.hal
    BY DEF Kept, HalSent
  <1>3. r = NvDownload => ~c.wdiFailed /\ c.usCurrentFragment < Fragments
    BY DEF Kept, NvFirst
  <1>4. r # NvDownload => c.bCTOpened /\ old # "INIT"
    BY DEF Kept, NotOpened, NvFirst
  <1>5. ~c.bCTOpened => old = "INIT"
    BY DEF Kept, NotOpened
  <1>6. CASE old = "BUSY" \/ ~c.bCTOpened
    <2>1. d = QueuePendingReq(c, r)
      <3>1. CASE old = "BUSY"
        BY <3>1 DEF PostMainEvent, Served
      <3>2. CASE ~c.bCTOpened
        BY <1>4, <1>5, <3>2 DEF PostMainEvent
      <3> QED BY <1>6, <3>1, <3>2
    <2>2. Kept(QueuePendingReq(c, r), hand \ {r})
      BY <1>2, <1>3, QueueKeeps
    <2>3. LET e == QueuePendingReq(c, r)
          IN  /\ e.uGlobalState = c.uGlobalState /\ e.bCTOpened = c.bCTOpened
              /\ \A q \in Request : e.fate[q] = IF q = r THEN "queued" ELSE c.fate[q]
      BY <1>1, QueueFields
    <2>4. Posts(c, QueuePendingReq(c, r), r, hand)
      BY <1>6, <2>3 DEF Posts
    <2> QED BY <2>1, <2>2, <2>4
  <1>7. ASSUME old # "BUSY", c.bCTOpened, old \notin Served(r)
        PROVE  Kept(d, hand \ {r}) /\ Posts(c, d, r, hand)
    <2>1. r # NvDownload
      BY <1>1, <1>7, RequestType DEF Served, State
    <2> DEFINE e == WithFate(c, {r}, "failed")
    <2>2. d = DequeuePendingReq(e)
      BY <1>4, <1>7, <2>1 DEF PostMainEvent
    <2>3. /\ e.uGlobalState = c.uGlobalState /\ e.bCTOpened = c.bCTOpened
          /\ \A q \in Request : e.fate[q] = IF q \in {r} THEN "failed" ELSE c.fate[q]
      BY <1>1, WithFateFields DEF Fate
    <2>4. Kept(e, hand \ {r})
      BY <1>2, <2>1, FateKeeps
    <2> HIDE DEF e
    <2>5. LET g == DequeuePendingReq(e)
          IN  /\ Kept(g, hand \ {r}) /\ g.fate = e.fate /\ g.bCTOpened
              /\ g.wptPendingQueue = <<>> \/ g.uGlobalState = "BUSY"
      BY <1>7, <2>3, <2>4, DequeueKeeps
    <2>6. Posts(c, DequeuePendingReq(e), r, hand)
      BY <1>7, <2>3, <2>5 DEF Posts, Kept
    <2> QED BY <2>2, <2>5, <2>6
  <1>8. ASSUME old # "BUSY", c.bCTOpened, old \in Served(r)
        PROVE  Kept(d, hand \ {r}) /\ Posts(c, d, r, hand)
    <2>1. d = ProcessRequest(b, r, old)
      BY <1>4, <1>8, BusyIsAt DEF PostMainEvent
    <2>2. ASSUME fw = "up", r \in Suspend
          PROVE  Kept(d, hand \ {r}) /\ Posts(c, d, r, hand)
      <3> DEFINE e == WithFate(c, {r}, "answered")
      <3>1. d = DequeuePendingReq(e)
        <4>1. d = DequeuePendingReq([WithFate(b, {r}, "answered") EXCEPT !.uGlobalState = old])
          BY <2>1, <2>2 DEF ProcessRequest
        <4>2. At(WithFate(b, {r}, "answered"), old) = e
          BY <1>1, Restored DEF Fate
        <4> QED BY <4>1, <4>2 DEF At
      <3>2. r # NvDownload
        BY <2>2, RequestType
      <3>3. /\ e.uGlobalState = c.uGlobalState /\ e.bCTOpened = c.bCTOpened
            /\ \A q \in Request : e.fate[q] = IF q \in {r} THEN "answered" ELSE c.fate[q]
        BY <1>1, WithFateFields DEF Fate
      <3>4. Kept(e, hand \ {r})
        BY <1>2, <3>2, FateKeeps
      <3> HIDE DEF e
      <3>5. LET g == DequeuePendingReq(e)
            IN  /\ Kept(g, hand \ {r}) /\ g.fate = e.fate /\ g.bCTOpened
                /\ g.wptPendingQueue = <<>> \/ g.uGlobalState = "BUSY"
        BY <1>8, <3>3, <3>4, DequeueKeeps
      <3>6. Posts(c, DequeuePendingReq(e), r, hand)
        BY <1>8, <3>3, <3>5 DEF Posts, Kept
      <3> QED BY <3>1, <3>5, <3>6
    <2>3. ASSUME fw = "up", r \notin Suspend
          PROVE  Kept(d, hand \ {r}) /\ Posts(c, d, r, hand)
      <3>1. d = Sent(b, r)
        BY <2>1, <2>3 DEF ProcessRequest
      <3>2. LET e == Sent(b, r)
            IN  /\ Kept(e, hand \ {r}) /\ e.bCTOpened /\ e.uGlobalState = "BUSY"
                /\ \A q \in Request : e.fate[q] = IF q = r THEN "sent" ELSE c.fate[q]
        BY <1>8, SentKeeps
      <3>3. Posts(c, Sent(b, r), r, hand)
        BY <1>8, <3>2 DEF Posts
      <3> QED BY <3>1, <3>2, <3>3
    <2> DEFINE f == Refused(b, r)
    <2>4. /\ f \in CbType /\ f.uGlobalState = "STOPPED"
          /\ f.bCTOpened = c.bCTOpened /\ f.wptPendingQueue = <<>>
          /\ f.posted = c.posted /\ f.hal = c.hal /\ f.wdiFailed
          /\ f.fate[r] = "failed"
          /\ \A q \in Request \ {r} :
               f.fate[q] = IF q \in Range(c.wptPendingQueue) THEN "failed" ELSE c.fate[q]
      BY <1>1, RefusedFields
    <2>5. \A q : q \in Range(c.wptPendingQueue) => (q \in Request => c.fate[q] = "queued" /\ q \notin hand)
      BY <1>1, RangeIs DEF Kept, Placed, Waits
    <2> HIDE DEF f
    <2>6. ASSUME NEW g \in CbType, g.uGlobalState \in {"STOPPED", old},
                 g.bCTOpened = f.bCTOpened, g.wptPendingQueue = f.wptPendingQueue,
                 g.posted = f.posted, g.hal = f.hal, g.wdiFailed = f.wdiFailed,
                 g.fate = f.fate
          PROVE  Kept(g, hand \ {r}) /\ Posts(c, g, r, hand)
      <3>1. g.uGlobalState \in State \ {"BUSY"}
        BY <1>1, <1>8, <2>6 DEF State
      <3>2. g.uGlobalState = "INIT" => g.fate[NvDownload] \notin {"sent", "answered"}
        BY <1>4, <2>4, <2>6
      <3> DEFINE out == {r}
      <3>3. /\ out \in SUBSET hand /\ out \cap g.hal = {}
            /\ \A q \in out : q \in Request => g.fate[q] \notin {"new", "queued", "sent"}
            /\ NvDownload \in out => g.fate[NvDownload] = "failed"
            /\ NvDownload \notin out => c.fate[NvDownload] \in {"answered", "failed"}
        BY <1>2, <2>4, <2>6
      <3>4. \A q \in Request \ out :
              g.fate[q] = IF q \in Range(c.wptPendingQueue) THEN "failed" ELSE c.fate[q]
        BY <2>4, <2>6
      <3>7. g.bCTOpened /\ g.wptPendingQueue = <<>> /\ g.posted = c.posted
            /\ g.hal \subseteq c.hal /\ g.wdiFailed
        BY <1>8, <2>4, <2>6
      <3>8. Kept(g, hand \ out)
        <4> HIDE DEF out
        <4> QED BY <1>8, <2>6, <3>1, <3>2, <3>3, <3>4, <3>7, FailedKeeps
      <3>5. Kept(g, hand \ {r})
        BY <3>8
      <3>6. Posts(c, g, r, hand)
        BY <2>4, <2>5, <2>6 DEF Posts
      <3> QED BY <3>5, <3>6
    <2>7. CASE fw = "down" /\ r \in Told \ Suspend
      <3>1. d = f
        BY <2>1, <2>7 DEF ProcessRequest, Refused, Expects, f
      <3> QED BY <2>4, <2>6, <3>1
    <2>8. CASE fw # "up" /\ ~(fw = "down" /\ r \in Told \ Suspend)
      <3> DEFINE g == At(f, old)
      <3>1. d = DequeuePendingReq(g)
        BY <2>1, <2>8 DEF ProcessRequest, Refused, Expects, f, At
      <3>2. /\ g \in CbType /\ g.uGlobalState = old
            /\ g.bCTOpened = f.bCTOpened /\ g.wptPendingQueue = f.wptPendingQueue
            /\ g.posted = f.posted /\ g.hal = f.hal /\ g.wdiFailed = f.wdiFailed
            /\ g.fate = f.fate
        BY <1>1, <2>4, AtFields
      <3> HIDE DEF g
      <3>3. Kept(g, hand \ {r}) /\ Posts(c, g, r, hand)
        BY <2>6, <3>2
      <3>4. DequeuePendingReq(g) = g
        BY <2>4, <3>2 DEF DequeuePendingReq
      <3> QED BY <3>1, <3>3, <3>4
    <2> QED BY <2>2, <2>3, <2>7, <2>8
  <1> QED BY <1>1, <1>6, <1>7, <1>8

-----------------------------------------------------------------------------
(***************************************************************************)
(* WDI_MainRsp.                                                            *)
(***************************************************************************)
Taken(c, r, f) ==
  [WithFate(c, {r}, f) EXCEPT
     !.hal = @ \ {r}, !.timer = FALSE, !.wdiExpectedResponse = NoReq]

LEMMA TakenFields ==
  ASSUME NEW c \in CbType, NEW r \in Request, NEW f \in Fate
  PROVE  LET d == Taken(c, r, f)
         IN  /\ d \in CbType /\ d.uGlobalState = c.uGlobalState
             /\ d.wdiExpectedResponse = NoReq
             /\ d.bCTOpened = c.bCTOpened /\ d.wptPendingQueue = c.wptPendingQueue
             /\ d.posted = c.posted /\ d.hal = c.hal \ {r}
             /\ d.usCurrentFragment = c.usCurrentFragment
             /\ d.wdiFailed = c.wdiFailed
             /\ \A q \in Request : d.fate[q] = IF q \in {r} THEN f ELSE c.fate[q]
  <1> DEFINE e == WithFate(c, {r}, f)
             d == Taken(c, r, f)
  <1>1. /\ e \in CbType /\ e.uGlobalState = c.uGlobalState
        /\ e.bCTOpened = c.bCTOpened /\ e.wptPendingQueue = c.wptPendingQueue
        /\ e.posted = c.posted /\ e.hal = c.hal
        /\ e.usCurrentFragment = c.usCurrentFragment /\ e.wdiFailed = c.wdiFailed
        /\ \A q \in Request : e.fate[q] = IF q \in {r} THEN f ELSE c.fate[q]
    BY WithFateFields
  <1>2. d = [e EXCEPT !.hal = e.hal \ {r}, !.timer = FALSE, !.wdiExpectedResponse = NoReq]
    BY DEF Taken
  <1> HIDE DEF e
  <1>3. /\ d \in CbType /\ d.uGlobalState = e.uGlobalState
        /\ d.wdiExpectedResponse = NoReq
        /\ d.bCTOpened = e.bCTOpened /\ d.wptPendingQueue = e.wptPendingQueue
        /\ d.posted = e.posted /\ d.hal = e.hal \ {r}
        /\ d.usCurrentFragment = e.usCurrentFragment /\ d.wdiFailed = e.wdiFailed
        /\ d.fate = e.fate
    BY <1>1, <1>2 DEF CbType
  <1> HIDE DEF d
  <1>4. /\ d \in CbType /\ d.uGlobalState = c.uGlobalState
        /\ d.wdiExpectedResponse = NoReq
        /\ d.bCTOpened = c.bCTOpened /\ d.wptPendingQueue = c.wptPendingQueue
        /\ d.posted = c.posted /\ d.hal = c.hal \ {r}
        /\ d.usCurrentFragment = c.usCurrentFragment
        /\ d.wdiFailed = c.wdiFailed
        /\ \A q \in Request : d.fate[q] = IF q \in {r} THEN f ELSE c.fate[q]
    BY <1>1, <1>3
  <1> QED BY <1>4 DEF d

\* The response that is expected is taken, with fate f: WDI may go on in a
\* state s that processes requests, and the request may be posted again.
TakesTo(c, d, r, f, s) ==
  /\ Kept(d, {}) /\ Kept(d, {r})
  /\ d.uGlobalState = s /\ d.wptPendingQueue = c.wptPendingQueue
  /\ d.posted = c.posted /\ d.hal = c.hal \ {r} /\ d.bCTOpened
  /\ d.usCurrentFragment = c.usCurrentFragment
  /\ d.wdiFailed = c.wdiFailed
  /\ \A q \in Request : d.fate[q] = IF q = r THEN f ELSE c.fate[q]

LEMMA TakenKeeps ==
  ASSUME NEW c, NEW r \in Request, Kept(c, {}), r \in c.hal, r = c.wdiExpectedResponse,
         NEW f \in {"answered", "failed"}, r = NvDownload => f = "answered",
         NEW s \in {"STARTED", "STOPPED"}
  PROVE  TakesTo(c, At(Taken(c, r, f), s), r, f, s)
  <1> DEFINE t == Taken(c, r, f)
             d == At(t, s)
  <1>1. c \in CbType /\ f \in Fate /\ s \in State /\ c.bCTOpened \in BOOLEAN
    BY FieldType DEF Kept, Fate, State
  <1>2. /\ t \in CbType /\ t.uGlobalState = c.uGlobalState
        /\ t.wdiExpectedResponse = NoReq
        /\ t.bCTOpened = c.bCTOpened /\ t.wptPendingQueue = c.wptPendingQueue
        /\ t.posted = c.posted /\ t.hal = c.hal \ {r}
        /\ t.usCurrentFragment = c.usCurrentFragment
        /\ t.wdiFailed = c.wdiFailed
        /\ \A q \in Request : t.fate[q] = IF q \in {r} THEN f ELSE c.fate[q]
    BY <1>1, TakenFields
  <1> HIDE DEF t
  <1>3. /\ d \in CbType /\ d.uGlobalState = s
        /\ d.wdiExpectedResponse = t.wdiExpectedResponse
        /\ d.bCTOpened = t.bCTOpened /\ d.wptPendingQueue = t.wptPendingQueue
        /\ d.posted = t.posted /\ d.hal = t.hal
        /\ d.usCurrentFragment = t.usCurrentFragment
        /\ d.wdiFailed = t.wdiFailed /\ d.fate = t.fate
    BY <1>1, <1>2, AtFields
  <1> HIDE DEF d
  <1>4. c.bCTOpened
    BY <1>1 DEF Kept, NotOpened
  <1>5. /\ d \in CbType /\ d.uGlobalState = s /\ d.wdiExpectedResponse = NoReq
        /\ d.bCTOpened /\ d.wptPendingQueue = c.wptPendingQueue
        /\ d.posted = c.posted /\ d.hal = c.hal \ {r}
        /\ d.usCurrentFragment = c.usCurrentFragment
        /\ d.wdiFailed = c.wdiFailed
        /\ \A q \in Request : d.fate[q] = IF q \in {r} THEN f ELSE c.fate[q]
    BY <1>2, <1>3, <1>4
  <1>6. c.fate[r] = "sent" /\ r # NoReq
    BY RequestType DEF Kept, HalSent
  <1>7. \A q : Waits(d, q) <=> Waits(c, q)
    BY <1>5 DEF Waits
  <1>8. Placed(d, {}) /\ Placed(d, {r})
    BY <1>5, <1>6, <1>7 DEF Kept, Placed
  <1>9. Once(d) /\ Ready(d) /\ HasCause(d)
    BY <1>5 DEF Kept, Once, Ready, HasCause
  <1>10. InStep(d)
    <2> SUFFICES ASSUME ~c.wdiFailed
                 PROVE  Len(c.posted) <= 1 /\ c.posted = <<>>
                        /\ c.hal \ {r} = {NoReq} \ {NoReq}
      BY <1>5 DEF InStep
    <2> QED BY <1>6 DEF Kept, InStep
  <1>11. HalSent(d)
    <2>1. c.hal \subseteq Request
      BY <1>1, FieldType
    <2> QED BY <1>5, <2>1 DEF Kept, HalSent
  <1>12. NvFirst(d)
    <2>1. r = NvDownload => \A i \in 1 .. Len(c.posted) : c.posted[i].val # "INIT"
      BY <1>6 DEF Kept, NvFirst
    <2> QED BY <1>5, <2>1, RequestType DEF Kept, NvFirst
  <1>13. NotOpened(d)
    BY <1>5 DEF NotOpened
  <1>14. Kept(d, {}) /\ Kept(d, {r})
    BY <1>5, <1>8, <1>9, <1>10, <1>11, <1>12, <1>13 DEF Kept
  <1> QED BY <1>5, <1>14 DEF TakesTo, d, t

\* What a message of the firmware does to the requests.
Answers(c, d) ==
  /\ d.bCTOpened = c.bCTOpened
  /\ d.wptPendingQueue = <<>> \/ d.uGlobalState = "BUSY"
  /\ \A q \in Request :
       \/ d.fate[q] = c.fate[q]
       \/ c.fate[q] = "queued" /\ d.fate[q] = "failed"
       \/ c.fate[q] = "sent" /\ d.fate[q] # "new"

\* WDI detects a device error.
LEMMA DetectedKeeps ==
  ASSUME NEW c, Kept(c, {}), c.bCTOpened, c.fate[NvDownload] \in {"answered", "failed"}
  PROVE  LET d == DetectedDeviceError(c)
         IN  Kept(d, {}) /\ Answers(c, d) /\ d.wptPendingQueue = <<>>
             /\ d.uGlobalState = "STOPPED" /\ d.wdiFailed
  <1> DEFINE d == DetectedDeviceError(c)
             out == {}
  <1>1. c \in CbType /\ c.wptPendingQueue \in Seq(Request)
    BY FieldType DEF Kept
  <1>2. /\ d \in CbType /\ d.uGlobalState = "STOPPED"
        /\ d.bCTOpened = c.bCTOpened /\ d.wptPendingQueue = <<>>
        /\ d.posted = c.posted /\ d.hal = c.hal /\ d.wdiFailed = TRUE
        /\ \A q \in Request : d.fate[q] = IF q \in Range(c.wptPendingQueue)
                                          THEN "failed" ELSE c.fate[q]
    BY <1>1, DetectedFields
  <1> HIDE DEF d
  <1>3. \A q \in Request : q \in Range(c.wptPendingQueue) => c.fate[q] = "queued"
    BY <1>1, RangeIs DEF Kept, Placed, Waits
  <1>4. Answers(c, d)
    BY <1>2, <1>3 DEF Answers
  <1>5. /\ out \in SUBSET {} /\ out \cap d.hal = {} /\ NvDownload \notin out
        /\ \A q \in out : q \in Request => d.fate[q] \notin {"new", "queued", "sent"}
        /\ \A q \in Request \ out :
             d.fate[q] = IF q \in Range(c.wptPendingQueue) THEN "failed" ELSE c.fate[q]
    BY <1>2
  <1>6. d.uGlobalState \in State \ {"BUSY"}
    BY <1>2 DEF State
  <1>7. Kept(d, {} \ out)
    <2> HIDE DEF out
    <2> QED BY <1>2, <1>5, <1>6, FailedKeeps
  <1> QED BY <1>2, <1>4, <1>7 DEF d

\* The state may be left before or after WDI detects an error, or queues.
LEMMA DetectedAt ==
  ASSUME NEW c \in CbType
  PROVE  At(DetectedDeviceError(c), "STOPPED") = DetectedDeviceError(At(c, "STOPPED"))
  BY DEF At, DetectedDeviceError, ClearPendingRequests, WithFate, CbType, State

LEMMA QueueAt ==
  ASSUME NEW c \in CbType, NEW r \in Request
  PROVE  At(QueuePendingReq(c, r), "STARTED") = QueuePendingReq(At(c, "STARTED"), r)
  BY DEF At, QueuePendingReq, WithFate, CbType, State

\* A response, whichever it is, keeps the invariant of the control block.
LEMMA ResponseKeeps ==
  ASSUME NEW c, Kept(c, {}), c.wptPendingQueue = <<>> \/ c.uGlobalState = "BUSY" \/ ~c.bCTOpened,
         NEW r \in c.hal, NEW ok \in BOOLEAN, r = NvDownload => ok,
         r # NvDownload => c.fate[NvDownload] = "answered"
  PROVE  LET d == Response(c, r, ok)
         IN  /\ Kept(d, {}) /\ Answers(c, d)
             /\ r # c.wdiExpectedResponse \/ ~ok => d.wdiFailed
  <1> DEFINE d == Response(c, r, ok)
             f == IF ok THEN "answered" ELSE "failed"
             t == Taken(c, r, f)
  <1>1. c \in CbType /\ c.hal \subseteq Request /\ c.bCTOpened \in BOOLEAN
        /\ r \in Request /\ c.usCurrentFragment \in 0 .. Fragments
        /\ f \in {"answered", "failed"} /\ c.fate \in [Request -> Fate]
        /\ c.uGlobalState \in State
    BY FieldType DEF Kept
  <1>2. c.bCTOpened /\ c.fate[r] = "sent" /\ r # NoReq
    BY <1>1, RequestType DEF Kept, NotOpened, HalSent
  <1>3. CASE r # c.wdiExpectedResponse
    <2> DEFINE e == [c EXCEPT !.hal = c.hal \ {r}]
    <2>1. d = e
      BY <1>3 DEF Response
    <2>2. /\ e \in CbType /\ e.uGlobalState = c.uGlobalState
          /\ e.wdiExpectedResponse = c.wdiExpectedResponse
          /\ e.bCTOpened = c.bCTOpened /\ e.wptPendingQueue = c.wptPendingQueue
          /\ e.posted = c.posted /\ e.hal = c.hal \ {r}
          /\ e.usCurrentFragment = c.usCurrentFragment
          /\ e.wdiFailed = c.wdiFailed /\ e.fate = c.fate
      BY <1>1 DEF CbType
    <2> HIDE DEF e
    <2>3. c.wdiFailed
      BY <1>2, <1>3 DEF Kept, InStep
    <2>4. \A q : Waits(e, q) <=> Waits(c, q)
      BY <2>2 DEF Waits
    <2>5. Once(e) /\ Placed(e, {}) /\ Ready(e) /\ HasCause(e) /\ InStep(e)
      BY <2>2, <2>3, <2>4 DEF Kept, Once, Placed, Ready, HasCause, InStep
    <2>6. HalSent(e) /\ NvFirst(e) /\ NotOpened(e)
      BY <1>2, <2>2 DEF Kept, HalSent, NvFirst, NotOpened
    <2>7. Answers(c, e)
      BY <1>2, <2>2 DEF Answers
    <2> QED BY <2>1, <2>2, <2>3, <2>5, <2>6, <2>7 DEF Kept
  <1>4. ASSUME r = c.wdiExpectedResponse, NEW s \in {"STARTED", "STOPPED"}
        PROVE  /\ Kept(At(t, s), {}) /\ Kept(At(t, s), {r})
               /\ At(t, s).uGlobalState = s
               /\ At(t, s).wptPendingQueue = c.wptPendingQueue
               /\ At(t, s).posted = c.posted /\ At(t, s).hal = c.hal \ {r}
               /\ At(t, s).bCTOpened
               /\ At(t, s).usCurrentFragment = c.usCurrentFragment
               /\ At(t, s).wdiFailed = c.wdiFailed
               /\ \A q \in Request : At(t, s).fate[q] = IF q = r THEN f ELSE c.fate[q]
    <2>1. r = NvDownload => f = "answered"
      OBVIOUS
    <2>2. f \in {"answered", "failed"} /\ r \in Request
      BY <1>1
    <2> HIDE DEF f, d, t
    <2>3. r \in c.hal
      OBVIOUS
    <2>4. TakesTo(c, At(Taken(c, r, f), s), r, f, s)
      BY <1>4, <2>1, <2>2, <2>3, TakenKeeps
    <2> QED BY <2>4 DEF TakesTo, t
  <1>5. ASSUME r = c.wdiExpectedResponse, NEW s \in {"STARTED", "STOPPED"},
               d = DequeuePendingReq(At(t, s))
        PROVE  Kept(d, {}) /\ Answers(c, d)
    <2> DEFINE e == At(t, s)
    <2>1. /\ Kept(e, {}) /\ e.bCTOpened /\ e.uGlobalState = s
          /\ \A q \in Request : e.fate[q] = IF q = r THEN f ELSE c.fate[q]
      BY <1>4, <1>5
    <2> HIDE DEF e
    <2>2. LET g == DequeuePendingReq(e)
          IN  /\ Kept(g, {}) /\ g.fate = e.fate /\ g.bCTOpened
              /\ g.wptPendingQueue = <<>> \/ g.uGlobalState = "BUSY"
      BY <2>1, DequeueKeeps
    <2>3. d = DequeuePendingReq(e)
      BY <1>5 DEF e
    <2> HIDE DEF d, f
    <2>4. d.bCTOpened \in BOOLEAN
      BY <2>2, <2>3, FieldType DEF Kept
    <2>5. \A q \in Request : d.fate[q] = IF q = r THEN f ELSE c.fate[q]
      BY <2>1, <2>2, <2>3
    <2>6. Answers(c, d)
      BY <1>1, <1>2, <2>2, <2>3, <2>4, <2>5 DEF Answers
    <2> QED BY <2>2, <2>3, <2>6
  <1>6. CASE r = c.wdiExpectedResponse /\ ~ok
    <2> DEFINE e == At(t, "STOPPED")
               g == DetectedDeviceError(e)
    <2>1. /\ Kept(e, {}) /\ e.bCTOpened
          /\ \A q \in Request : e.fate[q] = IF q = r THEN f ELSE c.fate[q]
      BY <1>4, <1>6
    <2>2. r # NvDownload
      BY <1>6
    <2>3. e.fate[NvDownload] = "answered"
      BY <2>1, <2>2, RequestType
    <2>4. d = DequeuePendingReq(At(DetectedDeviceError(t), "STOPPED"))
      BY <1>6 DEF Response, Taken, At
    <2>5. t \in CbType
      BY <1>1, TakenFields DEF Fate
    <2>6. At(DetectedDeviceError(t), "STOPPED") = g
      <3> HIDE DEF t
      <3> QED BY <2>5, DetectedAt
    <2> HIDE DEF e
    <2>7. /\ Kept(g, {}) /\ Answers(e, g) /\ g.wptPendingQueue = <<>>
          /\ g.uGlobalState = "STOPPED" /\ g.wdiFailed
      BY <2>1, <2>3, DetectedKeeps
    <2> HIDE DEF g
    <2>8. d = g
      BY <2>4, <2>6, <2>7 DEF DequeuePendingReq
    <2>9. g.bCTOpened = c.bCTOpened
      <3>1. e.bCTOpened \in BOOLEAN /\ c.bCTOpened \in BOOLEAN
        BY <2>1, <1>1, FieldType DEF Kept
      <3> QED BY <3>1, <2>1, <2>7, <1>2 DEF Answers
    <2>10. \A q \in Request \ {r} : e.fate[q] = c.fate[q]
      BY <2>1
    <2>12. g.fate[r] # "new"
      <3>1. e.fate[r] \in {"answered", "failed"}
        BY <1>1, <2>1
      <3> QED BY <1>1, <2>7, <3>1 DEF Answers
    <2>11. Answers(c, g)
      BY <1>2, <2>7, <2>9, <2>10, <2>12 DEF Answers
    <2> QED BY <2>7, <2>8, <2>11
  <1> DEFINE more == r = NvDownload /\ c.usCurrentFragment # Fragments
  <1>7. CASE r = c.wdiExpectedResponse /\ ok /\ ~more
    <2> DEFINE s == IF r = StopReq THEN "STOPPED" ELSE "STARTED"
    <2>1. d = DequeuePendingReq(At(t, s))
      BY <1>7, RequestType DEF Response, Taken, At
    <2>2. s \in {"STARTED", "STOPPED"}
      OBVIOUS
    <2> HIDE DEF s
    <2> QED BY <1>5, <1>7, <2>1, <2>2
  <1>8. CASE r = c.wdiExpectedResponse /\ ok /\ more
    <2>1. ~c.wdiFailed
      BY <1>2, <1>8 DEF Kept, NvFirst
    <2>2. c.uGlobalState = "BUSY"
      BY <1>2, <1>8, <2>1 DEF Kept, InStep
    <2> DEFINE e == At(t, "STARTED")
               q1 == QueuePendingReq(e, r)
    <2>3. t.uGlobalState = "BUSY" /\ t \in CbType
      <3>1. f \in Fate
        BY <1>1 DEF Fate
      <3> HIDE DEF f
      <3> QED BY <1>1, <2>2, <3>1, TakenFields
    <2>4. d = DequeuePendingReq(At(PostMainEvent(t, r), "STARTED"))
      BY <1>8, RequestType DEF Response, Taken, At
    <2>5. PostMainEvent(t, r) = QueuePendingReq(t, r)
      <3> HIDE DEF t
      <3> QED BY <2>3 DEF PostMainEvent, Served
    <2>6. At(QueuePendingReq(t, r), "STARTED") = q1
      <3> HIDE DEF t
      <3> QED BY <1>1, <2>3, QueueAt
    <2>7. /\ Kept(e, {r}) /\ e.bCTOpened /\ e.uGlobalState = "STARTED"
          /\ e.hal = c.hal \ {r} /\ e.wdiFailed = c.wdiFailed
          /\ e.usCurrentFragment = c.usCurrentFragment
          /\ \A q \in Request : e.fate[q] = IF q = r THEN f ELSE c.fate[q]
      BY <1>4, <1>8
    <2> HIDE DEF e
    <2>8. e.usCurrentFragment < Fragments
      BY <1>1, <1>8, <2>7, FragmentsAssumption
    <2>9. Kept(q1, {r} \ {r})
      <3>1. r \in {r} /\ r \notin e.hal /\ ~e.wdiFailed
        BY <2>1, <2>7
      <3> QED BY <1>1, <2>7, <2>8, <3>1, QueueKeeps
    <2>10. /\ q1.uGlobalState = e.uGlobalState /\ q1.bCTOpened = e.bCTOpened
           /\ \A q \in Request : q1.fate[q] = IF q = r THEN "queued" ELSE e.fate[q]
      BY <1>1, <2>7, QueueFields, ZenonT(40) DEF Kept
    <2> HIDE DEF q1
    <2>11. {r} \ {r} = {}
      OBVIOUS
    <2>12. LET g == DequeuePendingReq(q1)
           IN  /\ Kept(g, {}) /\ g.fate = q1.fate /\ g.bCTOpened
               /\ g.wptPendingQueue = <<>> \/ g.uGlobalState = "BUSY"
      BY <2>7, <2>9, <2>10, <2>11, DequeueKeeps
    <2>13. d = DequeuePendingReq(q1)
      BY <2>4, <2>5, <2>6
    <2> HIDE DEF d, f
    <2>14. d.bCTOpened = c.bCTOpened
      <3>1. d.bCTOpened \in BOOLEAN
        BY <2>12, <2>13, FieldType DEF Kept
      <3> QED BY <3>1, <2>12, <2>13, <1>1, <1>2
    <2>15. Answers(c, d)
      <3>1. \A q \in Request : d.fate[q] = IF q = r THEN "queued" ELSE c.fate[q]
        BY <2>7, <2>10, <2>12, <2>13
      <3>2. d.wptPendingQueue = <<>> \/ d.uGlobalState = "BUSY"
        BY <2>12, <2>13
      <3> QED BY <1>2, <2>14, <3>1, <3>2 DEF Answers
    <2> QED BY <1>8, <2>12, <2>13, <2>15 DEF d
  <1> QED BY <1>3, <1>6, <1>7, <1>8

-----------------------------------------------------------------------------
(***************************************************************************)
(* The actions.                                                            *)
(***************************************************************************)
\* An action that posts the event of a request: of a new one, or of the one
\* the control thread has in hand.
LEMMA PostInv ==
  ASSUME TypeOK, Running, NEW r \in Request, cb.fate[r] = "new" \/ r = mc,
         r # NvDownload => cb.fate[NvDownload] = "answered",
         cb' = PostMainEvent(cb, r), mc' = IF r = mc THEN NoReq ELSE mc
  PROVE  /\ Kept(cb', Hand') /\ PendingIsDequeued'
         /\ \A q \in Request \ {r} : cb'.fate[q] = "new" <=> cb.fate[q] = "new"
         /\ (\E q \in Request \ {NvDownload} : cb'.fate[q] # "new")
              => cb'.fate[NvDownload] = "answered"
         /\ mc' # NoReq => cb'.fate[mc'] = "queued" /\ cb'.bCTOpened
         /\ cb'.fate[r] # "new"
  <1> DEFINE hand == Hand \cup {r}
  <1>1. r # NoReq /\ NvDownload \in Request
    BY RequestType
  <1>2. r = mc => cb.fate[r] = "queued"
    BY <1>1 DEF Running, Made
  <1>3. mc # NoReq => mc \in Request /\ cb.fate[mc] = "queued" /\ cb.bCTOpened
    BY DEF TypeOK, Running, Made
  <1>4. Kept(cb, hand)
    <2>1. \A q \in Request : Waits(cb, q) <=> cb.fate[q] = "queued" /\ q \notin hand
      BY <1>1, <1>2 DEF Running, Kept, Placed, Hand
    <2> HIDE DEF hand
    <2> QED BY <2>1 DEF Running, Kept, Placed
  <1>5. r \in hand /\ cb.fate[r] \in {"new", "queued"}
    BY <1>2
  <1>6. Kept(cb', hand \ {r}) /\ Posts(cb, cb', r, hand)
    <2> HIDE DEF hand
    <2> QED BY <1>4, <1>5, PostKeeps
  <1>7. hand \ {r} = Hand'
    BY <1>1, <1>2, <1>3 DEF Hand
  <1>8. Kept(cb', Hand')
    BY <1>6, <1>7
  <1>9. PendingIsDequeued'
    BY <1>6 DEF Posts, PendingIsDequeued
  <1>10. \A q \in Request \ {r} : cb'.fate[q] = "new" <=> cb.fate[q] = "new"
    BY <1>6 DEF Posts
  <1>11. ASSUME NEW q \in Request \ {NvDownload}, cb'.fate[q] # "new"
         PROVE  cb'.fate[NvDownload] = "answered"
    <2>1. CASE r = NvDownload
      BY <1>2, <1>5, <1>10, <1>11, <2>1 DEF Running, Made
    <2>2. CASE r # NvDownload
      BY <1>1, <1>6, <2>2 DEF Posts
    <2> QED BY <2>1, <2>2
  <1>12. mc' # NoReq => cb'.fate[mc'] = "queued" /\ cb'.bCTOpened
    <2>1. mc \in hand \/ mc = NoReq
      BY DEF Hand
    <2>2. mc # NoReq /\ mc # r => cb'.fate[mc] = "queued" /\ cb'.bCTOpened
      BY <1>3, <1>6, <2>1 DEF Posts
    <2> QED BY <2>2
  <1>13. cb'.fate[r] # "new"
    BY <1>6 DEF Posts
  <1> QED BY <1>8, <1>9, <1>10, <1>11, <1>12, <1>13

\* A message of the firmware keeps what the actions need.
LEMMA AnswersInv ==
  ASSUME TypeOK, Running, mc = NoReq, mc' = mc, Kept(cb', {}), Answers(cb, cb'),
         UNCHANGED <<caller, next>>
  PROVE  Running'
  <1>1. Kept(cb', Hand')
    <2>1. Hand' = {}
      BY DEF Hand
    <2> QED BY <2>1
  <1>2. \A q \in Request : cb'.fate[q] = "new" <=> cb.fate[q] = "new"
    BY DEF Answers
  <1>3. cb.fate[NvDownload] = "answered" => cb'.fate[NvDownload] = "answered"
    BY RequestType DEF Answers
  <1>4. Made'
    BY <1>2, <1>3, RequestType DEF Running, Made, WdaReq
  <1>5. PendingIsDequeued'
    BY DEF Answers, PendingIsDequeued
  <1> QED BY <1>1, <1>4, <1>5 DEF Running

\* Where the control thread has nothing in hand.
LEMMA Idle ==
  ASSUME Running, mc = NoReq
  PROVE  Kept(cb, {}) /\ (cb.wptPendingQueue = <<>> \/ cb.uGlobalState = "BUSY" \/ ~cb.bCTOpened)
  <1>1. Hand = {}
    BY DEF Hand
  <1> QED BY <1>1 DEF Running, PendingIsDequeued

LEMMA InitInv == Init => CpInv
  <1> SUFFICES ASSUME Init PROVE CpInv
    OBVIOUS
  <1>1. cb \in CbType
    <2>1. <<>> \in Seq(Request) /\ <<>> \in Seq([req : Request, val : State])
      BY SeqSteps
    <2>2. [r \in Request |-> "new"] \in [Request -> Fate]
      BY DEF Fate
    <2> QED BY <2>1, <2>2, FragmentsAssumption DEF Init, CbType, State
  <1>2. TypeOK
    <2>1. mc = NoReq /\ caller = "nv" /\ next = 2 /\ expiry = FALSE /\ fw = "up"
      BY DEF Init
    <2>2. next \in 2 .. (MaxReq + 1)
      BY <2>1, MaxReqAssumption
    <2>3. expiry \in BOOLEAN
      BY <2>1
    <2> QED BY <1>1, <2>1, <2>2, <2>3 DEF TypeOK, Caller
  <1>3. Len(cb.posted) = 0 /\ Len(cb.wptPendingQueue) = 0
    BY DEF Init
  <1>4. \A q \in Request : ~Waits(cb, q) /\ cb.fate[q] = "new"
    <2>1. \A q \in Request : ~Waits(cb, q)
      BY <1>3 DEF Waits
    <2>2. cb.fate = [r \in Request |-> "new"]
      BY DEF Init
    <2> QED BY <2>1, <2>2
  <1>5. Once(cb) /\ Placed(cb, Hand) /\ Ready(cb) /\ HasCause(cb)
    <2>1. Once(cb) /\ Ready(cb)
      BY <1>3 DEF Once, Ready
    <2>2. Placed(cb, Hand)
      BY <1>4 DEF Placed
    <2> QED BY <2>1, <2>2 DEF Init, HasCause
  <1>6. InStep(cb) /\ HalSent(cb) /\ NvFirst(cb) /\ NotOpened(cb)
    BY <1>3, <1>4, RequestType, FragmentsAssumption
    DEF Init, InStep, HalSent, NvFirst, NotOpened
  <1>7. Made /\ PendingIsDequeued
    BY <1>4, RequestType DEF Made, Init, PendingIsDequeued, WdaReq
  <1> QED BY <1>1, <1>2, <1>5, <1>6, <1>7 DEF Init, CpInv, Alive, Running, Kept

LEMMA WdiNvDownloadReqInv == CpInv /\ WdiNvDownloadReq => CpInv'
  <1> SUFFICES ASSUME CpInv, WdiNvDownloadReq PROVE CpInv'
    OBVIOUS
  <1>1. TypeOK /\ Running /\ cb.fate[NvDownload] = "new" /\ NvDownload \in Request
    BY RequestType DEF CpInv, WdiNvDownloadReq, Alive, Running, Made
  <1>2. NvDownload # mc
    BY <1>1, RequestType DEF Running, Made
  <1>3. /\ Kept(cb', Hand') /\ PendingIsDequeued'
        /\ \A q \in Request \ {NvDownload} : cb'.fate[q] = "new" <=> cb.fate[q] = "new"
        /\ (\E q \in Request \ {NvDownload} : cb'.fate[q] # "new")
             => cb'.fate[NvDownload] = "answered"
        /\ mc' # NoReq => cb'.fate[mc'] = "queued" /\ cb'.bCTOpened
    BY <1>1, <1>2, PostInv DEF WdiNvDownloadReq
  <1>4. Made'
    BY <1>1, <1>3, RequestType DEF WdiNvDownloadReq, Running, Made, WdaReq
  <1>5. TypeOK'
    BY <1>1, <1>3 DEF WdiNvDownloadReq, TypeOK, Kept, Caller
  <1> QED BY <1>3, <1>4, <1>5 DEF WdiNvDownloadReq, CpInv, Alive, Running

LEMMA WdiStartInv == CpInv /\ WdiStart => CpInv'
  <1> SUFFICES ASSUME CpInv, WdiStart PROVE CpInv'
    OBVIOUS
  <1>1. /\ TypeOK /\ Running /\ cb.fate[StartReq] = "new" /\ StartReq \in Request
        /\ cb.fate[NvDownload] = "answered"
    BY RequestType DEF CpInv, WdiStart, Alive, Running, Made
  <1>2. StartReq # mc
    BY <1>1, RequestType DEF Running, Made
  <1>3. /\ Kept(cb', Hand') /\ PendingIsDequeued'
        /\ \A q \in Request \ {StartReq} : cb'.fate[q] = "new" <=> cb.fate[q] = "new"
        /\ (\E q \in Request \ {NvDownload} : cb'.fate[q] # "new")
             => cb'.fate[NvDownload] = "answered"
        /\ mc' # NoReq => cb'.fate[mc'] = "queued" /\ cb'.bCTOpened
        /\ cb'.fate[StartReq] # "new"
    BY <1>1, <1>2, PostInv DEF WdiStart
  <1>4. Made'
    BY <1>1, <1>3, RequestType DEF WdiStart, Running, Made, WdaReq
  <1>5. TypeOK'
    BY <1>1, <1>3 DEF WdiStart, TypeOK, Kept, Caller
  <1> QED BY <1>3, <1>4, <1>5 DEF WdiStart, CpInv, Alive, Running

LEMMA WdiStopClearInv == CpInv /\ WdiStopClear => CpInv'
  <1> SUFFICES ASSUME CpInv, WdiStopClear PROVE CpInv'
    OBVIOUS
  <1>1. TypeOK /\ Running /\ cb.fate[StartReq] = "answered" /\ Kept(cb, Hand)
    BY DEF CpInv, WdiStopClear, Alive, Running
  <1>2. cb \in CbType /\ cb.wptPendingQueue \in Seq(Request) /\ cb.hal \subseteq Request
    BY <1>1, FieldType DEF Kept
  <1>3. /\ cb' \in CbType /\ cb'.uGlobalState = cb.uGlobalState
        /\ cb'.wdiExpectedResponse = cb.wdiExpectedResponse
        /\ cb'.bCTOpened = cb.bCTOpened /\ cb'.wptPendingQueue = <<>>
        /\ cb'.posted = cb.posted /\ cb'.hal = cb.hal
        /\ cb'.usCurrentFragment = cb.usCurrentFragment
        /\ cb'.wdiFailed = cb.wdiFailed
        /\ \A q \in Request : cb'.fate[q] = IF q \in Range(cb.wptPendingQueue)
                                            THEN "failed" ELSE cb.fate[q]
    BY <1>2, ClearFields DEF WdiStopClear
  <1>4. cb.fate[NvDownload] = "answered" /\ cb.bCTOpened
    BY <1>1, <1>2, FieldType, RequestType DEF Running, Made, Kept, NotOpened
  <1>5. \A q : q \in Range(cb.wptPendingQueue)
                <=> \E i \in 1 .. Len(cb.wptPendingQueue) : cb.wptPendingQueue[i] = q
    BY <1>2, RangeIs
  <1>6. \A q \in Request : q \in Range(cb.wptPendingQueue)
                           => cb.fate[q] = "queued" /\ q \notin Hand
    BY <1>1, <1>5 DEF Kept, Placed, Waits
  <1>7. Len(cb'.wptPendingQueue) = 0 /\ Hand' = Hand
    BY <1>3 DEF WdiStopClear, Hand
  <1>8. \A q : Waits(cb', q) <=> \E i \in 1 .. Len(cb.posted) : cb.posted[i].req = q
    BY <1>3, <1>7 DEF Waits
  <1>9. Placed(cb', Hand)
    <2> SUFFICES ASSUME NEW q \in Request
                 PROVE  Waits(cb', q) <=> cb'.fate[q] = "queued" /\ q \notin Hand
      BY DEF Placed
    <2>1. CASE q \in Range(cb.wptPendingQueue)
      BY <1>1, <1>3, <1>5, <1>8, <2>1 DEF Kept, Once
    <2>2. CASE q \notin Range(cb.wptPendingQueue)
      <3>1. Waits(cb', q) <=> Waits(cb, q)
        BY <1>5, <1>8, <2>2 DEF Waits
      <3> QED BY <1>1, <1>3, <2>2, <3>1 DEF Kept, Placed
    <2> QED BY <2>1, <2>2
  <1>10. Once(cb') /\ Ready(cb') /\ HasCause(cb') /\ InStep(cb')
    BY <1>1, <1>3, <1>7 DEF Kept, Once, Ready, HasCause, InStep
  <1>11. HalSent(cb')
    BY <1>1, <1>2, <1>3, <1>6 DEF Kept, HalSent
  <1>12. NvFirst(cb') /\ NotOpened(cb')
    BY <1>1, <1>3, <1>4, <1>6, RequestType DEF Kept, NvFirst, NotOpened
  <1>13. Kept(cb', Hand')
    BY <1>3, <1>7, <1>9, <1>10, <1>11, <1>12 DEF Kept
  <1>14. Made'
    <2>1. \A q \in Request : cb'.fate[q] = "new" <=> cb.fate[q] = "new"
      BY <1>3, <1>6
    <2>2. cb'.fate[NvDownload] = "answered"
      BY <1>3, <1>4, <1>6, RequestType
    <2>3. mc # NoReq => mc \in Request /\ mc \in Hand /\ cb.fate[mc] = "queued"
      BY <1>1 DEF TypeOK, Running, Made, Hand
    <2>4. mc # NoReq => cb'.fate[mc] = "queued"
      BY <1>3, <1>6, <2>3
    <2> QED
      BY <1>1, <1>3, <1>4, <2>1, <2>2, <2>4, RequestType DEF WdiStopClear, Running, Made, WdaReq
  <1>15. TypeOK' /\ PendingIsDequeued'
    BY <1>1, <1>3 DEF WdiStopClear, TypeOK, Caller, PendingIsDequeued
  <1> QED BY <1>13, <1>14, <1>15 DEF WdiStopClear, CpInv, Alive, Running

LEMMA WdiStopPostInv == CpInv /\ WdiStopPost => CpInv'
  <1> SUFFICES ASSUME CpInv, WdiStopPost PROVE CpInv'
    OBVIOUS
  <1>1. /\ TypeOK /\ Running /\ cb.fate[StopReq] = "new" /\ StopReq \in Request
    BY RequestType DEF CpInv, WdiStopPost, Alive, Running, Made
  <1>2. StopReq # mc
    BY <1>1, RequestType DEF Running, Made
  <1>6. cb.fate[NvDownload] = "answered"
    BY <1>1, RequestType DEF Running, Made, WdiStopPost
  <1>3. /\ Kept(cb', Hand') /\ PendingIsDequeued'
        /\ \A q \in Request \ {StopReq} : cb'.fate[q] = "new" <=> cb.fate[q] = "new"
        /\ (\E q \in Request \ {NvDownload} : cb'.fate[q] # "new")
             => cb'.fate[NvDownload] = "answered"
        /\ mc' # NoReq => cb'.fate[mc'] = "queued" /\ cb'.bCTOpened
    BY <1>1, <1>2, <1>6, PostInv DEF WdiStopPost
  <1>4. Made'
    BY <1>1, <1>3, RequestType DEF WdiStopPost, Running, Made, WdaReq
  <1>5. TypeOK'
    BY <1>1, <1>3 DEF WdiStopPost, TypeOK, Kept, Caller
  <1> QED BY <1>3, <1>4, <1>5 DEF WdiStopPost, CpInv, Alive, Running

LEMMA NotifyOpenInv == CpInv /\ NotifyOpen => CpInv'
  <1> SUFFICES ASSUME CpInv, NotifyOpen PROVE CpInv'
    OBVIOUS
  <1> DEFINE d == [cb EXCEPT !.bCTOpened = TRUE]
  <1>1. TypeOK /\ Running /\ mc = NoReq /\ ~cb.bCTOpened /\ Kept(cb, {})
    BY Idle DEF CpInv, NotifyOpen, McIdle
  <1>2. cb' = DequeuePendingReq(d)
    BY DEF NotifyOpen
  <1>3. /\ d \in CbType /\ d.uGlobalState = cb.uGlobalState
        /\ d.wdiExpectedResponse = cb.wdiExpectedResponse
        /\ d.bCTOpened /\ d.wptPendingQueue = cb.wptPendingQueue
        /\ d.posted = cb.posted /\ d.hal = cb.hal
        /\ d.usCurrentFragment = cb.usCurrentFragment
        /\ d.wdiFailed = cb.wdiFailed /\ d.fate = cb.fate
    BY <1>1 DEF TypeOK, CbType
  <1> HIDE DEF d
  <1>4. \A q : Waits(d, q) <=> Waits(cb, q)
    BY <1>3 DEF Waits
  <1>5. Once(d) /\ Placed(d, {}) /\ Ready(d) /\ HasCause(d) /\ InStep(d)
    BY <1>1, <1>3, <1>4 DEF Kept, Once, Placed, Ready, HasCause, InStep
  <1>6. HalSent(d) /\ NvFirst(d) /\ NotOpened(d)
    BY <1>1, <1>3 DEF Kept, HalSent, NvFirst, NotOpened
  <1>7. Kept(d, {}) /\ d.uGlobalState # "BUSY"
    BY <1>1, <1>3, <1>5, <1>6 DEF Kept, NotOpened
  <1>8. LET e == DequeuePendingReq(d)
        IN  /\ Kept(e, {}) /\ e.fate = d.fate /\ e.bCTOpened
            /\ e.wptPendingQueue = <<>> \/ e.uGlobalState = "BUSY"
    BY <1>3, <1>7, DequeueKeeps
  <1>9. Made'
    BY <1>1, <1>2, <1>3, <1>8 DEF NotifyOpen, Running, Made, McIdle
  <1>10. Kept(cb', Hand')
    <2>1. Hand' = {}
      BY <1>1 DEF NotifyOpen, Hand
    <2> QED BY <1>2, <1>8, <2>1
  <1>11. TypeOK' /\ PendingIsDequeued'
    BY <1>1, <1>2, <1>8, <1>10 DEF NotifyOpen, TypeOK, Kept, PendingIsDequeued
  <1> QED BY <1>9, <1>10, <1>11 DEF NotifyOpen, McIdle, CpInv, Alive, Running

LEMMA PALCtrlMsgRestoreInv == CpInv /\ PALCtrlMsgRestore => CpInv'
  <1> SUFFICES ASSUME CpInv, PALCtrlMsgRestore PROVE CpInv'
    OBVIOUS
  <1> DEFINE m == Head(cb.posted)
             old == cb.posted
             new == cb'.posted
  <1>1. /\ TypeOK /\ Running /\ mc = NoReq /\ Kept(cb, {})
        /\ old \in Seq(Posted) /\ old # <<>> /\ cb \in CbType /\ cb.bCTOpened \in BOOLEAN
    BY Idle, FieldType DEF CpInv, PALCtrlMsgRestore, McIdle, Kept
  <1>2. /\ Tail(old) \in Seq(Posted) /\ m \in Posted /\ m = old[1]
        /\ Len(old) \in Nat \ {0} /\ Len(Tail(old)) = Len(old) - 1
        /\ \A i \in 1 .. Len(Tail(old)) : i + 1 \in 1 .. Len(old) /\ Tail(old)[i] = old[i + 1]
        /\ \A i \in 1 .. Len(old) :
             i = 1 \/ (i - 1 \in 1 .. Len(Tail(old)) /\ Tail(old)[i - 1] = old[i])
    <2> HIDE DEF m
    <2> QED BY <1>1, TailElements DEF m
  <1>3. /\ cb' \in CbType /\ cb'.uGlobalState = m.val
        /\ cb'.wdiExpectedResponse = cb.wdiExpectedResponse
        /\ cb'.bCTOpened = cb.bCTOpened /\ cb'.wptPendingQueue = cb.wptPendingQueue
        /\ new = Tail(old) /\ cb'.hal = cb.hal
        /\ cb'.usCurrentFragment = cb.usCurrentFragment
        /\ cb'.wdiFailed = cb.wdiFailed /\ cb'.fate = cb.fate
    <2>1. cb' = [cb EXCEPT !.uGlobalState = m.val, !.posted = Tail(old)]
      BY DEF PALCtrlMsgRestore
    <2>2. m.val \in State
      BY <1>2 DEF Posted
    <2> HIDE DEF m
    <2> QED BY <1>1, <1>2, <2>1, <2>2 DEF CbType, Posted
  <1>4. m.req \in Request /\ m.req # NoReq /\ mc' = m.req
    BY <1>2, RequestType DEF Posted, PALCtrlMsgRestore
  <1> HIDE DEF m, old, new
  <1>5. 1 \in 1 .. Len(old) /\ \A i \in 1 .. Len(new) : i + 1 # 1
    BY <1>2, <1>3
  <1>6. /\ \A i \in 1 .. Len(new) : new[i].req # m.req
        /\ \A i, j \in 1 .. Len(new) : new[i].req = new[j].req => i = j
        /\ \A i \in 1 .. Len(new), j \in 1 .. Len(cb.wptPendingQueue) :
             new[i].req # cb.wptPendingQueue[j]
        /\ \A j \in 1 .. Len(cb.wptPendingQueue) : cb.wptPendingQueue[j] # m.req
    <2>1. /\ \A i, j \in 1 .. Len(old) : old[i].req = old[j].req => i = j
          /\ \A i \in 1 .. Len(old), j \in 1 .. Len(cb.wptPendingQueue) :
               old[i].req # cb.wptPendingQueue[j]
      BY <1>1 DEF Kept, Once, old
    <2>2. \A i \in 1 .. Len(new) : i + 1 \in 1 .. Len(old) /\ new[i] = old[i + 1]
      BY <1>2, <1>3
    <2>3. \A i \in 1 .. Len(new) : new[i].req # m.req
      BY <1>2, <1>5, <2>1, <2>2
    <2>4. \A i, j \in 1 .. Len(new) : new[i].req = new[j].req => i = j
      BY <2>1, <2>2
    <2>5. \A i \in 1 .. Len(new), j \in 1 .. Len(cb.wptPendingQueue) :
             new[i].req # cb.wptPendingQueue[j]
      BY <2>1, <2>2
    <2>6. \A j \in 1 .. Len(cb.wptPendingQueue) : cb.wptPendingQueue[j] # m.req
      BY <1>2, <1>5, <2>1
    <2> QED BY <2>3, <2>4, <2>5, <2>6
  <1>7. Once(cb')
    BY <1>1, <1>3, <1>6 DEF Kept, Once, new
  <1>8. \A q : (\E i \in 1 .. Len(old) : old[i].req = q)
                <=> q = m.req \/ \E i \in 1 .. Len(new) : new[i].req = q
    BY <1>2, <1>3, <1>5
  <1>9. \A q : Waits(cb, q) <=> Waits(cb', q) \/ q = m.req
    BY <1>3, <1>8 DEF Waits, old, new
  <1>10. ~Waits(cb', m.req)
    BY <1>3, <1>6 DEF Waits, new
  <1>11. Placed(cb', {m.req}) /\ cb.fate[m.req] = "queued"
    BY <1>1, <1>3, <1>4, <1>9, <1>10 DEF Kept, Placed
  <1>12. m.val # "BUSY" /\ Ready(cb')
    <2>1. m.val # "BUSY"
      BY <1>1, <1>2, <1>5 DEF Kept, Ready, old
    <2>2. Ready(cb')
      BY <1>1, <1>2, <1>3 DEF Kept, Ready, old, new
    <2> QED BY <2>1, <2>2
  <1>13. HasCause(cb') /\ HalSent(cb')
    BY <1>1, <1>3, <1>12 DEF Kept, HasCause, HalSent
  <1>14. InStep(cb')
    <2> SUFFICES ASSUME ~cb.wdiFailed
                 PROVE  Len(new) <= 1 /\ new = <<>> /\ cb.wdiExpectedResponse = NoReq
                        /\ cb.hal = {NoReq} \ {NoReq}
      BY <1>3 DEF InStep, new
    <2>1. Len(old) <= 1 /\ cb.wdiExpectedResponse = NoReq /\ cb.hal = {NoReq} \ {NoReq}
      BY <1>1 DEF Kept, InStep, old
    <2>2. Len(new) = 0
      BY <1>2, <1>3, <2>1
    <2> QED BY <1>2, <1>3, <2>1, <2>2
  <1>15. NvFirst(cb')
    <2>1. m.val = "INIT" \/ (\E i \in 1 .. Len(new) : new[i].val = "INIT")
            => \E i \in 1 .. Len(old) : old[i].val = "INIT"
      BY <1>2, <1>3, <1>5
    <2> QED BY <1>1, <1>3, <2>1 DEF Kept, NvFirst, old, new
  <1>16. cb.bCTOpened /\ NotOpened(cb')
    BY <1>1, <1>3 DEF Kept, NotOpened, old
  <1>17. Kept(cb', Hand')
    <2>1. Hand' = {m.req}
      BY <1>4 DEF Hand
    <2> QED BY <1>3, <1>7, <1>11, <1>12, <1>13, <1>14, <1>15, <1>16, <2>1 DEF Kept
  <1>18. Made'
    BY <1>1, <1>3, <1>4, <1>11, <1>16 DEF PALCtrlMsgRestore, Running, Made
  <1>19. TypeOK' /\ PendingIsDequeued'
    BY <1>1, <1>3, <1>4 DEF PALCtrlMsgRestore, TypeOK, PendingIsDequeued
  <1> QED BY <1>17, <1>18, <1>19 DEF PALCtrlMsgRestore, McIdle, CpInv, Alive, Running

LEMMA PALCtrlMsgPostInv == CpInv /\ PALCtrlMsgPost => CpInv'
  <1> SUFFICES ASSUME CpInv, PALCtrlMsgPost PROVE CpInv'
    OBVIOUS
  <1>1. /\ TypeOK /\ Running /\ mc \in Request /\ cb.fate[mc] = "queued"
        /\ mc # NvDownload => cb.fate[NvDownload] = "answered"
    BY DEF CpInv, PALCtrlMsgPost, TypeOK, Running, Made
  <1>2. /\ Kept(cb', Hand') /\ PendingIsDequeued'
        /\ \A q \in Request \ {mc} : cb'.fate[q] = "new" <=> cb.fate[q] = "new"
        /\ (\E q \in Request \ {NvDownload} : cb'.fate[q] # "new")
             => cb'.fate[NvDownload] = "answered"
        /\ mc' # NoReq => cb'.fate[mc'] = "queued" /\ cb'.bCTOpened
        /\ cb'.fate[mc] # "new"
    BY <1>1, PostInv DEF PALCtrlMsgPost
  <1>3. \A q \in Request : cb'.fate[q] = "new" <=> cb.fate[q] = "new"
    BY <1>1, <1>2
  <1>4. Made'
    BY <1>1, <1>2, <1>3, RequestType DEF PALCtrlMsgPost, Running, Made, WdaReq
  <1>5. TypeOK'
    BY <1>1, <1>2 DEF PALCtrlMsgPost, TypeOK, Kept
  <1> QED BY <1>2, <1>4, <1>5 DEF PALCtrlMsgPost, CpInv, Alive, Running

\* A request of WDA: alone, or out of the indication of the RSSI.
LEMMA WdaPostInv ==
  ASSUME CpInv, McIdle, cb.fate[StartReq] = "answered", next \in WdaReq, next' = next + 1,
         cb' = PostMainEvent(cb, next), UNCHANGED <<mc, caller, expiry, fw>>
  PROVE  CpInv'
  <1>1. /\ TypeOK /\ Running /\ next \in Request /\ cb.fate[next] = "new"
        /\ cb.fate[NvDownload] = "answered" /\ next # mc /\ mc = NoReq
    BY RequestType, MaxReqAssumption DEF CpInv, McIdle, Running, Made, WdaReq
  <1>2. /\ Kept(cb', Hand') /\ PendingIsDequeued'
        /\ \A q \in Request \ {next} : cb'.fate[q] = "new" <=> cb.fate[q] = "new"
        /\ (\E q \in Request \ {NvDownload} : cb'.fate[q] # "new")
             => cb'.fate[NvDownload] = "answered"
    BY <1>1, PostInv
  <1>3. \A r \in WdaReq : r >= next' => r >= next /\ r # next
    BY DEF WdaReq
  <1>4. next \notin {NvDownload, StartReq, StopReq}
    BY RequestType
  <1>5. Made'
    BY <1>1, <1>2, <1>3, <1>4, RequestType DEF Running, Made
  <1>6. next' \in 2 .. (MaxReq + 1)
    BY MaxReqAssumption DEF WdaReq
  <1>7. TypeOK'
    BY <1>1, <1>2, <1>6 DEF TypeOK, Kept
  <1> QED BY <1>2, <1>5, <1>7 DEF McIdle, CpInv, Alive, Running

LEMMA WdaRequestInv == CpInv /\ WdaRequest => CpInv'
  BY WdaPostInv DEF WdaRequest

\* WDI puts back the state in which it was when the indication came, unless
\* the request was sent: that is the state the posted event has left.
LEMMA IndicationIsPost ==
  ASSUME NEW c \in CbType, NEW r \in WdaReq \ Suspend, fw = "up",
         c.uGlobalState # "INIT",
         c.wptPendingQueue = <<>> \/ c.uGlobalState = "BUSY"
  PROVE  Indication(c, r) = PostMainEvent(c, r)
  <1> DEFINE d == PostMainEvent(c, r)
             b == At(c, "BUSY")
  <1>1. /\ r \in Request /\ r \notin {NvDownload, StartReq, StopReq}
        /\ c.uGlobalState \in State /\ r \notin Suspend
    BY RequestType, FieldType
  <1>2. /\ d \in CbType
        /\ d.uGlobalState = IF d.fate[r] = "sent" THEN "BUSY" ELSE c.uGlobalState
    <2>1. CASE c.uGlobalState = "BUSY"
      <3>1. d = QueuePendingReq(c, r)
        BY <2>1 DEF PostMainEvent, Served
      <3>2. LET e == QueuePendingReq(c, r)
            IN  e \in CbType /\ e.uGlobalState = c.uGlobalState
        BY <1>1, QueueFields
      <3> QED BY <2>1, <3>1, <3>2
    <2>2. CASE c.uGlobalState = "STARTED"
      <3>1. d = ProcessRequest(b, r, "STARTED")
        BY <1>1, <2>2, BusyIsAt DEF PostMainEvent, Served
      <3>2. d = Sent(b, r)
        BY <1>1, <3>1 DEF ProcessRequest
      <3>3. b \in CbType /\ b.uGlobalState = "BUSY"
        BY AtFields DEF State
      <3> HIDE DEF b
      <3>4. LET e == Sent(b, r)
            IN  e \in CbType /\ e.uGlobalState = b.uGlobalState /\ e.fate[r] = "sent"
        BY <1>1, <3>3, SentFields
      <3> QED BY <3>2, <3>3, <3>4
    <2>3. CASE c.uGlobalState = "STOPPED"
      <3> DEFINE e == WithFate(c, {r}, "failed")
      <3>1. d = DequeuePendingReq(e)
        BY <1>1, <2>3 DEF PostMainEvent, Served
      <3>2. /\ e \in CbType /\ e.uGlobalState = c.uGlobalState
            /\ e.wptPendingQueue = c.wptPendingQueue
            /\ \A q \in Request : e.fate[q] = IF q \in {r} THEN "failed" ELSE c.fate[q]
        BY WithFateFields DEF Fate
      <3> HIDE DEF e
      <3>3. DequeuePendingReq(e) = e
        BY <2>3, <3>2 DEF DequeuePendingReq
      <3>4. e.fate[r] = "failed"
        BY <1>1, <3>2
      <3> QED BY <3>1, <3>2, <3>3, <3>4
    <2> QED BY <1>1, <2>1, <2>2, <2>3 DEF State
  <1>3. Indication(c, r) = At(d, d.uGlobalState)
    <2>1. Indication(c, r) = At(d, IF d.fate[r] = "sent" THEN "BUSY" ELSE c.uGlobalState)
      BY DEF Indication, At
    <2> QED BY <1>2, <2>1
  <1> HIDE DEF d
  <1>4. At(d, d.uGlobalState) = d
    BY <1>2 DEF At, CbType
  <1> QED BY <1>3, <1>4 DEF d

LEMMA RxIndicationInv == CpInv /\ RxIndication => CpInv'
  <1> SUFFICES ASSUME CpInv, RxIndication PROVE CpInv'
    OBVIOUS
  <1>1. /\ TypeOK /\ Running /\ Kept(cb, {}) /\ mc = NoReq /\ Alive
        /\ cb.fate[NvDownload] = "answered" /\ cb.bCTOpened \in BOOLEAN
        /\ cb.wptPendingQueue = <<>> \/ cb.uGlobalState = "BUSY" \/ ~cb.bCTOpened
    BY Idle, FieldType, RequestType
    DEF CpInv, RxIndication, McIdle, Running, Made, TypeOK
  <1>2. cb.bCTOpened /\ cb.uGlobalState # "INIT"
    BY <1>1 DEF Kept, NotOpened, NvFirst
  <1>3. cb' = PostMainEvent(cb, next)
    BY <1>1, <1>2, IndicationIsPost DEF RxIndication, TypeOK
  <1> QED BY <1>3, WdaPostInv DEF RxIndication

LEMMA RxResponseInv == CpInv /\ RxResponse => CpInv'
  <1> SUFFICES ASSUME CpInv, RxResponse PROVE CpInv'
    OBVIOUS
  <1>1. /\ TypeOK /\ Running /\ Kept(cb, {}) /\ mc = NoReq /\ Alive
        /\ cb.wptPendingQueue = <<>> \/ cb.uGlobalState = "BUSY" \/ ~cb.bCTOpened
    BY Idle DEF CpInv, RxResponse, McIdle
  <1>2. PICK r \in cb.hal, ok \in BOOLEAN :
          (r = NvDownload => ok) /\ cb' = Response(cb, r, ok)
    BY DEF RxResponse
  <1>3. r \in Request /\ cb.fate[r] = "sent"
    BY <1>1, FieldType DEF Kept, HalSent
  <1>4. r # NvDownload => cb.fate[NvDownload] = "answered"
    BY <1>1, <1>3 DEF Running, Made
  <1>5. Kept(cb', {}) /\ Answers(cb, cb')
    BY <1>1, <1>2, <1>4, ResponseKeeps
  <1>6. Running'
    BY <1>1, <1>5, AnswersInv DEF RxResponse
  <1>7. TypeOK'
    BY <1>1, <1>5 DEF RxResponse, TypeOK, Kept
  <1> QED BY <1>1, <1>6, <1>7 DEF RxResponse, CpInv, Alive

LEMMA RxInvalidInv == CpInv /\ RxInvalid => CpInv'
  <1> SUFFICES ASSUME CpInv, RxInvalid PROVE CpInv'
    OBVIOUS
  <1>1. /\ TypeOK /\ Running /\ Kept(cb, {}) /\ mc = NoReq /\ Alive
        /\ cb.fate[NvDownload] = "answered" /\ cb.bCTOpened \in BOOLEAN
    BY Idle, FieldType, RequestType DEF CpInv, RxInvalid, McIdle, Running, Made, TypeOK
  <1>2. cb.bCTOpened
    BY <1>1 DEF Kept, NotOpened
  <1>3. Kept(cb', {}) /\ Answers(cb, cb')
    BY <1>1, <1>2, DetectedKeeps DEF RxInvalid
  <1>4. Running'
    BY <1>1, <1>3, AnswersInv DEF RxInvalid
  <1>5. TypeOK'
    BY <1>1, <1>3 DEF RxInvalid, TypeOK, Kept
  <1> QED BY <1>1, <1>4, <1>5 DEF RxInvalid, CpInv, Alive

LEMMA TimerExpireInv == CpInv /\ TimerExpire => CpInv'
  <1> SUFFICES ASSUME CpInv, TimerExpire PROVE CpInv'
    OBVIOUS
  <1>1. TypeOK /\ Running /\ Alive
    BY DEF CpInv, TimerExpire
  <1>2. /\ cb' \in CbType /\ cb'.uGlobalState = cb.uGlobalState
        /\ cb'.wdiExpectedResponse = cb.wdiExpectedResponse
        /\ cb'.bCTOpened = cb.bCTOpened /\ cb'.wptPendingQueue = cb.wptPendingQueue
        /\ cb'.posted = cb.posted /\ cb'.hal = cb.hal
        /\ cb'.usCurrentFragment = cb.usCurrentFragment
        /\ cb'.wdiFailed = cb.wdiFailed /\ cb'.fate = cb.fate
    BY <1>1 DEF TimerExpire, TypeOK, CbType
  <1>3. \A q : Waits(cb', q) <=> Waits(cb, q)
    BY <1>2 DEF Waits
  <1>4. Once(cb') /\ Placed(cb', Hand) /\ Ready(cb') /\ HasCause(cb') /\ InStep(cb')
    BY <1>1, <1>2, <1>3 DEF Running, Kept, Once, Placed, Ready, HasCause, InStep
  <1>5. HalSent(cb') /\ NvFirst(cb') /\ NotOpened(cb')
    BY <1>1, <1>2 DEF Running, Kept, HalSent, NvFirst, NotOpened
  <1>6. Kept(cb', Hand')
    <2>1. Hand' = Hand
      BY DEF TimerExpire, Hand
    <2> QED BY <1>2, <1>4, <1>5, <2>1 DEF Kept
  <1>7. Made' /\ PendingIsDequeued'
    BY <1>1, <1>2 DEF TimerExpire, Running, Made, PendingIsDequeued
  <1>8. TypeOK'
    BY <1>1, <1>2 DEF TimerExpire, TypeOK
  <1> QED BY <1>1, <1>6, <1>7, <1>8 DEF TimerExpire, CpInv, Alive, Running

\* What changes only the expiry and the firmware.
LEMMA SameControl ==
  ASSUME CpInv, UNCHANGED <<cb, mc, caller, next>>, expiry' \in BOOLEAN, fw' \in {"up", "down"}
  PROVE  CpInv'
  BY DEF CpInv, TypeOK, Alive, AtRest, Running, Kept, Once, Placed, Waits, Ready,
         HasCause, InStep, HalSent, NvFirst, NotOpened, Hand, Made, PendingIsDequeued

LEMMA ResponseTimerCBInv == CpInv /\ ResponseTimerCB => CpInv'
  <1> SUFFICES ASSUME CpInv, ResponseTimerCB PROVE CpInv'
    OBVIOUS
  <1>1. expiry' \in BOOLEAN /\ fw' \in {"up", "down"}
    BY DEF ResponseTimerCB, CpInv, TypeOK
  <1> QED BY <1>1, SameControl DEF ResponseTimerCB

LEMMA CrashInv == CpInv /\ Crash => CpInv'
  <1> SUFFICES ASSUME CpInv, Crash PROVE CpInv'
    OBVIOUS
  <1>1. expiry' \in BOOLEAN /\ fw' \in {"up", "down"}
    BY DEF Crash, CpInv, TypeOK
  <1> QED BY <1>1, SameControl DEF Crash

LEMMA WdiShutdownInv == CpInv /\ WdiShutdown => CpInv'
  <1> SUFFICES ASSUME CpInv, WdiShutdown PROVE CpInv'
    OBVIOUS
  <1> DEFINE d == ClearPendingRequests(cb)
  <1>1. TypeOK /\ mc = NoReq /\ cb \in CbType
    BY DEF CpInv, WdiShutdown, McIdle, TypeOK
  <1>2. d \in CbType /\ d.wptPendingQueue = <<>>
    BY <1>1, ClearFields
  <1>3. cb' = [d EXCEPT !.uGlobalState = "INIT", !.timer = FALSE, !.posted = <<>>]
    BY DEF WdiShutdown
  <1>4. <<>> \in Seq([req : Request, val : State])
    BY SeqSteps
  <1> HIDE DEF d
  <1>5. /\ cb' \in CbType /\ cb'.uGlobalState = "INIT"
        /\ cb'.wptPendingQueue = <<>> /\ cb'.posted = <<>>
    BY <1>2, <1>3, <1>4 DEF CbType, State
  <1>6. TypeOK'
    BY <1>1, <1>5 DEF WdiShutdown, TypeOK, Caller
  <1> QED BY <1>1, <1>5, <1>6 DEF WdiShutdown, CpInv, Alive, AtRest

LEMMA NextInv == CpInv /\ [Next]_vars => CpInv'
  <1> SUFFICES ASSUME CpInv, [Next]_vars PROVE CpInv'
    OBVIOUS
  <1>1. CASE UNCHANGED vars
    BY <1>1, SameControl DEF vars, CpInv, TypeOK
  <1>2. CASE Next
    BY <1>2, WdiNvDownloadReqInv, WdiStartInv, WdiStopClearInv, WdiStopPostInv,
       NotifyOpenInv, PALCtrlMsgRestoreInv, PALCtrlMsgPostInv, WdaRequestInv,
       RxResponseInv, RxIndicationInv, RxInvalidInv, ResponseTimerCBInv,
       TimerExpireInv, CrashInv, WdiShutdownInv
    DEF Next
  <1> QED BY <1>1, <1>2

\* The control block is in step with its queues, its requests and the firmware,
\* through insmod, rmmod, errors, timeouts and crashes.
THEOREM CpCorrect == Spec => []CpInv
  <1> QED BY InitInv, NextInv, PTL DEF Spec

-----------------------------------------------------------------------------
(***************************************************************************)
(* What the runs check.                                                    *)
(***************************************************************************)

Distinct(s) == \A i, j \in 1 .. Len(s) : s[i] = s[j] => i = j
Holds(s, q) == \E i \in 1 .. Len(s) : s[i] = q
Apart(s, t) == \A i \in 1 .. Len(s), j \in 1 .. Len(t) : s[i] # t[j]

\* Two sequences without repetitions and without a common element, one after
\* the other.
LEMMA ConcatOnce ==
  ASSUME NEW S, NEW s \in Seq(S), NEW t \in Seq(S),
         Distinct(s), Distinct(t), Apart(s, t)
  PROVE  /\ s \o t \in Seq(S) /\ Distinct(s \o t)
         /\ \A q : Holds(s \o t, q) <=> Holds(s, q) \/ Holds(t, q)
  <1> DEFINE u == s \o t
             m == Len(s)
             n == Len(t)
  <1>1. m \in Nat /\ n \in Nat
    OBVIOUS
  <1>2. /\ u \in Seq(S) /\ Len(u) = m + n
        /\ \A i \in 1 .. m + n : u[i] = IF i <= m THEN s[i] ELSE t[i - m]
    BY ConcatProperties
  <1> HIDE DEF u, m, n
  <1>3. /\ \A i \in 1 .. m : i \in 1 .. m + n /\ u[i] = s[i]
        /\ \A i \in 1 .. n : i + m \in 1 .. m + n /\ u[i + m] = t[i]
        /\ \A i \in 1 .. m + n : \/ i \in 1 .. m /\ u[i] = s[i]
                                 \/ i - m \in 1 .. n /\ u[i] = t[i - m]
    BY <1>1, <1>2
  <1>4. \A i, j \in 1 .. m + n : u[i] = u[j] => i = j
    <2> SUFFICES ASSUME NEW i \in 1 .. m + n, NEW j \in 1 .. m + n, u[i] = u[j]
                 PROVE  i = j
      OBVIOUS
    <2>1. /\ \A k, l \in 1 .. m : s[k] = s[l] => k = l
          /\ \A k, l \in 1 .. n : t[k] = t[l] => k = l
          /\ \A k \in 1 .. m, l \in 1 .. n : s[k] # t[l]
      BY DEF m, n, Distinct, Apart
    <2>2. CASE i \in 1 .. m /\ u[i] = s[i] /\ j \in 1 .. m /\ u[j] = s[j]
      BY <2>1, <2>2
    <2>3. CASE i \in 1 .. m /\ u[i] = s[i] /\ j - m \in 1 .. n /\ u[j] = t[j - m]
      BY <2>1, <2>3
    <2>4. CASE i - m \in 1 .. n /\ u[i] = t[i - m] /\ j \in 1 .. m /\ u[j] = s[j]
      BY <2>1, <2>4
    <2>5. CASE i - m \in 1 .. n /\ u[i] = t[i - m] /\ j - m \in 1 .. n /\ u[j] = t[j - m]
      <3>1. i - m = j - m
        BY <2>1, <2>5
      <3> QED BY <1>1, <3>1
    <2> QED BY <1>3, <2>2, <2>3, <2>4, <2>5
  <1>5. \A q : (\E i \in 1 .. m + n : u[i] = q)
                <=> (\E i \in 1 .. m : s[i] = q) \/ (\E i \in 1 .. n : t[i] = q)
    BY <1>3
  <1> QED BY <1>2, <1>4, <1>5 DEF u, m, n, Distinct, Holds

LEMMA WaitingOnce == CpInv => QueuedOnce
  <1> SUFFICES ASSUME CpInv, Alive
               PROVE  /\ \A r \in Request : cb.fate[r] = "queued" <=> r \in Range(Waiting)
                      /\ \A i, j \in 1 .. Len(Waiting) : Waiting[i] = Waiting[j] => i = j
    BY DEF QueuedOnce
  <1> DEFINE p == [i \in 1 .. Len(cb.posted) |-> cb.posted[i].req]
             q == cb.wptPendingQueue
             u == p \o q
             h == IF mc = NoReq THEN <<>> ELSE <<mc>>
  <1>1. /\ TypeOK /\ Kept(cb, Hand) /\ Made
        /\ cb.posted \in Seq(Posted) /\ q \in Seq(Request)
    BY FieldType DEF CpInv, Running, Kept
  <1>2. p \in Seq(Request) /\ Len(p) = Len(cb.posted)
        /\ \A i \in 1 .. Len(p) : p[i] = cb.posted[i].req
    <2>1. Len(cb.posted) \in Nat /\ \A i \in 1 .. Len(cb.posted) : cb.posted[i] \in Posted
      BY <1>1
    <2>2. \A m \in Posted : m.req \in Request
      BY DEF Posted
    <2> QED BY <2>1, <2>2
  <1>3. h \in Seq(Request)
        /\ Distinct(h) /\ \A r : Holds(h, r) <=> r \in Hand
    <2>1. CASE mc = NoReq
      BY <2>1 DEF Hand, Distinct, Holds
    <2>2. CASE mc # NoReq
      <3>1. mc \in Request /\ h = <<mc>> /\ Hand = {mc}
        BY <1>1, <2>2 DEF TypeOK, Hand
      <3> HIDE DEF h
      <3> QED BY <3>1 DEF Distinct, Holds
    <2> QED BY <2>1, <2>2
  <1> HIDE DEF p, q, h
  <1>4. Distinct(p) /\ Distinct(q) /\ Apart(p, q)
    BY <1>1, <1>2 DEF Kept, Once, q, Distinct, Apart
  <1>5. /\ u \in Seq(Request) /\ Distinct(u)
        /\ \A r : Holds(u, r) <=> Holds(p, r) \/ Holds(q, r)
    BY <1>1, <1>2, <1>4, ConcatOnce
  <1> HIDE DEF u
  <1>6. \A r : Holds(u, r) <=> Waits(cb, r)
    <2>1. \A r : Holds(p, r) <=> \E i \in 1 .. Len(cb.posted) : cb.posted[i].req = r
      BY <1>2 DEF Holds
    <2> QED BY <1>5, <2>1 DEF Waits, Holds, q
  <1>7. \A r \in Hand : ~Waits(cb, r) /\ r \in Request /\ cb.fate[r] = "queued"
    BY <1>1 DEF Hand, TypeOK, Kept, Placed, Made
  <1>8. Apart(u, h)
    <2> SUFFICES ASSUME NEW i \in 1 .. Len(u), NEW j \in 1 .. Len(h), u[i] = h[j]
                 PROVE  FALSE
      BY DEF Apart
    <2>1. Holds(u, u[i]) /\ Holds(h, h[j])
      BY DEF Holds
    <2> QED BY <1>3, <1>6, <1>7, <2>1
  <1> DEFINE w == u \o h
  <1>9. /\ w \in Seq(Request) /\ Distinct(w)
        /\ \A r : Holds(w, r) <=> Holds(u, r) \/ Holds(h, r)
    BY <1>3, <1>5, <1>8, ConcatOnce
  <1>10. Waiting = w
    BY DEF Waiting, w, u, h, p, q
  <1> HIDE DEF w
  <1>11. \A r : r \in Range(w) <=> Holds(w, r)
    BY <1>9, RangeIs DEF Holds
  <1>12. \A r \in Request : cb.fate[r] = "queued" <=> r \in Range(w)
    BY <1>1, <1>3, <1>6, <1>7, <1>9, <1>11 DEF Kept, Placed
  <1> QED BY <1>9, <1>10, <1>12 DEF Distinct

LEMMA CpInvControl == CpInv => ControlInv
  <1> SUFFICES ASSUME CpInv PROVE ControlInv
    OBVIOUS
  <1>1. TypeOK /\ QueuedOnce
    BY WaitingOnce DEF CpInv
  <1>2. OneOutstanding
    BY DEF OneOutstanding, CpInv, Running, Kept, InStep
  <1>3. BusyHasCause
    BY DEF BusyHasCause, CpInv, Running, Kept, HasCause, AtRest
  <1>4. PendingIsDequeued
    BY DEF PendingIsDequeued, CpInv, Running, AtRest
  <1> QED BY <1>1, <1>2, <1>3, <1>4 DEF ControlInv

\* The firmware has at most the request that is expected, a busy state machine
\* will be led out of BUSY, what pends is dequeued, and a queued request waits
\* in exactly one place.
THEOREM ControlCorrect == Spec => []ControlInv
  <1> QED BY CpCorrect, CpInvControl, PTL

-----------------------------------------------------------------------------
(***************************************************************************)
(* The order of WDA's requests.  They wait in the order in which they were *)
(* made, and none gets past one that waits.  rmmod breaks that order: its  *)
(* stop request may overtake the one the control thread has in hand, which *)
(* is then queued behind later ones.  But once the stop request is sent    *)
(* WDI is never in the state in which it would send any of them.           *)
(***************************************************************************)
Increasing(c) ==
  \A i, j \in 1 .. Len(c.wptPendingQueue) :
    /\ i < j
    /\ c.wptPendingQueue[i] \in WdaReq /\ c.wptPendingQueue[j] \in WdaReq
    => c.wptPendingQueue[i] < c.wptPendingQueue[j]

Ahead(c, x) ==
  \A j \in 1 .. Len(c.wptPendingQueue) :
    x \in WdaReq /\ c.wptPendingQueue[j] \in WdaReq => x < c.wptPendingQueue[j]

InOrder(c, m) ==
  /\ Increasing(c)
  /\ \A i \in 1 .. Len(c.posted) : Ahead(c, c.posted[i].req)
  /\ m # NoReq => Ahead(c, m) /\ c.posted = <<>> /\ c.uGlobalState # "BUSY"

Stopping(c) ==
  /\ c.uGlobalState \in {"BUSY", "STOPPED"}
  /\ c.wdiExpectedResponse \in {StopReq, NoReq}
  /\ \A i \in 1 .. Len(c.posted) : c.posted[i].val = "STOPPED"

Line(c, m) ==
  ~c.wdiFailed =>
    IF c.fate[StopReq] \in Reached THEN Stopping(c) ELSE InOrder(c, m)

OrderInv == CpInv /\ (Alive => Line(cb, mc))

LEMMA DequeueOrder ==
  ASSUME NEW c \in CbType, Increasing(c), c.posted = <<>>
  PROVE  InOrder(DequeuePendingReq(c), NoReq)
  <1> DEFINE d == DequeuePendingReq(c)
             old == c.wptPendingQueue
             new == d.wptPendingQueue
             m == [req |-> Head(old), val |-> c.uGlobalState]
  <1>1. old \in Seq(Request)
    BY FieldType
  <1>2. CASE old = <<>>
    <2>1. d = c /\ Len(c.posted) = 0
      BY <1>2 DEF DequeuePendingReq
    <2> QED BY <2>1 DEF InOrder
  <1>3. CASE old # <<>>
    <2>1. new = Tail(old) /\ d.posted = Append(c.posted, m)
      BY <1>3, DequeueFields
    <2>2. /\ Head(old) = old[1] /\ Len(old) \in Nat \ {0} /\ Len(new) = Len(old) - 1
          /\ \A i \in 1 .. Len(new) : i + 1 \in 1 .. Len(old) /\ new[i] = old[i + 1]
      BY <1>1, <1>3, <2>1, TailElements
    <2>3. m.req = old[1]
      BY <2>2
    <2> HIDE DEF m
    <2>4. d.posted = <<m>>
      BY <2>1
    <2> HIDE DEF d, old, new
    <2>5. 1 \in 1 .. Len(old) /\ \A j \in 1 .. Len(new) : 1 < j + 1
      BY <2>2
    <2>6. \A i, j \in 1 .. Len(old) :
            i < j /\ old[i] \in WdaReq /\ old[j] \in WdaReq => old[i] < old[j]
      BY DEF Increasing, old
    <2>7. Ahead(d, old[1])
      BY <2>2, <2>5, <2>6 DEF Ahead, new
    <2>8. Increasing(d)
      <3>1. \A i, j \in 1 .. Len(new) :
              i < j /\ new[i] \in WdaReq /\ new[j] \in WdaReq => new[i] < new[j]
        <4> SUFFICES ASSUME NEW i \in 1 .. Len(new), NEW j \in 1 .. Len(new), i < j,
                            new[i] \in WdaReq, new[j] \in WdaReq
                     PROVE  new[i] < new[j]
          OBVIOUS
        <4>1. i + 1 < j + 1 /\ i + 1 \in 1 .. Len(old) /\ j + 1 \in 1 .. Len(old)
              /\ new[i] = old[i + 1] /\ new[j] = old[j + 1]
          BY <2>2
        <4> QED BY <2>6, <4>1
      <3> QED BY <3>1 DEF Increasing, new
    <2>9. \A i \in 1 .. Len(d.posted) : d.posted[i].req = old[1]
      BY <2>3, <2>4
    <2> QED BY <2>7, <2>8, <2>9 DEF InOrder, d
  <1> QED BY <1>2, <1>3

LEMMA QueueOrder ==
  ASSUME NEW c \in CbType, NEW r \in Request, InOrder(c, NoReq),
         r \in WdaReq => \A q \in WdaReq : Waits(c, q) => q < r
  PROVE  InOrder(QueuePendingReq(c, r), NoReq)
  <1> DEFINE d == QueuePendingReq(c, r)
             old == c.wptPendingQueue
             new == d.wptPendingQueue
  <1>1. old \in Seq(Request)
    BY FieldType
  <1>2. new = Append(old, r) /\ d.posted = c.posted
    BY QueueFields
  <1>3. /\ Len(new) = Len(old) + 1 /\ Len(old) \in Nat
        /\ \A i \in 1 .. Len(old) : new[i] = old[i]
        /\ new[Len(old) + 1] = r
        /\ 1 .. Len(old) + 1 = 1 .. Len(old) \cup {Len(old) + 1}
    BY <1>1, <1>2, AppendElements
  <1> HIDE DEF d, old, new
  <1>4. /\ \A i \in 1 .. Len(old) : r \in WdaReq /\ old[i] \in WdaReq => old[i] < r
        /\ \A i \in 1 .. Len(c.posted) :
             r \in WdaReq /\ c.posted[i].req \in WdaReq => c.posted[i].req < r
    BY DEF Waits, old
  <1>5. Increasing(d)
    <2>1. \A i, j \in 1 .. Len(old) :
            i < j /\ old[i] \in WdaReq /\ old[j] \in WdaReq => old[i] < old[j]
      BY DEF InOrder, Increasing, old
    <2>2. \A i, j \in 1 .. Len(new) :
            i < j /\ new[i] \in WdaReq /\ new[j] \in WdaReq => new[i] < new[j]
      <3> SUFFICES ASSUME NEW i \in 1 .. Len(new), NEW j \in 1 .. Len(new), i < j,
                          new[i] \in WdaReq, new[j] \in WdaReq
                   PROVE  new[i] < new[j]
        OBVIOUS
      <3>1. i \in 1 .. Len(old) /\ new[i] = old[i]
        BY <1>3
      <3>2. CASE j \in 1 .. Len(old)
        BY <1>3, <2>1, <3>1, <3>2
      <3>3. CASE j = Len(old) + 1
        BY <1>3, <1>4, <3>1, <3>3
      <3> QED BY <1>3, <3>2, <3>3
    <2> QED BY <2>2 DEF Increasing, new
  <1>6. \A i \in 1 .. Len(c.posted) : Ahead(d, c.posted[i].req)
    <2>1. \A i \in 1 .. Len(c.posted), j \in 1 .. Len(old) :
            c.posted[i].req \in WdaReq /\ old[j] \in WdaReq => c.posted[i].req < old[j]
      BY DEF InOrder, Ahead, old
    <2>2. \A i \in 1 .. Len(c.posted), j \in 1 .. Len(new) :
            c.posted[i].req \in WdaReq /\ new[j] \in WdaReq => c.posted[i].req < new[j]
      BY <1>3, <1>4, <2>1
    <2> QED BY <2>2 DEF Ahead, new
  <1> QED BY <1>2, <1>5, <1>6 DEF InOrder, d

\* A dequeued request is to be looked at in the state the machine stopped in.
LEMMA DequeueStops ==
  ASSUME NEW c \in CbType, Stopping(c), c.uGlobalState = "STOPPED"
  PROVE  Stopping(DequeuePendingReq(c))
  <1> DEFINE d == DequeuePendingReq(c)
             m == [req |-> Head(c.wptPendingQueue), val |-> c.uGlobalState]
  <1>1. CASE c.wptPendingQueue = <<>>
    BY <1>1 DEF DequeuePendingReq
  <1>2. CASE c.wptPendingQueue # <<>>
    <2>1. /\ d.uGlobalState = "BUSY" /\ d.wdiExpectedResponse = c.wdiExpectedResponse
          /\ d.posted = Append(c.posted, m)
      BY <1>2, DequeueFields
    <2>2. /\ c.posted \in Seq(Posted) /\ c.wptPendingQueue \in Seq(Request)
          /\ c.uGlobalState \in State
      BY FieldType
    <2>3. m \in Posted /\ m.val = "STOPPED"
      <3>1. Head(c.wptPendingQueue) \in Request
        BY <1>2, <2>2, SeqSteps
      <3> QED BY <2>2, <3>1 DEF Posted
    <2> HIDE DEF m
    <2>4. /\ Len(d.posted) = Len(c.posted) + 1
          /\ \A i \in 1 .. Len(c.posted) : d.posted[i] = c.posted[i]
          /\ d.posted[Len(c.posted) + 1] = m
          /\ 1 .. Len(c.posted) + 1 = 1 .. Len(c.posted) \cup {Len(c.posted) + 1}
      BY <2>1, <2>2, <2>3, AppendElements
    <2> HIDE DEF d
    <2>5. \A i \in 1 .. Len(d.posted) : d.posted[i].val = "STOPPED"
      BY <2>3, <2>4 DEF Stopping
    <2> QED BY <2>1, <2>5 DEF Stopping, d
  <1> QED BY <1>1, <1>2

\* The ways of WDI_PostMainEvent.
PostedAs(c, d, r) ==
  \/ d = QueuePendingReq(c, r) /\ (c.uGlobalState = "BUSY" \/ ~c.bCTOpened)
  \/ d.wdiFailed /\ d.fate[r] \notin Reached
  \/ /\ c.uGlobalState # "BUSY" /\ c.bCTOpened
     /\ \/ /\ d = DequeuePendingReq(WithFate(c, {r}, "answered"))
           /\ c.uGlobalState \in Served(r) /\ r \in Suspend
        \/ d = Sent(At(c, "BUSY"), r) /\ c.uGlobalState \in Served(r)
        \/ /\ d = DequeuePendingReq(WithFate(c, {r}, "failed"))
           /\ c.uGlobalState \notin Served(r)

LEMMA PostWays ==
  ASSUME NEW c, NEW hand, Kept(c, hand), NEW r \in Request,
         c.fate[r] \in {"new", "queued"},
         r # NvDownload => c.fate[NvDownload] = "answered"
  PROVE  PostedAs(c, PostMainEvent(c, r), r)
  <1> DEFINE d == PostMainEvent(c, r)
             b == At(c, "BUSY")
             old == c.uGlobalState
  <1>1. c \in CbType /\ old \in State /\ c.bCTOpened \in BOOLEAN
    BY FieldType DEF Kept
  <1>4. r # NvDownload => c.bCTOpened /\ old # "INIT"
    BY DEF Kept, NotOpened, NvFirst
  <1>5. ~c.bCTOpened => old = "INIT"
    BY DEF Kept, NotOpened
  <1>6. CASE old = "BUSY"
    <2>1. d = QueuePendingReq(c, r)
      BY <1>6 DEF PostMainEvent, Served
    <2> QED BY <1>6, <2>1 DEF PostedAs
  <1>7. CASE ~c.bCTOpened
    <2>1. d = QueuePendingReq(c, r)
      BY <1>4, <1>5, <1>7 DEF PostMainEvent
    <2> QED BY <1>7, <2>1 DEF PostedAs
  <1>8. ASSUME old # "BUSY", c.bCTOpened, old \notin Served(r)
        PROVE  PostedAs(c, d, r)
    <2>1. r # NvDownload
      BY <1>1, <1>8, RequestType DEF Served, State
    <2>2. d = DequeuePendingReq(WithFate(c, {r}, "failed"))
      BY <1>4, <1>8, <2>1 DEF PostMainEvent
    <2> QED BY <1>8, <2>2 DEF PostedAs
  <1>9. ASSUME old # "BUSY", c.bCTOpened, old \in Served(r)
        PROVE  PostedAs(c, d, r)
    <2>1. d = ProcessRequest(b, r, old)
      BY <1>4, <1>9, BusyIsAt DEF PostMainEvent
    <2>2. CASE fw = "up" /\ r \in Suspend
      <3>1. d = DequeuePendingReq(At(WithFate(b, {r}, "answered"), old))
        BY <2>1, <2>2 DEF ProcessRequest, At
      <3>2. At(WithFate(b, {r}, "answered"), old) = WithFate(c, {r}, "answered")
        BY <1>1, Restored DEF Fate
      <3> QED BY <1>9, <2>2, <3>1, <3>2 DEF PostedAs
    <2>3. CASE fw = "up" /\ r \notin Suspend
      <3>1. d = Sent(b, r)
        BY <2>1, <2>3 DEF ProcessRequest
      <3> QED BY <1>9, <3>1 DEF PostedAs
    <2> DEFINE f == Refused(b, r)
    <2>4. /\ f \in CbType /\ f.wptPendingQueue = <<>> /\ f.wdiFailed
          /\ f.fate[r] = "failed"
      BY <1>1, RefusedFields
    <2> HIDE DEF f
    <2>5. CASE fw = "down" /\ r \in Told \ Suspend
      <3>1. d = f
        BY <2>1, <2>5 DEF ProcessRequest, Refused, Expects, f
      <3> QED BY <2>4, <3>1 DEF PostedAs, Reached
    <2>6. CASE fw # "up" /\ ~(fw = "down" /\ r \in Told \ Suspend)
      <3> DEFINE g == At(f, old)
      <3>1. d = DequeuePendingReq(g)
        BY <2>1, <2>6 DEF ProcessRequest, Refused, Expects, f, At
      <3>2. /\ g.wptPendingQueue = f.wptPendingQueue
            /\ g.wdiFailed = f.wdiFailed /\ g.fate = f.fate
        BY <1>1, <2>4, AtFields
      <3> HIDE DEF g
      <3>3. d = g
        BY <2>4, <3>1, <3>2 DEF DequeuePendingReq
      <3> HIDE DEF d
      <3> QED BY <2>4, <3>2, <3>3 DEF PostedAs, Reached
    <2> QED BY <2>2, <2>3, <2>5, <2>6
  <1> QED BY <1>1, <1>6, <1>7, <1>8, <1>9

LEMMA PostLine ==
  ASSUME NEW c, NEW hand, Kept(c, hand), NEW r \in Request, r \in hand,
         c.fate[r] \in {"new", "queued"},
         r # NvDownload => c.fate[NvDownload] = "answered",
         r = NvDownload => c.fate[StopReq] \notin Reached,
         NEW m, Line(c, m),
         m # NoReq => c.bCTOpened /\ (m = r \/ r = StopReq),
         m = NoReq /\ r \in WdaReq => \A q \in WdaReq : Waits(c, q) => q < r
  PROVE  Line(PostMainEvent(c, r), IF r = m THEN NoReq ELSE m)
  <1> DEFINE d == PostMainEvent(c, r)
             n == IF r = m THEN NoReq ELSE m
             b == At(c, "BUSY")
             e(f) == WithFate(c, {r}, f)
  <1>1. /\ c \in CbType /\ c.uGlobalState \in State /\ c.bCTOpened \in BOOLEAN
        /\ c.fate \in [Request -> Fate]
    BY FieldType DEF Kept
  <1>2. PostedAs(c, d, r)
    BY PostWays
  <1>3. Posts(c, d, r, hand)
    BY PostKeeps
  <1>4. r # NvDownload => c.uGlobalState # "INIT"
    BY DEF Kept, NvFirst
  <1>5. ~c.wdiFailed /\ c.uGlobalState # "BUSY"
          => c.posted = <<>> /\ c.wdiExpectedResponse = NoReq
    BY DEF Kept, InStep
  <1>6. LET g == QueuePendingReq(c, r)
        IN  /\ g.uGlobalState = c.uGlobalState /\ g.posted = c.posted
            /\ g.wdiExpectedResponse = c.wdiExpectedResponse
            /\ g.wdiFailed = c.wdiFailed /\ g.fate[r] = "queued"
    BY <1>1, QueueFields
  <1>7. \A f \in {"answered", "failed"} :
          /\ e(f) \in CbType /\ e(f).uGlobalState = c.uGlobalState
          /\ e(f).wptPendingQueue = c.wptPendingQueue /\ e(f).posted = c.posted
          /\ e(f).wdiExpectedResponse = c.wdiExpectedResponse
          /\ e(f).wdiFailed = c.wdiFailed /\ e(f).fate[r] = f
    BY <1>1, WithFateFields DEF Fate
  <1>8. /\ b \in CbType /\ b.uGlobalState = "BUSY"
        /\ b.wptPendingQueue = c.wptPendingQueue /\ b.posted = c.posted
        /\ b.wdiFailed = c.wdiFailed /\ b.usCurrentFragment = c.usCurrentFragment
    BY <1>1, AtFields DEF State
  <1>9. LET g == Sent(b, r)
        IN  /\ g.uGlobalState = "BUSY" /\ g.wptPendingQueue = c.wptPendingQueue
            /\ g.posted = c.posted /\ g.wdiExpectedResponse = r
            /\ g.wdiFailed = c.wdiFailed /\ g.fate[r] = "sent"
    <2>1. r = NvDownload => b.usCurrentFragment < Fragments
      BY <1>8 DEF Kept, NvFirst
    <2> HIDE DEF b
    <2> QED BY <1>8, <2>1, SentFields
  <1>10. \A f \in {"answered", "failed"} :
           LET g == DequeuePendingReq(e(f))
           IN  g.wdiFailed = c.wdiFailed /\ g.fate[r] = f
    <2> TAKE f \in {"answered", "failed"}
    <2> DEFINE w == e(f)
    <2>1. w \in CbType /\ w.wdiFailed = c.wdiFailed /\ w.fate[r] = f
      BY <1>7
    <2> HIDE DEF w
    <2>2. CASE w.wptPendingQueue = <<>>
      BY <2>1, <2>2 DEF DequeuePendingReq, w
    <2>3. CASE w.wptPendingQueue # <<>>
      <3>1. LET g == DequeuePendingReq(w)
            IN  g.wdiFailed = w.wdiFailed /\ g.fate = w.fate
        BY <2>1, <2>3, DequeueFields
      <3> QED BY <2>1, <3>1 DEF w
    <2> QED BY <2>2, <2>3
  <1> SUFFICES ASSUME ~d.wdiFailed
               PROVE  IF d.fate[StopReq] \in Reached THEN Stopping(d) ELSE InOrder(d, n)
    BY DEF Line
  <1> HIDE DEF d, e, b
  <1>11. ~c.wdiFailed
    BY <1>2, <1>6, <1>9, <1>10 DEF PostedAs, e, b
  <1>12. CASE c.fate[StopReq] \in Reached
    <2>1. r # StopReq /\ r # NvDownload /\ Stopping(c)
      BY <1>11, <1>12 DEF Line, Reached
    <2>2. c.uGlobalState \notin Served(r) \/ c.uGlobalState = "BUSY"
      BY <2>1 DEF Stopping, Served
    <2>3. d.fate[StopReq] \in Reached
      BY <1>3, <1>12, <2>1, RequestType DEF Posts, Reached
    <2>4. CASE d = QueuePendingReq(c, r)
      BY <1>6, <2>1, <2>3, <2>4 DEF Stopping
    <2>5. CASE d = DequeuePendingReq(e("failed")) /\ c.uGlobalState # "BUSY"
      <3>1. /\ e("failed") \in CbType /\ Stopping(e("failed"))
            /\ e("failed").uGlobalState = "STOPPED"
        BY <1>7, <2>1, <2>5 DEF Stopping
      <3> QED BY <2>3, <2>5, <3>1, DequeueStops
    <2> QED BY <1>2, <2>2, <2>4, <2>5 DEF PostedAs, e
  <1>13. CASE c.fate[StopReq] \notin Reached
    <2>1. InOrder(c, m)
      BY <1>11, <1>13 DEF Line
    <2>2. ASSUME r # StopReq \/ d.fate[r] \notin Reached
          PROVE  d.fate[StopReq] \notin Reached
      BY <1>3, <1>13, <2>2, RequestType DEF Posts, Reached
    <2>3. CASE d = QueuePendingReq(c, r) /\ (c.uGlobalState = "BUSY" \/ ~c.bCTOpened)
      <3>1. m = NoReq /\ n = NoReq
        BY <2>1, <2>3 DEF InOrder
      <3>2. InOrder(c, NoReq)
        BY <2>1, <3>1
      <3>3. InOrder(QueuePendingReq(c, r), NoReq)
        BY <1>1, <3>1, <3>2, QueueOrder
      <3>4. d.fate[r] \notin Reached
        BY <1>6, <2>3 DEF Reached
      <3> QED BY <2>2, <2>3, <3>1, <3>3, <3>4
    <2>4. ASSUME NEW f \in {"answered", "failed"}, d = DequeuePendingReq(e(f)),
                 c.uGlobalState # "BUSY", f = "answered" => r # StopReq,
                 n = NoReq
          PROVE  IF d.fate[StopReq] \in Reached THEN Stopping(d) ELSE InOrder(d, n)
      <3>1. e(f) \in CbType /\ Increasing(e(f)) /\ e(f).posted = <<>>
        BY <1>5, <1>7, <1>11, <2>1, <2>4 DEF InOrder, Increasing
      <3>2. InOrder(DequeuePendingReq(e(f)), NoReq)
        BY <3>1, DequeueOrder
      <3>3. f = "failed" => d.fate[r] \notin Reached
        BY <1>10, <2>4 DEF Reached
      <3> QED BY <2>2, <2>4, <3>2, <3>3
    <2>5. CASE /\ c.uGlobalState # "BUSY" /\ d = DequeuePendingReq(e("answered"))
               /\ c.uGlobalState \in Served(r) /\ r \in Suspend
      <3>1. r # StopReq /\ n = NoReq
        BY <2>5, RequestType
      <3> QED BY <2>4, <2>5, <3>1
    <2>6. CASE /\ c.uGlobalState # "BUSY" /\ d = DequeuePendingReq(e("failed"))
               /\ c.uGlobalState \notin Served(r)
      <3>1. r # StopReq
        BY <1>1, <1>4, <2>6, RequestType DEF Served, State
      <3>2. n = NoReq
        BY <3>1
      <3> QED BY <2>4, <2>6, <3>2
    <2>7. CASE c.uGlobalState # "BUSY" /\ d = Sent(b, r)
      <3>1. c.posted = <<>>
        BY <1>5, <1>11, <2>7
      <3>2. /\ d.uGlobalState = "BUSY" /\ d.wptPendingQueue = c.wptPendingQueue
            /\ d.posted = <<>> /\ d.wdiExpectedResponse = r /\ d.fate[r] = "sent"
        BY <1>9, <2>7, <3>1
      <3>3. CASE r = StopReq
        BY <3>2, <3>3 DEF Reached, Stopping
      <3>4. CASE r # StopReq
        <4>1. d.fate[StopReq] \notin Reached /\ n = NoReq
          BY <2>2, <3>4
        <4>2. Increasing(d)
          BY <2>1, <3>2 DEF InOrder, Increasing
        <4> QED BY <3>2, <4>1, <4>2 DEF InOrder
      <3> QED BY <3>3, <3>4
    <2> QED BY <1>2, <2>3, <2>5, <2>6, <2>7 DEF PostedAs, e, b
  <1> QED BY <1>12, <1>13

LEMMA ResponseLine ==
  ASSUME NEW c, Kept(c, {}), NEW r \in c.hal, NEW ok \in BOOLEAN, r = NvDownload => ok,
         c.wptPendingQueue = <<>> \/ c.uGlobalState = "BUSY" \/ ~c.bCTOpened,
         r # NvDownload => c.fate[NvDownload] = "answered",
         Line(c, NoReq)
  PROVE  Line(Response(c, r, ok), NoReq)
  <1> DEFINE d == Response(c, r, ok)
             t == Taken(c, r, "answered")
             a(s) == At(t, s)
  <1>1. c \in CbType /\ r \in Request /\ c.usCurrentFragment \in 0 .. Fragments
    BY FieldType DEF Kept
  <1>2. /\ Kept(d, {}) /\ Answers(c, d)
        /\ r # c.wdiExpectedResponse \/ ~ok => d.wdiFailed
    BY ResponseKeeps
  <1> SUFFICES ASSUME ~d.wdiFailed, r = c.wdiExpectedResponse, ok
               PROVE  IF d.fate[StopReq] \in Reached THEN Stopping(d) ELSE InOrder(d, NoReq)
    BY <1>2 DEF Line
  <1>3. \A s \in {"STARTED", "STOPPED"} :
          /\ a(s) \in CbType /\ a(s).uGlobalState = s
          /\ a(s).wptPendingQueue = c.wptPendingQueue /\ a(s).posted = c.posted
          /\ a(s).wdiFailed = c.wdiFailed
          /\ \A q \in Request : a(s).fate[q] = IF q = r THEN "answered" ELSE c.fate[q]
    <2> TAKE s \in {"STARTED", "STOPPED"}
    <2>1. TakesTo(c, At(Taken(c, r, "answered"), s), r, "answered", s)
      BY <1>1, TakenKeeps
    <2> QED BY <2>1 DEF TakesTo, Kept
  <1>4. /\ t \in CbType /\ t.uGlobalState = c.uGlobalState
        /\ t.wdiExpectedResponse = NoReq
    BY <1>1, TakenFields DEF Fate
  <1>5. \A s \in {"STARTED", "STOPPED"} : a(s).wdiExpectedResponse = NoReq
    <2> HIDE DEF t
    <2> QED BY <1>4, AtFields DEF State
  <1>6. c.fate[r] = "sent" /\ r # NoReq
    BY <1>1, RequestType DEF Kept, HalSent
  <1> DEFINE more == r = NvDownload /\ c.usCurrentFragment # Fragments
             q1 == QueuePendingReq(a("STARTED"), r)
  <1>7. more => d = DequeuePendingReq(At(PostMainEvent(t, r), "STARTED"))
    BY RequestType DEF Response, Taken, At
  <1>8. ~more => d = DequeuePendingReq(IF r = StopReq THEN a("STOPPED") ELSE a("STARTED"))
    BY RequestType DEF Response, Taken, At
  <1> HIDE DEF d
  <1>9. more => ~c.wdiFailed /\ c.uGlobalState = "BUSY"
    BY <1>6 DEF Kept, NvFirst, InStep
  <1>10. more => d = DequeuePendingReq(q1)
    <2> HAVE more
    <2>1. PostMainEvent(t, r) = QueuePendingReq(t, r)
      <3> HIDE DEF t
      <3> QED BY <1>4, <1>9 DEF PostMainEvent, Served
    <2>2. At(QueuePendingReq(t, r), "STARTED") = q1
      <3> HIDE DEF t
      <3> QED BY <1>1, <1>4, QueueAt
    <2> QED BY <1>7, <2>1, <2>2
  <1> HIDE DEF t, a
  <1>11. q1 \in CbType /\ q1.posted = c.posted /\ q1.wdiFailed = c.wdiFailed
    BY <1>1, <1>3, QueueFields
  <1>12. ~c.wdiFailed
    <2> DEFINE e == IF more THEN q1 ELSE IF r = StopReq THEN a("STOPPED") ELSE a("STARTED")
    <2>1. d = DequeuePendingReq(e) /\ e \in CbType /\ e.wdiFailed = c.wdiFailed
      BY <1>3, <1>8, <1>10, <1>11
    <2> HIDE DEF e, q1, more
    <2>2. CASE e.wptPendingQueue = <<>>
      BY <2>1, <2>2 DEF DequeuePendingReq
    <2>3. CASE e.wptPendingQueue # <<>>
      <3>1. LET g == DequeuePendingReq(e) IN g.wdiFailed = e.wdiFailed
        BY <2>1, <2>3, DequeueFields
      <3> QED BY <2>1, <3>1
    <2> QED BY <2>2, <2>3
  <1>13. c.posted = <<>> /\ Len(c.posted) = 0
    BY <1>6, <1>12 DEF Kept, InStep
  <1>14. CASE r = StopReq
    <2>1. a("STOPPED") \in CbType /\ Stopping(a("STOPPED"))
      BY <1>3, <1>5, <1>13 DEF Stopping
    <2>2. d = DequeuePendingReq(a("STOPPED"))
      BY <1>8, <1>14, RequestType
    <2>3. Stopping(DequeuePendingReq(a("STOPPED")))
      BY <1>3, <2>1, DequeueStops
    <2>4. d.fate[StopReq] \in Reached
      <3>1. a("STOPPED").fate[StopReq] = "answered"
        BY <1>3, <1>14, RequestType
      <3>2. CASE a("STOPPED").wptPendingQueue = <<>>
        BY <2>2, <3>1, <3>2 DEF DequeuePendingReq, Reached
      <3>3. CASE a("STOPPED").wptPendingQueue # <<>>
        <4>1. LET g == DequeuePendingReq(a("STOPPED")) IN g.fate = a("STOPPED").fate
          BY <2>1, <3>3, DequeueFields
        <4> QED BY <2>2, <3>1, <4>1 DEF Reached
      <3> QED BY <3>2, <3>3
    <2> QED BY <2>2, <2>3, <2>4
  <1>15. CASE r # StopReq
    <2>1. c.fate[StopReq] \notin Reached /\ InOrder(c, NoReq)
      <3>1. c.fate[StopReq] \in Reached => Stopping(c)
        BY <1>12 DEF Line
      <3>2. c.fate[StopReq] \notin Reached
        BY <1>6, <1>15, <3>1 DEF Stopping
      <3> QED BY <1>12, <3>2 DEF Line
    <2>2. d.fate[StopReq] \notin Reached
      BY <1>2, <2>1, RequestType DEF Answers, Reached
    <2>3. Increasing(a("STARTED"))
      BY <1>3, <2>1 DEF InOrder, Increasing
    <2>4. InOrder(a("STARTED"), NoReq)
      BY <1>3, <1>13, <2>3 DEF InOrder
    <2>5. CASE ~more
      <3>1. d = DequeuePendingReq(a("STARTED"))
        BY <1>8, <1>15, <2>5
      <3>2. InOrder(DequeuePendingReq(a("STARTED")), NoReq)
        BY <1>3, <1>13, <2>3, DequeueOrder
      <3> QED BY <2>2, <3>1, <3>2
    <2>6. CASE more
      <3>1. InOrder(q1, NoReq)
        BY <1>1, <1>3, <2>4, <2>6, QueueOrder, RequestType
      <3>2. Increasing(q1)
        BY <3>1 DEF InOrder
      <3> HIDE DEF q1
      <3>3. InOrder(DequeuePendingReq(q1), NoReq)
        BY <1>11, <1>13, <3>2, DequeueOrder
      <3> QED BY <1>10, <2>2, <2>6, <3>3
    <2> QED BY <2>5, <2>6
  <1> QED BY <1>14, <1>15

\* The order is about these fields only.
LEMMA SameLine ==
  ASSUME NEW c, NEW d, NEW m, Line(c, m), d.uGlobalState = c.uGlobalState,
         d.wdiExpectedResponse = c.wdiExpectedResponse,
         d.wptPendingQueue = c.wptPendingQueue, d.posted = c.posted,
         d.wdiFailed = c.wdiFailed, d.fate[StopReq] = c.fate[StopReq]
  PROVE  Line(d, m)
  BY DEF Line, Stopping, InOrder, Increasing, Ahead

LEMMA OrderInit == Init => OrderInv
  <1> SUFFICES ASSUME Init PROVE Line(cb, mc)
    BY InitInv DEF OrderInv
  <1>1. cb.fate = [r \in Request |-> "new"] /\ mc = NoReq
    BY DEF Init
  <1>2. cb.fate[StopReq] \notin Reached
    BY <1>1, RequestType DEF Reached
  <1>3. Len(cb.posted) = 0 /\ Len(cb.wptPendingQueue) = 0
    BY DEF Init
  <1>4. InOrder(cb, mc)
    BY <1>1, <1>3 DEF InOrder, Increasing
  <1> QED BY <1>2, <1>4 DEF Line

\* WDA's next request comes after all that wait.
LEMMA PostedOrder ==
  ASSUME CpInv, Alive, Line(cb, mc), NEW r \in Request, cb.fate[r] = "new" \/ r = mc,
         r # NvDownload => cb.fate[NvDownload] = "answered",
         mc # NoReq => mc = r \/ r = StopReq,
         mc = NoReq /\ r \in WdaReq => r = next,
         cb' = PostMainEvent(cb, r), mc' = IF r = mc THEN NoReq ELSE mc
  PROVE  Line(cb', mc')
  <1> DEFINE hand == Hand \cup {r}
  <1>1. TypeOK /\ Running
    BY DEF CpInv
  <1>2. r # NoReq
    BY RequestType
  <1>3. r = mc => cb.fate[r] = "queued"
    BY <1>1, <1>2 DEF Running, Made
  <1>4. Kept(cb, hand)
    <2>1. \A q \in Request : Waits(cb, q) <=> cb.fate[q] = "queued" /\ q \notin hand
      BY <1>1, <1>2, <1>3 DEF Running, Kept, Placed, Hand
    <2> HIDE DEF hand
    <2> QED BY <1>1, <2>1 DEF Running, Kept, Placed
  <1>5. r = NvDownload => cb.fate[StopReq] \notin Reached
    BY <1>1, <1>3, RequestType DEF Running, Made, Reached
  <1>6. mc # NoReq => cb.bCTOpened /\ (mc = r \/ r = StopReq)
    BY <1>1 DEF Running, Made
  <1>7. ASSUME mc = NoReq, r \in WdaReq, NEW q \in WdaReq, Waits(cb, q)
        PROVE  q < r
    <2>1. cb.fate[q] = "queued"
      BY <1>1, <1>7, RequestType DEF Running, Kept, Placed
    <2>2. ~(q >= next)
      BY <1>1, <2>1 DEF Running, Made
    <2> QED BY <1>1, <1>7, <2>2, MaxReqAssumption DEF WdaReq, TypeOK
  <1>8. r \in hand /\ cb.fate[r] \in {"new", "queued"}
    BY <1>3
  <1> HIDE DEF hand
  <1>9. Line(PostMainEvent(cb, r), IF r = mc THEN NoReq ELSE mc)
    BY <1>4, <1>5, <1>6, <1>7, <1>8, PostLine
  <1> QED BY <1>9

\* A message for the control thread is taken: its request is ahead of all that
\* pend, or WDI has stopped.
LEMMA RestoreOrder ==
  ASSUME CpInv, Line(cb, mc), PALCtrlMsgRestore
  PROVE  Line(cb', mc')
  <1> DEFINE m == Head(cb.posted)
  <1>1. /\ TypeOK /\ Running /\ mc = NoReq /\ Kept(cb, {})
        /\ cb.posted \in Seq(Posted) /\ cb.posted # <<>> /\ cb \in CbType
    BY Idle, FieldType DEF CpInv, PALCtrlMsgRestore, McIdle, Kept
  <1>2. /\ Tail(cb.posted) \in Seq(Posted) /\ m \in Posted /\ m = cb.posted[1]
        /\ Len(cb.posted) \in Nat \ {0} /\ Len(Tail(cb.posted)) = Len(cb.posted) - 1
    <2> HIDE DEF m
    <2> QED BY <1>1, TailElements DEF m
  <1>3. /\ cb'.uGlobalState = m.val
        /\ cb'.wdiExpectedResponse = cb.wdiExpectedResponse
        /\ cb'.wptPendingQueue = cb.wptPendingQueue
        /\ cb'.posted = Tail(cb.posted)
        /\ cb'.wdiFailed = cb.wdiFailed /\ cb'.fate = cb.fate /\ mc' = m.req
    BY <1>1 DEF PALCtrlMsgRestore, CbType
  <1> HIDE DEF m
  <1> SUFFICES ASSUME ~cb.wdiFailed
               PROVE  IF cb.fate[StopReq] \in Reached THEN Stopping(cb') ELSE InOrder(cb', mc')
    BY <1>3 DEF Line
  <1>4. Len(cb.posted) = 1
    <2>1. Len(cb.posted) <= 1
      BY <1>1 DEF Kept, InStep
    <2>2. \A n \in Nat \ {0} : n <= 1 => n = 1
      OBVIOUS
    <2> QED BY <1>2, <2>1, <2>2
  <1>5. cb'.posted = <<>> /\ Len(cb'.posted) = 0
    <2>1. Len(Tail(cb.posted)) = 0
      BY <1>2, <1>4
    <2>2. Tail(cb.posted) = <<>>
      BY <1>2, <2>1, EmptySeq
    <2> QED BY <1>3, <2>1, <2>2
  <1>6. m.val # "BUSY"
    BY <1>1, <1>2, <1>4 DEF Kept, Ready
  <1>7. CASE cb.fate[StopReq] \in Reached
    <2>1. Stopping(cb)
      BY <1>7 DEF Line
    <2>2. m.val = "STOPPED"
      BY <1>2, <1>4, <2>1 DEF Stopping
    <2> QED BY <1>3, <1>5, <1>7, <2>1, <2>2 DEF Stopping
  <1>8. CASE cb.fate[StopReq] \notin Reached
    <2>1. InOrder(cb, mc)
      BY <1>8 DEF Line
    <2>2. Ahead(cb, m.req)
      BY <1>2, <1>4, <2>1 DEF InOrder
    <2>3. Increasing(cb')
      BY <1>3, <2>1 DEF InOrder, Increasing
    <2>4. Ahead(cb', mc')
      <3>1. \A c, d, x : Ahead(c, x) /\ d.wptPendingQueue = c.wptPendingQueue => Ahead(d, x)
        BY DEF Ahead
      <3> QED BY <1>3, <2>2, <3>1
    <2>5. \A i \in 1 .. Len(cb'.posted) : FALSE
      BY <1>5
    <2>6. cb'.uGlobalState # "BUSY" /\ cb'.posted = <<>>
      BY <1>3, <1>5, <1>6
    <2>7. InOrder(cb', mc')
      BY <2>3, <2>4, <2>5, <2>6 DEF InOrder
    <2> QED BY <1>8, <2>7
  <1> QED BY <1>7, <1>8

LEMMA ClearOrder ==
  ASSUME CpInv, Line(cb, mc), WdiStopClear
  PROVE  Line(cb', mc')
  <1>1. cb \in CbType /\ cb.fate[StopReq] = "new"
    BY DEF CpInv, TypeOK, WdiStopClear, Alive, Running, Made
  <1>2. /\ cb'.uGlobalState = cb.uGlobalState /\ cb'.wptPendingQueue = <<>>
        /\ cb'.posted = cb.posted /\ cb'.wdiFailed = cb.wdiFailed
        /\ \A q \in Request : cb'.fate[q] = IF q \in Range(cb.wptPendingQueue)
                                            THEN "failed" ELSE cb.fate[q]
    BY <1>1, ClearFields DEF WdiStopClear
  <1>3. cb'.fate[StopReq] \notin Reached
    BY <1>1, <1>2, RequestType DEF Reached
  <1>4. Len(cb'.wptPendingQueue) = 0 /\ mc' = mc
    BY <1>2 DEF WdiStopClear
  <1> SUFFICES ASSUME ~cb.wdiFailed PROVE InOrder(cb', mc)
    BY <1>2, <1>3, <1>4 DEF Line
  <1>5. InOrder(cb, mc)
    BY <1>1 DEF Line, Reached
  <1> QED BY <1>2, <1>4, <1>5 DEF InOrder, Increasing, Ahead

LEMMA OpenOrder ==
  ASSUME CpInv, Line(cb, mc), NotifyOpen
  PROVE  Line(cb', mc')
  <1> DEFINE d == [cb EXCEPT !.bCTOpened = TRUE]
  <1>1. /\ TypeOK /\ Running /\ mc = NoReq /\ ~cb.bCTOpened /\ Kept(cb, {}) /\ cb \in CbType
    BY Idle DEF CpInv, NotifyOpen, McIdle, TypeOK
  <1>2. cb' = DequeuePendingReq(d) /\ mc' = NoReq
    BY <1>1 DEF NotifyOpen
  <1>3. /\ d \in CbType /\ d.wptPendingQueue = cb.wptPendingQueue
        /\ d.posted = cb.posted /\ d.fate = cb.fate /\ d.wdiFailed = cb.wdiFailed
    BY <1>1 DEF CbType
  <1> HIDE DEF d
  <1>4. cb.posted = <<>> /\ ~cb.wdiFailed /\ cb.fate[NvDownload] \in {"new", "queued"}
    BY <1>1 DEF Kept, NotOpened
  <1>5. cb.fate[StopReq] \notin Reached
    BY <1>1, <1>4, RequestType DEF Running, Made, Reached
  <1>6. InOrder(cb, NoReq)
    BY <1>1, <1>4, <1>5 DEF Line
  <1>7. Increasing(d)
    BY <1>3, <1>6 DEF InOrder, Increasing
  <1>8. InOrder(DequeuePendingReq(d), NoReq)
    BY <1>3, <1>4, <1>7, DequeueOrder
  <1>9. cb'.fate = cb.fate
    <2>1. CASE d.wptPendingQueue = <<>>
      BY <1>2, <1>3, <2>1 DEF DequeuePendingReq
    <2>2. CASE d.wptPendingQueue # <<>>
      <3>1. LET g == DequeuePendingReq(d) IN g.fate = d.fate
        BY <1>3, <2>2, DequeueFields
      <3> QED BY <1>2, <1>3, <3>1
    <2> QED BY <2>1, <2>2
  <1> QED BY <1>2, <1>5, <1>8, <1>9 DEF Line

LEMMA OrderNext == OrderInv /\ [Next]_vars => OrderInv'
  <1> SUFFICES ASSUME OrderInv, [Next]_vars, Alive' PROVE Line(cb', mc')
    BY NextInv DEF OrderInv
  <1>1. CpInv /\ CpInv'
    BY NextInv DEF OrderInv
  <1>2. CASE ~Alive
    BY <1>2 DEF Next, vars, Alive, McIdle, WdiNvDownloadReq, WdiStart, WdiStopClear,
       WdiStopPost, NotifyOpen, PALCtrlMsgRestore, PALCtrlMsgPost, WdaRequest,
       RxResponse, RxIndication, RxInvalid, ResponseTimerCB, TimerExpire, Crash,
       WdiShutdown
  <1>3. CASE Alive
    <2>1. Line(cb, mc) /\ TypeOK /\ Running /\ Made
      BY <1>1, <1>3 DEF OrderInv, CpInv, Running
    <2>2. CASE UNCHANGED <<cb, mc>>
      BY <2>1, <2>2
    <2>3. CASE WdiNvDownloadReq
      <3>1. cb.fate[NvDownload] = "new" /\ mc = NoReq /\ mc' = NoReq
        BY <2>1, <2>3, RequestType DEF WdiNvDownloadReq, Made, TypeOK
      <3> QED BY <1>1, <1>3, <2>1, <2>3, <3>1, PostedOrder, RequestType DEF WdiNvDownloadReq
    <2>4. CASE WdiStart
      <3>1. cb.fate[StartReq] = "new" /\ cb.fate[StopReq] = "new"
            /\ cb.fate[NvDownload] = "answered"
        BY <2>1, <2>4 DEF WdiStart, Made
      <3>2. \A q \in Request : cb.fate[q] # "queued"
        BY <2>1, <3>1, RequestType DEF Made
      <3>3. mc = NoReq /\ mc' = NoReq
        BY <2>1, <2>4, <3>2 DEF WdiStart, Made, TypeOK
      <3> QED
        BY <1>1, <1>3, <2>1, <2>4, <3>1, <3>3, PostedOrder, RequestType DEF WdiStart
    <2>5. CASE WdiStopClear
      BY <1>1, <2>1, <2>5, ClearOrder
    <2>6. CASE WdiStopPost
      <3>1. /\ cb.fate[StopReq] = "new" /\ cb.fate[NvDownload] = "answered"
            /\ mc # StopReq /\ mc' = mc
        BY <2>1, <2>6, RequestType DEF WdiStopPost, Made
      <3> QED
        BY <1>1, <1>3, <2>1, <2>6, <3>1, PostedOrder, RequestType DEF WdiStopPost
    <2>7. CASE NotifyOpen
      BY <1>1, <2>1, <2>7, OpenOrder
    <2>8. CASE PALCtrlMsgRestore
      BY <1>1, <2>1, <2>8, RestoreOrder
    <2>9. CASE PALCtrlMsgPost
      <3>1. /\ mc \in Request /\ mc # NoReq /\ mc' = NoReq
            /\ mc # NvDownload => cb.fate[NvDownload] = "answered"
        BY <2>1, <2>9 DEF PALCtrlMsgPost, TypeOK, Made
      <3> QED BY <1>1, <1>3, <2>1, <2>9, <3>1, PostedOrder DEF PALCtrlMsgPost
    <2>10. ASSUME mc = NoReq, mc' = mc, next \in WdaReq, cb.fate[StartReq] = "answered",
                  cb' = PostMainEvent(cb, next)
           PROVE  Line(cb', mc')
      <3>1. /\ next \in Request /\ next # mc /\ cb.fate[NvDownload] = "answered"
            /\ cb.fate[next] = "new"
        BY <2>1, <2>10, RequestType, MaxReqAssumption DEF Made, WdaReq
      <3> QED BY <1>1, <1>3, <2>1, <2>10, <3>1, PostedOrder
    <2>11. CASE WdaRequest
      BY <2>10, <2>11 DEF WdaRequest, McIdle
    <2>12. CASE RxIndication
      <3>1. /\ Kept(cb, {}) /\ mc = NoReq /\ cb.fate[NvDownload] = "answered"
            /\ cb.bCTOpened \in BOOLEAN /\ cb \in CbType
            /\ cb.wptPendingQueue = <<>> \/ cb.uGlobalState = "BUSY" \/ ~cb.bCTOpened
        BY <2>1, <2>12, Idle, FieldType, RequestType DEF RxIndication, McIdle, Made, TypeOK
      <3>2. cb.bCTOpened /\ cb.uGlobalState # "INIT"
        BY <3>1 DEF Kept, NotOpened, NvFirst
      <3>3. cb' = PostMainEvent(cb, next)
        BY <2>12, <3>1, <3>2, IndicationIsPost DEF RxIndication
      <3> QED BY <2>10, <2>12, <3>1, <3>3 DEF RxIndication
    <2>13. CASE RxResponse
      <3>1. /\ Kept(cb, {}) /\ mc = NoReq /\ mc' = NoReq
            /\ cb.wptPendingQueue = <<>> \/ cb.uGlobalState = "BUSY" \/ ~cb.bCTOpened
        BY <2>1, <2>13, Idle DEF RxResponse, McIdle
      <3>2. PICK r \in cb.hal, ok \in BOOLEAN :
              (r = NvDownload => ok) /\ cb' = Response(cb, r, ok)
        BY <2>13 DEF RxResponse
      <3>3. r # NvDownload => cb.fate[NvDownload] = "answered"
        <4>1. r \in Request /\ cb.fate[r] = "sent"
          BY <3>1, FieldType DEF Kept, HalSent
        <4> QED BY <2>1, <4>1 DEF Made
      <3>4. Line(Response(cb, r, ok), NoReq)
        BY <2>1, <3>1, <3>2, <3>3, ResponseLine
      <3> QED BY <3>1, <3>2, <3>4
    <2>14. CASE RxInvalid
      <3>1. cb'.wdiFailed
        BY <2>1, <2>14, DetectedFields DEF RxInvalid, TypeOK
      <3> QED BY <3>1 DEF Line
    <2>15. CASE TimerExpire
      <3>1. /\ cb'.uGlobalState = cb.uGlobalState
            /\ cb'.wdiExpectedResponse = cb.wdiExpectedResponse
            /\ cb'.wptPendingQueue = cb.wptPendingQueue /\ cb'.posted = cb.posted
            /\ cb'.wdiFailed = cb.wdiFailed /\ cb'.fate = cb.fate /\ mc' = mc
        BY <2>1, <2>15 DEF TimerExpire, TypeOK, CbType
      <3> QED BY <2>1, <3>1, SameLine
    <2>16. CASE ResponseTimerCB \/ Crash
      BY <2>2, <2>16 DEF ResponseTimerCB, Crash
    <2>17. CASE WdiShutdown
      BY <2>17 DEF WdiShutdown, Alive
    <2> QED
      BY <2>2, <2>3, <2>4, <2>5, <2>6, <2>7, <2>8, <2>9, <2>11, <2>12, <2>13, <2>14,
         <2>15, <2>16, <2>17 DEF Next, vars
  <1> QED BY <1>2, <1>3

\* While WDI is sound WDA's requests wait in the order they were made in.
THEOREM OrderCorrect == Spec => []OrderInv
  <1> QED BY OrderInit, OrderNext, PTL DEF Spec

\* Where a request reaches the firmware: it is the posted one, and WDI is in the
\* state in which it sends.
LEMMA PostReaches ==
  ASSUME NEW c, NEW hand, Kept(c, hand), NEW r \in Request, r \in hand,
         c.fate[r] \in {"new", "queued"},
         r # NvDownload => c.fate[NvDownload] = "answered",
         NEW q \in WdaReq, c.fate[q] \notin Reached,
         PostMainEvent(c, r).fate[q] \in Reached
  PROVE  q = r /\ c.uGlobalState = "STARTED"
  <1> DEFINE d == PostMainEvent(c, r)
  <1>1. c \in CbType /\ q \in Request /\ q \notin {NvDownload, StopReq}
    BY RequestType DEF Kept
  <1>2. PostedAs(c, d, r)
    BY PostWays
  <1>3. Posts(c, d, r, hand)
    BY PostKeeps
  <1> HIDE DEF d
  <1>4. q = r
    BY <1>1, <1>3 DEF Posts, Reached, d
  <1>5. d # QueuePendingReq(c, r)
    <2>1. LET g == QueuePendingReq(c, r) IN g.fate[r] = "queued"
      BY <1>1, QueueFields
    <2> QED BY <1>4, <2>1 DEF Reached, d
  <1>6. d # DequeuePendingReq(WithFate(c, {r}, "failed"))
    <2> DEFINE e == WithFate(c, {r}, "failed")
    <2>1. e \in CbType /\ e.fate[r] = "failed"
      BY <1>1, WithFateFields DEF Fate
    <2> HIDE DEF e
    <2>2. CASE e.wptPendingQueue = <<>>
      BY <1>4, <2>1, <2>2 DEF DequeuePendingReq, Reached, d, e
    <2>3. CASE e.wptPendingQueue # <<>>
      <3>1. LET g == DequeuePendingReq(e) IN g.fate = e.fate
        BY <2>1, <2>3, DequeueFields
      <3> QED BY <1>4, <2>1, <3>1 DEF Reached, d, e
    <2> QED BY <2>2, <2>3
  <1>7. c.uGlobalState \in Served(r)
    BY <1>2, <1>4, <1>5, <1>6 DEF PostedAs, d
  <1> QED BY <1>1, <1>4, <1>7 DEF Served

\* The step of the property.
SentStep ==
  ~cb.wdiFailed =>
    \A r \in WdaReq :
      cb.fate[r] \notin Reached /\ cb'.fate[r] \in Reached
        => \A q \in 2 .. (r - 1) : cb.fate[q] # "queued"

\* A posted event.
LEMMA PostedSends ==
  ASSUME OrderInv, Alive, NEW p \in Request, cb.fate[p] = "new" \/ p = mc,
         p # NvDownload => cb.fate[NvDownload] = "answered",
         p \in WdaReq => mc = p \/ mc = NoReq,
         cb' = PostMainEvent(cb, p)
  PROVE  SentStep
  <1> DEFINE hand == Hand \cup {p}
  <1>1. CpInv /\ TypeOK /\ Running /\ Line(cb, mc)
    BY DEF OrderInv, CpInv
  <1>2. p # NoReq
    BY RequestType
  <1>3. p = mc => cb.fate[p] = "queued" /\ cb.bCTOpened
    BY <1>1, <1>2 DEF Running, Made
  <1>4. Kept(cb, hand)
    <2>1. \A q \in Request : Waits(cb, q) <=> cb.fate[q] = "queued" /\ q \notin hand
      BY <1>1, <1>2, <1>3 DEF Running, Kept, Placed, Hand
    <2> HIDE DEF hand
    <2> QED BY <1>1, <2>1 DEF Running, Kept, Placed
  <1>5. p \in hand /\ cb.fate[p] \in {"new", "queued"}
    BY <1>3
  <1> HIDE DEF hand
  <1> SUFFICES ASSUME ~cb.wdiFailed, NEW r \in WdaReq, cb.fate[r] \notin Reached,
                      cb'.fate[r] \in Reached,
                      NEW q \in 2 .. (r - 1), cb.fate[q] = "queued"
               PROVE  FALSE
    BY DEF SentStep
  <1>6. r = p /\ cb.uGlobalState = "STARTED"
    BY <1>4, <1>5, PostReaches
  <1>7. q \in WdaReq /\ q < r /\ q \in Request /\ q # NoReq
    BY RequestType, MaxReqAssumption DEF WdaReq
  <1>8. cb.posted = <<>> /\ Len(cb.posted) = 0
    BY <1>4, <1>6 DEF Kept, InStep
  <1>9. cb.fate[StopReq] \notin Reached /\ InOrder(cb, mc)
    BY <1>1, <1>6 DEF Line, Stopping
  <1>10. q # mc
    BY <1>6, <1>7
  <1>11. PICK j \in 1 .. Len(cb.wptPendingQueue) : cb.wptPendingQueue[j] = q
    <2>1. q \notin Hand
      BY <1>10 DEF Hand
    <2>2. Waits(cb, q)
      BY <1>1, <1>7, <2>1 DEF Running, Kept, Placed
    <2> QED BY <1>8, <2>2 DEF Waits
  <1>12. CASE mc = NoReq
    <2>1. cb.bCTOpened
      BY <1>1, <1>6, FieldType DEF Running, Kept, NotOpened
    <2>2. cb.wptPendingQueue = <<>>
      BY <1>1, <1>6, <1>12, <2>1 DEF Running, PendingIsDequeued
    <2>3. Len(cb.wptPendingQueue) = 0
      BY <2>2
    <2> QED BY <1>11, <2>3
  <1>13. CASE mc # NoReq
    <2>1. Ahead(cb, mc) /\ mc = r
      BY <1>6, <1>9, <1>13 DEF InOrder
    <2>2. r < q
      BY <1>7, <1>11, <2>1 DEF Ahead
    <2> QED BY <1>7, <2>2 DEF WdaReq
  <1> QED BY <1>12, <1>13

LEMMA StepSends == OrderInv /\ [Next]_vars => SentStep
  <1> SUFFICES ASSUME OrderInv, [Next]_vars PROVE SentStep
    OBVIOUS
  <1>1. ASSUME \A q \in Request : cb'.fate[q] \in Reached => cb.fate[q] \in Reached
        PROVE  SentStep
    BY <1>1, RequestType DEF SentStep
  <1>2. CpInv /\ TypeOK /\ (Alive => Running /\ Made)
    BY DEF OrderInv, CpInv, Running
  <1>3. CASE UNCHANGED cb
    BY <1>1, <1>3
  <1>4. CASE WdiNvDownloadReq
    BY <1>2, <1>4, PostedSends, RequestType DEF WdiNvDownloadReq, Alive, Made
  <1>5. CASE WdiStart
    BY <1>2, <1>5, PostedSends, RequestType DEF WdiStart, Alive, Made
  <1>6. CASE WdiStopClear
    <2>1. \A q \in Request : cb'.fate[q] = IF q \in Range(cb.wptPendingQueue)
                                          THEN "failed" ELSE cb.fate[q]
      BY <1>2, <1>6, ClearFields DEF WdiStopClear, TypeOK
    <2> QED BY <1>1, <2>1 DEF Reached
  <1>7. CASE WdiStopPost
    <2>1. cb.fate[StopReq] = "new" /\ cb.fate[NvDownload] = "answered" /\ Alive
      BY <1>2, <1>7, RequestType DEF WdiStopPost, Alive, Made
    <2> QED BY <1>7, <2>1, PostedSends, RequestType DEF WdiStopPost
  <1>8. CASE NotifyOpen
    <2> DEFINE d == [cb EXCEPT !.bCTOpened = TRUE]
    <2>1. d \in CbType /\ d.fate = cb.fate /\ cb' = DequeuePendingReq(d)
      BY <1>2, <1>8 DEF NotifyOpen, TypeOK, CbType
    <2> HIDE DEF d
    <2>2. CASE d.wptPendingQueue = <<>>
      BY <1>1, <2>1, <2>2 DEF DequeuePendingReq
    <2>3. CASE d.wptPendingQueue # <<>>
      <3>1. LET g == DequeuePendingReq(d) IN g.fate = d.fate
        BY <2>1, <2>3, DequeueFields
      <3> QED BY <1>1, <2>1, <3>1
    <2> QED BY <2>2, <2>3
  <1>9. CASE PALCtrlMsgRestore
    <2>1. cb'.fate = cb.fate
      BY <1>2, <1>9 DEF PALCtrlMsgRestore, TypeOK, CbType
    <2> QED BY <1>1, <2>1
  <1>10. CASE PALCtrlMsgPost
    <2>1. /\ mc \in Request /\ Alive
          /\ mc # NvDownload => cb.fate[NvDownload] = "answered"
      BY <1>2, <1>10 DEF PALCtrlMsgPost, TypeOK, Made
    <2> QED BY <1>10, <2>1, PostedSends DEF PALCtrlMsgPost
  <1>11. ASSUME mc = NoReq, Alive, next \in WdaReq, cb.fate[StartReq] = "answered",
                cb' = PostMainEvent(cb, next)
         PROVE  SentStep
    <2>1. next \in Request /\ cb.fate[NvDownload] = "answered" /\ cb.fate[next] = "new"
      BY <1>2, <1>11, RequestType, MaxReqAssumption DEF Made, WdaReq
    <2> QED BY <1>11, <2>1, PostedSends
  <1>12. CASE WdaRequest
    BY <1>11, <1>12 DEF WdaRequest, McIdle
  <1>13. CASE RxIndication
    <2>1. /\ Kept(cb, {}) /\ mc = NoReq /\ Alive /\ cb.fate[NvDownload] = "answered"
          /\ cb.bCTOpened \in BOOLEAN /\ cb \in CbType
          /\ cb.wptPendingQueue = <<>> \/ cb.uGlobalState = "BUSY" \/ ~cb.bCTOpened
      BY <1>2, <1>13, Idle, FieldType, RequestType DEF RxIndication, McIdle, Made, TypeOK
    <2>2. cb.bCTOpened /\ cb.uGlobalState # "INIT"
      BY <2>1 DEF Kept, NotOpened, NvFirst
    <2>3. cb' = PostMainEvent(cb, next)
      BY <1>13, <2>1, <2>2, IndicationIsPost DEF RxIndication
    <2> QED BY <1>11, <1>13, <2>1, <2>3 DEF RxIndication
  <1>14. CASE RxResponse
    <2>1. /\ Kept(cb, {}) /\ Made
          /\ cb.wptPendingQueue = <<>> \/ cb.uGlobalState = "BUSY" \/ ~cb.bCTOpened
      BY <1>2, <1>14, Idle DEF RxResponse, McIdle
    <2>2. PICK r \in cb.hal, ok \in BOOLEAN :
            (r = NvDownload => ok) /\ cb' = Response(cb, r, ok)
      BY <1>14 DEF RxResponse
    <2>3. r # NvDownload => cb.fate[NvDownload] = "answered"
      <3>1. r \in Request /\ cb.fate[r] = "sent"
        BY <2>1, FieldType DEF Kept, HalSent
      <3> QED BY <2>1, <3>1 DEF Made
    <2>4. Answers(cb, cb')
      BY <2>1, <2>2, <2>3, ResponseKeeps
    <2> QED BY <1>1, <2>4 DEF Answers, Reached
  <1>15. CASE RxInvalid
    <2>1. \A q \in Request : cb'.fate[q] = IF q \in Range(cb.wptPendingQueue)
                                          THEN "failed" ELSE cb.fate[q]
      BY <1>2, <1>15, DetectedFields DEF RxInvalid, TypeOK
    <2> QED BY <1>1, <2>1 DEF Reached
  <1>16. CASE TimerExpire
    <2>1. cb'.fate = cb.fate
      BY <1>2, <1>16 DEF TimerExpire, TypeOK, CbType
    <2> QED BY <1>1, <2>1
  <1>17. CASE ResponseTimerCB \/ Crash
    BY <1>3, <1>17 DEF ResponseTimerCB, Crash
  <1>18. CASE WdiShutdown
    <2> DEFINE d == ClearPendingRequests(cb)
    <2>1. /\ d \in CbType
          /\ \A q \in Request : d.fate[q] = IF q \in Range(cb.wptPendingQueue)
                                          THEN "failed" ELSE cb.fate[q]
      BY <1>2, ClearFields DEF TypeOK
    <2>2. cb'.fate = d.fate
      <3>1. cb' = [d EXCEPT !.uGlobalState = "INIT", !.timer = FALSE, !.posted = <<>>]
        BY <1>18 DEF WdiShutdown
      <3> HIDE DEF d
      <3> QED BY <2>1, <3>1 DEF CbType
    <2> HIDE DEF d
    <2> QED BY <1>1, <2>1, <2>2 DEF Reached
  <1> QED
    BY <1>3, <1>4, <1>5, <1>6, <1>7, <1>8, <1>9, <1>10, <1>12, <1>13, <1>14, <1>15,
       <1>16, <1>17, <1>18 DEF Next, vars

\* WDA's requests reach the firmware in the order in which they were made,
\* queued or not, until WDA was told of a fatal error.
THEOREM SentInOrderCorrect == Spec => SentInOrder
  <1>1. OrderInv /\ [Next]_vars => [SentStep]_vars
    BY StepSends
  <1>2. SentInOrder <=> [][SentStep]_vars
    BY DEF SentInOrder, SentStep
  <1> QED BY <1>1, <1>2, OrderCorrect, PTL DEF Spec

=============================================================================
