-------------------------------- MODULE Pmc --------------------------------
(***************************************************************************)
(* The command queue of SME and the power state machine PMC that runs on   *)
(* it, with CSR, which holds commands back until the device is in full     *)
(* power, and with HDD, which takes the device to standby and back.        *)
(*                                                                         *)
(* Sources: CORE/SME/src/sme_common/sme_Api.c (the queue),                 *)
(* CORE/SME/src/pmc/pmc.c and pmcApi.c (the state machine),                *)
(* CORE/SME/src/csr/csrApiRoam.c and csrCmdProcess.c (CSR),                *)
(* CORE/HDD/src/wlan_hdd_early_suspend.c (standby).                        *)
(*                                                                         *)
(* A call of SME holds the SME lock: it may change the state, put one      *)
(* command on the queue, run the queue until nothing more can be started,  *)
(* and only then register its callback.  The running of the queue, `run',  *)
(* takes a step per command; the timers of PMC do not take the lock and    *)
(* may fall in between.  PE answers the requests of PMC and completes the  *)
(* other commands.                                                         *)
(***************************************************************************)
EXTENDS Integers, Sequences, FiniteSets, SequencesExt

CONSTANTS
  Setups  \* the situations considered, records of
          \*   pool: command buffers (SME_TOTAL_COMMAND);
          \*   connected: whether the station is connected at first;
          \*   auto: autoBmpsEntryEnabled; secure: whether a connection waits
          \*   for a key; late: whether timeouts expire (of HDD's waits, of
          \*   the wait for a key);
          \*   ops: how often each thing of Op happens

Op == {"scan", "connect", "disconnect", "setKey", "roc", "addTs",  \* commands
       "imps", "bmps", "uapsd", "stopUapsd", "wowl", "exitWowl",   \* PMC calls
       "full",                 \* requests for full power
       "suspend", "resume",    \* of HDD
       "leaves", "refusal",    \* of PE: it leaves BMPS, it answers with failure
       "noMem"}                \* a message that cannot be allocated

ASSUME SetupsAssumption ==
  Setups \subseteq [pool: Nat, connected: BOOLEAN, auto: BOOLEAN,
                    secure: BOOLEAN, late: BOOLEAN, ops: [Op -> Nat]]

CsrType  == {"scan", "connect", "disconnect", "setKey"}
RoamType == {"connect", "disconnect"}
SmeType  == CsrType \cup {"roc", "addTs"}
Enter    == {"enterImps", "enterBmps", "enterUapsd", "enterWowl", "enterStandby"}
Exit     == {"exitImps", "exitBmps", "exitUapsd", "exitWowl"}
PmcType  == Enter \cup Exit

\* pooled: from the free list, as those of SME all are; the others of PMC are
\* freed when they are done.
Command == [type: SmeType, pooled: {TRUE}] \cup [type: PmcType, pooled: BOOLEAN]

Requesting == {"REQUEST_FULL_POWER", "REQUEST_IMPS", "REQUEST_BMPS",
               "REQUEST_STANDBY", "REQUEST_START_UAPSD", "REQUEST_STOP_UAPSD",
               "REQUEST_ENTER_WOWL", "REQUEST_EXIT_WOWL"}
PmcState   == {"FULL_POWER", "IMPS", "BMPS", "UAPSD", "STANDBY", "WOWL"}
              \cup Requesting

VARIABLES
  pmc,    \* [state: pmcState, pending: requestFullPowerPending,
          \*  bmpsQueued: bmpsRequestQueued, byHdd: bmpsRequestedByHdd,
          \*  uapsd: uapsdSessionRequired, wowl: wowlModeRequired,
          \*  imps: impsEnabled, bmps: bmpsEnabled,
          \*  traffic: hTrafficTimer runs, impsTimer: hImpsTimer runs,
          \*  full: who is on requestFullPowerList,
          \*  waiting: whose other callbacks are registered]
  sme,    \* [free: length of smeCmdFreeList, pending: smeCmdPendingList,
          \*  active: smeCmdActiveList, csr: roamCmdPendingList]
  toPe,   \* requests of PMC that PE has not answered
  link,   \* [connected, waitKey: eCSR_ROAM_SUBSTATE_WAIT_FOR_KEY]
  hdd,    \* [pc: where the suspend or resume is, ps: hdd_ps_state is STANDBY,
          \*  standby: g_standby_status, full: g_full_pwr_status]
  run,    \* [on: whether the queue is being run, then: what follows]
  setup,  \* the situation
  left    \* how often each thing of Op may still happen

vars  == <<pmc, sme, toPe, link, hdd, run, setup, left>>
quota == <<setup, left>>

\* What the functions below read and change.
World == [pmc |-> pmc, sme |-> sme, toPe |-> toPe, link |-> link, hdd |-> hdd]

Becomes(w) == /\ pmc' = w.pmc /\ sme' = w.sme /\ toPe' = w.toPe
              /\ link' = w.link /\ hdd' = w.hdd

NoCommand == [type |-> "exitImps", pooled |-> FALSE]
Nothing   == [kind |-> "none", cmd |-> NoCommand, high |-> FALSE]
After(kind) == [Nothing EXCEPT !.kind = kind]

Init ==
  /\ setup \in Setups
  /\ left = setup.ops
  /\ pmc = [state |-> "FULL_POWER", pending |-> FALSE, bmpsQueued |-> FALSE,
            byHdd |-> FALSE, uapsd |-> FALSE, wowl |-> FALSE,
            imps |-> TRUE, bmps |-> TRUE,
            traffic |-> setup.connected /\ setup.auto, impsTimer |-> FALSE,
            full |-> {}, waiting |-> {}]
  /\ sme = [free |-> setup.pool, pending |-> <<>>, active |-> <<>>, csr |-> <<>>]
  /\ toPe = <<>>
  /\ link = [connected |-> setup.connected, waitKey |-> FALSE]
  /\ hdd = [pc |-> "idle", ps |-> FALSE, standby |-> FALSE, full |-> FALSE]
  /\ run = [on |-> FALSE, then |-> Nothing]

Spend(op) == /\ left[op] > 0
             /\ left' = [left EXCEPT ![op] = @ - 1]
             /\ UNCHANGED setup

-----------------------------------------------------------------------------
(* Command buffers and lists.                                              *)

\* pmcPrepareCommand: these do not fail for want of a buffer.
CannotFail == Exit \cup {"enterStandby"}

CanPrepare(w, type) == w.sme.free > 0 \/ type \in CannotFail

NewCommand(w, type) == [type |-> type, pooled |-> w.sme.free > 0]

TakeBuffer(w) == [w EXCEPT !.sme.free = IF @ > 0 THEN @ - 1 ELSE @]

Release(w, c) == [w EXCEPT !.sme.free = IF c.pooled THEN @ + 1 ELSE @]

Push(w, c, high) ==
  [w EXCEPT !.sme.pending = IF high THEN <<c>> \o @ ELSE Append(@, c)]

\* pmcIssueCommand, without the running of the queue
Issue(w, type) == Push(TakeBuffer(w), NewCommand(w, type), FALSE)

IssueIfAny(w, type) == IF CanPrepare(w, type) THEN Issue(w, type) ELSE w

-----------------------------------------------------------------------------
(* PMC: the changes of state.                                              *)

ShouldBmpsTimerRun(w) ==
  /\ w.pmc.bmps
  /\ setup.auto \/ w.pmc.uapsd \/ w.pmc.byHdd \/ w.pmc.wowl
  /\ w.link.connected

StartTrafficTimer(w) ==
  [w EXCEPT !.pmc.traffic = @ \/ ShouldBmpsTimerRun(w)]

\* The callbacks of pmcDoBmpsCallbacks, pmcDoStartUapsdCallbacks and
\* pmcDoEnterWowlCallbacks
Tell(w, who) == [w EXCEPT !.pmc.waiting = @ \ {who}]

\* pmcDoStandbyCallbacks, with hdd_suspend_standby_cbk
DoStandbyCallbacks(w, ok) ==
  IF "standby" \in w.pmc.waiting
  THEN [Tell(w, "standby") EXCEPT !.hdd.standby = ok, !.hdd.ps = @ \/ ok]
  ELSE w

\* csrFullPowerCallback: a command is active, so that none is started here.
CsrFullPowerCallback(w) ==
  [w EXCEPT !.sme.pending = @ \o w.sme.csr, !.sme.csr = <<>>]

\* pmcDoCallbacks, with hdd_suspend_full_pwr_callback
DoCallbacks(w) ==
  LET who == w.pmc.full
      w1  == [w EXCEPT !.pmc.full = {}, !.pmc.waiting = @ \ {"imps"},
                       !.hdd.full = @ \/ "hdd" \in who,
                       !.hdd.ps = @ /\ "hdd" \notin who]
  IN  IF "csr" \in who THEN CsrFullPowerCallback(w1) ELSE w1

\* Fault: only the answer to a request for full power leads there.
EnterFullPowerStateIfAsked(w) ==
  IF w.pmc.state = "REQUEST_FULL_POWER"
  THEN DoCallbacks(StartTrafficTimer(
         [w EXCEPT !.pmc.state = "FULL_POWER", !.pmc.pending = FALSE]))
  ELSE w

\* From the other states this is an error, and nothing changes.
EnterFullPowerState(w) ==
  IF w.pmc.state \in {"REQUEST_FULL_POWER", "REQUEST_IMPS", "REQUEST_BMPS",
                      "REQUEST_STANDBY"}
  THEN DoCallbacks(StartTrafficTimer(
         [w EXCEPT !.pmc.state = "FULL_POWER", !.pmc.pending = FALSE]))
  ELSE w

ExitOf == [s \in {"IMPS", "STANDBY", "BMPS", "UAPSD", "WOWL"} |->
             CASE s \in {"IMPS", "STANDBY"} -> "exitImps"
               [] s = "BMPS"  -> "exitBmps"
               [] s = "UAPSD" -> "exitUapsd"
               [] s = "WOWL"  -> "exitWowl"]

\* A request under way is finished first.
EnterRequestFullPowerState(w) ==
  LET s == w.pmc.state
  IN  IF s \in DOMAIN ExitOf THEN Issue(w, ExitOf[s])
      ELSE IF s \in {"FULL_POWER", "REQUEST_FULL_POWER"} THEN w
      ELSE [w EXCEPT !.pmc.pending = TRUE]

EnterImpsState(w) ==
  LET w1 == [w EXCEPT !.pmc.state = "IMPS"]
  IN  IF w.pmc.pending THEN EnterRequestFullPowerState(w1)
                       ELSE [w1 EXCEPT !.pmc.impsTimer = TRUE]

EnterStandbyState(w) ==
  LET w1 == [w EXCEPT !.pmc.state = "STANDBY"]
  IN  IF w.pmc.pending THEN EnterRequestFullPowerState(w1) ELSE w1

\* Fault: a request for full power that came in between is forgotten.
EnterBmpsStateForgets(w) ==
  LET w1 == [w EXCEPT !.pmc.state = "BMPS"]
  IN  IF w.pmc.state \notin {"REQUEST_BMPS", "REQUEST_START_UAPSD",
           "REQUEST_STOP_UAPSD", "REQUEST_ENTER_WOWL", "REQUEST_EXIT_WOWL"} THEN w
      ELSE IF w.pmc.uapsd THEN IssueIfAny(w1, "enterUapsd")
      ELSE IF w.pmc.wowl THEN IssueIfAny(w1, "enterWowl")
      ELSE w1

\* From the other states this is an error, and nothing changes.
EnterBmpsState(w) ==
  LET w1 == [w EXCEPT !.pmc.state = "BMPS"]
  IN  IF w.pmc.state \notin {"REQUEST_BMPS", "REQUEST_START_UAPSD",
           "REQUEST_STOP_UAPSD", "REQUEST_ENTER_WOWL", "REQUEST_EXIT_WOWL"} THEN w
      ELSE IF w.pmc.pending THEN EnterRequestFullPowerState(w1)
      ELSE IF w.pmc.uapsd THEN IssueIfAny(w1, "enterUapsd")
      ELSE IF w.pmc.wowl THEN IssueIfAny(w1, "enterWowl")
      ELSE w1

EnterUapsdState(w) ==
  LET w1 == [w EXCEPT !.pmc.state = "UAPSD"]
  IN  IF w.pmc.pending THEN EnterRequestFullPowerState(w1) ELSE w1

EnterWowlState(w) ==
  LET w1 == [w EXCEPT !.pmc.state = "WOWL", !.pmc.wowl = FALSE]
  IN  IF w.pmc.pending THEN EnterRequestFullPowerState(w1) ELSE w1

\* Fault: the flag is set before there is a command.
EnterRequestBmpsStateFlagFirst(w) ==
  LET w1 == [w EXCEPT !.pmc.traffic = FALSE, !.pmc.bmpsQueued = TRUE]
  IN  IF w.pmc.bmpsQueued \/ ~CanPrepare(w, "enterBmps")
      THEN StartTrafficTimer(w1)
      ELSE Issue(w1, "enterBmps")

\* In full power.  Without a buffer the call fails.
EnterRequestBmpsState(w) ==
  LET w1 == [w EXCEPT !.pmc.traffic = FALSE]
  IN  IF w.pmc.bmpsQueued \/ ~CanPrepare(w, "enterBmps")
      THEN StartTrafficTimer(w1)
      ELSE Issue([w1 EXCEPT !.pmc.bmpsQueued = TRUE], "enterBmps")

\* csrCheckPSReady and sme_QosPmcCheckRoutine: no command of CSR is waiting
\* or active anywhere, nor one of QoS.
PowerSaveCheck(w) ==
  /\ run.then.kind # "csr"
  /\ \A c \in ToSet(w.sme.pending) \cup ToSet(w.sme.active) \cup ToSet(w.sme.csr) :
       c.type \notin CsrType \cup {"addTs"}

EnterImpsCheck(w) == w.pmc.imps /\ PowerSaveCheck(w) /\ ~w.link.connected
\* Fault: whether BMPS is still enabled is not asked again.
EnterBmpsCheckOnce(w) == PowerSaveCheck(w) /\ w.link.connected

EnterBmpsCheck(w) == w.pmc.bmps /\ PowerSaveCheck(w) /\ w.link.connected

-----------------------------------------------------------------------------
(* PMC: its commands.                                                      *)

\* The states in which a command does something, and the state in which its
\* request is under way.
From == [t \in PmcType |->
  CASE t \in {"enterImps", "enterBmps", "enterStandby"} -> {"FULL_POWER"}
    [] t = "exitImps"                                   -> {"IMPS", "STANDBY"}
    [] t \in {"exitBmps", "enterUapsd"}                 -> {"BMPS"}
    [] t = "exitUapsd"                                  -> {"UAPSD"}
    [] t = "enterWowl"                                  -> {"BMPS", "WOWL"}
    [] t = "exitWowl"                                   -> {"WOWL"}]

To == [t \in PmcType |->
  CASE t = "enterImps"                  -> "REQUEST_IMPS"
    [] t = "enterBmps"                  -> "REQUEST_BMPS"
    [] t = "enterStandby"               -> "REQUEST_STANDBY"
    [] t \in {"exitImps", "exitBmps"}   -> "REQUEST_FULL_POWER"
    [] t = "enterUapsd"                 -> "REQUEST_START_UAPSD"
    [] t = "exitUapsd"                  -> "REQUEST_STOP_UAPSD"
    [] t = "enterWowl"                  -> "REQUEST_ENTER_WOWL"
    [] t = "exitWowl"                   -> "REQUEST_EXIT_WOWL"]

\* PE is sent the same message for standby as for IMPS.
Request(t) == IF t = "enterStandby" THEN "enterImps" ELSE t

Allowed(w, t) == /\ t = "enterImps" => EnterImpsCheck(w)
                 /\ t = "enterBmps" => EnterBmpsCheck(w)

\* The request of a command is sent.
Sent(w, t) ==
  LET w1 == [w EXCEPT !.pmc.state = To[t], !.toPe = Append(@, Request(t))]
  IN  CASE t = "exitBmps"                  -> [w1 EXCEPT !.pmc.pending = FALSE]
        [] t \in {"exitUapsd", "exitWowl"} -> [w1 EXCEPT !.pmc.pending = TRUE]
        [] t = "enterUapsd"                -> [w1 EXCEPT !.pmc.uapsd = TRUE]
        [] t = "enterStandby"              -> [w1 EXCEPT !.pmc.traffic = FALSE]
        [] OTHER                           -> w1

\* The command is not allowed, or its message could not be sent.  A command
\* that leaves a power state stays in it, whatever it calls to leave it.
Failed(w, t) ==
  LET w1 == IF Allowed(w, t) THEN [w EXCEPT !.pmc.state = To[t]] ELSE w
  IN  CASE t = "enterImps" -> StartTrafficTimer(EnterFullPowerState(w1))
        [] t = "enterBmps" ->
             StartTrafficTimer(Tell(EnterFullPowerState(
               [w1 EXCEPT !.pmc.bmpsQueued = FALSE]), "bmps"))
        [] t = "enterStandby" ->
             StartTrafficTimer(DoStandbyCallbacks(EnterFullPowerState(
               [w1 EXCEPT !.pmc.traffic = FALSE]), FALSE))
        [] t = "enterUapsd" -> Tell([w EXCEPT !.pmc.uapsd = FALSE], "uapsd")
        [] t = "enterWowl"  -> Tell(w, "wowl")
        [] t = "exitWowl"   -> EnterBmpsState([w1 EXCEPT !.pmc.pending = FALSE])
        [] t \in {"exitBmps", "exitUapsd"} -> [w EXCEPT !.pmc.pending = FALSE]
        [] t = "exitImps"   -> w

\* pmcProcessCommand: the world after it, and whether the command is done.  The vote
\* for XO on the way into BMPS always succeeds on the integrated SoC.
ProcessCommand(w, t, sent) ==
  LET w1 == IF t = "exitImps" THEN [w EXCEPT !.pmc.pending = FALSE] ELSE w
  IN  IF w.pmc.state \notin From[t] THEN [w |-> w1, done |-> TRUE]
      ELSE IF Allowed(w1, t) /\ sent THEN [w |-> Sent(w1, t), done |-> FALSE]
      ELSE [w |-> Failed(w1, t), done |-> TRUE]

\* pmcProcessResponse for the active command of type t: what the answer does
\* when it comes in the state it belongs to.
Answered(w, t, ok) ==
  CASE t = "enterImps" -> IF ok THEN EnterImpsState(w) ELSE EnterFullPowerState(w)
    [] t = "enterStandby" ->
         IF ok THEN DoStandbyCallbacks(EnterStandbyState(w), TRUE)
               ELSE DoStandbyCallbacks(EnterFullPowerState(w), FALSE)
    [] t = "enterBmps" ->
         Tell(IF ok THEN EnterBmpsState(w) ELSE EnterFullPowerState(w), "bmps")
    [] t = "enterUapsd" ->
         Tell(IF ok THEN EnterUapsdState(w)
                    ELSE EnterBmpsState([w EXCEPT !.pmc.uapsd = FALSE]), "uapsd")
    [] t = "enterWowl" ->
         Tell(IF ok THEN EnterWowlState(w) ELSE EnterBmpsState(w), "wowl")
    [] t \in {"exitImps", "exitBmps"}   -> EnterFullPowerState(w)
    [] t \in {"exitUapsd", "exitWowl"}  -> EnterBmpsState(w)

-----------------------------------------------------------------------------
(* Calls of SME.                                                           *)

\* The queue is not being run by a call, which would hold the lock.
Locked == run.on

\* What a call does once the queue has been run: it registers its callback.
Finish(w, then) ==
  CASE then.kind = "csr" ->
         [w EXCEPT !.pmc.full = @ \cup {"csr"},
                   !.sme.csr = IF then.high THEN <<then.cmd>> \o @
                                            ELSE Append(@, then.cmd)]
    [] then.kind \in {"hdd", "user"} -> [w EXCEPT !.pmc.full = @ \cup {then.kind}]
    [] then.kind = "bmps" -> [w EXCEPT !.pmc.byHdd = TRUE,
                                       !.pmc.waiting = @ \cup {"bmps"}]
    [] then.kind = "wowl" -> [w EXCEPT !.pmc.wowl = TRUE]
    [] then.kind \in {"imps", "uapsd", "standby"} ->
         [w EXCEPT !.pmc.waiting = @ \cup {then.kind}]
    [] OTHER -> w

\* A call leaves the world as w: if it has put a command on the queue, the
\* queue is run before the call finishes.
Call(w, then) ==
  IF w.sme.pending # sme.pending
  THEN Becomes(w) /\ run' = [on |-> TRUE, then |-> then]
  ELSE Becomes(Finish(w, then)) /\ UNCHANGED run

\* Fault: the queue is left to the next call.
ReleasedUnserved(w) == Becomes(w) /\ UNCHANGED run

\* A command has been released by an answer: the queue is run.
Released(w) == Becomes(w) /\ run' = [on |-> TRUE, then |-> Nothing]

\* pmcRequestFullPower when the device is not in full power.  For HDD, what it
\* asked for earlier is forgotten.
Forget(w) == [w EXCEPT !.pmc.byHdd = FALSE, !.pmc.wowl = FALSE]
RequestFullPower(w) ==
  EnterRequestFullPowerState(
    [w EXCEPT !.pmc.impsTimer = @ /\ w.pmc.state # "IMPS"])

\* csrIsFullPowerNeeded
CsrDropped(w, t) == t \in CsrType /\ w.pmc.state \in {"REQUEST_STANDBY", "STANDBY"}
CsrNeedsPower(w, t) ==
  /\ t \in CsrType
  /\ \/ w.pmc.state \in {"REQUEST_IMPS", "IMPS"}
     \/ /\ w.pmc.state \notin {"FULL_POWER", "REQUEST_FULL_POWER"}
        /\ t \in RoamType

\* csrQueueSmeCommand
CsrQueue(w, c, high) ==
  LET w1 == IF c.type = "disconnect" /\ w.pmc.state \notin {"REQUEST_IMPS", "IMPS"}
            THEN Forget(w) ELSE w
      held == [kind |-> "csr", cmd |-> c, high |-> high]
  IN  IF CsrDropped(w, c.type) THEN Call(Release(w, c), Nothing)
      ELSE IF CsrNeedsPower(w, c.type) THEN Call(RequestFullPower(w1), held)
      ELSE IF w.sme.csr = <<>> THEN Call(Push(w, c, high), Nothing)
      ELSE Call([w EXCEPT !.sme.csr = IF high THEN <<c>> \o @ ELSE Append(@, c)],
                Nothing)

\* csrRoamIssueDisassociateCmd no longer waits for a key; a key comes first.
CsrRequest(t) ==
  /\ ~Locked /\ Spend(t)
  /\ t = "connect" => ~link.connected
  /\ t = "setKey" => link.waitKey
  /\ IF sme.free = 0 THEN UNCHANGED <<pmc, sme, toPe, link, hdd, run>>
     ELSE LET w == IF t = "disconnect" THEN [World EXCEPT !.link.waitKey = FALSE]
                                       ELSE World
          IN  CsrQueue(TakeBuffer(w), NewCommand(w, t), t = "setKey")

\* p2pRemainOnChannel and qosIssueCommand
SmeRequest(t) ==
  /\ ~Locked /\ Spend(t)
  /\ t = "addTs" => link.connected
  /\ IF sme.free = 0 THEN UNCHANGED <<pmc, sme, toPe, link, hdd, run>>
     ELSE LET w == TakeBuffer(World)
              c == NewCommand(World, t)
          IN  IF t = "roc" THEN CsrQueue(w, c, FALSE)
                           ELSE Call(Push(w, c, FALSE), Nothing)

-----------------------------------------------------------------------------
(* Calls of PMC.                                                           *)

\* pmcRequestImps.  A call that cannot get a buffer fails.
RequestImps ==
  /\ ~Locked /\ Spend("imps")
  /\ pmc.state = "FULL_POWER" /\ EnterImpsCheck(World)
  /\ LET w == [World EXCEPT !.pmc.traffic = FALSE]
     IN  IF CanPrepare(w, "enterImps")
         THEN Call(Issue(w, "enterImps"), After("imps"))
         ELSE Call(StartTrafficTimer(w), Nothing)

RequestBmps ==
  /\ ~Locked /\ Spend("bmps")
  /\ IF pmc.state \in {"BMPS", "REQUEST_START_UAPSD", "UAPSD"}
     THEN Call([World EXCEPT !.pmc.byHdd = TRUE], Nothing)
     ELSE /\ pmc.state = "FULL_POWER" /\ EnterBmpsCheck(World)
          /\ Call(EnterRequestBmpsState(World),
                  IF pmc.bmpsQueued \/ CanPrepare(World, "enterBmps")
                  THEN After("bmps") ELSE Nothing)

\* pmcStartUapsd, with pmcEnterRequestStartUapsdState; BTC is ready for it
StartUapsd ==
  /\ ~Locked /\ Spend("uapsd")
  /\ pmc.bmps /\ link.connected
  /\ LET w == [World EXCEPT !.pmc.uapsd = TRUE]
     IN  \/ /\ pmc.state = "FULL_POWER" /\ ~PowerSaveCheck(w)
            /\ Call(StartTrafficTimer(w), After("uapsd"))
         \/ /\ pmc.state = "FULL_POWER" /\ PowerSaveCheck(w)
            /\ Call(EnterRequestBmpsState(w),
                    IF pmc.bmpsQueued \/ CanPrepare(w, "enterBmps")
                    THEN After("uapsd") ELSE Nothing)
         \/ /\ pmc.state = "BMPS" /\ CanPrepare(w, "enterUapsd")
            /\ Call(Issue(World, "enterUapsd"), After("uapsd"))
         \/ /\ pmc.state = "REQUEST_BMPS"
            /\ Call(w, After("uapsd"))
         \/ /\ pmc.state = "REQUEST_START_UAPSD"
            /\ Call(World, After("uapsd"))

StopUapsd ==
  /\ ~Locked /\ Spend("stopUapsd")
  /\ LET w == [World EXCEPT !.pmc.uapsd = FALSE]
     IN  Call(IF pmc.state = "UAPSD" THEN Issue(w, "exitUapsd") ELSE w, Nothing)

\* pmcEnterWowl, with pmcRequestEnterWowlState; its callback is registered
\* first.  A second one while it is being entered fails, and replaces it.
EnterWowl ==
  /\ ~Locked /\ Spend("wowl")
  /\ pmc.bmps /\ link.connected /\ ~pmc.uapsd
  /\ pmc.state = "FULL_POWER" => PowerSaveCheck(World)
  /\ LET w == [World EXCEPT !.pmc.waiting = @ \cup {"wowl"}]
     IN  CASE pmc.state = "FULL_POWER" ->
                Call(EnterRequestBmpsState(w),
                     IF pmc.bmpsQueued \/ CanPrepare(w, "enterBmps")
                     THEN After("wowl") ELSE Nothing)
           [] pmc.state \in {"BMPS", "WOWL"} ->
                IF CanPrepare(w, "enterWowl")
                THEN Call(Issue(w, "enterWowl"), After("wowl"))
                ELSE Call(w, Nothing)
           [] pmc.state \in {"REQUEST_BMPS", "REQUEST_EXIT_WOWL"} ->
                Call(w, After("wowl"))
           [] OTHER -> Call(w, Nothing)

\* pmcExitWowl, with pmcRequestExitWowlState
ExitWowl ==
  /\ ~Locked /\ Spend("exitWowl")
  /\ LET w  == [World EXCEPT !.pmc.wowl = FALSE]
         w1 == [w EXCEPT !.pmc.waiting = @ \ {"wowl"}]
     IN  CASE pmc.state = "REQUEST_ENTER_WOWL" -> Call(w, Nothing)
           [] pmc.state = "WOWL" -> Call(Issue(w1, "exitWowl"), Nothing)
           [] OTHER              -> Call(w1, Nothing)

\* sme_RequestFullPower of HDD, outside a suspend
RequestFull ==
  /\ ~Locked /\ Spend("full")
  /\ IF pmc.state = "FULL_POWER" THEN Call(Forget(World), Nothing)
     ELSE Call(RequestFullPower(Forget(World)), After("user"))

\* pmcTrafficTimerExpired and pmcImpsTimerExpired, without the lock
TrafficTimerExpires ==
  /\ pmc.traffic
  /\ LET w == [World EXCEPT !.pmc.traffic = FALSE]
     IN  IF pmc.state # "FULL_POWER" \/ ~ShouldBmpsTimerRun(w) THEN Becomes(w) /\ UNCHANGED run
         ELSE IF ~PowerSaveCheck(w) THEN Becomes(World) /\ UNCHANGED run
         ELSE LET w1 == EnterRequestBmpsState(w)
              IN  /\ Becomes(w1)
                  /\ run' = [run EXCEPT !.on = @ \/ w1.sme.pending # sme.pending]
  /\ UNCHANGED quota

ImpsTimerExpires ==
  /\ pmc.impsTimer
  /\ LET w  == [World EXCEPT !.pmc.impsTimer = FALSE]
         w1 == IF pmc.state = "IMPS" THEN EnterRequestFullPowerState(w) ELSE w
     IN  /\ Becomes(w1)
         /\ run' = [run EXCEPT !.on = @ \/ w1.sme.pending # sme.pending]
  /\ UNCHANGED quota

-----------------------------------------------------------------------------
(* The queue: smeProcessPendingQueue.                                      *)

\* Fault: only commands of CSR and of P2P are looked at.
FullPowerNeededNotForQos(w, t) ==
  \/ CsrNeedsPower(w, t)
  \/ t = "roc" /\ w.pmc.state = "IMPS"

\* smeIsFullPowerNeeded
FullPowerNeeded(w, t) ==
  \/ CsrNeedsPower(w, t)
  \/ t = "addTs"
  \/ t = "roc" /\ w.pmc.state = "IMPS"

WokenFor(w, t) == /\ ~CsrDropped(w, t) /\ FullPowerNeeded(w, t)
                  /\ w.pmc.state \in DOMAIN ExitOf

\* A message of PMC is sent, or cannot be allocated.
Sending(sent) == IF sent THEN UNCHANGED left
                 ELSE /\ left["noMem"] > 0
                      /\ left' = [left EXCEPT !["noMem"] = @ - 1]

\* Fault: a command that has nothing to do is removed and not given back.
StartLeaks(w, c, sent) ==
  LET r == ProcessCommand([w EXCEPT !.sme.active = <<c>>], c.type, sent)
  IN  IF r.done THEN [r.w EXCEPT !.sme.active = <<>>] ELSE r.w

\* The command c of PMC becomes active and is processed.
Start(w, c, sent) ==
  LET r == ProcessCommand([w EXCEPT !.sme.active = <<c>>], c.type, sent)
  IN  IF r.done THEN Release([r.w EXCEPT !.sme.active = <<>>], c) ELSE r.w

\* A command can be started: none is active, and the connection waits for no
\* key, or this is the key.
Startable == /\ sme.active = <<>> /\ sme.pending # <<>>
             /\ link.waitKey => Head(sme.pending).type = "setKey"

Running(w) == Becomes(w) /\ UNCHANGED run

\* The call goes on behind the running of the queue.
Ended(w) == Becomes(Finish(w, run.then)) /\ run' = [on |-> FALSE, then |-> Nothing]

Popped == [World EXCEPT !.sme.pending = Tail(@)]

\* A command of CSR that may not run now is dropped.
DropCommand ==
  LET c == Head(sme.pending)
  IN  /\ CsrDropped(World, c.type)
      /\ Running(Release(Popped, c)) /\ UNCHANGED left

\* The device is woken up first; the command stays where it is.
WakeFor(sent) ==
  LET c == Head(sme.pending)
      x == ExitOf[pmc.state]
  IN  /\ WokenFor(World, c.type)
      /\ Running(Start(TakeBuffer(World), NewCommand(World, x), sent))
      /\ Sending(sent)

\* A command of CSR, of QoS or of P2P is given to PE.
Activate ==
  LET c == Head(sme.pending)
  IN  /\ c.type \in SmeType /\ ~CsrDropped(World, c.type) /\ ~WokenFor(World, c.type)
      /\ Running([Popped EXCEPT !.sme.active = <<c>>]) /\ UNCHANGED left

StartPmc(sent) ==
  LET c == Head(sme.pending)
  IN  /\ c.type \in PmcType
      /\ c.type = "enterStandby" => ~link.connected
      /\ Running(Start(Popped, c, sent))
      /\ Sending(sent)

\* Standby while connected: a disconnect is put before it.  Without a buffer
\* for it the command is processed after it has left the active list, and if
\* its request is sent the running of the queue ends.
StartStandby(sent) ==
  LET c == Head(sme.pending)
      d == NewCommand(World, "disconnect")
      r == ProcessCommand(Popped, c.type, sent)
  IN  /\ c.type = "enterStandby" /\ link.connected
      /\ IF sme.free > 0
         THEN sent /\ Running([TakeBuffer(World) EXCEPT !.sme.pending = <<d>> \o @])
         ELSE IF r.done THEN Running(r.w) ELSE Ended(r.w)
      /\ Sending(sent)

ProcessQueue ==
  /\ run.on /\ Startable
  /\ \/ DropCommand
     \/ Activate
     \/ \E sent \in BOOLEAN : WakeFor(sent) \/ StartPmc(sent) \/ StartStandby(sent)
  /\ UNCHANGED setup

EndQueue == /\ run.on /\ ~Startable
            /\ Ended(World)
            /\ UNCHANGED quota

-----------------------------------------------------------------------------
(* Answers.                                                                *)

\* pmcMessageProcessor, for an answer of PE.  It belongs to the active
\* command; without one, or with another one, it is not taken notice of.
PeAnswers(ok) ==
  /\ ~Locked /\ toPe # <<>>
  /\ IF ok THEN UNCHANGED left
     ELSE /\ Head(toPe) \in Enter /\ left["refusal"] > 0
          /\ left' = [left EXCEPT !["refusal"] = @ - 1]
  /\ UNCHANGED setup
  /\ LET w == [World EXCEPT !.toPe = Tail(@)]
         c == Head(sme.active)
     IN  IF sme.active = <<>> \/ c.type \notin PmcType \/ Request(c.type) # Head(toPe)
         THEN Becomes(w) /\ UNCHANGED run
         ELSE LET w1 == IF c.type = "enterBmps"
                        THEN [w EXCEPT !.pmc.bmpsQueued = FALSE] ELSE w
                  w2 == IF pmc.state = To[c.type] THEN Answered(w1, c.type, ok) ELSE w1
              IN  Released(Release([w2 EXCEPT !.sme.active = <<>>], c))

\* eWNI_PMC_EXIT_BMPS_IND: PE has left BMPS on its own.
PeLeavesBmps ==
  /\ ~Locked /\ Spend("leaves")
  /\ pmc.state \in {"BMPS", "UAPSD", "WOWL", "REQUEST_START_UAPSD",
       "REQUEST_STOP_UAPSD", "REQUEST_ENTER_WOWL", "REQUEST_EXIT_WOWL",
       "REQUEST_FULL_POWER"}
  /\ Call(EnterRequestFullPowerState(World), Nothing)

\* A command that is not PMC's is done, and what it does to the connection.
Complete(ok) ==
  /\ ~Locked /\ sme.active # <<>> /\ Head(sme.active).type \in SmeType
  /\ LET c == Head(sme.active)
         w == Release([World EXCEPT !.sme.active = <<>>], c)
     IN  CASE c.type = "connect" ->
                Released(IF ok THEN StartTrafficTimer([w EXCEPT
                                      !.link = [connected |-> TRUE, waitKey |-> setup.secure]])
                               ELSE w)
           [] c.type = "disconnect" ->
                ok /\ Released([w EXCEPT !.link = [connected |-> FALSE, waitKey |-> FALSE]])
           [] c.type = "setKey" -> ok /\ Released([w EXCEPT !.link.waitKey = FALSE])
           [] OTHER -> ok /\ Released(w)
  /\ UNCHANGED quota

\* csrRoamWaitForKeyTimeOutHandler: nobody runs the queue.
KeyTimeout ==
  /\ setup.late /\ link.waitKey
  /\ link' = [link EXCEPT !.waitKey = FALSE]
  /\ UNCHANGED <<pmc, sme, toPe, hdd, run, quota>>

-----------------------------------------------------------------------------
(* HDD: hdd_enter_standby and hdd_exit_standby.                            *)

\* Both power saves are disabled first, and enabled again at the end.
Enabled(w, b) == [w EXCEPT !.pmc.imps = b, !.pmc.bmps = b]

Suspend ==
  /\ ~Locked /\ hdd.pc = "idle" /\ ~hdd.ps /\ Spend("suspend")
  /\ Call([Enabled(World, FALSE) EXCEPT !.hdd.pc = "off"], Nothing)

AskFullPower ==
  /\ ~Locked /\ hdd.pc = "off"
  /\ LET w == [Forget(World) EXCEPT !.hdd.full = FALSE]
     IN  IF pmc.state = "FULL_POWER"
         THEN Call([w EXCEPT !.hdd.pc = "ask"], Nothing)
         ELSE Call([RequestFullPower(w) EXCEPT !.hdd.pc = "full"], After("hdd"))
  /\ UNCHANGED quota

\* The suspend is over, well or not.
EndSuspend(w) == Call([Enabled(w, TRUE) EXCEPT !.hdd.pc = "idle"], Nothing)

Waited(kind) == ~Locked /\ hdd.pc = kind
FullPowerGiven ==
  /\ Waited("full") /\ UNCHANGED quota
  /\ IF hdd.full THEN Call([World EXCEPT !.hdd.pc = "ask"], Nothing)
                 ELSE setup.late /\ EndSuspend(World)

\* pmcRequestStandby, with pmcEnterRequestStandbyState
AskStandby ==
  /\ ~Locked /\ hdd.pc = "ask" /\ UNCHANGED quota
  /\ LET w == [World EXCEPT !.hdd.standby = FALSE]
     IN  CASE pmc.state = "FULL_POWER" ->
                Call([Issue([w EXCEPT !.pmc.traffic = FALSE], "enterStandby")
                        EXCEPT !.hdd.pc = "standby"], After("standby"))
           [] pmc.state = "STANDBY" -> EndSuspend([w EXCEPT !.hdd.ps = TRUE])
           [] OTHER                 -> EndSuspend(w)

StandbyGiven ==
  /\ Waited("standby") /\ UNCHANGED quota
  /\ "standby" \notin pmc.waiting \/ setup.late
  /\ EndSuspend(World)

Resume ==
  /\ ~Locked /\ hdd.pc = "idle" /\ hdd.ps /\ Spend("resume")
  /\ LET w == [Forget(World) EXCEPT !.hdd.full = FALSE]
     IN  IF pmc.state = "FULL_POWER" THEN Call([w EXCEPT !.hdd.ps = FALSE], Nothing)
         ELSE Call([RequestFullPower(w) EXCEPT !.hdd.pc = "resume"], After("hdd"))

Resumed ==
  /\ Waited("resume") /\ UNCHANGED quota
  /\ hdd.full \/ setup.late
  /\ Call([World EXCEPT !.hdd.pc = "idle"], Nothing)

-----------------------------------------------------------------------------
Requests == \/ \E t \in CsrType : CsrRequest(t)
            \/ \E t \in {"roc", "addTs"} : SmeRequest(t)
            \/ RequestImps \/ RequestBmps \/ StartUapsd \/ StopUapsd
            \/ EnterWowl \/ ExitWowl \/ RequestFull
Timers   == TrafficTimerExpires \/ ImpsTimerExpires \/ KeyTimeout
Queue    == ProcessQueue \/ EndQueue
Hdd      == \/ Suspend \/ AskFullPower \/ FullPowerGiven
            \/ AskStandby \/ StandbyGiven \/ Resume \/ Resumed

Next == \/ Requests \/ Timers \/ Queue \/ Hdd \/ PeLeavesBmps
        \/ \E ok \in BOOLEAN : PeAnswers(ok) \/ Complete(ok)

Spec == Init /\ [][Next]_vars

\* The thread that holds the lock runs on; PE answers what it is sent.
FairSpec == /\ Spec
            /\ WF_vars(Queue)
            /\ WF_vars(\E ok \in BOOLEAN : PeAnswers(ok))
            /\ WF_vars(\E ok \in BOOLEAN : Complete(ok))

-----------------------------------------------------------------------------
(* Properties.                                                             *)

PmcRecord  == [state: PmcState, pending: BOOLEAN, bmpsQueued: BOOLEAN,
               byHdd: BOOLEAN, uapsd: BOOLEAN, wowl: BOOLEAN, imps: BOOLEAN,
               bmps: BOOLEAN, traffic: BOOLEAN, impsTimer: BOOLEAN,
               full: SUBSET {"csr", "hdd", "user"},
               waiting: SUBSET {"imps", "bmps", "uapsd", "wowl", "standby"}]
SmeRecord  == [free: Nat, pending: Seq(Command), active: Seq(Command),
               csr: Seq(Command)]
LinkRecord == [connected: BOOLEAN, waitKey: BOOLEAN]
HddRecord  == [pc: {"idle", "off", "full", "ask", "standby", "resume"},
               ps: BOOLEAN, standby: BOOLEAN, full: BOOLEAN]

TypeOK ==
  /\ pmc \in PmcRecord /\ sme \in SmeRecord /\ toPe \in Seq(PmcType)
  /\ link \in LinkRecord /\ hdd \in HddRecord
  /\ run.on \in BOOLEAN
  /\ run.then.cmd \in Command
  /\ left \in [Op -> Nat]

\* A power state is being asked for exactly while the command that asks for
\* it is active and its request unanswered: PMC never waits for an answer that
\* is not coming, and no two requests are under way.
RequestMatched ==
  IF pmc.state \in Requesting
  THEN /\ Len(sme.active) = 1 /\ Len(toPe) = 1
       /\ LET c == Head(sme.active)
          IN  c.type \in PmcType /\ To[c.type] = pmc.state /\ Request(c.type) = Head(toPe)
  ELSE /\ toPe = <<>>
       /\ \A i \in 1 .. Len(sme.active) : sme.active[i].type \in SmeType

Pooled(q) == Cardinality({i \in DOMAIN q : q[i].pooled})

\* Every command buffer is on the free list, in a queue, active, or held by a
\* call that is going to put it on the list of CSR.
BuffersKept ==
  sme.free + Pooled(sme.pending) + Pooled(sme.active) + Pooled(sme.csr)
    + (IF run.then.kind = "csr" /\ run.then.cmd.pooled THEN 1 ELSE 0) = setup.pool

\* A command runs in the power it needs, to its end, whatever timers expired
\* and whoever asked for a power save meanwhile.  (Nobody wakes the device from
\* standby for a P2P frame.)
RunsInFullPower ==
  \A c \in ToSet(sme.active) :
    /\ c.type \in RoamType \cup {"addTs"} => pmc.state = "FULL_POWER"
    /\ c.type \in CsrType => pmc.state \notin {"IMPS", "STANDBY"}
    /\ c.type = "roc" => pmc.state # "IMPS"

\* With both power saves disabled the device stays in the full power it has
\* been brought to until HDD asks for standby, whatever else was queued.  (A
\* standby that HDD has given up waiting for may take it away.)
FoundInFullPower ==
  hdd.pc = "ask" /\ ~setup.late => pmc.state = "FULL_POWER"

\* What holds of the commands and of the power state in every state.
PmcInv == TypeOK /\ BuffersKept /\ RunsInFullPower /\ FoundInFullPower

\* The queue does not stand still with a command that could be started: what
\* unblocks it also runs it.  (The timeout of the wait for a key does not.)
QueueServed == ~(setup.secure /\ setup.late) /\ ~run.on => ~Startable

\* bmpsRequestQueued says that a request for BMPS is queued or under way.  When
\* it is left behind no BMPS is ever requested again.  (It is, when the request
\* is processed in a standby that HDD has given up waiting for.)
BmpsFlag ==
  pmc.bmpsQueued /\ ~setup.late =>
    \E c \in ToSet(sme.pending) \cup ToSet(sme.active) : c.type = "enterBmps"

\* Whoever is told that full power is pending is called back ("callbackRoutine
\* will be called when completed").
FullPowerComes ==
  \A who \in {"csr", "hdd", "user"} : who \in pmc.full ~> who \notin pmc.full

\* As long as the device only goes into IMPS, BMPS and standby, and messages
\* can be allocated, it is so, for CSR with all the commands it holds back.
Simple == \A op \in {"uapsd", "wowl", "noMem"} : setup.ops[op] = 0
FullPowerComesIfSimple ==
  \A who \in {"csr", "hdd", "user"} :
    who \in pmc.full /\ Simple ~> who \notin pmc.full

=============================================================================
