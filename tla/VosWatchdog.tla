---------------------------- MODULE VosWatchdog ----------------------------
(***************************************************************************)
(* Subsystem restart: the watchdog thread shuts the WLAN driver down when  *)
(* the remote processor crashes and re-initialises it when the remote      *)
(* processor is up again, while the module may be loading or unloading.    *)
(*                                                                         *)
(* Source: CORE/VOSS/src/vos_sched.c (VosWDThread, vos_watchdog_...),      *)
(* CORE/HDD/src/wlan_hdd_early_suspend.c (hdd_wlan_shutdown,               *)
(* hdd_wlan_re_init), CORE/HDD/src/wlan_hdd_main.c (start-up flags,        *)
(* hdd_module_exit, hdd_wlan_exit), CORE/WDI/TRP/CTS (the notification of  *)
(* the control channel's events).                                          *)
(*                                                                         *)
(* The notifications run in interrupt context, one at a time; they, the    *)
(* watchdog thread and the module's exit interleave at every access to the *)
(* flags.  wdLock makes the test and the setting of isLogpInProgress one.  *)
(***************************************************************************)
EXTENDS Naturals

CONSTANTS
  MaxCrash,  \* bound: how often the remote processor crashes
  WdOps      \* what may happen: some of "unload", "fail"

ASSUME MaxCrashAssumption == MaxCrash \in Nat

ASSUME WdOpsAssumption == WdOps \subseteq {"unload", "fail"}

VARIABLES
  wdEventFlag,            \* the bits of wdEventFlag
  wd,                     \* where VosWDThread is
  WdShutdown,             \* whether the completion WdShutdown was signalled
  resetInProgress,
  isLogpInProgress,
  isLoadUnloadInProgress,
  wlan,                   \* the driver's modules: "up", "down" or "closed"
  wctsState,              \* the control transport's state
  remote, crashes,        \* the remote processor, and its crashes so far
  notify,                 \* where the channel's notification callback is
  module,                 \* where the loading or unloading of the module is
  ignored                 \* history: a crash was reported and not acted upon

hddVars == <<isLogpInProgress, isLoadUnloadInProgress, wlan>>
envVars == <<remote, crashes, notify>>
wdVars == <<wdEventFlag, wd, WdShutdown, resetInProgress, isLogpInProgress,
          isLoadUnloadInProgress, wlan, wctsState, remote, crashes, notify,
          module, ignored>>

\* hdd_wlan_startup has started the modules and is about to finish.
WdInit ==
  /\ wdEventFlag = {}
  /\ wd = "wait"
  /\ WdShutdown = FALSE
  /\ resetInProgress = FALSE
  /\ isLogpInProgress = FALSE
  /\ isLoadUnloadInProgress = TRUE
  /\ wlan = "up"
  /\ wctsState = "OPEN"
  /\ remote = "up"
  /\ crashes = 0
  /\ notify = "idle"
  /\ module = "loading"
  /\ ignored = FALSE

SetWdBit(bit)   == wdEventFlag' = wdEventFlag \cup {bit}
ClearWdBit(bit) == wdEventFlag' = wdEventFlag \ {bit}

-----------------------------------------------------------------------------
(***************************************************************************)
(* WCTS_NotifyCallback: the control channel closes when the remote         *)
(* processor crashes and opens when it is up again.                        *)
(***************************************************************************)

\* The transport is open to events until the module is gone.
Listening == notify = "idle" /\ module # "unloaded"

\* SMD_EVENT_CLOSE: the driver is to be shut down.
RemoteCrash ==
  /\ Listening
  /\ remote = "up"
  /\ crashes < MaxCrash
  /\ remote' = "down"
  /\ crashes' = crashes + 1
  /\ wctsState' = "REM_CLOSED"
  /\ notify' = "report"
  /\ UNCHANGED <<wdEventFlag, wd, WdShutdown, resetInProgress, hddVars, module,
                 ignored>>

\* Fault: isLogpInProgress is not set.
ReportCrashUnblocked ==
  /\ notify = "report"
  /\ IF resetInProgress \/ isLogpInProgress
     THEN notify' = "idle" /\ ignored' = TRUE
     ELSE notify' = "reported" /\ UNCHANGED ignored
  /\ UNCHANGED <<wdEventFlag, wd, WdShutdown, resetInProgress, hddVars,
                 wctsState, remote, crashes, module>>

\* vos_watchdog_wlan_shutdown, under wdLock.
ReportCrash ==
  /\ notify = "report"
  /\ IF resetInProgress \/ isLogpInProgress
     THEN notify' = "idle" /\ ignored' = TRUE /\ UNCHANGED isLogpInProgress
     ELSE notify' = "reported" /\ isLogpInProgress' = TRUE /\ UNCHANGED ignored
  /\ UNCHANGED <<wdEventFlag, wd, WdShutdown, resetInProgress,
                 isLoadUnloadInProgress, wlan, wctsState, remote, crashes,
                 module>>

\* Its test of isLoadUnloadInProgress, without the lock; isLogpInProgress
\* stays set when it gives up.
ReportCheckUnload ==
  /\ notify = "reported"
  /\ IF isLoadUnloadInProgress
     THEN notify' = "idle" /\ ignored' = TRUE
     ELSE notify' = "askShutdown" /\ UNCHANGED ignored
  /\ UNCHANGED <<wdEventFlag, wd, WdShutdown, resetInProgress, hddVars,
                 wctsState, remote, crashes, module>>

\* SMD_EVENT_OPEN: a re-initialisation is asked for if the channel had been
\* closed by the remote side.
RemoteBoot ==
  /\ Listening
  /\ remote = "down"
  /\ remote' = "up"
  /\ notify' = IF wctsState = "REM_CLOSED" THEN "askReInit" ELSE "idle"
  /\ UNCHANGED <<wdEventFlag, wd, WdShutdown, resetInProgress, hddVars,
                 wctsState, crashes, module, ignored>>

\* The event's bit is set, then the POST bit.
NotifyAsk ==
  /\ notify \in {"askShutdown", "askReInit"}
  /\ SetWdBit(IF notify = "askShutdown" THEN "WLAN_SHUTDOWN"
                                       ELSE "WLAN_REINIT")
  /\ notify' = "post"
  /\ UNCHANGED <<wd, WdShutdown, resetInProgress, hddVars, wctsState, remote,
                 crashes, module, ignored>>

NotifyPost ==
  /\ notify = "post"
  /\ SetWdBit("POST")
  /\ notify' = "idle"
  /\ UNCHANGED <<wd, WdShutdown, resetInProgress, hddVars, wctsState, remote,
                 crashes, module, ignored>>

NotifyStep == ReportCrash \/ ReportCheckUnload \/ NotifyAsk \/ NotifyPost

-----------------------------------------------------------------------------
(***************************************************************************)
(* VosWDThread.                                                            *)
(***************************************************************************)
WdWake ==
  /\ wd = "wait"
  /\ "POST" \in wdEventFlag
  /\ ClearWdBit("POST")
  /\ wd' = "top"
  /\ UNCHANGED <<WdShutdown, resetInProgress, hddVars, wctsState, envVars,
                 module, ignored>>

WdExit ==
  /\ wd = "top"
  /\ "SHUTDOWN" \in wdEventFlag
  /\ ClearWdBit("SHUTDOWN")
  /\ wd' = "exited"
  /\ WdShutdown' = TRUE
  /\ UNCHANGED <<resetInProgress, hddVars, wctsState, envVars, module, ignored>>

\* Fault: a driver that is shut down is shut down again.
WdStartShutdownUnguarded ==
  /\ wd = "top"
  /\ "SHUTDOWN" \notin wdEventFlag
  /\ "WLAN_SHUTDOWN" \in wdEventFlag
  /\ ClearWdBit("WLAN_SHUTDOWN")
  /\ resetInProgress' = TRUE
  /\ wd' = "shutdown"
  /\ UNCHANGED <<WdShutdown, hddVars, wctsState, envVars, module, ignored>>

WdStartShutdown ==
  /\ wd = "top"
  /\ "SHUTDOWN" \notin wdEventFlag
  /\ "WLAN_SHUTDOWN" \in wdEventFlag
  /\ ClearWdBit("WLAN_SHUTDOWN")
  /\ resetInProgress' = TRUE
  /\ wd' = IF resetInProgress THEN "wait" ELSE "shutdown"
  /\ UNCHANGED <<WdShutdown, hddVars, wctsState, envVars, module, ignored>>

\* Fault: the POST bit is cleared after the shutdown, too.
WdFinishShutdownClearsPost ==
  /\ wd = "shutdown"
  /\ ClearWdBit("POST")
  /\ wlan' = IF wlan = "up" THEN "down" ELSE wlan
  /\ wd' = "wait"
  /\ UNCHANGED <<WdShutdown, resetInProgress, isLogpInProgress,
                 isLoadUnloadInProgress, wctsState, envVars, module, ignored>>

\* hdd_wlan_shutdown has run.
WdFinishShutdown ==
  /\ wd = "shutdown"
  /\ wlan' = IF wlan = "up" THEN "down" ELSE wlan
  /\ wd' = "wait"
  /\ UNCHANGED <<wdEventFlag, WdShutdown, resetInProgress, isLogpInProgress,
                 isLoadUnloadInProgress, wctsState, envVars, module, ignored>>

\* Fault: a pending re-initialisation comes before a pending shutdown.
WdStartReInitFirst ==
  /\ wd = "top"
  /\ "SHUTDOWN" \notin wdEventFlag
  /\ "WLAN_REINIT" \in wdEventFlag
  /\ ClearWdBit("WLAN_REINIT")
  /\ wd' = "reInit"
  /\ UNCHANGED <<WdShutdown, resetInProgress, hddVars, wctsState, envVars,
                 module, ignored>>

\* The re-initialisation is begun whether or not the driver is shut down.
WdStartReInit ==
  /\ wd = "top"
  /\ wdEventFlag \cap {"SHUTDOWN", "WLAN_SHUTDOWN"} = {}
  /\ "WLAN_REINIT" \in wdEventFlag
  /\ ClearWdBit("WLAN_REINIT")
  /\ wd' = "reInit"
  /\ UNCHANGED <<WdShutdown, resetInProgress, hddVars, wctsState, envVars,
                 module, ignored>>

\* "Unnecessary wakeup".
WdNothing ==
  /\ wd = "top"
  /\ wdEventFlag \cap {"SHUTDOWN", "WLAN_SHUTDOWN", "WLAN_REINIT"} = {}
  /\ wd' = "wait"
  /\ UNCHANGED <<wdEventFlag, WdShutdown, resetInProgress, hddVars, wctsState,
                 envVars, module, ignored>>

\* Fault: the reset counts as done when the driver is open again.
WdReInitOpenEndsReset ==
  /\ wd = "reInit"
  /\ wctsState' = "OPEN"
  /\ wd' = "opened"
  /\ resetInProgress' = FALSE
  /\ UNCHANGED <<wdEventFlag, WdShutdown, hddVars, envVars, module, ignored>>

\* hdd_wlan_re_init, vos_open: the control transport, never closed, is taken
\* for open again.
WdReInitOpen ==
  /\ wd = "reInit"
  /\ wctsState' = "OPEN"
  /\ wd' = "opened"
  /\ UNCHANGED <<wdEventFlag, WdShutdown, resetInProgress, hddVars, envVars,
                 module, ignored>>

\* vos_start exchanges messages with the remote processor.
WdReInitStart ==
  /\ wd = "opened"
  /\ remote = "up"
  /\ wd' = "started"
  /\ UNCHANGED <<wdEventFlag, WdShutdown, resetInProgress, hddVars, wctsState,
                 envVars, module, ignored>>

\* Commands are let in again.
WdReInitUnblock ==
  /\ wd = "started"
  /\ isLogpInProgress' = FALSE
  /\ wd' = "unblocked"
  /\ UNCHANGED <<wdEventFlag, WdShutdown, resetInProgress,
                 isLoadUnloadInProgress, wlan, wctsState, envVars, module,
                 ignored>>

\* hdd_wlan_re_init has returned success.
WdReInitDone ==
  /\ wd = "unblocked"
  /\ wlan' = IF wlan = "down" THEN "up" ELSE wlan
  /\ resetInProgress' = FALSE
  /\ wd' = "wait"
  /\ UNCHANGED <<wdEventFlag, WdShutdown, isLogpInProgress,
                 isLoadUnloadInProgress, wctsState, envVars, module, ignored>>

ReInitLabel == {"reInit", "opened", "started", "unblocked"}

\* hdd_wlan_re_init has failed and closed everything: the thread returns
\* without a word.  It fails when the remote processor does not answer.
WdReInitFail ==
  /\ wd \in ReInitLabel
  /\ "fail" \in WdOps \/ (wd = "opened" /\ remote = "down")
  /\ wlan' = "closed"
  /\ wd' = "failed"
  /\ UNCHANGED <<wdEventFlag, WdShutdown, resetInProgress, isLogpInProgress,
                 isLoadUnloadInProgress, wctsState, envVars, module, ignored>>

WdStep ==
  \/ WdWake \/ WdExit \/ WdStartShutdown \/ WdFinishShutdown
  \/ WdStartReInit \/ WdNothing \/ WdReInitOpen \/ WdReInitStart
  \/ WdReInitUnblock \/ WdReInitDone \/ WdReInitFail

-----------------------------------------------------------------------------
(***************************************************************************)
(* Loading and unloading the module.                                       *)
(***************************************************************************)
LoadDone ==
  /\ module = "loading"
  /\ isLoadUnloadInProgress' = FALSE
  /\ module' = "loaded"
  /\ UNCHANGED <<wdEventFlag, wd, WdShutdown, resetInProgress,
                 isLogpInProgress, wlan, wctsState, envVars, ignored>>

\* hdd_module_exit: the loop on isWDresetInProgress is left.
ExitCheck ==
  /\ "unload" \in WdOps
  /\ module = "loaded"
  /\ ~resetInProgress
  /\ module' = "checked"
  /\ UNCHANGED <<wdEventFlag, wd, WdShutdown, resetInProgress, hddVars,
                 wctsState, envVars, ignored>>

ExitBegin ==
  /\ module = "checked"
  /\ isLoadUnloadInProgress' = TRUE
  /\ module' = "exiting"
  /\ UNCHANGED <<wdEventFlag, wd, WdShutdown, resetInProgress,
                 isLogpInProgress, wlan, wctsState, envVars, ignored>>

\* hdd_wlan_exit has stopped and closed everything but the watchdog.
ExitClose ==
  /\ module = "exiting"
  /\ wlan' = "closed"
  /\ module' = "closed"
  /\ UNCHANGED <<wdEventFlag, wd, WdShutdown, resetInProgress,
                 isLogpInProgress, isLoadUnloadInProgress, wctsState, envVars,
                 ignored>>

\* Fault: the watchdog thread is not woken.
ExitStopWatchdogNoPost ==
  /\ module = "closed"
  /\ SetWdBit("SHUTDOWN")
  /\ module' = "join"
  /\ UNCHANGED <<wd, WdShutdown, resetInProgress, hddVars, wctsState, envVars,
                 ignored>>

\* vos_watchdog_close
ExitStopWatchdog ==
  /\ module = "closed"
  /\ wdEventFlag' = wdEventFlag \cup {"SHUTDOWN", "POST"}
  /\ module' = "join"
  /\ UNCHANGED <<wd, WdShutdown, resetInProgress, hddVars, wctsState, envVars,
                 ignored>>

ExitDone ==
  /\ module = "join"
  /\ WdShutdown
  /\ module' = "unloaded"
  /\ UNCHANGED <<wdEventFlag, wd, WdShutdown, resetInProgress, hddVars,
                 wctsState, envVars, ignored>>

ModuleStep == LoadDone \/ ExitBegin \/ ExitClose \/ ExitStopWatchdog \/ ExitDone

-----------------------------------------------------------------------------
WdNext ==
  \/ RemoteCrash \/ RemoteBoot \/ NotifyStep
  \/ WdStep
  \/ ExitCheck \/ ModuleStep

WdSpec == WdInit /\ [][WdNext]_wdVars

(***************************************************************************)
(* Interrupt handlers, the watchdog thread and a begun load or unload run  *)
(* on.  The remote processor owes nothing.                                 *)
(***************************************************************************)
WdFairness == WF_wdVars(NotifyStep) /\ WF_wdVars(WdStep) /\ WF_wdVars(ModuleStep)

WdFairSpec == WdSpec /\ WdFairness

-----------------------------------------------------------------------------
WdBit == {"POST", "SHUTDOWN", "WLAN_SHUTDOWN", "WLAN_REINIT"}

WdTypeOK ==
  /\ wdEventFlag \subseteq WdBit
  /\ wd \in {"wait", "top", "shutdown", "exited", "failed"} \cup ReInitLabel
  /\ WdShutdown \in BOOLEAN
  /\ resetInProgress \in BOOLEAN
  /\ isLogpInProgress \in BOOLEAN
  /\ isLoadUnloadInProgress \in BOOLEAN
  /\ wlan \in {"up", "down", "closed"}
  /\ wctsState \in {"OPEN", "REM_CLOSED"}
  /\ remote \in {"up", "down"}
  /\ crashes \in 0..MaxCrash
  /\ notify \in {"idle", "report", "reported", "askShutdown", "askReInit", "post"}
  /\ module \in {"loading", "loaded", "checked", "exiting", "closed", "join",
                 "unloaded"}
  /\ ignored \in BOOLEAN

\* The module's exit has not passed its test of resetInProgress.
InUse == module \in {"loading", "loaded"}

(***************************************************************************)
(* The driver is shut down only when it is up, however many crashes are    *)
(* reported: stopping the threads and modules a second time would touch    *)
(* what vos_shutdown has freed.                                            *)
(***************************************************************************)
ShutdownOnlyWhenUp == InUse /\ wd = "shutdown" => wlan = "up"

(***************************************************************************)
(* While the driver is down or is being re-initialised resetInProgress     *)
(* holds, so that the module's exit waits.                                 *)
(***************************************************************************)
ResetCoversOutage == InUse /\ wlan = "down" => resetInProgress

(***************************************************************************)
(* As long as no crash report was ignored, the commands of the upper       *)
(* layers are blocked from before the shutdown until the modules have been *)
(* restarted.                                                              *)
(***************************************************************************)
CommandsBlocked ==
  /\ ~ignored /\ InUse
  /\ wd = "shutdown" \/ (wlan = "down" /\ wd # "unblocked")
  => isLogpInProgress

(***************************************************************************)
(* The two flags that keep the rest of the driver away from an outage, the *)
(* module's exit and the commands of the upper layers, cover it.           *)
(***************************************************************************)
OutageCovered == ResetCoversOutage /\ CommandsBlocked

(***************************************************************************)
(* As long as no crash report was ignored, the driver is re-initialised    *)
(* only when it is shut down.                                              *)
(***************************************************************************)
ReInitAfterShutdown ==
  ~ignored /\ InUse /\ wd \in ReInitLabel => wlan = "down"

(***************************************************************************)
(* What these rest on.  A shutdown is pending from the acceptance of the   *)
(* crash report until the thread takes it up; as long as no report was     *)
(* ignored, one outage is dealt with at a time.                            *)
(***************************************************************************)
ShutdownPending == \/ notify \in {"reported", "askShutdown"}
                   \/ "WLAN_SHUTDOWN" \in wdEventFlag

ReInitPending == notify = "askReInit" \/ "WLAN_REINIT" \in wdEventFlag

AwaitingReInit == \/ ShutdownPending
                  \/ wd = "shutdown"
                  \/ wlan = "down" /\ wd \notin ReInitLabel

OutageInv ==
  /\ wlan = "down" \/ wd = "shutdown" => resetInProgress
  /\ wd = "shutdown" => wlan = "up"
  /\ IF wd = "failed" THEN wlan = "closed"
                      ELSE wlan = "up" \/ (wlan = "down" /\ resetInProgress)
  /\ "SHUTDOWN" \notin wdEventFlag /\ wd # "exited"

OneOutageInv ==
  /\ ShutdownPending => isLogpInProgress /\ ~resetInProgress
  /\ ~(notify \in {"reported", "askShutdown"} /\ "WLAN_SHUTDOWN" \in wdEventFlag)
  /\ resetInProgress /\ wd \notin {"unblocked", "failed"} => isLogpInProgress
  /\ notify \in {"report", "reported", "askShutdown"} => remote = "down"
  /\ notify = "askReInit" => remote = "up" /\ "WLAN_REINIT" \notin wdEventFlag
  /\ ReInitPending \/ (remote = "down" /\ notify # "report")
       => AwaitingReInit \/ wd = "failed"
  /\ ReInitPending => remote = "up" \/ notify = "report"
  /\ wd \in ReInitLabel => wlan = "down"
  /\ wd = "failed" => resetInProgress

WatchdogInv == /\ WdTypeOK
               /\ InUse => OutageInv
               /\ InUse /\ ~ignored => OneOutageInv

(***************************************************************************)
(* A re-initialisation asked for when the watchdog thread has taken up the *)
(* shutdown is taken up in its turn, unless the module is unloaded, a      *)
(* crash report was ignored or an earlier re-initialisation fails.         *)
(***************************************************************************)
ReInitTakenUp ==
  (resetInProgress /\ wd \notin ReInitLabel /\ notify = "askReInit")
    ~> (wd \in {"reInit", "failed"} \/ ~InUse \/ ignored)

(***************************************************************************)
(* The module's exit ends, unless a re-initialisation has failed:          *)
(* vos_watchdog_close waits for the thread without a timeout.              *)
(***************************************************************************)
UnloadCompletes ==
  (module = "checked") ~> (module = "unloaded" \/ wd = "failed")

=============================================================================
