---------------------------- MODULE NssmService ----------------------------
(***************************************************************************)
(* NSSM, the process that keeps the Node server running (service.cpp,      *)
(* process.cpp): one nssm_service_t, shared without a lock by              *)
(*                                                                         *)
(*   - the launcher: service_main(), later the callback end_service() that *)
(*     the death of the application triggers; both run monitor_service()   *)
(*   - a thread for each STOP or SHUTDOWN: shutdown_service()              *)
(*   - service_control_handler(), for CONTINUE                             *)
(*                                                                         *)
(* One action is the code between two accesses to what they share.  The    *)
(* application may die whenever it likes; a call of the system that cfg    *)
(* names may fail; no control ever has to come.                            *)
(***************************************************************************)
EXTENDS Naturals, FiniteSets

CONSTANTS
  Stops,         \* the STOP and SHUTDOWN controls of a run
  MaxThrottle,   \* 7 in throttle_restart()
  Configurations \* the settings, the call that may fail, and the controls that
                 \* may come, of the runs

Actions  == {"restart", "ignore", "exit", "suicide"}
Failures == {"none", "parameters", "create", "wait", "thread"}

ASSUME ConfigurationsAssumption ==
  Configurations \subseteq
    [action : Actions, default : BOOLEAN, delay : BOOLEAN, terminate : BOOLEAN,
     failure : Failures, stops : SUBSET Stops, continues : Nat]
ASSUME StopsAssumption == {"launcher", "handler"} \cap Stops = {}
ASSUME BoundsAssumption == MaxThrottle \in Nat \ {0}

VARIABLES
  cfg,           \* chosen by Init: AppExit and whether it is the default action,
                 \* AppRestartDelay, AppStopMethodSkip, the call that may fail,
                 \* and the bounds stops and continues on the controls
  reported,      \* dwCurrentState as the service manager was last told it
  nssm,          \* "up"; "leaving" once STOPPED was reported; "down"
  status,        \* service->status.dwCurrentState
  process_handle, pid, stopping, allow_restart, throttle,
  wait_handle,   \* is a wait for the application's death armed?
  app,           \* the application: "none", "alive", or its exit code
  pc,            \* where each thread is
  seen,          \* the launcher's copy of throttle
  arg,           \* the launcher's arguments to stop_service(), and what follows
  stale,         \* the threads whose copy of process_handle has been closed
  \* History: read by the properties only.
  continues,     \* CONTINUE controls received
  clean,         \* "no" STOP yet, one that met nothing else: "yes", or "lost"
  owed           \* must the next launch come after a pause?

manager == <<reported, nssm>>
service == <<process_handle, pid, stopping, allow_restart, throttle, wait_handle>>
local   == <<seen, arg, stale>>
history == <<continues, clean, owed>>
vars    == <<cfg, manager, status, service, app, pc, local, history>>

Threads == {"launcher", "handler"} \cup Stops
States  == {"START_PENDING", "RUNNING", "PAUSED", "CONTINUE_PENDING",
            "STOP_PENDING", "STOPPED"}
Dead    == {"exit0", "exit1"}

\* Where a thread may be, named for what it does next.
Labels ==
  {"idle", "over", "stop", "pending", "kill", "await", "terminate", "check",
   "end", "tree", "forget", "stopped", "report", "decide", "failed", "suicide",
   "start", "parameters", "throttle", "increment", "clamp", "limit", "pause",
   "sleep", "create", "handles", "settle", "clean", "unclean", "register",
   "stopping", "continued", "resumed"}

-----------------------------------------------------------------------------
Go(t, label) == pc' = [pc EXCEPT ![t] = label]
At(t, label) == nssm # "down" /\ pc[t] = label

\* The dispatcher returns once STOPPED has been reported; later reports are
\* lost with the status handle.
SetServiceStatus(s) ==
  /\ reported' = IF nssm = "up" THEN s ELSE reported
  /\ nssm' = IF nssm = "up" /\ s = "STOPPED" THEN "leaving" ELSE nssm

Signal(s) == status' = s /\ SetServiceStatus(s)

May(failure) == cfg.failure = failure

\* service_main() has reported START_PENDING and calls monitor_service().
Init ==
  /\ cfg \in Configurations
  /\ reported = "START_PENDING" /\ nssm = "up" /\ status = "START_PENDING"
  /\ process_handle = FALSE /\ pid = FALSE /\ wait_handle = FALSE
  /\ stopping = FALSE /\ allow_restart = FALSE /\ throttle = 0
  /\ app = "none"
  /\ pc = [t \in Threads |-> IF t = "launcher" THEN "start" ELSE "idle"]
  /\ seen = 0 /\ arg = [stop |-> FALSE, graceful |-> TRUE, next |-> "over"]
  /\ stale = {}
  /\ continues = 0 /\ clean = "no" /\ owed = FALSE

-----------------------------------------------------------------------------
(***************************************************************************)
(* stop_service() and the end_service() it calls, by a shutdown thread or  *)
(* by the launcher itself                                                  *)
(***************************************************************************)
Graceful(t) == t \in Stops \/ arg.graceful

\* The launcher calls stop_service(), and goes to label next afterwards.
StopItself(graceful, next) ==
  /\ arg' = [stop |-> TRUE, graceful |-> graceful, next |-> next]
  /\ Go("launcher", "stop")

\* The application runs, and no other thread is at work.
Undisturbed ==
  /\ app = "alive" /\ process_handle /\ pid
  /\ pc["launcher"] = "idle" /\ pc["handler"] = "idle"

\* Mutant: the wait is left armed, and the callback free to restart.
MutStopBegins(t) ==
  /\ At(t, "stop")
  /\ clean' = IF t \notin Stops THEN clean
              ELSE IF clean = "no" /\ Undisturbed THEN "yes" ELSE "lost"
  /\ Go(t, IF Graceful(t) THEN "pending" ELSE "kill")
  /\ UNCHANGED <<cfg, manager, status, service, app, local, continues, owed>>

StopBegins(t) ==
  /\ At(t, "stop")
  /\ allow_restart' = FALSE /\ wait_handle' = FALSE
  /\ clean' = IF t \notin Stops THEN clean
              ELSE IF clean = "no" /\ Undisturbed THEN "yes" ELSE "lost"
  /\ Go(t, IF Graceful(t) THEN "pending" ELSE "kill")
  /\ UNCHANGED <<cfg, manager, status, process_handle, pid, stopping, throttle,
                 app, local, continues, owed>>

StopPending(t) ==
  /\ At(t, "pending")
  /\ Signal("STOP_PENDING")
  /\ Go(t, "kill")
  /\ UNCHANGED <<cfg, service, app, local, history>>

\* kill_process(): nothing to do, or the console, the windows and the threads
\* that can be reached are asked to end, and await_shutdown() reports it.
\* The methods of one stop are one wait here.
Kill(t) ==
  /\ At(t, "kill")
  /\ IF ~ (pid /\ process_handle /\ app = "alive")
     THEN UNCHANGED <<status, manager>> /\ Go(t, "check")
     ELSE \/ Signal("STOP_PENDING") /\ Go(t, "await")
          \/ UNCHANGED <<status, manager>> /\ Go(t, "terminate")
  /\ UNCHANGED <<cfg, service, app, local, history>>

\* Mutant: the wait has no timeout.
MutAwaitShutdown(t) ==
  /\ At(t, "await") /\ process_handle /\ app \in Dead
  /\ Go(t, "check")
  /\ UNCHANGED <<cfg, manager, status, service, app, local, history>>

\* The wait ends with the process, by its timeout, or at once when
\* service->process_handle has been cleared.
AwaitShutdown(t) ==
  /\ At(t, "await")
  /\ IF process_handle /\ app \in Dead
     THEN Go(t, "check") /\ stale' = stale \ {t}
     ELSE Go(t, "terminate") /\ UNCHANGED stale
  /\ UNCHANGED <<cfg, manager, status, service, app, seen, arg, history>>

\* TerminateProcess() on a copy of the handle, unless AppStopMethodSkip forbids
\* it. A closed handle is refused, or is by now that of the next instance.
Terminate(t) ==
  /\ At(t, "terminate")
  /\ \/ /\ cfg.terminate
        /\ app' = IF app = "alive" THEN "exit0" ELSE app
     \/ /\ ~ cfg.terminate \/ t \in stale
        /\ UNCHANGED app
  /\ stale' = stale \ {t}
  /\ Go(t, "check")
  /\ UNCHANGED <<cfg, manager, status, service, seen, arg, history>>

-----------------------------------------------------------------------------
(* end_service(), at the end of a stop or as the callback *)
InStop(t) == t \in Stops \/ arg.stop

EndCheck(t) ==
  /\ At(t, "check")
  /\ Go(t, IF ~ stopping THEN "end" ELSE IF InStop(t) THEN "stopped" ELSE "idle")
  /\ UNCHANGED <<cfg, manager, status, service, app, local, history>>

EndBegins(t) ==
  /\ At(t, "end")
  /\ stopping' = TRUE /\ process_handle' = FALSE
  /\ stale' = stale \cup {u \in Threads : pc[u] \in {"await", "terminate"}}
  /\ Go(t, "tree")
  /\ UNCHANGED <<cfg, manager, status, pid, allow_restart, throttle,
                 wait_handle, app, seen, arg, history>>

\* kill_process_tree(): the root if it still runs, then what it started; each
\* process that is asked to end makes await_shutdown() report STOP_PENDING.
KillTree(t) ==
  /\ At(t, "tree")
  /\ IF pid
     THEN /\ app' = IF cfg.terminate /\ app = "alive" THEN "exit0" ELSE app
          /\ Signal("STOP_PENDING") \/ UNCHANGED <<status, manager>>
     ELSE UNCHANGED <<app, status, manager>>
  /\ Go(t, "forget")
  /\ UNCHANGED <<cfg, service, local, history>>

Forget(t) ==
  /\ At(t, "forget")
  /\ pid' = FALSE
  /\ Go(t, IF InStop(t) THEN "stopped" ELSE "decide")
  /\ UNCHANGED <<cfg, manager, status, process_handle, stopping, allow_restart,
                 throttle, wait_handle, app, local, history>>

Afterwards(t) == IF t \in Stops THEN "over" ELSE arg.next

Stopped(t) ==
  /\ At(t, "stopped")
  /\ IF Graceful(t) THEN status' = "STOPPED" /\ Go(t, "report")
                    ELSE UNCHANGED status /\ Go(t, Afterwards(t))
  /\ UNCHANGED <<cfg, manager, service, app, local, history>>

\* SetServiceStatus() reads the structure that other threads write too.
Report(t) ==
  /\ At(t, "report")
  /\ SetServiceStatus(status)
  /\ Go(t, Afterwards(t))
  /\ UNCHANGED <<cfg, status, service, app, local, history>>

StopService(t) ==
  \/ StopBegins(t) \/ StopPending(t) \/ Kill(t) \/ AwaitShutdown(t)
  \/ Terminate(t) \/ EndCheck(t) \/ EndBegins(t) \/ KillTree(t) \/ Forget(t)
  \/ Stopped(t) \/ Report(t)

-----------------------------------------------------------------------------
(***************************************************************************)
(* monitor_service() and the start_service() it calls                      *)
(***************************************************************************)
\* Mutant: what a stop forbade stays forbidden.
MutStartService ==
  /\ At("launcher", "start")
  /\ stopping' = FALSE
  /\ arg' = [arg EXCEPT !.stop = FALSE, !.graceful = TRUE]
  /\ Go("launcher", IF process_handle THEN "register" ELSE "parameters")
  /\ UNCHANGED <<cfg, manager, status, process_handle, pid, allow_restart,
                 throttle, wait_handle, app, seen, stale, history>>

StartService ==
  /\ At("launcher", "start")
  /\ stopping' = FALSE /\ allow_restart' = TRUE
  /\ arg' = [arg EXCEPT !.stop = FALSE, !.graceful = TRUE]
  /\ Go("launcher", IF process_handle THEN "register" ELSE "parameters")
  /\ UNCHANGED <<cfg, manager, status, process_handle, pid, throttle,
                 wait_handle, app, seen, stale, history>>

\* Of the failures, only the first start's leaves monitor_service() for good.
GetParameters ==
  /\ At("launcher", "parameters")
  /\ \/ Go("launcher", "throttle") /\ UNCHANGED arg
     \/ May("parameters") /\ StopItself(TRUE, arg.next)
  /\ UNCHANGED <<cfg, manager, status, service, app, seen, stale, history>>

\* throttle_restart(): throttle++ reads,
ReadThrottle ==
  /\ At("launcher", "throttle")
  /\ seen' = throttle
  /\ Go("launcher", "increment")
  /\ UNCHANGED <<cfg, manager, status, service, app, arg, stale, history>>

\* then writes; the first launch goes without a pause.
IncrementThrottle ==
  /\ At("launcher", "increment")
  /\ throttle' = seen + 1
  /\ seen' = 0 /\ owed' = TRUE
  /\ Go("launcher", IF seen = 0 THEN "create" ELSE "clamp")
  /\ UNCHANGED <<cfg, manager, status, process_handle, pid, stopping,
                 allow_restart, wait_handle, app, arg, stale, continues, clean>>

\* Mutant: no limit to the increments.
MutClampThrottle ==
  /\ At("launcher", "clamp")
  /\ Go("launcher", "pause")
  /\ UNCHANGED <<cfg, manager, status, service, app, local, history>>

\* throttle is read again,
ClampThrottle ==
  /\ At("launcher", "clamp")
  /\ Go("launcher", IF throttle > MaxThrottle THEN "limit" ELSE "pause")
  /\ UNCHANGED <<cfg, manager, status, service, app, local, history>>

\* and kept at MaxThrottle + 1, even if a CONTINUE has cleared it since.
LimitThrottle ==
  /\ At("launcher", "limit")
  /\ throttle' = MaxThrottle + 1
  /\ Go("launcher", "pause")
  /\ UNCHANGED <<cfg, manager, status, process_handle, pid, stopping,
                 allow_restart, wait_handle, app, local, history>>

Pause ==
  /\ At("launcher", "pause")
  /\ Signal("PAUSED")
  /\ Go("launcher", "sleep")
  /\ UNCHANGED <<cfg, service, app, local, history>>

\* The delay passes, or CONTINUE cuts it short.
WakeUp ==
  /\ At("launcher", "sleep")
  /\ Go("launcher", "create")
  /\ UNCHANGED <<cfg, manager, status, service, app, local, history>>

\* get_output_handles() and CreateProcess()
CreateProcess ==
  /\ At("launcher", "create")
  /\ \/ app' = "alive" /\ Go("launcher", "handles") /\ UNCHANGED arg
     \/ May("create") /\ StopItself(TRUE, arg.next) /\ UNCHANGED app
  /\ UNCHANGED <<cfg, manager, status, service, seen, stale, history>>

KeepHandles ==
  /\ At("launcher", "handles")
  /\ process_handle' = TRUE /\ pid' = TRUE
  /\ Go("launcher", "settle")
  /\ UNCHANGED <<cfg, manager, status, stopping, allow_restart, throttle,
                 wait_handle, app, local, history>>

\* The wait for throttle_delay, or for its first part, ends by its timeout if
\* the process lives, and at once if it is dead or the handle cleared.
Settle ==
  /\ At("launcher", "settle")
  /\ Signal("RUNNING")
  /\ Go("launcher", IF process_handle /\ app = "alive" THEN "clean" ELSE "unclean")
  /\ UNCHANGED <<cfg, service, app, local, history>>

\* Mutant: throttle is reset whether the start was clean or not.
MutSettled ==
  /\ nssm # "down" /\ pc["launcher"] \in {"clean", "unclean"}
  /\ throttle' = IF cfg.delay THEN 1 ELSE 0
  /\ owed' = (owed /\ (cfg.delay \/ pc["launcher"] = "unclean"))
  /\ Go("launcher", "register")
  /\ UNCHANGED <<cfg, manager, status, process_handle, pid, stopping,
                 allow_restart, wait_handle, app, local, continues, clean>>

\* The rest of throttle_delay, if any; AppRestartDelay keeps throttle above 0.
Settled ==
  /\ nssm # "down" /\ pc["launcher"] \in {"clean", "unclean"}
  /\ \E cleanly \in BOOLEAN :
       /\ IF cleanly THEN pc["launcher"] = "clean"
          ELSE pc["launcher"] = "unclean" \/ app # "alive" \/ ~ process_handle
       /\ throttle' = IF cfg.delay /\ (cleanly \/ throttle = 0) THEN 1
                      ELSE IF cleanly THEN 0 ELSE throttle
       /\ owed' = (owed /\ (cfg.delay \/ ~ cleanly))
  /\ Go("launcher", "register")
  /\ UNCHANGED <<cfg, manager, status, process_handle, pid, stopping,
                 allow_restart, wait_handle, app, local, continues, clean>>

\* Mutant: no wait for an application that has died since its launch.
MutRegisterWait ==
  /\ At("launcher", "register")
  /\ \/ process_handle /\ app = "alive" /\ wait_handle' = TRUE
     \/ (~ process_handle \/ app # "alive") /\ UNCHANGED wait_handle
  /\ Go("launcher", "idle")
  /\ UNCHANGED <<cfg, manager, status, process_handle, pid, stopping,
                 allow_restart, throttle, app, local, history>>

\* RegisterWaitForSingleObject(); monitor_service() ignores its failure.
RegisterWait ==
  /\ At("launcher", "register")
  /\ \/ process_handle /\ wait_handle' = TRUE
     \/ (~ process_handle \/ May("wait")) /\ UNCHANGED wait_handle
  /\ Go("launcher", "idle")
  /\ UNCHANGED <<cfg, manager, status, process_handle, pid, stopping,
                 allow_restart, throttle, app, local, history>>

\* The wait is over: end_service() runs as the callback.
Callback ==
  /\ At("launcher", "idle") /\ wait_handle /\ app \in Dead
  /\ wait_handle' = FALSE
  /\ arg' = [stop |-> FALSE, graceful |-> TRUE, next |-> "failed"]
  /\ Go("launcher", "check")
  /\ UNCHANGED <<cfg, manager, status, process_handle, pid, stopping,
                 allow_restart, throttle, app, seen, stale, history>>

\* Mutant: gives up once the pause has reached its limit.
MutDecide ==
  /\ At("launcher", "decide")
  /\ IF ~ allow_restart THEN Go("launcher", "idle") /\ UNCHANGED arg
     ELSE \/ /\ cfg.action = "restart" /\ throttle <= MaxThrottle
             /\ Go("launcher", "start")
             /\ UNCHANGED arg
          \/ /\ cfg.action = "exit" \/ throttle > MaxThrottle
             /\ StopItself(TRUE, "over")
  /\ UNCHANGED <<cfg, manager, status, service, app, seen, stale, history>>

\* The end of the callback. A suicide with code 0, by default, is graceful.
Decide ==
  /\ At("launcher", "decide")
  /\ IF ~ allow_restart THEN Go("launcher", "idle") /\ UNCHANGED arg
     ELSE \/ /\ cfg.action = "restart" /\ Go("launcher", "start")
             /\ UNCHANGED arg
          \/ /\ cfg.action = "ignore" /\ Go("launcher", "over")
             /\ UNCHANGED arg
          \/ cfg.action = "exit" /\ StopItself(TRUE, "over")
          \/ /\ cfg.action = "suicide"
             /\ StopItself(cfg.default /\ app = "exit0", "suicide")
  /\ UNCHANGED <<cfg, manager, status, service, app, seen, stale, history>>

\* exit(exitcode)
Suicide ==
  /\ At("launcher", "suicide")
  /\ nssm' = "down" /\ reported' = "STOPPED"
  /\ Go("launcher", "over")
  /\ UNCHANGED <<cfg, status, service, app, local, history>>

\* The callback's loop: Sleep(30000), unless the process has left by then.
TryAgain ==
  /\ At("launcher", "failed") /\ nssm = "up"
  /\ Go("launcher", "start")
  /\ UNCHANGED <<cfg, manager, status, service, app, local, history>>

MonitorService ==
  \/ StartService \/ GetParameters \/ ReadThrottle \/ IncrementThrottle
  \/ ClampThrottle \/ LimitThrottle \/ Pause \/ WakeUp \/ CreateProcess
  \/ KeepHandles \/ Settle \/ Settled \/ RegisterWait \/ Callback \/ Decide \/ Suicide
  \/ TryAgain

-----------------------------------------------------------------------------
(***************************************************************************)
(* service_control_handler(): the service manager sends one control at a   *)
(* time, and none while a start or a stop is pending                       *)
(***************************************************************************)
Accepts ==
  /\ nssm = "up" /\ pc["handler"] = "idle"
  /\ reported \in {"RUNNING", "PAUSED", "CONTINUE_PENDING"}

\* If CreateThread() fails the handler does the work itself.
ControlStop(t) ==
  /\ Accepts /\ t \in cfg.stops /\ pc[t] = "idle"
  /\ \/ Go(t, "stop")
     \/ May("thread") /\ pc' = [pc EXCEPT ![t] = "stop", !["handler"] = "stopping"]
  /\ UNCHANGED <<cfg, manager, status, service, app, local, history>>

StopReturns ==
  /\ At("handler", "stopping") /\ \A t \in Stops : pc[t] \in {"idle", "over"}
  /\ Go("handler", "idle")
  /\ UNCHANGED <<cfg, manager, status, service, app, local, history>>

\* A CONTINUE that comes during a stop disturbs it.
ControlContinue ==
  /\ Accepts /\ continues < cfg.continues
  /\ throttle' = 0 /\ owed' = FALSE
  /\ continues' = continues + 1
  /\ clean' = IF clean = "yes" THEN "lost" ELSE clean
  /\ Go("handler", "continued")
  /\ UNCHANGED <<cfg, manager, status, process_handle, pid, stopping,
                 allow_restart, wait_handle, app, local>>

SetContinuePending ==
  /\ At("handler", "continued")
  /\ status' = IF process_handle THEN status ELSE "CONTINUE_PENDING"
  /\ Go("handler", "resumed")
  /\ UNCHANGED <<cfg, manager, service, app, local, history>>

ReportContinue ==
  /\ At("handler", "resumed")
  /\ SetServiceStatus(status)
  /\ Go("handler", "idle")
  /\ UNCHANGED <<cfg, status, service, app, local, history>>

ControlHandler == StopReturns \/ SetContinuePending \/ ReportContinue

-----------------------------------------------------------------------------
(* What surrounds NSSM *)
Dies ==
  /\ nssm # "down" /\ app = "alive"
  /\ app' \in Dead
  /\ UNCHANGED <<cfg, manager, status, service, pc, local, history>>

\* main() returns after the dispatcher.
Leaves ==
  /\ nssm = "leaving"
  /\ nssm' = "down"
  /\ UNCHANGED <<cfg, reported, status, service, app, pc, local, history>>

Next ==
  \/ \E t \in Stops \cup {"launcher"} : StopService(t)
  \/ MonitorService
  \/ \E t \in Stops : ControlStop(t)
  \/ ControlContinue \/ ControlHandler
  \/ Dies \/ Leaves

Spec == Init /\ [][Next]_vars

(***************************************************************************)
(* The system schedules each thread, runs a callback whose wait is over,   *)
(* and ends each wait that has a timeout.  Nothing obliges the application *)
(* to die, a control to come or a call to fail.                            *)
(***************************************************************************)
Fairness ==
  /\ WF_vars(StopService("launcher") \/ MonitorService)
  /\ \A t \in Stops : WF_vars(StopService(t))
  /\ WF_vars(ControlHandler)
  /\ WF_vars(Leaves)

FairSpec == Spec /\ Fairness

-----------------------------------------------------------------------------
(***************************************************************************)
(* What is required of it                                                  *)
(***************************************************************************)

\* Type correctness of the shared structure and of the threads; a launch never
\* finds the throttle above its limit.
TypeOK ==
  /\ cfg \in Configurations
  /\ reported \in States /\ nssm \in {"up", "leaving", "down"}
  /\ status \in States
  /\ process_handle \in BOOLEAN /\ pid \in BOOLEAN /\ stopping \in BOOLEAN
  /\ allow_restart \in BOOLEAN /\ wait_handle \in BOOLEAN
  /\ throttle \in 0 .. MaxThrottle + 2 /\ seen \in 0 .. MaxThrottle + 1
  /\ app \in {"none", "alive"} \cup Dead
  /\ pc \in [Threads -> Labels]
  /\ arg \in [stop : BOOLEAN, graceful : BOOLEAN,
              next : {"over", "failed", "suicide"}]
  /\ stale \in SUBSET Threads
  /\ continues \in 0 .. cfg.continues /\ clean \in {"no", "yes", "lost"}
  /\ owed \in BOOLEAN

\* A STOP that finds the application running and meets no other control or
\* restart leaves nothing running behind NSSM, even if the application dies by
\* itself at any point of the stop, or ignores it.
CleanStop == clean = "yes" /\ nssm = "down" /\ cfg.terminate => app # "alive"

\* The throttle: no launch goes without a pause after one that was not followed
\* by a clean start, nor after any with AppRestartDelay, unless a CONTINUE has
\* come since that launch was decided.
Throttled ==
  [][pc["launcher"] = "increment" /\ pc'["launcher"] = "create" => ~ owed]_vars

\* As long as no STOP comes and no call of the system fails, an application to
\* be restarted whose death comes at any point, start included, is.
Restarted ==
  /\ cfg.action = "restart" /\ cfg.failure = "none" /\ app \in Dead
  ~> app = "alive" \/ \E t \in Stops : pc[t] # "idle"

\* A STOP that meets nothing else ends, and NSSM with it.
StopEnds == clean = "yes" ~> nssm = "down" \/ clean = "lost"

\* Configured to restart the application, NSSM does not leave by itself, however
\* often the application dies, as long as a start does not fail.
KeepsTrying ==
  cfg.action = "restart" /\ ~ May("parameters") /\ ~ May("create") /\ nssm # "up"
    => \E t \in Stops : pc[t] # "idle"

\* NSSM keeps one application at a time: none runs when it launches one, whatever
\* stops, failures and restarts came before, and when the launch is over, death
\* during the start included, it waits for the death of the one it launched,
\* unless a STOP has come or the wait could not be registered.
Supervised ==
  /\ pc["launcher"] = "create" => app # "alive"
  /\ pc["launcher"] = "idle" /\ ~ May("wait") /\ (\A t \in Stops : pc[t] = "idle")
       => wait_handle /\ process_handle /\ pid

=============================================================================
