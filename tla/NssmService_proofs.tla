------------------------- MODULE NssmService_proofs -------------------------
(***************************************************************************)
(* What NssmService guarantees for any controls, any settings and any      *)
(* limit of the throttle.                                                  *)
(***************************************************************************)
EXTENDS NssmService, TLAPS

\* The fields of a run.
LEMMA ConfigurationType ==
  ASSUME TypeOK
  PROVE  cfg.continues \in Nat /\ cfg.delay \in BOOLEAN
BY ConfigurationsAssumption DEF TypeOK

\* What StopService(t) does to pc.
LEMMA GoTo ==
  ASSUME TypeOK, NEW t \in Threads, NEW label \in Labels, Go(t, label)
  PROVE  /\ pc' \in [Threads -> Labels]
         /\ pc'[t] = label
         /\ \A u \in Threads \ {t} : pc'[u] = pc[u]
BY DEF TypeOK, Go

LEMMA ReportType ==
  ASSUME TypeOK, NEW s \in States, SetServiceStatus(s)
  PROVE  reported' \in States /\ nssm' \in {"up", "leaving", "down"}
BY DEF TypeOK, SetServiceStatus

LEMMA SignalType ==
  ASSUME TypeOK, NEW s \in States, Signal(s)
  PROVE  status' \in States /\ reported' \in States /\ nssm' \in {"up", "leaving", "down"}
BY ReportType DEF Signal

Arguments == [stop : BOOLEAN, graceful : BOOLEAN, next : {"over", "failed", "suicide"}]

\* The launcher's arguments, before and after it calls stop_service().
LEMMA ArgumentsType ==
  ASSUME TypeOK
  PROVE  /\ arg \in Arguments /\ arg.next \in {"over", "failed", "suicide"}
         /\ \A next \in {"over", "failed", "suicide"}, graceful \in BOOLEAN :
              StopItself(graceful, next) => arg' \in Arguments
         /\ (cfg.default /\ app = "exit0") \in BOOLEAN
<1>1. arg \in Arguments
  BY DEF TypeOK, Arguments
<1>2. arg.next \in {"over", "failed", "suicide"}
  BY <1>1 DEF Arguments
<1>3. ASSUME NEW next \in {"over", "failed", "suicide"}, NEW graceful \in BOOLEAN,
             StopItself(graceful, next)
      PROVE  arg' \in Arguments
  BY <1>3 DEF StopItself, Arguments
<1>4. (cfg.default /\ app = "exit0") \in BOOLEAN
  BY Zenon
<1> QED
  BY <1>1, <1>2, <1>3, <1>4

\* What follows a stop is a label.
LEMMA AfterwardsType == ASSUME TypeOK, NEW t PROVE Afterwards(t) \in Labels
BY ArgumentsType DEF Afterwards, Labels

LEMMA TypeInit == Init => TypeOK
<1> SUFFICES ASSUME Init PROVE TypeOK
  OBVIOUS
<1>1. continues \in 0 .. cfg.continues
  <2>1. cfg.continues \in Nat
    BY ConfigurationsAssumption DEF Init
  <2> QED
    BY <2>1 DEF Init
<1>2. pc \in [Threads -> Labels]
  BY DEF Init, Threads, Labels
<1>3. throttle \in 0 .. MaxThrottle + 2 /\ seen \in 0 .. MaxThrottle + 1
  BY BoundsAssumption DEF Init
<1>4. arg \in Arguments
  BY DEF Init, Arguments
<1> QED
  BY <1>1, <1>2, <1>3, <1>4 DEF Init, TypeOK, States, Arguments

LEMMA TypeStop == TypeOK /\ (\E t \in Stops \cup {"launcher"} : StopService(t)) => TypeOK'
<1> SUFFICES ASSUME TypeOK, NEW t \in Stops \cup {"launcher"}, StopService(t) PROVE TypeOK'
  OBVIOUS
<1>0. t \in Threads
  BY DEF Threads
<1>1. CASE StopBegins(t)
  <2>1. pc' \in [Threads -> Labels]
    BY <1>0, <1>1, GoTo DEF StopBegins, Labels
  <2>2. clean' \in {"no", "yes", "lost"}
    BY <1>1 DEF StopBegins, TypeOK
  <2> QED
    BY ZenonT(60), <1>1, <2>1, <2>2 DEF StopBegins, TypeOK, manager, service, local, history
<1>2. CASE StopPending(t)
  <2>1. pc' \in [Threads -> Labels]
    BY <1>0, <1>2, GoTo DEF StopPending, Labels
  <2>2. status' \in States /\ reported' \in States /\ nssm' \in {"up", "leaving", "down"}
    BY <1>2, SignalType DEF StopPending, States
  <2> QED
    BY <1>2, <2>1, <2>2 DEF StopPending, TypeOK, manager, service, local, history
<1>3. CASE Kill(t)
  <2>1. pc' \in [Threads -> Labels]
    BY <1>0, <1>3, GoTo DEF Kill, Labels
  <2>2. status' \in States /\ reported' \in States /\ nssm' \in {"up", "leaving", "down"}
    BY <1>3, SignalType DEF Kill, States, manager, TypeOK
  <2> QED
    BY <1>3, <2>1, <2>2 DEF Kill, TypeOK, manager, service, local, history
<1>4. CASE AwaitShutdown(t)
  <2>1. pc' \in [Threads -> Labels]
    BY <1>0, <1>4, GoTo DEF AwaitShutdown, Labels
  <2>2. stale' \in SUBSET Threads
    BY <1>4 DEF AwaitShutdown, TypeOK
  <2> QED
    BY <1>4, <2>1, <2>2 DEF AwaitShutdown, TypeOK, manager, service, local, history
<1>5. CASE Terminate(t)
  <2>1. pc' \in [Threads -> Labels]
    BY <1>0, <1>5, GoTo DEF Terminate, Labels
  <2>2. app' \in {"none", "alive"} \cup Dead /\ stale' \in SUBSET Threads
    BY <1>5 DEF Terminate, TypeOK, Dead
  <2> QED
    BY <1>5, <2>1, <2>2 DEF Terminate, TypeOK, manager, service, local, history
<1>6. CASE EndCheck(t)
  <2>1. pc' \in [Threads -> Labels]
    BY <1>0, <1>6, GoTo DEF EndCheck, Labels
  <2> QED
    BY <1>6, <2>1 DEF EndCheck, TypeOK, manager, service, local, history
<1>7. CASE EndBegins(t)
  <2>1. pc' \in [Threads -> Labels]
    BY <1>0, <1>7, GoTo DEF EndBegins, Labels
  <2>2. stopping' \in BOOLEAN /\ process_handle' \in BOOLEAN
    BY <1>7, Zenon DEF EndBegins
  <2>3. stale' \in SUBSET Threads
    BY <1>7 DEF EndBegins, TypeOK
  <2> QED
    BY <1>7, <2>1, <2>2, <2>3 DEF EndBegins, TypeOK, manager, service, local, history
<1>8. CASE KillTree(t)
  <2>1. pc' \in [Threads -> Labels]
    BY <1>0, <1>8, GoTo DEF KillTree, Labels
  <2>2. status' \in States /\ reported' \in States /\ nssm' \in {"up", "leaving", "down"}
    BY <1>8, SignalType DEF KillTree, States, manager, TypeOK
  <2>3. app' \in {"none", "alive"} \cup Dead
    BY <1>8 DEF KillTree, TypeOK, Dead
  <2> QED
    BY <1>8, <2>1, <2>2, <2>3 DEF KillTree, TypeOK, manager, service, local, history
<1>9. CASE Forget(t)
  <2>1. pc' \in [Threads -> Labels]
    BY <1>0, <1>9, AfterwardsType, GoTo DEF Forget, Labels
  <2>2. pid' \in BOOLEAN
    BY <1>9, Zenon DEF Forget
  <2> QED
    BY <1>9, <2>1, <2>2 DEF Forget, TypeOK, manager, service, local, history
<1>10. CASE Stopped(t)
  <2>1. pc' \in [Threads -> Labels]
    BY <1>0, <1>10, AfterwardsType, GoTo DEF Stopped, Labels
  <2>2. status' \in States
    BY <1>10 DEF Stopped, States, TypeOK
  <2> QED
    BY <1>10, <2>1, <2>2 DEF Stopped, TypeOK, manager, service, local, history
<1>11. CASE Report(t)
  <2>1. pc' \in [Threads -> Labels]
    BY <1>0, <1>11, AfterwardsType, GoTo DEF Report, Labels
  <2>2. reported' \in States /\ nssm' \in {"up", "leaving", "down"}
    BY <1>11, ReportType DEF Report, TypeOK
  <2> QED
    BY <1>11, <2>1, <2>2 DEF Report, TypeOK, manager, service, local, history
<1> QED
  BY <1>1, <1>2, <1>3, <1>4, <1>5, <1>6, <1>7, <1>8, <1>9, <1>10, <1>11 DEF StopService

\* Only between the increment and the clamp is the throttle above its limit.
Limited == throttle > MaxThrottle + 1 => pc["launcher"] \in {"clamp", "limit"}

LEMMA TypeMonitor == TypeOK /\ Limited /\ MonitorService => TypeOK'
<1> SUFFICES ASSUME TypeOK, Limited, MonitorService PROVE TypeOK'
  OBVIOUS
<1>0. "launcher" \in Threads
  BY DEF Threads
<1>1. CASE StartService
  <2>1. pc' \in [Threads -> Labels]
    BY <1>0, <1>1, GoTo DEF StartService, Labels
  <2>2. arg' \in Arguments
    BY <1>1 DEF StartService, TypeOK, Arguments
  <2> QED
    BY <1>1, <2>1, <2>2 DEF StartService, TypeOK, manager, service, local, history, Arguments
<1>2. CASE GetParameters
  <2>1. pc' \in [Threads -> Labels]
    BY <1>0, <1>2, GoTo DEF GetParameters, StopItself, Labels
  <2>2. arg' \in Arguments
    BY <1>2, ArgumentsType DEF GetParameters
  <2> QED
    BY <1>2, <2>1, <2>2 DEF GetParameters, TypeOK, manager, service, local, history, Arguments
<1>3. CASE ReadThrottle
  <2>1. pc' \in [Threads -> Labels]
    BY <1>0, <1>3, GoTo DEF ReadThrottle, Labels
  <2>2. seen' \in 0 .. MaxThrottle + 1
    BY <1>3, BoundsAssumption DEF ReadThrottle, TypeOK, Limited, At
  <2> QED
    BY <1>3, <2>1, <2>2 DEF ReadThrottle, TypeOK, manager, service, local, history
<1>4. CASE IncrementThrottle
  <2>1. pc' \in [Threads -> Labels]
    BY <1>0, <1>4, GoTo DEF IncrementThrottle, Labels
  <2>2. throttle' \in 0 .. MaxThrottle + 2 /\ seen' \in 0 .. MaxThrottle + 1
    BY <1>4, BoundsAssumption DEF IncrementThrottle, TypeOK
  <2> QED
    BY <1>4, <2>1, <2>2 DEF IncrementThrottle, TypeOK, manager, service, local, history
<1>16. CASE ClampThrottle
  <2>1. pc' \in [Threads -> Labels]
    BY <1>0, <1>16, GoTo DEF ClampThrottle, Labels
  <2> QED
    BY <1>16, <2>1 DEF ClampThrottle, TypeOK, manager, service, local, history
<1>17. CASE LimitThrottle
  <2>1. pc' \in [Threads -> Labels]
    BY <1>0, <1>17, GoTo DEF LimitThrottle, Labels
  <2>2. throttle' \in 0 .. MaxThrottle + 2
    BY <1>17, BoundsAssumption DEF LimitThrottle
  <2> QED
    BY <1>17, <2>1, <2>2 DEF LimitThrottle, TypeOK, manager, service, local, history
<1>5. CASE Pause
  <2>1. pc' \in [Threads -> Labels]
    BY <1>0, <1>5, GoTo DEF Pause, Labels
  <2>2. status' \in States /\ reported' \in States /\ nssm' \in {"up", "leaving", "down"}
    BY <1>5, SignalType DEF Pause, States
  <2> QED
    BY <1>5, <2>1, <2>2 DEF Pause, TypeOK, manager, service, local, history
<1>6. CASE WakeUp
  <2>1. pc' \in [Threads -> Labels]
    BY <1>0, <1>6, GoTo DEF WakeUp, Labels
  <2> QED
    BY <1>6, <2>1 DEF WakeUp, TypeOK, manager, service, local, history
<1>7. CASE CreateProcess
  <2>1. pc' \in [Threads -> Labels]
    BY <1>0, <1>7, GoTo DEF CreateProcess, StopItself, Labels
  <2>2. arg' \in Arguments
    BY <1>7, ArgumentsType DEF CreateProcess
  <2>3. app' \in {"none", "alive"} \cup Dead
    BY <1>7 DEF CreateProcess, TypeOK
  <2> QED
    BY <1>7, <2>1, <2>2, <2>3 DEF CreateProcess, TypeOK, manager, service, local, history, Arguments
<1>8. CASE KeepHandles
  <2>1. pc' \in [Threads -> Labels]
    BY <1>0, <1>8, GoTo DEF KeepHandles, Labels
  <2> QED
    BY <1>8, <2>1 DEF KeepHandles, TypeOK, manager, service, local, history
<1>9. CASE Settle
  <2>1. pc' \in [Threads -> Labels]
    BY <1>0, <1>9, GoTo DEF Settle, Labels
  <2>2. status' \in States /\ reported' \in States /\ nssm' \in {"up", "leaving", "down"}
    BY <1>9, SignalType DEF Settle, States
  <2> QED
    BY <1>9, <2>1, <2>2 DEF Settle, TypeOK, manager, service, local, history
<1>10. CASE Settled
  <2>1. pc' \in [Threads -> Labels]
    BY <1>0, <1>10, GoTo DEF Settled, Labels
  <2>2. throttle' \in 0 .. MaxThrottle + 2 /\ owed' \in BOOLEAN
    BY <1>10, BoundsAssumption DEF Settled, TypeOK
  <2> QED
    BY <1>10, <2>1, <2>2 DEF Settled, TypeOK, manager, service, local, history
<1>11. CASE RegisterWait
  <2>1. pc' \in [Threads -> Labels]
    BY <1>0, <1>11, GoTo DEF RegisterWait, Labels
  <2>2. wait_handle' \in BOOLEAN
    BY <1>11, Zenon DEF RegisterWait, TypeOK
  <2> QED
    BY <1>11, <2>1, <2>2 DEF RegisterWait, TypeOK, manager, service, local, history
<1>12. CASE Callback
  <2>1. pc' \in [Threads -> Labels]
    BY <1>0, <1>12, GoTo DEF Callback, Labels
  <2>2. arg' \in Arguments
    BY <1>12 DEF Callback, TypeOK, Arguments
  <2> QED
    BY <1>12, <2>1, <2>2 DEF Callback, TypeOK, manager, service, local, history, Arguments
<1>13. CASE Decide
  <2>1. pc' \in [Threads -> Labels]
    BY <1>0, <1>13, GoTo DEF Decide, StopItself, Labels
  <2>2. arg' \in Arguments
    BY <1>13, ArgumentsType DEF Decide
  <2> QED
    BY <1>13, <2>1, <2>2 DEF Decide, TypeOK, manager, service, local, history, Arguments
<1>14. CASE Suicide
  <2>1. pc' \in [Threads -> Labels]
    BY <1>0, <1>14, GoTo DEF Suicide, Labels
  <2>2. reported' \in States
    BY <1>14 DEF Suicide, States
  <2> QED
    BY <1>14, <2>1, <2>2 DEF Suicide, TypeOK, manager, service, local, history
<1>15. CASE TryAgain
  <2>1. pc' \in [Threads -> Labels]
    BY <1>0, <1>15, GoTo DEF TryAgain, Labels
  <2> QED
    BY <1>15, <2>1 DEF TryAgain, TypeOK, manager, service, local, history
<1> QED
  BY <1>1, <1>2, <1>3, <1>4, <1>5, <1>6, <1>7, <1>8,
     <1>9, <1>10, <1>11, <1>12, <1>13, <1>14, <1>15, <1>16, <1>17 DEF MonitorService

LEMMA TypeNext == TypeOK /\ Limited /\ [Next]_vars => TypeOK'
<1> SUFFICES ASSUME TypeOK, Limited, [Next]_vars PROVE TypeOK'
  OBVIOUS
<1>0. "handler" \in Threads /\ Stops \subseteq Threads
  BY DEF Threads
<1>1. CASE ControlContinue
  <2>1. pc' \in [Threads -> Labels]
    BY <1>0, <1>1, GoTo DEF ControlContinue, Labels
  <2>2. throttle' \in 0 .. MaxThrottle + 2 /\ continues' \in 0 .. cfg.continues /\ clean' \in {"no", "yes", "lost"}
    BY <1>1, BoundsAssumption, ConfigurationType DEF ControlContinue, TypeOK
  <2> QED
    BY ZenonT(60), <1>1, <2>1, <2>2 DEF ControlContinue, TypeOK, manager, service, local, history
<1>2. CASE StopReturns
  <2>1. pc' \in [Threads -> Labels]
    BY <1>0, <1>2, GoTo DEF StopReturns, Labels
  <2> QED
    BY <1>2, <2>1 DEF StopReturns, TypeOK, manager, service, local, history
<1>3. CASE SetContinuePending
  <2>1. pc' \in [Threads -> Labels]
    BY <1>0, <1>3, GoTo DEF SetContinuePending, Labels
  <2>2. status' \in States
    BY <1>3 DEF SetContinuePending, States, TypeOK
  <2> QED
    BY <1>3, <2>1, <2>2 DEF SetContinuePending, TypeOK, manager, service, local, history
<1>4. CASE ReportContinue
  <2>1. pc' \in [Threads -> Labels]
    BY <1>0, <1>4, GoTo DEF ReportContinue, Labels
  <2>2. reported' \in States /\ nssm' \in {"up", "leaving", "down"}
    BY <1>4, ReportType DEF ReportContinue, TypeOK
  <2> QED
    BY <1>4, <2>1, <2>2 DEF ReportContinue, TypeOK, manager, service, local, history
<1>5. CASE Dies
  BY <1>5 DEF Dies, TypeOK, manager, service, local, history, Dead
<1>6. CASE Leaves
  BY <1>6 DEF Leaves, TypeOK, manager, service, local, history, Dead
<1>7. CASE UNCHANGED vars
  BY <1>7 DEF vars, TypeOK, manager, service, local, history
<1>8. CASE \E t \in Stops : ControlStop(t)
  <2>1. pc' \in [Threads -> Labels]
    BY <1>0, <1>8 DEF ControlStop, Go, TypeOK, Labels
  <2> QED
    BY <1>8, <2>1 DEF ControlStop, TypeOK, manager, service, local, history
<1> QED
  BY <1>1, <1>2, <1>3, <1>4, <1>5, <1>6, <1>7, <1>8, TypeStop, TypeMonitor
     DEF Next, ControlHandler

\* Nobody else moves the launcher.
LEMMA LauncherAlone ==
  ASSUME TypeOK, NEW t \in Threads \ {"launcher"}, NEW label \in Labels, Go(t, label)
  PROVE  pc'["launcher"] = pc["launcher"]
BY DEF TypeOK, Go, Threads

LEMMA LimitedNext == TypeOK /\ Limited /\ [Next]_vars => Limited'
<1> SUFFICES ASSUME TypeOK, Limited, [Next]_vars PROVE Limited'
  OBVIOUS
<1>0. /\ pc \in [Threads -> Labels] /\ {"launcher", "handler"} \subseteq Threads
      /\ Stops \subseteq Threads \ {"launcher", "handler"}
      /\ throttle \in Nat /\ seen \in Nat /\ seen <= MaxThrottle + 1
  BY StopsAssumption, BoundsAssumption DEF TypeOK, Threads
<1>1. CASE IncrementThrottle
  <2>1. \/ throttle' = 1
        \/ pc'["launcher"] = "clamp"
    BY <1>0, <1>1 DEF IncrementThrottle, Go
  <2> QED
    BY <2>1, BoundsAssumption DEF Limited
<1>2. CASE ClampThrottle
  <2>1. throttle' = throttle
    BY <1>2 DEF ClampThrottle, service
  <2>2. throttle > MaxThrottle => pc'["launcher"] = "limit"
    BY <1>0, <1>2 DEF ClampThrottle, Go
  <2> QED
    BY <1>0, <2>1, <2>2, BoundsAssumption DEF Limited
<1>3. CASE throttle' \in {0, 1, MaxThrottle + 1}
  BY <1>3, BoundsAssumption DEF Limited
<1>4. CASE throttle' = throttle /\ (pc["launcher"] \in {"clamp", "limit"} =>
                                      pc'["launcher"] = pc["launcher"])
  BY <1>4 DEF Limited
<1>5. CASE LimitThrottle \/ ControlContinue
  <2>1. throttle' \in {0, MaxThrottle + 1}
    BY <1>5 DEF LimitThrottle, ControlContinue
  <2> QED
    BY <1>3, <2>1
<1>6. CASE MonitorService /\ ~ IncrementThrottle /\ ~ ClampThrottle /\ ~ LimitThrottle
  <2>1. throttle' \in {0, 1, throttle} /\ pc["launcher"] \notin {"clamp", "limit"}
    BY <1>6 DEF MonitorService, StartService, GetParameters, ReadThrottle, Pause, WakeUp,
       CreateProcess, KeepHandles, Settle, Settled, RegisterWait, Callback, Decide,
       Suicide, TryAgain, At, service
  <2> QED
    BY <1>3, <1>4, <2>1
<1>7. CASE \E t \in Stops \cup {"launcher"} : StopService(t)
  <2> PICK t \in Stops \cup {"launcher"} : StopService(t)
    BY <1>7
  <2>1. throttle' = throttle /\ pc[t] \notin {"clamp", "limit"}
    BY DEF StopService, StopBegins, StopPending, Kill, AwaitShutdown, Terminate,
           EndCheck, EndBegins, KillTree, Forget, Stopped, Report, service, At
  <2>2. \E label \in Labels : Go(t, label)
    BY AfterwardsType
       DEF StopService, StopBegins, StopPending, Kill, AwaitShutdown, Terminate,
           EndCheck, EndBegins, KillTree, Forget, Stopped, Report, Labels
  <2> QED
    BY <1>0, <1>4, <2>1, <2>2 DEF Go
<1>8. CASE ControlHandler \/ Dies \/ Leaves \/ UNCHANGED vars
  <2>1. throttle' = throttle
    BY <1>8 DEF ControlHandler, StopReturns, SetContinuePending, ReportContinue, Dies,
       Leaves, vars, service
  <2>2. pc'["launcher"] = pc["launcher"]
    BY <1>0, <1>8 DEF ControlHandler, StopReturns, SetContinuePending, ReportContinue,
       Dies, Leaves, vars, Go
  <2> QED
    BY <1>4, <2>1, <2>2
<1>9. CASE \E t \in Stops : ControlStop(t)
  <2>1. throttle' = throttle /\ pc'["launcher"] = pc["launcher"]
    BY <1>0, <1>9 DEF ControlStop, Go, service
  <2> QED
    BY <1>4, <2>1
<1> QED
  BY <1>1, <1>2, <1>5, <1>6, <1>7, <1>8, <1>9 DEF Next

\* TypeOK: the shared structure and the threads stay in their types, the throttle
\* within its limit.
THEOREM TypeCorrect == Spec => []TypeOK
<1>1. Init => Limited
  BY BoundsAssumption DEF Init, Limited
<1> QED
  BY <1>1, TypeInit, TypeNext, LimitedNext, PTL DEF Spec

-----------------------------------------------------------------------------
\* A launch that owes a pause finds a throttle to pause for.
PauseOwed ==
  /\ owed => throttle > 0
  /\ owed /\ pc["launcher"] = "increment" => seen > 0

LEMMA PauseOwedNext == TypeOK /\ PauseOwed /\ [Next]_vars => PauseOwed'
<1> SUFFICES ASSUME TypeOK, PauseOwed, [Next]_vars PROVE PauseOwed'
  OBVIOUS
<1>0. /\ pc \in [Threads -> Labels] /\ {"launcher", "handler"} \subseteq Threads
      /\ Stops \subseteq Threads \ {"launcher", "handler"}
      /\ throttle \in Nat /\ seen \in Nat
  BY StopsAssumption, BoundsAssumption DEF TypeOK, Threads
<1>1. CASE ReadThrottle
  <2>1. throttle' = throttle /\ owed' = owed /\ seen' = throttle
    BY <1>1 DEF ReadThrottle, service, history
  <2> QED
    BY <2>1 DEF PauseOwed
<1>2. CASE IncrementThrottle
  <2>1. throttle' > 0 /\ pc'["launcher"] # "increment"
    BY <1>0, <1>2, BoundsAssumption DEF IncrementThrottle, Go
  <2> QED
    BY <2>1 DEF PauseOwed
<1>10. CASE LimitThrottle
  <2>1. throttle' > 0 /\ pc'["launcher"] # "increment"
    BY <1>0, <1>10, BoundsAssumption DEF LimitThrottle, Go
  <2> QED
    BY <2>1 DEF PauseOwed
<1>3. CASE Settled
  <2>1. owed' => throttle' > 0
    BY <1>0, <1>3, ConfigurationType, BoundsAssumption DEF Settled, PauseOwed
  <2>2. pc'["launcher"] # "increment"
    BY <1>0, <1>3 DEF Settled, Go
  <2> QED
    BY <2>1, <2>2 DEF PauseOwed
<1>4. CASE ControlContinue
  BY <1>4 DEF ControlContinue, PauseOwed
<1>5. CASE /\ UNCHANGED <<throttle, owed, seen>>
           /\ pc'["launcher"] \in {pc["launcher"]} \cup (Labels \ {"increment"})
  BY <1>5 DEF PauseOwed
<1>6. CASE \E t \in Stops \cup {"launcher"} : StopService(t)
  <2> PICK t \in Stops \cup {"launcher"} : StopService(t)
    BY <1>6
  <2>1. UNCHANGED <<throttle, owed, seen>>
    BY DEF StopService, StopBegins, StopPending, Kill, AwaitShutdown, Terminate,
           EndCheck, EndBegins, KillTree, Forget, Stopped, Report,
           service, local, history
  <2>2. \E label \in Labels \ {"increment"} : Go(t, label)
    BY AfterwardsType, ArgumentsType
       DEF StopService, StopBegins, StopPending, Kill, AwaitShutdown, Terminate,
           EndCheck, EndBegins, KillTree, Forget, Stopped, Report, Labels, Afterwards
  <2> QED
    BY <1>0, <1>5, <2>1, <2>2 DEF Go
<1>7. CASE /\ MonitorService /\ ~ ReadThrottle
           /\ ~ IncrementThrottle /\ ~ LimitThrottle /\ ~ Settled
  <2>1. UNCHANGED <<throttle, owed, seen>>
    BY <1>7 DEF MonitorService, StartService, GetParameters, ClampThrottle, Pause, WakeUp,
       CreateProcess, KeepHandles, Settle, RegisterWait, Callback, Decide, Suicide,
       TryAgain, service, local, history
  <2>2. \E label \in Labels \ {"increment"} : Go("launcher", label)
    BY <1>7 DEF MonitorService, StartService, GetParameters, ClampThrottle, Pause, WakeUp,
       CreateProcess, KeepHandles, Settle, RegisterWait, Callback, Decide, Suicide,
       TryAgain, StopItself, Labels
  <2> QED
    BY <1>0, <1>5, <2>1, <2>2 DEF Go
<1>8. CASE ControlHandler \/ Dies \/ Leaves \/ UNCHANGED vars
  <2>1. UNCHANGED <<throttle, owed, seen>>
    BY <1>8 DEF ControlHandler, StopReturns, SetContinuePending, ReportContinue, Dies,
       Leaves, vars, service, local, history
  <2>2. pc'["launcher"] = pc["launcher"]
    BY <1>0, <1>8 DEF ControlHandler, StopReturns, SetContinuePending, ReportContinue,
       Dies, Leaves, vars, Go
  <2> QED
    BY <1>5, <2>1, <2>2
<1>9. CASE \E t \in Stops : ControlStop(t)
  <2>1. UNCHANGED <<throttle, owed, seen>>
    BY <1>9 DEF ControlStop, service, local, history
  <2>2. pc'["launcher"] = pc["launcher"]
    BY <1>0, <1>9 DEF ControlStop, Go
  <2> QED
    BY <1>5, <2>1, <2>2
<1> QED
  BY <1>1, <1>2, <1>3, <1>4, <1>6, <1>7, <1>8, <1>9, <1>10 DEF Next

\* Throttled: no launch that owes a pause goes without one.
THEOREM ThrottledCorrect == Spec => Throttled
<1>1. Init => PauseOwed
  BY DEF Init, PauseOwed
<1>2. TypeOK /\ PauseOwed /\ [Next]_vars =>
        [pc["launcher"] = "increment" /\ pc'["launcher"] = "create" => ~ owed]_vars
  <2> SUFFICES ASSUME TypeOK, PauseOwed, Next,
                      pc["launcher"] = "increment", pc'["launcher"] = "create"
               PROVE  ~ owed
    OBVIOUS
  <2>0. /\ pc \in [Threads -> Labels] /\ {"launcher", "handler"} \subseteq Threads
        /\ Stops \subseteq Threads \ {"launcher", "handler"} /\ seen \in Nat
    BY StopsAssumption, BoundsAssumption DEF TypeOK, Threads
  <2>1. CASE IncrementThrottle
    <3>1. seen = 0
      BY <2>0, <2>1 DEF IncrementThrottle, Go
    <3> QED
      BY <3>1 DEF PauseOwed
  <2>2. CASE MonitorService /\ ~ IncrementThrottle
    BY <2>2 DEF MonitorService, StartService, GetParameters, ReadThrottle, ClampThrottle,
       LimitThrottle, Pause, WakeUp, CreateProcess, KeepHandles, Settle, Settled, RegisterWait,
       Callback, Decide,
       Suicide, TryAgain, At
  <2>3. CASE \E t \in Stops \cup {"launcher"} : StopService(t)
    <3> PICK t \in Stops \cup {"launcher"} : StopService(t)
      BY <2>3
    <3>1. \E label \in Labels : Go(t, label)
      BY AfterwardsType
         DEF StopService, StopBegins, StopPending, Kill, AwaitShutdown, Terminate,
             EndCheck, EndBegins, KillTree, Forget, Stopped, Report, Labels
    <3>2. t = "launcher"
      BY <2>0, <3>1, LauncherAlone
    <3> QED
      BY <3>2 DEF StopService, StopBegins, StopPending, Kill, AwaitShutdown, Terminate,
             EndCheck, EndBegins, KillTree, Forget, Stopped, Report, At
  <2>4. CASE ControlContinue \/ ControlHandler \/ Dies \/ Leaves
    BY <2>0, <2>4 DEF ControlContinue, ControlHandler, StopReturns, SetContinuePending,
       ReportContinue, Dies, Leaves, Go
  <2>5. CASE \E t \in Stops : ControlStop(t)
    BY <2>0, <2>5 DEF ControlStop, Go
  <2> QED
    BY <2>1, <2>2, <2>3, <2>4, <2>5 DEF Next
<1> QED
  BY <1>1, <1>2, TypeCorrect, PauseOwedNext, PTL DEF Spec, Throttled

-----------------------------------------------------------------------------
\* A thread that has received its STOP never waits for another one.
LEMMA IdleBefore ==
  ASSUME TypeOK, [Next]_vars, NEW s \in Stops, pc'[s] = "idle"
  PROVE  pc[s] = "idle"
<1>0. /\ pc \in [Threads -> Labels] /\ {"launcher", "handler"} \subseteq Threads
      /\ Stops \subseteq Threads \ {"launcher", "handler"}
  BY StopsAssumption DEF TypeOK, Threads
<1>1. CASE \E t \in Stops \cup {"launcher"} : StopService(t)
  <2> PICK t \in Stops \cup {"launcher"} : StopService(t)
    BY <1>1
  <2>1. CASE t = s
    <3>1. \E label \in Labels \ {"idle"} : Go(t, label)
      BY <2>1 DEF StopService, StopBegins, StopPending, Kill, AwaitShutdown, Terminate,
           EndCheck, EndBegins, KillTree, Forget, Stopped, Report, Labels, Afterwards,
           InStop
    <3> QED
      BY <1>0, <2>1, <3>1 DEF Go
  <2>2. CASE t # s
    <3>1. \E label \in Labels : Go(t, label)
      BY AfterwardsType
         DEF StopService, StopBegins, StopPending, Kill, AwaitShutdown, Terminate,
             EndCheck, EndBegins, KillTree, Forget, Stopped, Report, Labels
    <3> QED
      BY <1>0, <2>2, <3>1 DEF Go
  <2> QED
    BY <2>1, <2>2
<1>2. CASE MonitorService
  <2>1. \E label \in Labels : Go("launcher", label)
    BY <1>2 DEF MonitorService, StartService, GetParameters, ReadThrottle,
       IncrementThrottle, ClampThrottle, LimitThrottle,
       Pause, WakeUp, CreateProcess, KeepHandles, Settle, Settled,
       RegisterWait, Callback, Decide, Suicide, TryAgain, StopItself, Labels
  <2> QED
    BY <1>0, <2>1 DEF Go
<1>3. CASE ControlContinue \/ ControlHandler
  <2>1. \E label \in Labels : Go("handler", label)
    BY <1>3 DEF ControlContinue, ControlHandler, StopReturns, SetContinuePending,
       ReportContinue, Labels
  <2> QED
    BY <1>0, <2>1 DEF Go
<1>4. CASE \E t \in Stops : ControlStop(t)
  BY <1>0, <1>4 DEF ControlStop, Go
<1>5. CASE Dies \/ Leaves \/ UNCHANGED vars
  BY <1>5 DEF Dies, Leaves, vars
<1> QED
  BY <1>1, <1>2, <1>3, <1>4, <1>5 DEF Next

Waiting == \A s \in Stops : pc[s] = "idle"

\* Where the launcher may be that does not stop NSSM by itself.
Launching ==
  Labels \ {"stop", "pending", "kill", "await", "terminate", "stopped", "report",
            "suicide", "failed", "over"}

Willing == cfg.action = "restart" /\ ~ May("parameters") /\ ~ May("create")

Trying ==
  Willing /\ Waiting =>
    nssm = "up" /\ status # "STOPPED" /\ ~ arg.stop /\ pc["launcher"] \in Launching

LEMMA TryingNext == TypeOK /\ Trying /\ [Next]_vars => Trying'
<1> SUFFICES ASSUME TypeOK, Trying, [Next]_vars, Willing', Waiting' PROVE Trying'
  BY DEF Trying
<1>0. /\ pc \in [Threads -> Labels] /\ {"launcher", "handler"} \subseteq Threads
      /\ Stops \subseteq Threads \ {"launcher", "handler"}
  BY StopsAssumption DEF TypeOK, Threads
<1>1. Waiting
  BY IdleBefore DEF Waiting
<1>2. cfg' = cfg
  BY DEF Next, StopService, StopBegins, StopPending, Kill, AwaitShutdown, Terminate,
     EndCheck, EndBegins, KillTree, Forget, Stopped, Report, MonitorService, StartService,
     GetParameters, ReadThrottle, IncrementThrottle, ClampThrottle, LimitThrottle,
     Pause, WakeUp, CreateProcess,
     KeepHandles, Settle, Settled, RegisterWait, Callback, Decide, Suicide, TryAgain,
     ControlStop, ControlContinue, ControlHandler, StopReturns, SetContinuePending,
     ReportContinue, Dies, Leaves, vars
<1>3. /\ Willing /\ nssm = "up" /\ status # "STOPPED" /\ ~ arg.stop
      /\ pc["launcher"] \in Launching
  BY <1>1, <1>2 DEF Trying, Willing, May
<1>4. SUFFICES nssm' = "up" /\ status' # "STOPPED" /\ ~ arg'.stop /\ pc'["launcher"] \in Launching
  BY DEF Trying
<1>5. CASE \E t \in Stops \cup {"launcher"} : StopService(t)
  <2> PICK t \in Stops \cup {"launcher"} : StopService(t)
    BY <1>5
  <2>1. t = "launcher"
    BY <1>1 DEF Waiting, StopService, StopBegins, StopPending, Kill, AwaitShutdown,
       Terminate, EndCheck, EndBegins, KillTree, Forget, Stopped, Report, At
  <2>2. EndCheck(t) \/ EndBegins(t) \/ KillTree(t) \/ Forget(t)
    BY <1>3, <2>1 DEF StopService, StopBegins, StopPending, Kill, AwaitShutdown,
       Terminate, Stopped, Report, At, Launching
  <2>3. ~ InStop(t)
    BY <1>0, <1>3, <2>1 DEF InStop
  <2>4. \E label \in {"idle", "end", "tree", "forget", "decide"} : Go("launcher", label)
    BY <2>1, <2>2, <2>3 DEF EndCheck, EndBegins, KillTree, Forget
  <2>5. nssm' = "up" /\ status' # "STOPPED" /\ arg' = arg
    BY <1>3, <2>2 DEF EndCheck, EndBegins, KillTree, Forget, Signal, SetServiceStatus,
       manager, local
  <2> QED
    BY <1>0, <1>3, <2>4, <2>5 DEF Go, Launching, Labels
<1>6. CASE MonitorService
  <2>1. \E label \in {"parameters", "throttle", "increment", "clamp", "limit", "create",
                      "pause", "sleep", "handles", "settle", "clean", "unclean",
                      "register", "idle",
                      "check", "start"} : Go("launcher", label)
    BY <1>3, <1>6 DEF MonitorService, StartService, GetParameters, ReadThrottle,
       IncrementThrottle, ClampThrottle, LimitThrottle,
       Pause, WakeUp, CreateProcess, KeepHandles, Settle, Settled,
       RegisterWait, Callback, Decide, Suicide, TryAgain, Launching, At, Willing
  <2>2. nssm' = "up" /\ status' # "STOPPED"
    BY <1>3, <1>6 DEF MonitorService, StartService, GetParameters, ReadThrottle,
       IncrementThrottle, ClampThrottle, LimitThrottle,
       Pause, WakeUp, CreateProcess, KeepHandles, Settle, Settled,
       RegisterWait, Callback, Decide, Suicide, TryAgain, Launching, At, Signal,
       SetServiceStatus, manager
  <2>3. ~ arg'.stop
    <3>1. CASE StartService \/ Callback
      <4>1. arg \in Arguments
        BY ArgumentsType
      <4>2. CASE StartService
        BY <4>1, <4>2 DEF StartService, Arguments
      <4>3. CASE Callback
        BY <4>3 DEF Callback
      <4> QED
        BY <3>1, <4>2, <4>3
    <3>2. CASE ~ StartService /\ ~ Callback
      BY <1>3, <1>6, <3>2 DEF MonitorService, GetParameters, ReadThrottle,
         IncrementThrottle, ClampThrottle, LimitThrottle,
         Pause, WakeUp, CreateProcess, KeepHandles, Settle, Settled,
         RegisterWait, Decide, Suicide, TryAgain, Launching, At, Willing, local
    <3> QED
      BY <3>1, <3>2
  <2> QED
    BY <1>0, <2>1, <2>2, <2>3 DEF Go, Launching, Labels
<1>7. CASE ControlContinue \/ ControlHandler \/ Dies \/ Leaves \/ UNCHANGED vars
  <2>1. nssm' = "up" /\ status' # "STOPPED" /\ arg' = arg
    BY <1>3, <1>7 DEF ControlContinue, ControlHandler, StopReturns, SetContinuePending,
       ReportContinue, Dies, Leaves, vars, manager, local, SetServiceStatus
  <2>2. pc'["launcher"] = pc["launcher"]
    BY <1>0, <1>7 DEF ControlContinue, ControlHandler, StopReturns, SetContinuePending,
       ReportContinue, Dies, Leaves, vars, Go
  <2> QED
    BY <1>3, <2>1, <2>2
<1>8. CASE \E t \in Stops : ControlStop(t)
  BY <1>0, <1>8 DEF ControlStop, Go, Waiting
<1> QED
  BY <1>5, <1>6, <1>7, <1>8 DEF Next

\* KeepsTrying: told to restart the application, NSSM does not leave by itself.
THEOREM KeepsTryingCorrect == Spec => []KeepsTrying
<1>1. Init => Trying
  BY DEF Init, Trying, Launching, Labels, Threads
<1>2. Trying => KeepsTrying
  BY DEF Trying, Willing, Waiting, KeepsTrying
<1> QED
  BY <1>1, <1>2, TypeCorrect, TryingNext, PTL DEF Spec

-----------------------------------------------------------------------------
\* Only a thread that still uses its copy of the handle has a stale one.
StaleInUse == \A t \in stale : pc[t] \in {"await", "terminate"}

\* The launcher after it has stopped NSSM by itself.
Gone == {"report", "failed", "over", "suicide"}

\* Before any STOP, NSSM is only left by its launcher.
BeforeStop ==
  clean = "no" =>
    /\ \A s \in Stops : pc[s] \in {"idle", "stop"}
    /\ nssm # "up" => pc["launcher"] \in Gone
    /\ nssm = "up" /\ status = "STOPPED" => pc["launcher"] = "report"

\* A STOP that meets nothing else: the launcher rests, the other STOPs have not
\* begun, and past kill_process() the application is dead.
Alone(s) ==
  /\ \A u \in Stops \ {s} : pc[u] \in {"idle", "stop"}
  /\ pc[s] \notin {"idle", "stop"} /\ s \notin stale
  /\ pc[s] \in {"pending", "kill"} => pid /\ process_handle
  /\ cfg.terminate /\ pc[s] \notin {"pending", "kill", "await", "terminate"} =>
       app # "alive"
  /\ nssm # "up" => pc[s] = "over"

DuringStop ==
  clean = "yes" =>
    /\ pc["launcher"] = "idle" /\ ~ wait_handle /\ pc["handler"] \in {"idle", "stopping"}
    /\ \E s \in Stops : Alone(s)

CleanInv == StaleInUse /\ BeforeStop /\ DuringStop

LEMMA StaleNext == TypeOK /\ StaleInUse /\ [Next]_vars => StaleInUse'
<1> SUFFICES ASSUME TypeOK, StaleInUse, [Next]_vars, NEW u \in stale'
             PROVE  pc'[u] \in {"await", "terminate"}
  BY DEF StaleInUse
<1>0. /\ pc \in [Threads -> Labels] /\ {"launcher", "handler"} \subseteq Threads
      /\ Stops \subseteq Threads \ {"launcher", "handler"} /\ stale \subseteq Threads
  BY StopsAssumption DEF TypeOK, Threads
<1>1. CASE \E t \in Stops \cup {"launcher"} : StopService(t)
  <2> PICK t \in Stops \cup {"launcher"} : StopService(t)
    BY <1>1
  <2>1. \E label \in Labels : Go(t, label)
    BY AfterwardsType
       DEF StopService, StopBegins, StopPending, Kill, AwaitShutdown, Terminate,
           EndCheck, EndBegins, KillTree, Forget, Stopped, Report, Labels
  <2>2. u # t => pc'[u] = pc[u]
    BY <1>0, <2>1 DEF Go
  <2>3. CASE EndBegins(t)
    BY <1>0, <2>2, <2>3 DEF EndBegins, Go, StaleInUse, At
  <2>4. CASE AwaitShutdown(t)
    BY <1>0, <2>2, <2>4 DEF AwaitShutdown, Go, StaleInUse
  <2>5. CASE Terminate(t)
    BY <1>0, <2>2, <2>5 DEF Terminate, Go, StaleInUse
  <2>6. CASE stale' = stale /\ pc[t] \notin {"await", "terminate"}
    BY <1>0, <2>2, <2>6 DEF StaleInUse
  <2> QED
    BY <2>3, <2>4, <2>5, <2>6 DEF StopService, StopBegins, StopPending, Kill,
       EndCheck, KillTree, Forget, Stopped, Report, local, At
<1>2. CASE MonitorService
  <2>1. stale' = stale /\ pc["launcher"] \notin {"await", "terminate"}
    BY <1>2 DEF MonitorService, StartService, GetParameters, ReadThrottle,
       IncrementThrottle, ClampThrottle, LimitThrottle,
       Pause, WakeUp, CreateProcess, KeepHandles, Settle, Settled,
       RegisterWait, Callback, Decide, Suicide, TryAgain, local, At
  <2>2. \E label \in Labels : Go("launcher", label)
    BY <1>2 DEF MonitorService, StartService, GetParameters, ReadThrottle,
       IncrementThrottle, ClampThrottle, LimitThrottle,
       Pause, WakeUp, CreateProcess, KeepHandles, Settle, Settled,
       RegisterWait, Callback, Decide, Suicide, TryAgain, StopItself, Labels
  <2> QED
    BY <1>0, <2>1, <2>2 DEF Go, StaleInUse
<1>3. CASE ControlContinue \/ ControlHandler
  <2>1. stale' = stale /\ pc["handler"] \notin {"await", "terminate"}
    BY <1>3 DEF ControlContinue, ControlHandler, StopReturns, SetContinuePending,
       ReportContinue, local, At, Accepts
  <2>2. \E label \in Labels : Go("handler", label)
    BY <1>3 DEF ControlContinue, ControlHandler, StopReturns, SetContinuePending,
       ReportContinue, Labels
  <2> QED
    BY <1>0, <2>1, <2>2 DEF Go, StaleInUse
<1>4. CASE \E t \in Stops : ControlStop(t)
  BY <1>0, <1>4 DEF ControlStop, Accepts, Go, local, StaleInUse
<1>5. CASE Dies \/ Leaves \/ UNCHANGED vars
  BY <1>5 DEF Dies, Leaves, vars, local, StaleInUse
<1> QED
  BY <1>1, <1>2, <1>3, <1>4, <1>5 DEF Next

LEMMA BeforeNext == TypeOK /\ BeforeStop /\ [Next]_vars => BeforeStop'
<1> SUFFICES ASSUME TypeOK, BeforeStop, [Next]_vars, clean' = "no" PROVE BeforeStop'
  BY DEF BeforeStop
<1>0. /\ pc \in [Threads -> Labels] /\ {"launcher", "handler"} \subseteq Threads
      /\ Stops \subseteq Threads \ {"launcher", "handler"}
  BY StopsAssumption DEF TypeOK, Threads
<1>1. CASE \E t \in Stops \cup {"launcher"} : StopService(t)
  <2> PICK t \in Stops \cup {"launcher"} : StopService(t)
    BY <1>1
  <2>1. clean = "no"
    BY DEF StopService, StopBegins, StopPending, Kill, AwaitShutdown, Terminate,
           EndCheck, EndBegins, KillTree, Forget, Stopped, Report, history
  <2>2. /\ \A s \in Stops : pc[s] \in {"idle", "stop"}
        /\ nssm # "up" => pc["launcher"] \in Gone
        /\ nssm = "up" /\ status = "STOPPED" => pc["launcher"] = "report"
    BY <2>1 DEF BeforeStop
  <2>3. t = "launcher"
    BY <2>2 DEF StopService, StopBegins, StopPending, Kill, AwaitShutdown, Terminate,
           EndCheck, EndBegins, KillTree, Forget, Stopped, Report, At
  <2>4. \E label \in Labels : Go("launcher", label)
    BY <2>3, AfterwardsType
       DEF StopService, StopBegins, StopPending, Kill, AwaitShutdown, Terminate,
           EndCheck, EndBegins, KillTree, Forget, Stopped, Report, Labels
  <2>5. \A s \in Stops : pc'[s] \in {"idle", "stop"}
    BY <1>0, <2>2, <2>4 DEF Go
  <2>6. Afterwards("launcher") \in Gone
    BY <1>0, ArgumentsType DEF Afterwards, Gone
  <2>7. CASE Stopped(t)
    <3>1. nssm' = nssm /\ nssm = "up"
      BY <2>2, <2>3, <2>7 DEF Stopped, manager, At, Gone
    <3>2. CASE status' = "STOPPED" /\ Go("launcher", "report")
      BY <1>0, <2>5, <3>1, <3>2 DEF BeforeStop, Go
    <3>3. CASE status' = status
      BY <2>2, <2>3, <2>5, <2>7, <3>1, <3>3 DEF BeforeStop, Stopped, At
    <3> QED
      BY <2>3, <2>7, <3>2, <3>3 DEF Stopped
  <2>8. CASE Report(t)
    <3>1. pc'["launcher"] \in Gone
      BY <1>0, <2>3, <2>6, <2>8 DEF Report, Go
    <3>2. nssm' = "up" => status' # "STOPPED"
      BY <2>8 DEF Report, SetServiceStatus
    <3> QED
      BY <2>5, <3>1, <3>2 DEF BeforeStop
  <2>9. CASE ~ Stopped(t) /\ ~ Report(t)
    <3>1. nssm = "up" /\ status # "STOPPED"
      BY <2>2, <2>3, <2>9 DEF StopService, StopBegins, StopPending, Kill, AwaitShutdown,
         Terminate, EndCheck, EndBegins, KillTree, Forget, At, Gone
    <3>2. nssm' = "up" /\ status' # "STOPPED"
      BY <3>1, <2>9 DEF StopService, StopBegins, StopPending, Kill, AwaitShutdown,
         Terminate, EndCheck, EndBegins, KillTree, Forget, Signal, SetServiceStatus,
         manager
    <3> QED
      BY <2>5, <3>2 DEF BeforeStop
  <2> QED
    BY <2>7, <2>8, <2>9
<1>2. CASE MonitorService
  <2>1. clean = "no"
    BY <1>2 DEF MonitorService, StartService, GetParameters, ReadThrottle,
       IncrementThrottle, ClampThrottle, LimitThrottle,
       Pause, WakeUp, CreateProcess, KeepHandles, Settle, Settled,
       RegisterWait, Callback, Decide, Suicide, TryAgain, history
  <2>2. /\ \A s \in Stops : pc[s] \in {"idle", "stop"}
        /\ nssm # "up" => pc["launcher"] \in Gone
        /\ nssm = "up" /\ status = "STOPPED" => pc["launcher"] = "report"
    BY <2>1 DEF BeforeStop
  <2>3. \E label \in Labels : Go("launcher", label)
    BY <1>2 DEF MonitorService, StartService, GetParameters, ReadThrottle,
       IncrementThrottle, ClampThrottle, LimitThrottle,
       Pause, WakeUp, CreateProcess, KeepHandles, Settle, Settled,
       RegisterWait, Callback, Decide, Suicide, TryAgain, StopItself, Labels
  <2>4. \A s \in Stops : pc'[s] \in {"idle", "stop"}
    BY <1>0, <2>2, <2>3 DEF Go
  <2>5. CASE Suicide
    BY <1>0, <2>4, <2>5 DEF Suicide, BeforeStop, Go, Gone
  <2>6. CASE ~ Suicide
    <3>1. nssm = "up" /\ status # "STOPPED"
      BY <1>2, <2>2, <2>6 DEF MonitorService, StartService, GetParameters, ReadThrottle,
       IncrementThrottle, ClampThrottle, LimitThrottle,
       Pause, WakeUp, CreateProcess, KeepHandles, Settle, Settled,
       RegisterWait, Callback, Decide, TryAgain, Gone, At
    <3>2. nssm' = "up" /\ status' # "STOPPED"
      BY <1>2, <2>6, <3>1 DEF MonitorService, StartService, GetParameters, ReadThrottle,
       IncrementThrottle, ClampThrottle, LimitThrottle,
       Pause, WakeUp, CreateProcess, KeepHandles, Settle, Settled,
       RegisterWait, Callback, Decide, TryAgain, Signal, SetServiceStatus, manager
    <3> QED
      BY <2>4, <3>2 DEF BeforeStop
  <2> QED
    BY <2>5, <2>6
<1>3. CASE ControlContinue \/ ControlHandler \/ Dies \/ Leaves \/ UNCHANGED vars
  <2>1. clean = "no"
    BY <1>3 DEF ControlContinue, ControlHandler, StopReturns, SetContinuePending,
       ReportContinue, Dies, Leaves, vars, history
  <2>2. /\ \A s \in Stops : pc[s] \in {"idle", "stop"}
        /\ nssm # "up" => pc["launcher"] \in Gone
        /\ nssm = "up" /\ status = "STOPPED" => pc["launcher"] = "report"
    BY <2>1 DEF BeforeStop
  <2>3. /\ pc'["launcher"] = pc["launcher"] /\ \A s \in Stops : pc'[s] = pc[s]
    BY <1>0, <1>3 DEF ControlContinue, ControlHandler, StopReturns, SetContinuePending,
       ReportContinue, Dies, Leaves, vars, Go
  <2>4. nssm' # "up" => pc["launcher"] \in Gone
    BY <1>3, <2>2 DEF ControlContinue, ControlHandler, StopReturns, SetContinuePending,
       ReportContinue, SetServiceStatus, Dies, Leaves, vars, manager, Gone
  <2>5. nssm' = "up" /\ status' = "STOPPED" => pc["launcher"] = "report"
    BY <1>3, <2>2 DEF ControlContinue, ControlHandler, StopReturns, SetContinuePending,
       ReportContinue, SetServiceStatus, Dies, Leaves, vars, manager
  <2> QED
    BY <2>2, <2>3, <2>4, <2>5 DEF BeforeStop
<1>4. CASE \E t \in Stops : ControlStop(t)
  <2> PICK t \in Stops : ControlStop(t)
    BY <1>4
  <2>1. UNCHANGED <<clean, nssm, status>>
    BY DEF ControlStop, history, manager
  <2>2. /\ pc'["launcher"] = pc["launcher"]
        /\ \A s \in Stops : pc'[s] = IF s = t THEN "stop" ELSE pc[s]
    BY <1>0 DEF ControlStop, Go
  <2> QED
    BY <2>1, <2>2 DEF BeforeStop
<1> QED
  BY <1>1, <1>2, <1>3, <1>4 DEF Next

\* The first STOP begins while nothing else is at work.
LEMMA DuringBegins ==
  ASSUME TypeOK, CleanInv, NEW s \in Stops, StopBegins(s), clean' = "yes"
  PROVE  DuringStop'
<1>0. /\ pc \in [Threads -> Labels] /\ {"launcher", "handler"} \subseteq Threads
      /\ Stops \subseteq Threads \ {"launcher", "handler"}
  BY StopsAssumption DEF TypeOK, Threads
<1>1. clean = "no" /\ pid /\ process_handle /\ pc["launcher"] = "idle" /\ pc["handler"] = "idle"
  BY DEF StopBegins, Undisturbed
<1>2. nssm = "up" /\ \A u \in Stops : pc[u] \in {"idle", "stop"}
  BY <1>1 DEF CleanInv, BeforeStop, Gone
<1>3. Go(s, "pending") /\ pc[s] = "stop"
  BY DEF StopBegins, Graceful, At
<1>4. /\ pc'[s] = "pending"
      /\ \A u \in Threads \ {s} : pc'[u] = pc[u]
  BY <1>0, <1>3 DEF Go
<1>5. s \notin stale
  BY <1>3 DEF CleanInv, StaleInUse
<1>6. UNCHANGED <<nssm, pid, process_handle, stale>> /\ ~ wait_handle'
  BY DEF StopBegins, manager, local
<1>7. Alone(s)'
  BY <1>0, <1>1, <1>2, <1>4, <1>5, <1>6 DEF Alone
<1> QED
  BY <1>0, <1>1, <1>4, <1>6, <1>7 DEF DuringStop

\* It goes on alone.
LEMMA AloneStep ==
  ASSUME TypeOK, CleanInv, NEW s \in Stops, Alone(s), StopService(s)
  PROVE  Alone(s)'
<1>0. pc \in [Threads -> Labels] /\ Stops \subseteq Threads
  BY DEF TypeOK, Threads
<1>1. /\ \A u \in Stops \ {s} : pc[u] \in {"idle", "stop"}
      /\ pc[s] \notin {"idle", "stop"} /\ s \notin stale
      /\ pc[s] \in {"pending", "kill"} => pid /\ process_handle
      /\ cfg.terminate /\ pc[s] \notin {"pending", "kill", "await", "terminate"} =>
           app # "alive"
      /\ nssm # "up" => pc[s] = "over"
  BY DEF Alone
<1>2. /\ nssm = "up" /\ ~ StopBegins(s)
  BY <1>1 DEF StopService, StopBegins, StopPending, Kill, AwaitShutdown, Terminate,
       EndCheck, EndBegins, KillTree, Forget, Stopped, Report, At
<1>3. \E label \in Labels \ {"idle", "stop"} : Go(s, label)
  BY <1>2 DEF StopService, StopPending, Kill, AwaitShutdown, Terminate,
       EndCheck, EndBegins, KillTree, Forget, Stopped, Report, Labels, Afterwards, InStop
<1>4. /\ \A u \in Stops \ {s} : pc'[u] \in {"idle", "stop"}
      /\ pc'[s] \notin {"idle", "stop"}
  BY <1>0, <1>1, <1>3 DEF Go
<1>5. s \notin stale'
  BY <1>1, <1>2 DEF StopService, StopPending, Kill, AwaitShutdown, Terminate,
       EndCheck, EndBegins, KillTree, Forget, Stopped, Report, local, At
<1>6. pc'[s] \in {"pending", "kill"} => pid' /\ process_handle'
  BY <1>0, <1>1, <1>2 DEF StopService, StopPending, Kill, AwaitShutdown, Terminate,
       EndCheck, EndBegins, KillTree, Forget, Stopped, Report, service, At, Go, Afterwards
<1>7. nssm' # "up" => pc'[s] = "over"
  BY <1>0, <1>2 DEF StopService, StopPending, Kill, AwaitShutdown, Terminate,
       EndCheck, EndBegins, KillTree, Forget, Stopped, Report, manager, Signal,
       SetServiceStatus, Go, Afterwards
<1>8. cfg'.terminate /\ pc'[s] \notin {"pending", "kill", "await", "terminate"} =>
        app' # "alive"
  <2> SUFFICES ASSUME cfg.terminate,
                      pc'[s] \notin {"pending", "kill", "await", "terminate"}
               PROVE  app' # "alive"
    BY DEF StopService, StopBegins, StopPending, Kill, AwaitShutdown, Terminate,
       EndCheck, EndBegins, KillTree, Forget, Stopped, Report
  <2>1. CASE StopPending(s)
    BY <1>0, <2>1 DEF StopPending, Go
  <2>2. CASE Kill(s)
    BY <1>0, <1>1, <2>2 DEF Kill, Go, At
  <2>3. CASE AwaitShutdown(s)
    BY <1>0, <2>3 DEF AwaitShutdown, Go, Dead
  <2>4. CASE Terminate(s)
    BY <1>1, <2>4 DEF Terminate
  <2>5. CASE EndCheck(s) \/ EndBegins(s) \/ KillTree(s) \/ Forget(s) \/ Stopped(s)
             \/ Report(s)
    BY <1>1, <2>5 DEF EndCheck, EndBegins, KillTree, Forget, Stopped, Report, At
  <2> QED
    BY <1>2, <2>1, <2>2, <2>3, <2>4, <2>5 DEF StopService
<1> QED
  BY <1>4, <1>5, <1>6, <1>7, <1>8 DEF Alone

LEMMA DuringNext == TypeOK /\ CleanInv /\ [Next]_vars => DuringStop'
<1> SUFFICES ASSUME TypeOK, CleanInv, [Next]_vars, clean' = "yes" PROVE DuringStop'
  BY DEF DuringStop
<1>0. /\ pc \in [Threads -> Labels] /\ {"launcher", "handler"} \subseteq Threads
      /\ Stops \subseteq Threads \ {"launcher", "handler"}
  BY StopsAssumption DEF TypeOK, Threads
<1>1. CASE \E s \in Stops : StopBegins(s)
  BY <1>1, DuringBegins
<1>2. CASE ~ \E s \in Stops : StopBegins(s)
  <2>1. clean = "yes"
    BY <1>2 DEF Next, StopService, StopBegins, StopPending, Kill, AwaitShutdown,
       Terminate, EndCheck, EndBegins, KillTree, Forget, Stopped, Report, MonitorService,
       StartService, GetParameters, ReadThrottle, IncrementThrottle, ClampThrottle, LimitThrottle,
       Pause, WakeUp,
       CreateProcess, KeepHandles, Settle, Settled, RegisterWait, Callback, Decide,
       Suicide, TryAgain, ControlStop, ControlContinue, ControlHandler, StopReturns,
       SetContinuePending, ReportContinue, Dies, Leaves, vars, history
  <2>2. pc["launcher"] = "idle" /\ ~ wait_handle /\ pc["handler"] \in {"idle", "stopping"}
    BY <2>1 DEF CleanInv, DuringStop
  <2> PICK s \in Stops : Alone(s)
    BY <2>1 DEF CleanInv, DuringStop
  <2>3. CASE \E t \in Stops \cup {"launcher"} : StopService(t)
    <3> PICK t \in Stops \cup {"launcher"} : StopService(t)
      BY <2>3
    <3>1. t = s
      BY <1>2, <2>2 DEF Alone, StopService, StopBegins, StopPending, Kill, AwaitShutdown,
         Terminate, EndCheck, EndBegins, KillTree, Forget, Stopped, Report, At
    <3>2. Alone(s)'
      BY <3>1, AloneStep
    <3>3. wait_handle' = wait_handle
      BY <1>2, <3>1 DEF StopService, StopPending, Kill, AwaitShutdown,
         Terminate, EndCheck, EndBegins, KillTree, Forget, Stopped, Report, service
    <3>4. pc'["launcher"] = pc["launcher"] /\ pc'["handler"] = pc["handler"]
      <4>1. \E label \in Labels : Go(s, label)
        BY <3>1, AfterwardsType
           DEF StopService, StopBegins, StopPending, Kill, AwaitShutdown, Terminate,
               EndCheck, EndBegins, KillTree, Forget, Stopped, Report, Labels
      <4> QED
        BY <1>0, <4>1 DEF Go
    <3> QED
      BY <2>2, <3>2, <3>3, <3>4 DEF DuringStop
  <2>4. CASE MonitorService
    BY <2>2, <2>4 DEF MonitorService, StartService, GetParameters, ReadThrottle,
       IncrementThrottle, ClampThrottle, LimitThrottle,
       Pause, WakeUp, CreateProcess, KeepHandles, Settle, Settled,
       RegisterWait, Callback, Decide, Suicide, TryAgain, At
  <2>5. CASE StopReturns \/ Dies \/ Leaves \/ UNCHANGED vars
    <3>1. /\ pc'["launcher"] = pc["launcher"]
          /\ pc'["handler"] \in {"idle", "stopping"}
          /\ \A u \in Stops : pc'[u] = pc[u]
      BY <1>0, <2>2, <2>5 DEF StopReturns, Dies, Leaves, vars, Go
    <3>2. UNCHANGED <<stale, pid, process_handle, wait_handle, cfg>>
      BY <2>5 DEF StopReturns, Dies, Leaves, vars, local, service
    <3>3. (app' = "alive" => app = "alive") /\ (nssm' = "up" <=> nssm = "up")
      BY <2>5 DEF StopReturns, Dies, Leaves, vars, manager, Dead
    <3>4. Alone(s)'
      BY <3>1, <3>2, <3>3 DEF Alone
    <3> QED
      BY <2>2, <3>1, <3>2, <3>4 DEF DuringStop
  <2>6. CASE ControlContinue \/ SetContinuePending \/ ReportContinue
    BY <2>1, <2>2, <2>6 DEF ControlContinue, SetContinuePending, ReportContinue, At
  <2>7. CASE \E t \in Stops : ControlStop(t)
    <3> PICK t \in Stops : ControlStop(t)
      BY <2>7
    <3>1. t # s
      BY DEF ControlStop, Alone
    <3>2. /\ pc'["launcher"] = pc["launcher"]
          /\ pc'["handler"] \in {pc["handler"], "stopping"}
          /\ \A u \in Stops : pc'[u] = IF u = t THEN "stop" ELSE pc[u]
      BY <1>0 DEF ControlStop, Go
    <3>3. UNCHANGED <<stale, pid, process_handle, wait_handle, cfg, app, nssm>>
      BY DEF ControlStop, local, service, manager
    <3>4. Alone(s)'
      BY <3>1, <3>2, <3>3 DEF Alone
    <3> QED
      BY <2>2, <3>2, <3>3, <3>4 DEF DuringStop
  <2> QED
    BY <2>3, <2>4, <2>5, <2>6, <2>7 DEF Next, ControlHandler
<1> QED
  BY <1>1, <1>2

\* CleanStop: a STOP that meets nothing else leaves no application behind NSSM.
THEOREM CleanStopCorrect == Spec => []CleanStop
<1>1. Init => CleanInv
  BY StopsAssumption DEF Init, CleanInv, StaleInUse, BeforeStop, DuringStop, Threads
<1>2. TypeOK /\ CleanInv /\ [Next]_vars => CleanInv'
  BY StaleNext, BeforeNext, DuringNext DEF CleanInv
<1>3. CleanInv => CleanStop
  BY DEF CleanInv, DuringStop, Alone, CleanStop
<1> QED
  BY <1>1, <1>2, <1>3, TypeCorrect, PTL DEF Spec

-----------------------------------------------------------------------------
\* Where the launcher is once the launch is done, before it has ended, within the
\* stop_service() it calls, and within the end_service() of either.
Launched == {"settle", "clean", "unclean", "register", "idle"}
Starting ==
  {"parameters", "throttle", "increment", "clamp", "limit", "pause", "sleep", "create",
   "handles"}
Stopping == {"stop", "pending", "kill", "await", "terminate", "stopped", "report"}
Ending   == {"check", "end", "tree", "forget"}

\* From the callback, which waits for a death, to the next launch nothing runs.
NoneAlive ==
  pc["launcher"] \in Labels \ (Launched \cup {"handles", "over"}) => app # "alive"

\* What the launcher finds in the structure when no STOP touches it.
Watched ==
  ~ May("wait") /\ Waiting =>
    /\ pc["launcher"] \in Launched => process_handle /\ pid
    /\ pc["launcher"] = "idle" => wait_handle
    /\ pc["launcher"] \in Starting \cup Launched => ~ stopping
    /\ pc["launcher"] = "check" /\ ~ arg.stop => ~ stopping
    /\ pc["launcher"] \in Starting \cup Launched \cup {"decide"} =>
         ~ arg.stop /\ allow_restart
    /\ pc["launcher"] \in Ending /\ ~ arg.stop => allow_restart
    /\ pc["launcher"] \in Stopping => arg.stop
    /\ pc["launcher"] \in Labels \ (Launched \cup {"check", "end"}) => ~ process_handle
    /\ pc["launcher"] \in {"check", "end"} /\ arg.stop => ~ process_handle

\* Who moves the launcher, and what the others leave it.
LEMMA LauncherRests ==
  ASSUME TypeOK, [Next]_vars, ~ StopService("launcher"), ~ MonitorService
  PROVE  pc'["launcher"] = pc["launcher"] /\ (app' = "alive" => app = "alive")
<1>0. /\ pc \in [Threads -> Labels] /\ {"launcher", "handler"} \subseteq Threads
      /\ Stops \subseteq Threads \ {"launcher", "handler"}
  BY StopsAssumption DEF TypeOK, Threads
<1>1. CASE \E t \in Stops \cup {"launcher"} : StopService(t)
  <2> PICK t \in Stops : StopService(t)
    BY <1>1
  <2>1. \E label \in Labels : Go(t, label)
    BY AfterwardsType
       DEF StopService, StopBegins, StopPending, Kill, AwaitShutdown, Terminate,
           EndCheck, EndBegins, KillTree, Forget, Stopped, Report, Labels
  <2>2. app' = "alive" => app = "alive"
    BY DEF StopService, StopBegins, StopPending, Kill, AwaitShutdown, Terminate,
           EndCheck, EndBegins, KillTree, Forget, Stopped, Report
  <2> QED
    BY <1>0, <2>1, <2>2 DEF Go
<1>2. CASE \E t \in Stops : ControlStop(t)
  BY <1>0, <1>2 DEF ControlStop, Go
<1>3. CASE ControlContinue \/ ControlHandler \/ Dies \/ Leaves \/ UNCHANGED vars
  BY <1>0, <1>3 DEF ControlContinue, ControlHandler, StopReturns, SetContinuePending,
     ReportContinue, Dies, Leaves, vars, Go
<1> QED
  BY <1>1, <1>2, <1>3 DEF Next

LEMMA NoneAliveNext == TypeOK /\ NoneAlive /\ [Next]_vars => NoneAlive'
<1> SUFFICES ASSUME TypeOK, NoneAlive, [Next]_vars PROVE NoneAlive'
  OBVIOUS
<1>0. pc \in [Threads -> Labels] /\ "launcher" \in Threads
  BY DEF TypeOK, Threads
<1>1. CASE StopService("launcher")
  <2>1. app # "alive"
    BY <1>1 DEF NoneAlive, Launched, Labels, StopService, StopBegins, StopPending, Kill,
       AwaitShutdown, Terminate, EndCheck, EndBegins, KillTree, Forget, Stopped, Report, At
  <2>2. app' # "alive"
    BY <1>1, <2>1 DEF StopService, StopBegins, StopPending, Kill,
       AwaitShutdown, Terminate, EndCheck, EndBegins, KillTree, Forget, Stopped, Report
  <2> QED
    BY <2>2 DEF NoneAlive
<1>2. CASE MonitorService
  <2>1. CASE CreateProcess
    <3>1. CASE app' = "alive" /\ Go("launcher", "handles")
      BY <1>0, <3>1 DEF Go, NoneAlive
    <3>2. CASE UNCHANGED app
      BY <2>1, <3>2 DEF CreateProcess, NoneAlive, At, Launched, Labels
    <3> QED
      BY <2>1, <3>1, <3>2 DEF CreateProcess
  <2>2. CASE Callback
    BY <2>2 DEF Callback, Dead, NoneAlive
  <2>3. CASE StartService \/ GetParameters \/ ReadThrottle \/ IncrementThrottle
             \/ ClampThrottle \/ LimitThrottle \/ Pause \/ WakeUp
             \/ Decide \/ Suicide \/ TryAgain
    <3>1. pc["launcher"] \in Labels \ (Launched \cup {"handles", "over"})
      BY <2>3 DEF StartService, GetParameters, ReadThrottle, IncrementThrottle, ClampThrottle, LimitThrottle,
         Pause,
         WakeUp, Decide, Suicide, TryAgain, At, Launched, Labels
    <3>2. app' = app
      BY <2>3 DEF StartService, GetParameters, ReadThrottle, IncrementThrottle, ClampThrottle, LimitThrottle,
         Pause,
         WakeUp, Decide, Suicide, TryAgain
    <3> QED
      BY <3>1, <3>2 DEF NoneAlive
  <2>4. CASE KeepHandles \/ Settle \/ Settled \/ RegisterWait
    <3>1. \E label \in Launched : Go("launcher", label)
      BY <2>4 DEF KeepHandles, Settle, Settled, RegisterWait, Launched
    <3> QED
      BY <1>0, <3>1 DEF Go, NoneAlive
  <2> QED
    BY <1>2, <2>1, <2>2, <2>3, <2>4 DEF MonitorService
<1>3. CASE ~ StopService("launcher") /\ ~ MonitorService
  BY <1>3, LauncherRests DEF NoneAlive
<1> QED
  BY <1>1, <1>2, <1>3

LEMMA WatchedNext == TypeOK /\ Watched /\ [Next]_vars => Watched'
<1> SUFFICES ASSUME TypeOK, Watched, [Next]_vars, ~ May("wait")', Waiting' PROVE Watched'
  BY DEF Watched
<1>0. /\ pc \in [Threads -> Labels] /\ {"launcher", "handler"} \subseteq Threads
      /\ Stops \subseteq Threads \ {"launcher", "handler"}
      /\ pc["launcher"] \in Labels
  BY StopsAssumption DEF TypeOK, Threads
<1>1. Waiting
  BY IdleBefore DEF Waiting
<1>2. cfg' = cfg
  BY DEF Next, StopService, StopBegins, StopPending, Kill, AwaitShutdown, Terminate,
     EndCheck, EndBegins, KillTree, Forget, Stopped, Report, MonitorService, StartService,
     GetParameters, ReadThrottle, IncrementThrottle, ClampThrottle, LimitThrottle,
     Pause, WakeUp, CreateProcess,
     KeepHandles, Settle, Settled, RegisterWait, Callback, Decide, Suicide, TryAgain,
     ControlStop, ControlContinue, ControlHandler, StopReturns, SetContinuePending,
     ReportContinue, Dies, Leaves, vars
<1>3. /\ ~ May("wait")
      /\ pc["launcher"] \in Launched => process_handle /\ pid
      /\ pc["launcher"] = "idle" => wait_handle
      /\ pc["launcher"] \in Starting \cup Launched => ~ stopping
      /\ pc["launcher"] = "check" /\ ~ arg.stop => ~ stopping
      /\ pc["launcher"] \in Starting \cup Launched \cup {"decide"} =>
           ~ arg.stop /\ allow_restart
      /\ pc["launcher"] \in Ending /\ ~ arg.stop => allow_restart
      /\ pc["launcher"] \in Stopping => arg.stop
      /\ pc["launcher"] \in Labels \ (Launched \cup {"check", "end"}) => ~ process_handle
      /\ pc["launcher"] \in {"check", "end"} /\ arg.stop => ~ process_handle
  BY <1>1, <1>2 DEF Watched, May
<1>4. arg \in Arguments
  BY ArgumentsType
<1>5. ASSUME NEW label \in Labels, Go("launcher", label)
      PROVE  pc'["launcher"] = label
  BY <1>0, <1>5 DEF Go
<1>6. CASE StopService("launcher")
  <2>1. CASE StopBegins("launcher") \/ StopPending("launcher") \/ Kill("launcher")
             \/ AwaitShutdown("launcher") \/ Terminate("launcher")
    <3>1. pc["launcher"] \in Stopping /\ UNCHANGED <<process_handle, arg>>
      BY <2>1 DEF StopBegins, StopPending, Kill, AwaitShutdown, Terminate, At, Stopping,
         service, local
    <3>2. pc'["launcher"] \in {"pending", "kill", "await", "terminate", "check"}
      BY <1>5, <2>1 DEF StopBegins, StopPending, Kill, AwaitShutdown, Terminate, Labels
    <3>3. arg.stop /\ ~ process_handle
      BY <1>0, <1>3, <3>1 DEF Stopping, Launched
    <3> QED
      BY <3>1, <3>2, <3>3 DEF Watched, Launched, Starting, Stopping, Ending
  <2>2. CASE EndCheck("launcher")
    <3>1. pc["launcher"] = "check" /\ UNCHANGED <<process_handle, arg, allow_restart>>
      BY <2>2 DEF EndCheck, At, service, local
    <3>2. CASE arg.stop
      <4>1. pc'["launcher"] \in {"end", "stopped"}
        BY <1>5, <2>2, <3>2 DEF EndCheck, InStop, Labels
      <4> QED
        BY <1>3, <3>1, <3>2, <4>1 DEF Watched, Launched, Starting, Stopping, Ending
    <3>3. CASE ~ arg.stop
      <4>1. pc'["launcher"] = "end" /\ allow_restart
        BY <1>3, <1>5, <2>2, <3>1, <3>3 DEF EndCheck, Labels, Ending
      <4> QED
        BY <1>3, <3>1, <3>3, <4>1 DEF Watched, Launched, Starting, Stopping, Ending
    <3> QED
      BY <3>2, <3>3
  <2>3. CASE EndBegins("launcher")
    <3>1. pc["launcher"] = "end" /\ UNCHANGED <<arg, allow_restart>> /\ ~ process_handle'
      BY <2>3 DEF EndBegins, At
    <3>2. pc'["launcher"] = "tree"
      BY <1>5, <2>3 DEF EndBegins, Labels
    <3> QED
      BY <1>3, <3>1, <3>2 DEF Watched, Launched, Starting, Stopping, Ending
  <2>4. CASE KillTree("launcher") \/ Forget("launcher")
    <3>1. /\ pc["launcher"] \in {"tree", "forget"}
          /\ UNCHANGED <<arg, allow_restart, process_handle>>
      BY <2>4 DEF KillTree, Forget, At, service, local
    <3>2. /\ pc'["launcher"] \in {"forget", "stopped", "decide"}
          /\ pc'["launcher"] = "stopped" => arg.stop
          /\ pc'["launcher"] = "decide" => ~ arg.stop
      BY <1>0, <1>5, <2>4 DEF KillTree, Forget, InStop, Labels
    <3>3. ~ process_handle /\ (~ arg.stop => allow_restart)
      BY <1>0, <1>3, <3>1 DEF Launched, Ending
    <3> QED
      BY <3>1, <3>2, <3>3 DEF Watched, Launched, Starting, Stopping, Ending
  <2>5. CASE Stopped("launcher") \/ Report("launcher")
    <3>1. pc["launcher"] \in Stopping /\ UNCHANGED <<process_handle, arg>>
      BY <2>5 DEF Stopped, Report, At, Stopping, service, local
    <3>2. pc'["launcher"] \in {"report", "over", "failed", "suicide"}
      <4>1. Afterwards("launcher") \in {"over", "failed", "suicide"}
        BY ArgumentsType, <1>0 DEF Afterwards
      <4> QED
        BY <1>5, <2>5, <4>1 DEF Stopped, Report, Labels
    <3>3. arg.stop /\ ~ process_handle
      BY <1>0, <1>3, <3>1 DEF Stopping, Launched
    <3> QED
      BY <3>1, <3>2, <3>3 DEF Watched, Launched, Starting, Stopping, Ending
  <2> QED
    BY <1>6, <2>1, <2>2, <2>3, <2>4, <2>5 DEF StopService
<1>7. CASE MonitorService
  <2>1. CASE StartService
    <3>1. pc["launcher"] = "start" /\ ~ process_handle
      BY <1>0, <1>3, <2>1 DEF StartService, At, Launched
    <3>2. pc'["launcher"] = "parameters"
      BY <1>5, <2>1, <3>1 DEF StartService, Labels
    <3>3. ~ stopping' /\ allow_restart' /\ ~ arg'.stop /\ ~ process_handle'
      BY <1>4, <2>1, <3>1 DEF StartService, Arguments
    <3> QED
      BY <3>2, <3>3 DEF Watched, Launched, Starting, Stopping, Ending
  <2>2. CASE GetParameters \/ CreateProcess
    <3>1. /\ pc["launcher"] \in Starting
          /\ UNCHANGED <<stopping, allow_restart, process_handle>>
      BY <2>2 DEF GetParameters, CreateProcess, At, Starting, service
    <3>2. ~ stopping /\ ~ arg.stop /\ allow_restart /\ ~ process_handle
      BY <1>0, <1>3, <3>1 DEF Starting, Launched
    <3>3. \/ pc'["launcher"] \in {"throttle", "handles"} /\ arg' = arg
          \/ pc'["launcher"] = "stop" /\ arg'.stop
      <4>1. CASE StopItself(TRUE, arg.next)
        BY <1>5, <4>1 DEF StopItself, Labels
      <4>2. CASE ~ StopItself(TRUE, arg.next)
        BY <1>5, <2>2, <4>2 DEF GetParameters, CreateProcess, Labels
      <4> QED
        BY <4>1, <4>2
    <3> QED
      BY <3>1, <3>2, <3>3 DEF Watched, Launched, Starting, Stopping, Ending
  <2>3. CASE \/ ReadThrottle \/ IncrementThrottle \/ ClampThrottle \/ LimitThrottle
              \/ Pause \/ WakeUp
    <3>1. /\ pc["launcher"] \in Starting
          /\ UNCHANGED <<stopping, allow_restart, process_handle, arg>>
      BY <2>3 DEF ReadThrottle, IncrementThrottle, ClampThrottle, LimitThrottle,
         Pause, WakeUp, At, Starting, service,
         local
    <3>2. ~ stopping /\ ~ arg.stop /\ allow_restart /\ ~ process_handle
      BY <1>0, <1>3, <3>1 DEF Starting, Launched
    <3>3. pc'["launcher"] \in Starting \ {"handles"}
      BY <1>5, <2>3 DEF ReadThrottle, IncrementThrottle, ClampThrottle, LimitThrottle,
         Pause, WakeUp, Starting, Labels
    <3> QED
      BY <3>1, <3>2, <3>3 DEF Watched, Launched, Starting, Stopping, Ending
  <2>4. CASE KeepHandles
    <3>1. pc["launcher"] \in Starting /\ UNCHANGED <<stopping, allow_restart, arg>>
      BY <2>4 DEF KeepHandles, At, Starting, local
    <3>2. pc'["launcher"] = "settle" /\ process_handle' /\ pid'
      BY <1>5, <2>4 DEF KeepHandles, Labels
    <3> QED
      BY <1>3, <3>1, <3>2 DEF Watched, Launched, Starting, Stopping, Ending
  <2>5. CASE Settle \/ Settled
    <3>1. /\ pc["launcher"] \in Launched
          /\ UNCHANGED <<stopping, allow_restart, process_handle, pid, arg>>
      BY <2>5 DEF Settle, Settled, At, Launched, service, local
    <3>2. pc'["launcher"] \in Launched \ {"idle"}
      BY <1>5, <2>5 DEF Settle, Settled, Launched, Labels
    <3> QED
      BY <1>3, <3>1, <3>2 DEF Watched, Launched, Starting, Stopping, Ending
  <2>6. CASE RegisterWait
    <3>1. /\ pc["launcher"] \in Launched
          /\ UNCHANGED <<stopping, allow_restart, process_handle, pid, arg>>
      BY <2>6 DEF RegisterWait, At, Launched, local
    <3>2. pc'["launcher"] = "idle"
      BY <1>5, <2>6 DEF RegisterWait, Labels
    <3>3. wait_handle'
      BY <1>3, <2>6, <3>1, Zenon DEF RegisterWait
    <3> QED
      BY <1>3, <3>1, <3>2, <3>3 DEF Watched, Launched, Starting, Stopping, Ending
  <2>7. CASE Callback
    <3>1. pc["launcher"] = "idle" /\ UNCHANGED <<stopping, allow_restart>>
      BY <2>7 DEF Callback, At
    <3>2. pc'["launcher"] = "check" /\ ~ arg'.stop
      BY <1>5, <2>7 DEF Callback, Labels
    <3> QED
      BY <1>3, <3>1, <3>2 DEF Watched, Launched, Starting, Stopping, Ending
  <2>8. CASE Decide
    <3>1. pc["launcher"] = "decide" /\ UNCHANGED process_handle
      BY <2>8 DEF Decide, At, service
    <3>2. allow_restart /\ ~ process_handle
      BY <1>3, <1>0, <3>1 DEF Launched
    <3>3. \/ pc'["launcher"] \in {"start", "over"}
          \/ pc'["launcher"] = "stop" /\ arg'.stop
      <4>1. CASE Go("launcher", "start") \/ Go("launcher", "over")
        BY <1>5, <4>1 DEF Labels
      <4>2. CASE \E graceful \in BOOLEAN, next \in {"over", "suicide"} :
                   StopItself(graceful, next)
        BY <1>5, <4>2 DEF StopItself, Labels
      <4> QED
        BY <2>8, <3>2, <4>1, <4>2, ArgumentsType DEF Decide
    <3> QED
      BY <3>1, <3>2, <3>3 DEF Watched, Launched, Starting, Stopping, Ending
  <2>9. CASE Suicide \/ TryAgain
    <3>1. pc["launcher"] \in {"suicide", "failed"} /\ UNCHANGED process_handle
      BY <2>9 DEF Suicide, TryAgain, At, service
    <3>2. pc'["launcher"] \in {"over", "start"}
      BY <1>5, <2>9 DEF Suicide, TryAgain, Labels
    <3> QED
      BY <1>0, <1>3, <3>1, <3>2 DEF Watched, Launched, Starting, Stopping, Ending
  <2> QED
    BY <1>7, <2>1, <2>2, <2>3, <2>4, <2>5, <2>6, <2>7, <2>8, <2>9 DEF MonitorService
<1>8. CASE ~ StopService("launcher") /\ ~ MonitorService
  <2>1. pc'["launcher"] = pc["launcher"]
    BY <1>8, LauncherRests
  <2>2. ~ \E t \in Stops : StopService(t)
    BY <1>1 DEF Waiting, StopService, StopBegins, StopPending, Kill, AwaitShutdown,
       Terminate, EndCheck, EndBegins, KillTree, Forget, Stopped, Report, At
  <2>3. UNCHANGED <<process_handle, pid, stopping, allow_restart, wait_handle, arg>>
    BY <1>8, <2>2 DEF Next, ControlStop, ControlContinue, ControlHandler, StopReturns,
       SetContinuePending, ReportContinue, Dies, Leaves, vars, service, local
  <2> QED
    BY <1>3, <2>1, <2>3 DEF Watched
<1> QED
  BY <1>6, <1>7, <1>8

\* Supervised: NSSM launches when nothing runs, and then waits for what it launched.
THEOREM SupervisedCorrect == Spec => []Supervised
<1>1. Init => NoneAlive /\ Watched
  BY DEF Init, NoneAlive, Watched, Launched, Starting, Stopping, Ending, Threads
<1>2. NoneAlive /\ Watched => Supervised
  BY DEF NoneAlive, Watched, Waiting, Supervised, Launched, Labels
<1> QED
  BY <1>1, <1>2, TypeCorrect, NoneAliveNext, WatchedNext, PTL DEF Spec

-----------------------------------------------------------------------------
\* How many steps the thread of a STOP has left at most.
Left(t) ==
  CASE pc[t] = "idle"      -> 12
    [] pc[t] = "stop"      -> 11
    [] pc[t] = "pending"   -> 10
    [] pc[t] = "kill"      -> 9
    [] pc[t] = "await"     -> 8
    [] pc[t] = "terminate" -> 7
    [] pc[t] = "check"     -> 6
    [] pc[t] = "end"       -> 5
    [] pc[t] = "tree"      -> 4
    [] pc[t] = "forget"    -> 3
    [] pc[t] = "stopped"   -> 2
    [] pc[t] = "report"    -> 1
    [] OTHER               -> 0

\* The part of StopEnds that needs no fairness: the thread of a STOP takes at most
\* 12 steps, each one nearer to its end, whatever the launcher, other STOPs and
\* the application do between them.
StopBounded ==
  [][\A t \in Stops :
       /\ Left(t)' <= Left(t)
       /\ StopService(t) \/ ControlStop(t) => Left(t)' < Left(t)]_vars

LEMMA LeftDecreases ==
  ASSUME TypeOK, NEW t \in Stops, StopService(t)
  PROVE  Left(t)' < Left(t)
<1>0. t \in Threads /\ pc \in [Threads -> Labels]
  BY DEF TypeOK, Threads
<1>1. \/ pc[t] = "stop" /\ (Go(t, "pending") \/ Go(t, "kill"))
      \/ pc[t] = "pending" /\ Go(t, "kill")
      \/ pc[t] = "kill" /\ (Go(t, "check") \/ Go(t, "await") \/ Go(t, "terminate"))
      \/ pc[t] = "await" /\ (Go(t, "check") \/ Go(t, "terminate"))
      \/ pc[t] = "terminate" /\ Go(t, "check")
      \/ pc[t] = "check" /\ (Go(t, "end") \/ Go(t, "stopped"))
      \/ pc[t] = "end" /\ Go(t, "tree")
      \/ pc[t] = "tree" /\ Go(t, "forget")
      \/ pc[t] = "forget" /\ Go(t, "stopped")
      \/ pc[t] = "stopped" /\ (Go(t, "report") \/ Go(t, "over"))
      \/ pc[t] = "report" /\ Go(t, "over")
  BY DEF StopService, StopBegins, StopPending, Kill, AwaitShutdown, Terminate,
     EndCheck, EndBegins, KillTree, Forget, Stopped, Report, At, InStop, Afterwards
<1>2. ASSUME NEW label, Go(t, label) PROVE pc'[t] = label
  BY <1>0, <1>2 DEF Go
<1> QED
  BY <1>1, <1>2 DEF Left

THEOREM StopBoundedCorrect == Spec => StopBounded
<1>1. ASSUME TypeOK, [Next]_vars
      PROVE  [\A t \in Stops :
                /\ Left(t)' <= Left(t)
                /\ StopService(t) \/ ControlStop(t) => Left(t)' < Left(t)]_vars
  <2> SUFFICES ASSUME NEW t \in Stops
               PROVE  /\ Left(t)' <= Left(t)
                      /\ StopService(t) \/ ControlStop(t) => Left(t)' < Left(t)
    OBVIOUS
  <2>0. /\ pc \in [Threads -> Labels] /\ {"launcher", "handler"} \subseteq Threads
        /\ Stops \subseteq Threads \ {"launcher", "handler"}
    BY <1>1, StopsAssumption DEF TypeOK, Threads
  <2>1. Left(t) \in Nat /\ Left(t)' \in Nat
    BY DEF Left
  <2>2. CASE StopService(t)
    BY <1>1, <2>1, <2>2, LeftDecreases
  <2>3. CASE ControlStop(t)
    <3>1. pc[t] = "idle" /\ pc'[t] = "stop"
      BY <2>0, <2>3 DEF ControlStop, Go
    <3> QED
      BY <3>1 DEF Left
  <2>4. CASE ~ StopService(t) /\ ~ ControlStop(t)
    <3>1. \E u \in Threads \ {t}, label \in Labels : pc' = pc \/ Go(u, label)
              \/ (u \in Stops /\ ControlStop(u))
      <4>1. CASE \E u \in Stops \cup {"launcher"} : StopService(u)
        <5> PICK u \in Stops \cup {"launcher"} : StopService(u)
          BY <4>1
        <5>1. \E label \in Labels : Go(u, label)
          BY <1>1, AfterwardsType
             DEF StopService, StopBegins, StopPending, Kill, AwaitShutdown, Terminate,
                 EndCheck, EndBegins, KillTree, Forget, Stopped, Report, Labels
        <5>2. u \in Threads \ {t}
          BY <2>0, <2>4
        <5> QED
          BY <5>1, <5>2
      <4>2. CASE MonitorService
        <5>1. \E label \in Labels : Go("launcher", label)
          BY <4>2 DEF MonitorService, StartService, GetParameters, ReadThrottle,
             IncrementThrottle, ClampThrottle, LimitThrottle,
             Pause, WakeUp, CreateProcess, KeepHandles, Settle,
             Settled, RegisterWait, Callback, Decide, Suicide, TryAgain, StopItself,
             Labels
        <5> QED
          BY <2>0, <5>1
      <4>3. CASE ControlContinue \/ ControlHandler
        <5>1. \E label \in Labels : Go("handler", label)
          BY <4>3 DEF ControlContinue, ControlHandler, StopReturns, SetContinuePending,
             ReportContinue, Labels
        <5> QED
          BY <2>0, <5>1
      <4>4. CASE Dies \/ Leaves \/ UNCHANGED vars
        <5>1. pc' = pc /\ "launcher" \in Threads \ {t} /\ "idle" \in Labels
          BY <2>0, <4>4 DEF Dies, Leaves, vars, Labels
        <5> QED
          BY <5>1
      <4>5. CASE \E u \in Stops : ControlStop(u)
        <5>1. "idle" \in Labels
          BY DEF Labels
        <5> QED
          BY <2>0, <2>4, <4>5, <5>1
      <4> QED
        BY <1>1, <4>1, <4>2, <4>3, <4>4, <4>5 DEF Next
    <3>2. pc'[t] = pc[t]
      BY <2>0, <3>1 DEF Go, ControlStop
    <3>3. Left(t)' = Left(t)
      BY <3>2 DEF Left
    <3> QED
      BY <2>1, <2>4, <3>3
  <2> QED
    BY <2>2, <2>3, <2>4
<1> QED
  BY <1>1, TypeCorrect, PTL DEF Spec, StopBounded

=============================================================================
