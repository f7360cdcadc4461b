--------------------------- MODULE FBSessionProofs ---------------------------
(***************************************************************************)
(* What the sessions of FBSession guarantee on every device and for every  *)
(* number of sessions.                                                     *)
(***************************************************************************)
EXTENDS FBSession, TLAPS

(* No session is killed by markSessionActive: the property it compares is   *)
(* nil for every session.                                                   *)
LEMMA NothingSuperseded == Superseded = {}
BY DEF Superseded, TestedApplication

LEMMA NothingTerminatedBySuperseding == TerminatedBy(Superseded) = {}
BY NothingSuperseded DEF TerminatedBy

(* Stopping applications keeps the device's variables in their types. *)
LEMMA StopAppsType ==
  ASSUME NEW X, TypeOK, StopApps(X)
  PROVE  /\ state' \in [Bundle -> {NotRunning, Background, Foreground}]
         /\ alert' \in [App -> BOOLEAN]
BY DEF StopApps, NoAlertsOf, TypeOK

(* Opening a session, with or without a monitor, keeps the types. *)
LEMMA NewSessionType ==
  ASSUME TypeOK, NEW b \in Bundle \cup {NoApp}, NEW a \in AlertAction \cup {"none"},
         NEW front \in App \cup {NoApp}, NewSession(b, a, front)
  PROVE  /\ created' = created + 1 /\ created' \in Session
         /\ active' = created'
         /\ tested' \in [Session -> Bundle \cup {NoApp}]
         /\ apps' \in [Session -> SUBSET Bundle]
         /\ alertAction' \in [Session -> AlertAction \cup {"none"}]
         /\ zombies' \in SUBSET (1 .. created)
         /\ hasMonitor' \in [Session -> BOOLEAN]
         /\ monitoring' \in [Session -> BOOLEAN]
         /\ monApp' \in [Session -> App \cup {NoApp}]
         /\ tick' \in [Session -> TickState]
         /\ late' \in [Session -> 0 .. LateCap]
         /\ state' \in [Bundle -> {NotRunning, Background, Foreground}]
         /\ alert' \in [App -> BOOLEAN]
<1> DEFINE s == FreshSession
<1>1. s = created + 1 /\ s \in Session
  BY SessionAssumption DEF NewSession, FreshSession, TypeOK, Session
<1>2. created' = s /\ active' = s
  BY DEF NewSession
<1>3. zombies' \in SUBSET (1 .. created)
  BY SessionAssumption DEF NewSession, TypeOK, NoSession
<1>4. /\ hasMonitor' \in [Session -> BOOLEAN]
      /\ monitoring' \in [Session -> BOOLEAN]
  BY DEF NewSession, TypeOK
<1>5. /\ tested' \in [Session -> Bundle \cup {NoApp}]
      /\ apps' \in [Session -> SUBSET Bundle]
      /\ alertAction' \in [Session -> AlertAction \cup {"none"}]
  BY DEF NewSession, RegisteredAtFirst, TypeOK
<1>6. monApp' \in [Session -> App \cup {NoApp}]
  BY DEF NewSession, TypeOK
<1>7. tick' \in [Session -> TickState]
  BY DEF NewSession, TypeOK, TickState
<1>8. late' \in [Session -> 0 .. LateCap]
  BY DEF NewSession, TypeOK
<1>9. /\ state' \in [Bundle -> {NotRunning, Background, Foreground}]
      /\ alert' \in [App -> BOOLEAN]
  BY StopAppsType DEF NewSession
<1>10. QED
  BY <1>1, <1>2, <1>3, <1>4, <1>5, <1>6, <1>7, <1>8, <1>9

(* The counter moves up by one, so what was in range stays in range. *)
LEMMA NewSessionRange ==
  ASSUME TypeOK, NEW b \in Bundle \cup {NoApp}, NEW a \in AlertAction \cup {"none"},
         NEW front \in App \cup {NoApp}, NewSession(b, a, front)
  PROVE  /\ created' \in 0 .. MaxSessions
         /\ active' \in 0 .. created'
         /\ zombies' \in SUBSET (1 .. created')
         /\ \A r \in 0 .. created : r \in 0 .. created'
<1>1. created \in Nat /\ created' = created + 1 /\ active' = created'
      /\ zombies' \in SUBSET (1 .. created) /\ created' \in Session
  <2>1. created \in Nat
    BY DEF TypeOK
  <2>2. QED
    BY <2>1, NewSessionType
<1>2. MaxSessions \in Nat /\ created' \in 1 .. MaxSessions
  BY <1>1, SessionAssumption DEF Session
<1>3. \A r \in 0 .. created : r \in 0 .. created'
  BY <1>1
<1>4. zombies' \in SUBSET (1 .. created')
  <2>1. \A r \in 1 .. created : r \in 1 .. created'
    BY <1>1
  <2>2. QED
    BY <1>1, <2>1
<1>5. active' \in 0 .. created'
  BY <1>1
<1>6. created' \in 0 .. MaxSessions
  BY <1>2
<1>7. QED
  BY <1>3, <1>4, <1>5, <1>6

(* Killing the active session keeps the types. *)
LEMMA KillType ==
  ASSUME TypeOK, active # NoSession, Kill
  PROVE  /\ created' = created
         /\ active' = NoSession
         /\ zombies' \in SUBSET (1 .. created)
         /\ hasMonitor' \in [Session -> BOOLEAN]
         /\ monitoring' \in [Session -> BOOLEAN]
         /\ state' \in [Bundle -> {NotRunning, Background, Foreground}]
         /\ alert' \in [App -> BOOLEAN]
         /\ UNCHANGED <<tested, apps, alertAction, monApp, tick, late>>
<1>1. active \in 1 .. created
  BY SessionAssumption DEF TypeOK, NoSession
<1>2. zombies' \in SUBSET (1 .. created)
  BY <1>1 DEF Kill, TypeOK
<1>3. /\ hasMonitor' \in [Session -> BOOLEAN]
      /\ monitoring' \in [Session -> BOOLEAN]
  BY DEF Kill, TypeOK
<1>4. /\ state' \in [Bundle -> {NotRunning, Background, Foreground}]
      /\ alert' \in [App -> BOOLEAN]
  BY StopAppsType DEF Kill
<1>5. QED
  BY <1>2, <1>3, <1>4 DEF Kill

(* What Finish leaves to be answered. *)
LEMMA FinishType ==
  ASSUME TypeOK, NEW st \in Status, Finish(st)
  PROVE  /\ pc' = "respond"
         /\ req' \in [bundle : Bundle \cup {NoApp},
                      action : AlertAction \cup {"none"}, status : Status]
         /\ resp' = resp
BY DEF Finish, TypeOK

(* Bringing an application to the front keeps the device in its type. *)
LEMMA ToForegroundType ==
  ASSUME TypeOK, NEW b \in Bundle
  PROVE  ToForeground(b) \in [Bundle -> {NotRunning, Background, Foreground}]
BY DEF ToForeground, TypeOK

LEMMA FrontmostType == FrontmostApps \subseteq App \cup {NoApp}
BY DEF FrontmostApps, App, InForeground

(* A request that asks its session for the active application. *)
LEMMA ActiveApplicationType ==
  ASSUME TypeOK, NEW s \in Session, ActiveApplication(s)
  PROVE  /\ monApp' \in [Session -> App \cup {NoApp}]
         /\ pc' = "respond"
         /\ req' \in [bundle : Bundle \cup {NoApp},
                      action : AlertAction \cup {"none"}, status : Status]
         /\ resp' = resp
<1>1. CASE Finish("crashed") /\ UNCHANGED monApp
  BY <1>1, FinishType DEF TypeOK, Status
<1>2. ASSUME NEW front \in FrontmostApps, Finish("ok"),
             monApp' = [monApp EXCEPT ![s] = IF hasMonitor[s] THEN front ELSE @]
      PROVE  /\ monApp' \in [Session -> App \cup {NoApp}]
             /\ pc' = "respond"
             /\ req' \in [bundle : Bundle \cup {NoApp},
                          action : AlertAction \cup {"none"}, status : Status]
             /\ resp' = resp
  <2>1. front \in App \cup {NoApp}
    BY FrontmostType
  <2>2. monApp' \in [Session -> App \cup {NoApp}]
    BY <2>1, <1>2 DEF TypeOK
  <2>3. QED
    BY <2>2, <1>2, FinishType DEF Status
<1>3. QED
  BY <1>1, <1>2 DEF ActiveApplication

(* A session that serves a request is one of those created. *)
LEMMA ServedSession ==
  ASSUME TypeOK, NEW sid, ServedWith(sid)
  PROVE  Idle /\ active # NoSession /\ active \in 1 .. created /\ active \in Session
BY SessionAssumption DEF ServedWith, SessionWithIdentifier, TypeOK, NoSession, Session

(* Every initial state has the right types. *)
LEMMA InitType == Init => TypeOK
<1> SUFFICES ASSUME Init PROVE TypeOK
  OBVIOUS
<1>1. created \in 0 .. MaxSessions /\ active \in 0 .. created /\ zombies \in SUBSET (1 .. created)
  BY SessionAssumption DEF Init, NoSession
<1>2. state \in [Bundle -> {NotRunning, Background, Foreground}]
  BY DEF Init
<1>3. req \in [bundle : Bundle \cup {NoApp}, action : AlertAction \cup {"none"}, status : Status]
  BY DEF Init, NoRequest, Status
<1>4. resp \in 0 .. created
  BY DEF Init, NoSession
<1>5. late \in [Session -> 0 .. LateCap] /\ tick \in [Session -> TickState]
  BY DEF Init, LateCap, TickState
<1>6. QED
  BY <1>1, <1>2, <1>3, <1>4, <1>5 DEF Init, TypeOK

(* Every request keeps the types. *)
LEMMA RequestType == TypeOK /\ RequestStep => TypeOK'
<1> SUFFICES ASSUME TypeOK, RequestStep PROVE TypeOK'
  OBVIOUS
<1> USE DEF sessionVars, monitorVars, deviceVars, mainVars
<1>1. ASSUME NEW sid \in 0 .. MaxSessions, RejectRequest(sid) PROVE TypeOK'
  <2>1. "noSession" \in Status
    BY DEF Status
  <2>2. QED
    BY <1>1, <2>1, FinishType DEF RejectRequest, TypeOK
<1>2. ASSUME NEW sid \in 0 .. MaxSessions, GetSession(sid) PROVE TypeOK'
  BY <1>2, ServedSession, ActiveApplicationType DEF GetSession, TypeOK
<1>3. ASSUME NEW sid \in 0 .. MaxSessions, DeleteSession(sid) PROVE TypeOK'
  <2>1. ServedWith(sid) /\ Kill /\ Finish("ok") /\ "ok" \in Status
    BY <1>3 DEF DeleteSession, Status
  <2>2. active' \in 0 .. created' /\ resp' \in 0 .. created'
    BY <2>1, ServedSession, KillType, FinishType DEF TypeOK, NoSession
  <2>3. QED
    BY <2>1, <2>2, ServedSession, KillType, FinishType DEF TypeOK
<1>4. ASSUME NEW sid \in 0 .. MaxSessions, NEW b \in Bundle, TerminateApplication(sid, b)
      PROVE  TypeOK'
  <2>1. StopApps({b}) /\ Finish("ok") /\ "ok" \in Status
    BY <1>4 DEF TerminateApplication, Status
  <2>2. apps' \in [Session -> SUBSET Bundle]
    BY <1>4 DEF TerminateApplication, TypeOK
  <2>3. QED
    BY <1>4, <2>1, <2>2, StopAppsType, FinishType DEF TerminateApplication, TypeOK
<1>5. ASSUME NEW sid \in 0 .. MaxSessions, NEW b \in Bundle, NEW up \in BOOLEAN,
             LaunchApplication(sid, b, up)
      PROVE  TypeOK'
  <2>1. Finish("ok") /\ "ok" \in Status
    BY <1>5 DEF LaunchApplication, Status
  <2>2. apps' \in [Session -> SUBSET Bundle]
    BY <1>5 DEF LaunchApplication, TypeOK
  <2>3. state' \in [Bundle -> {NotRunning, Background, Foreground}]
    BY <1>5, ToForegroundType DEF LaunchApplication, TypeOK
  <2>4. QED
    BY <1>5, <2>1, <2>2, <2>3, FinishType DEF LaunchApplication, TypeOK
<1>6. ASSUME NEW b \in Bundle, NEW action \in AlertAction \cup {"none"},
             CreateSession(b, action)
      PROVE  TypeOK'
  <2>1. alert' \in [App -> BOOLEAN]
    BY <1>6 DEF CreateSession, NoAlertsOf, TypeOK
  <2>2. CASE /\ state' = ToForeground(b)
             /\ pc' = "install"
             /\ req' = [bundle |-> b, action |-> action, status |-> "ok"]
             /\ UNCHANGED resp
    <3>1. req' \in [bundle : Bundle \cup {NoApp}, action : AlertAction \cup {"none"},
                    status : Status]
      BY <2>2 DEF Status
    <3>2. QED
      BY <1>6, <2>1, <2>2, <3>1, ToForegroundType DEF CreateSession, TypeOK
  <2>3. CASE state' = [state EXCEPT ![b] = NotRunning] /\ Finish("error")
    <3>1. "error" \in Status
      BY DEF Status
    <3>2. state' \in [Bundle -> {NotRunning, Background, Foreground}]
      BY <2>3 DEF TypeOK
    <3>3. QED
      BY <1>6, <2>1, <2>3, <3>1, <3>2, FinishType DEF CreateSession, TypeOK
  <2>4. QED
    BY <1>6, <2>2, <2>3 DEF CreateSession
<1>7. ASSUME NEW b \in Bundle, TerminateAny(b) PROVE TypeOK'
  <2>1. StopApps({b}) /\ Finish("ok") /\ "ok" \in Status
    BY <1>7 DEF TerminateAny, Status
  <2>2. QED
    BY <1>7, <2>1, StopAppsType, FinishType DEF TerminateAny, TypeOK
<1>8. ASSUME NEW status \in {"ok", "error"}, SessionlessRequest(status) PROVE TypeOK'
  <2>1. status \in Status
    BY DEF Status
  <2>2. QED
    BY <1>8, <2>1, FinishType DEF SessionlessRequest, TypeOK
<1>9. ASSUME StopServing PROVE TypeOK'
  <2>1. CASE active # NoSession
    <3>1. active' \in 0 .. created' /\ resp' \in 0 .. created'
      BY <1>9, <2>1, KillType DEF StopServing, TypeOK, NoSession
    <3>2. QED
      BY <1>9, <2>1, <3>1, KillType DEF StopServing, TypeOK
  <2>2. CASE active = NoSession
    BY <1>9, <2>2 DEF StopServing, TypeOK
  <2>3. QED
    BY <2>1, <2>2
<1>10. QED
  BY <1>1, <1>2, <1>3, <1>4, <1>5, <1>6, <1>7, <1>8, <1>9
  DEF RequestStep, ActivateApplication

(* The later steps of a handler, the monitors, the run loop and the device   *)
(* keep the types.                                                           *)
LEMMA OtherStepType ==
  TypeOK /\ (HandlerStep \/ MonitorStep \/ RunLoopPass \/ DeviceStep) => TypeOK'
<1> SUFFICES ASSUME TypeOK, HandlerStep \/ MonitorStep \/ RunLoopPass \/ DeviceStep
             PROVE  TypeOK'
  OBVIOUS
<1> USE DEF sessionVars, monitorVars, deviceVars, mainVars
<1>1. ASSUME InstallSession PROVE TypeOK'
  <2>1. PICK front \in FrontmostApps : NewSession(req.bundle, req.action, front)
    BY <1>1 DEF InstallSession
  <2>2. /\ front \in App \cup {NoApp}
        /\ req.bundle \in Bundle \cup {NoApp}
        /\ req.action \in AlertAction \cup {"none"}
    BY FrontmostType DEF TypeOK
  <2>3. /\ active' \in 0 .. created' /\ zombies' \in SUBSET (1 .. created')
        /\ resp' \in 0 .. created' /\ created' \in 0 .. MaxSessions
    BY <1>1, <2>1, <2>2, NewSessionRange DEF InstallSession, TypeOK
  <2>4. QED
    BY <1>1, <2>1, <2>2, <2>3, NewSessionType DEF InstallSession, TypeOK
<1>2. ASSUME InformSession PROVE TypeOK'
  <2>1. CASE active \in Session
    BY <1>2, <2>1, ActiveApplicationType DEF InformSession, TypeOK
  <2>2. CASE active \notin Session
    <3>1. monApp' \in [Session -> App \cup {NoApp}]
      BY <1>2, <2>2 DEF InformSession, ActiveApplication, TypeOK
    <3>2. pc' = "respond" /\ resp' = resp
          /\ req' \in [bundle : Bundle \cup {NoApp}, action : AlertAction \cup {"none"},
                       status : Status]
      BY <1>2, FinishType DEF InformSession, ActiveApplication, Status
    <3>3. QED
      BY <1>2, <3>1, <3>2 DEF InformSession, TypeOK
  <2>3. QED
    BY <2>1, <2>2
<1>3. ASSUME Respond PROVE TypeOK'
  <2>1. req' \in [bundle : Bundle \cup {NoApp}, action : AlertAction \cup {"none"},
                  status : Status]
    BY <1>3 DEF Respond, NoRequest, Status
  <2>2. CASE active # NoSession
    BY <1>3, <2>1, <2>2 DEF Respond, TypeOK
  <2>3. CASE active = NoSession
    <3>1. NewSession(NoApp, "none", NoApp)
      BY <1>3, <2>3 DEF Respond
    <3>2. /\ active' \in 0 .. created' /\ zombies' \in SUBSET (1 .. created')
          /\ resp' \in 0 .. created' /\ created' \in 0 .. MaxSessions
      <4>1. NoApp \in Bundle \cup {NoApp} /\ "none" \in AlertAction \cup {"none"}
            /\ NoApp \in App \cup {NoApp}
        OBVIOUS
      <4>2. /\ created' \in 0 .. MaxSessions
            /\ active' \in 0 .. created'
            /\ zombies' \in SUBSET (1 .. created')
        BY <3>1, <4>1, NewSessionRange
      <4>3. QED
        BY <1>3, <4>2 DEF Respond
    <3>3. QED
      BY <1>3, <2>1, <3>1, <3>2, NewSessionType DEF Respond, TypeOK
  <2>4. QED
    BY <2>2, <2>3
<1>4. ASSUME NEW s \in Session, ScheduleNextTick(s) PROVE TypeOK'
  <2>1. tick' \in [Session -> TickState]
    BY <1>4 DEF ScheduleNextTick, TypeOK, TickState
  <2>2. monApp' \in [Session -> App \cup {NoApp}]
    BY <1>4 DEF ScheduleNextTick, FreedMonitor, TypeOK
  <2>3. QED
    BY <1>4, <2>1, <2>2 DEF ScheduleNextTick, TypeOK
<1>5. ASSUME NEW s \in Session, NEW tapped \in BOOLEAN, RunTick(s, tapped) PROVE TypeOK'
  <2>1. tick' \in [Session -> TickState]
    BY <1>5 DEF RunTick, TypeOK, TickState
  <2>2. monApp' \in [Session -> App \cup {NoApp}]
    BY <1>5 DEF RunTick, FreedMonitor, TypeOK
  <2>3. late' \in [Session -> 0 .. LateCap]
    BY <1>5 DEF RunTick, TypeOK, LateCap
  <2>4. alert' \in [App -> BOOLEAN]
    <3>1. CASE alert' = alert
      BY <3>1 DEF TypeOK
    <3>2. CASE alert' = [alert EXCEPT ![monApp[s]] = @ /\ ~(Acts(s) /\ tapped)]
      <4> DEFINE shut == Acts(s) /\ tapped
      <4>1. \A a \in App : alert[a] \in BOOLEAN
        BY DEF TypeOK
      <4>2. alert' = [a \in App |-> IF a = monApp[s] THEN alert[a] /\ ~shut ELSE alert[a]]
        BY <3>2 DEF TypeOK
      <4>3. QED
        BY <4>1, <4>2
    <3>3. QED
      BY <1>5, <3>1, <3>2 DEF RunTick
  <2>5. QED
    BY <1>5, <2>1, <2>2, <2>3, <2>4 DEF RunTick, TypeOK
<1>6. ASSUME RunLoopPass PROVE TypeOK'
  BY <1>6 DEF RunLoopPass, TypeOK, TickState
<1>7. ASSUME NEW b \in Bundle, CrashApp(b) PROVE TypeOK'
  BY <1>7, StopAppsType DEF CrashApp, TypeOK
<1>8. ASSUME NEW b \in Bundle, OpenApp(b) PROVE TypeOK'
  BY <1>8, ToForegroundType DEF OpenApp, TypeOK
<1>9. ASSUME GoHome PROVE TypeOK'
  BY <1>9 DEF GoHome, TypeOK
<1>10. ASSUME NEW a \in App, ShowAlert(a) PROVE TypeOK'
  BY <1>10 DEF ShowAlert, TypeOK
<1>11. QED
  BY <1>1, <1>2, <1>3, <1>4, <1>5, <1>6, <1>7, <1>8, <1>9, <1>10
  DEF HandlerStep, MonitorStep, DeviceStep

LEMMA TypeStep == TypeOK /\ [Next]_vars => TypeOK'
<1>1. TypeOK /\ UNCHANGED vars => TypeOK'
  BY DEF TypeOK, vars, sessionVars, monitorVars, deviceVars, mainVars
<1>2. QED
  BY <1>1, RequestType, OtherStepType DEF Next

(* Type correctness: the session table, the monitors and the device stay in  *)
(* their types through every request, tick, crash and shutdown.              *)
THEOREM TypeCorrect == Spec => []TypeOK
BY InitType, TypeStep, PTL DEF Spec

-----------------------------------------------------------------------------
(* The safety properties.  A step matters to them in one of six ways.        *)

(* Sessions, monitors and ticks stay as they are, and no answer is given. *)
Quiet ==
  /\ UNCHANGED <<active, created, zombies, hasMonitor, monitoring, tick, late>>
  /\ Idle' => Idle /\ resp' = resp

(* The active session is named in an answer. *)
Answers ==
  /\ active # NoSession
  /\ UNCHANGED <<active, created, zombies, hasMonitor, monitoring, tick, late>>
  /\ resp' = active

(* A session is opened. *)
Opens ==
  /\ \E b \in Bundle \cup {NoApp}, a \in AlertAction \cup {"none"},
        front \in App \cup {NoApp} : NewSession(b, a, front)
  /\ Idle' => resp' = active'

(* The active session is killed; its handler still has to answer. *)
Kills == active # NoSession /\ Kill /\ ~Idle'

Ticks ==
  \E s \in Session : ScheduleNextTick(s) \/ \E tapped \in BOOLEAN : RunTick(s, tapped)

(* Requests that only read sessions, or change applications, are quiet. *)
LEMMA RequestKinds == TypeOK /\ RequestStep => Quiet \/ Kills
<1> SUFFICES ASSUME TypeOK, RequestStep PROVE Quiet \/ Kills
  OBVIOUS
<1> USE DEF sessionVars, monitorVars, deviceVars, mainVars
<1>1. ASSUME NEW sid \in 0 .. MaxSessions, RejectRequest(sid) PROVE Quiet
  BY <1>1 DEF RejectRequest, Finish, Quiet, Idle
<1>2. ASSUME NEW sid \in 0 .. MaxSessions, GetSession(sid) PROVE Quiet
  BY <1>2 DEF GetSession, ActiveApplication, Finish, Quiet, Idle
<1>3. ASSUME NEW sid \in 0 .. MaxSessions, DeleteSession(sid) PROVE Kills
  BY <1>3, ServedSession DEF DeleteSession, Finish, Kills, Idle
<1>4. ASSUME NEW sid \in 0 .. MaxSessions, NEW b \in Bundle, TerminateApplication(sid, b)
      PROVE  Quiet
  BY <1>4 DEF TerminateApplication, Finish, Quiet, Idle
<1>5. ASSUME NEW sid \in 0 .. MaxSessions, NEW b \in Bundle, NEW up \in BOOLEAN,
             LaunchApplication(sid, b, up)
      PROVE  Quiet
  BY <1>5 DEF LaunchApplication, Finish, Quiet, Idle
<1>6. ASSUME NEW b \in Bundle, NEW action \in AlertAction \cup {"none"},
             CreateSession(b, action)
      PROVE  Quiet
  BY <1>6 DEF CreateSession, Finish, Quiet, Idle
<1>7. ASSUME NEW b \in Bundle, TerminateAny(b) PROVE Quiet
  BY <1>7 DEF TerminateAny, Finish, Quiet, Idle
<1>8. ASSUME NEW status \in {"ok", "error"}, SessionlessRequest(status) PROVE Quiet
  BY <1>8 DEF SessionlessRequest, Finish, Quiet, Idle
<1>9. ASSUME StopServing PROVE Quiet \/ Kills
  BY <1>9 DEF StopServing, Quiet, Kills, Idle
<1>10. QED
  BY <1>1, <1>2, <1>3, <1>4, <1>5, <1>6, <1>7, <1>8, <1>9
  DEF RequestStep, ActivateApplication

LEMMA StepKinds ==
  TypeOK /\ [Next]_vars => Quiet \/ Answers \/ Opens \/ Kills \/ Ticks \/ RunLoopPass
<1> SUFFICES ASSUME TypeOK, [Next]_vars
             PROVE  Quiet \/ Answers \/ Opens \/ Kills \/ Ticks \/ RunLoopPass
  OBVIOUS
<1> USE DEF sessionVars, monitorVars, deviceVars, mainVars
<1>1. ASSUME InstallSession PROVE Opens
  <2>1. PICK front \in FrontmostApps : NewSession(req.bundle, req.action, front)
    BY <1>1 DEF InstallSession
  <2>2. /\ front \in App \cup {NoApp}
        /\ req.bundle \in Bundle \cup {NoApp}
        /\ req.action \in AlertAction \cup {"none"}
    BY FrontmostType DEF TypeOK
  <2>3. ~Idle'
    BY <1>1 DEF InstallSession, Idle
  <2>4. QED
    BY <2>1, <2>2, <2>3 DEF Opens
<1>2. ASSUME InformSession PROVE Quiet
  BY <1>2 DEF InformSession, ActiveApplication, Finish, Quiet, Idle
<1>3. ASSUME Respond PROVE Answers \/ Opens
  <2>1. CASE active # NoSession
    BY <1>3, <2>1 DEF Respond, Answers
  <2>2. CASE active = NoSession
    <3>1. NewSession(NoApp, "none", NoApp) /\ resp' = active'
      BY <1>3, <2>2 DEF Respond
    <3>2. QED
      BY <3>1 DEF Opens
  <2>3. QED
    BY <2>1, <2>2
<1>4. ASSUME DeviceStep PROVE Quiet
  BY <1>4 DEF DeviceStep, CrashApp, OpenApp, GoHome, ShowAlert, Quiet, Idle
<1>5. ASSUME UNCHANGED vars PROVE Quiet
  BY <1>5 DEF vars, Quiet, Idle
<1>6. QED
  BY <1>1, <1>2, <1>3, <1>4, <1>5, RequestKinds DEF Next, HandlerStep, MonitorStep, Ticks

(* The initial state satisfies the invariant. *)
LEMMA InitInvariant == Init => IInv
<1> SUFFICES ASSUME Init PROVE IInv
  OBVIOUS
<1>1. TypeOK
  BY InitType
<1>2. AnswerNamesActiveSession
  BY DEF Init, AnswerNamesActiveSession
<1>3. MonitorsFollowSessions /\ ActiveIsNoZombie /\ LateChanceSpent
  BY SessionAssumption
  DEF Init, MonitorsFollowSessions, ActiveIsNoZombie, LateChanceSpent, Session, NoSession
<1>4. QED
  BY <1>1, <1>2, <1>3 DEF IInv

(* A new session's number is above those of all sessions before it, so it is *)
(* neither waiting to be freed nor late.                                     *)
LEMMA OpensKeeps == IInv /\ TypeOK' /\ Opens => IInv'
<1> SUFFICES ASSUME IInv, Opens, TypeOK' PROVE IInv'
  OBVIOUS
<1>1. PICK b \in Bundle \cup {NoApp}, a \in AlertAction \cup {"none"},
           front \in App \cup {NoApp} : NewSession(b, a, front)
  BY DEF Opens
<1>2. TypeOK
  BY DEF IInv
<1>3. created' = created + 1 /\ created' \in Session /\ active' = created' /\ created \in Nat
  <2>1. created \in Nat
    BY <1>2 DEF TypeOK
  <2>2. QED
    BY <1>1, <1>2, <2>1, NewSessionType
<1>4. /\ active \in 0 .. created
      /\ \A s \in zombies : s \in 1 .. created
      /\ zombies' = zombies \cup ({active} \ {NoSession})
      /\ late' = late
      /\ \A s \in Session :
           s # active' => /\ hasMonitor'[s] = hasMonitor[s]
                          /\ monitoring'[s] = monitoring[s]
                          /\ tick'[s] = tick[s]
  <2>1. active \in 0 .. created /\ \A s \in zombies : s \in 1 .. created
    BY <1>2 DEF TypeOK
  <2>2. ASSUME NEW s \in Session, s # active'
        PROVE  hasMonitor'[s] = hasMonitor[s] /\ monitoring'[s] = monitoring[s] /\ tick'[s] = tick[s]
    <3>1. hasMonitor[s] \in BOOLEAN /\ monitoring[s] \in BOOLEAN
      BY <1>2 DEF TypeOK
    <3>2. s # FreshSession
      BY <1>1, <2>2 DEF NewSession
    <3>3. /\ hasMonitor'[s] = (hasMonitor[s] /\ s \notin Superseded)
          /\ monitoring'[s] = (monitoring[s] /\ s \notin Superseded)
      BY <1>1, <3>2 DEF NewSession
    <3>4. tick'[s] = tick[s]
      BY <1>1, <1>2, <3>2 DEF NewSession, TypeOK
    <3>5. QED
      BY <3>1, <3>3, <3>4, NothingSuperseded
  <2>3. QED
    BY <1>1, <2>1, <2>2 DEF NewSession
<1>5. hasMonitor'[active'] = monitoring'[active']
  BY <1>1, <1>3 DEF NewSession
<1>6. AnswerNamesActiveSession'
  BY <1>3 DEF Opens, AnswerNamesActiveSession, NoSession
<1>7. MonitorsFollowSessions'
  <2> SUFFICES ASSUME NEW s \in Session
               PROVE  /\ hasMonitor'[s] => monitoring'[s] /\ DelegateAlive(s)'
                      /\ s = active' => (hasMonitor'[s] <=> monitoring'[s])
    BY DEF MonitorsFollowSessions
  <2>1. CASE s = active'
    BY <1>5, <2>1 DEF DelegateAlive
  <2>2. CASE s # active'
    <3>1. s # NoSession
      BY SessionAssumption DEF Session, NoSession
    <3>2. DelegateAlive(s) => DelegateAlive(s)'
      BY <1>4, <3>1 DEF DelegateAlive
    <3>3. QED
      BY <1>4, <2>2, <3>2 DEF IInv, MonitorsFollowSessions
  <2>3. QED
    BY <2>1, <2>2
<1>8. ActiveIsNoZombie'
  BY <1>3, <1>4 DEF ActiveIsNoZombie
<1>9. LateChanceSpent'
  <2> SUFFICES ASSUME NEW s \in Session, late'[s] > 0
               PROVE  /\ late'[s] = 1
                      /\ s # active' /\ s <= created'
                      /\ tick'[s] = "ready" => ~DelegateAlive(s)'
    BY DEF LateChanceSpent
  <2>1. late[s] = 1 /\ s # active /\ s <= created /\ (tick[s] = "ready" => ~DelegateAlive(s))
    BY <1>4 DEF IInv, LateChanceSpent
  <2>2. s \in Nat
    BY SessionAssumption DEF Session
  <2>3. s # active' /\ s <= created'
    BY <1>3, <2>1, <2>2
  <2>4. QED
    BY <1>4, <2>1, <2>3 DEF DelegateAlive
<1>10. QED
  BY <1>6, <1>7, <1>8, <1>9 DEF IInv

(* A killed session's monitor is disabled, and it is not late yet. *)
LEMMA KillsKeeps == IInv /\ TypeOK' /\ Kills => IInv'
<1> SUFFICES ASSUME IInv, Kills, TypeOK' PROVE IInv'
  OBVIOUS
<1>1. TypeOK /\ Kill /\ active # NoSession /\ ~Idle'
  BY DEF IInv, Kills
<1>2. /\ active' = NoSession
      /\ zombies' = zombies \cup {active}
      /\ UNCHANGED <<created, tick, late>>
      /\ \A s \in Session :
           /\ hasMonitor'[s] = IF s = active THEN FALSE ELSE hasMonitor[s]
           /\ monitoring'[s] = IF s = active THEN FALSE ELSE monitoring[s]
  BY <1>1 DEF Kill, TypeOK
<1>3. \A s \in Session : s # NoSession
  BY SessionAssumption DEF Session, NoSession
<1>4. AnswerNamesActiveSession'
  BY <1>1 DEF AnswerNamesActiveSession
<1>5. MonitorsFollowSessions'
  BY <1>2, <1>3 DEF IInv, MonitorsFollowSessions, DelegateAlive
<1>6. ActiveIsNoZombie'
  <2>1. NoSession \notin zombies
    BY <1>1 DEF TypeOK, NoSession
  <2>2. QED
    BY <1>1, <1>2, <2>1 DEF ActiveIsNoZombie
<1>7. LateChanceSpent'
  BY <1>2, <1>3 DEF IInv, LateChanceSpent, DelegateAlive
<1>8. QED
  BY <1>4, <1>5, <1>6, <1>7 DEF IInv

(* A tick closes an alert too late only if it was dispatched before the      *)
(* session was removed and runs before the session is freed.                 *)
LEMMA TicksKeeps == IInv /\ TypeOK' /\ Ticks => IInv'
<1> SUFFICES ASSUME IInv, TypeOK', NEW s \in Session,
                    ScheduleNextTick(s) \/ \E tapped \in BOOLEAN : RunTick(s, tapped)
             PROVE  IInv'
  BY DEF Ticks
<1> USE DEF sessionVars, monitorVars, deviceVars, mainVars
<1>1. TypeOK
  BY DEF IInv
<1>2. UNCHANGED <<active, created, zombies, hasMonitor, monitoring, pc, resp>>
  BY DEF ScheduleNextTick, RunTick
<1>3. AnswerNamesActiveSession' /\ MonitorsFollowSessions' /\ ActiveIsNoZombie'
  BY <1>2 DEF IInv, AnswerNamesActiveSession, MonitorsFollowSessions, ActiveIsNoZombie,
              DelegateAlive, Idle
<1>4. /\ tick'[s] # "ready"
      /\ \A x \in Session : x # s => tick'[x] = tick[x] /\ late'[x] = late[x]
  BY <1>1 DEF ScheduleNextTick, RunTick, TypeOK
<1>5. \/ late'[s] = late[s]
      \/ tick[s] = "ready" /\ DelegateAlive(s) /\ s # active /\ late'[s] = late[s] + 1
  BY <1>1 DEF ScheduleNextTick, RunTick, TypeOK, Acts
<1>6. LateChanceSpent'
  <2> SUFFICES ASSUME NEW x \in Session, late'[x] > 0
               PROVE  /\ late'[x] = 1
                      /\ x # active' /\ x <= created'
                      /\ tick'[x] = "ready" => ~DelegateAlive(x)'
    BY DEF LateChanceSpent
  <2>1. CASE x # s \/ late'[s] = late[s]
    BY <2>1, <1>2, <1>4 DEF IInv, LateChanceSpent, DelegateAlive
  <2>2. CASE x = s /\ late'[s] # late[s]
    <3>1. tick[s] = "ready" /\ DelegateAlive(s) /\ s # active /\ late'[s] = late[s] + 1
      BY <1>5, <2>2
    <3>2. late[s] = 0
      <4>1. late[s] \in Nat
        BY <1>1 DEF TypeOK, LateCap
      <4>2. ~(late[s] > 0)
        BY <3>1 DEF IInv, LateChanceSpent
      <4>3. QED
        BY <4>1, <4>2
    <3>3. s <= created
      <4>1. s \in zombies /\ zombies \subseteq 1 .. created /\ created \in Nat
        BY <1>1, <3>1 DEF DelegateAlive, TypeOK
      <4>2. QED
        BY <4>1
    <3>4. QED
      BY <1>2, <1>4, <2>2, <3>1, <3>2, <3>3
  <2>3. QED
    BY <2>1, <2>2
<1>7. QED
  BY <1>3, <1>6 DEF IInv

(* Draining the pool frees the removed sessions: no late tick reaches one. *)
LEMMA RunLoopPassKeeps == IInv /\ TypeOK' /\ RunLoopPass => IInv'
<1> SUFFICES ASSUME IInv, TypeOK', RunLoopPass PROVE IInv'
  OBVIOUS
<1> USE DEF sessionVars, monitorVars, deviceVars, mainVars
<1>1. TypeOK /\ active \notin zombies
  BY DEF IInv, ActiveIsNoZombie
<1>2. /\ UNCHANGED <<active, created, monitoring, late, pc, resp>>
      /\ zombies' = {}
      /\ \A s \in Session : hasMonitor'[s] = (hasMonitor[s] /\ s \notin zombies)
  BY DEF RunLoopPass
<1>3. AnswerNamesActiveSession'
  BY <1>2 DEF IInv, AnswerNamesActiveSession, Idle
<1>4. MonitorsFollowSessions'
  BY <1>1, <1>2 DEF IInv, MonitorsFollowSessions, DelegateAlive
<1>5. ActiveIsNoZombie'
  BY <1>2 DEF ActiveIsNoZombie
<1>6. LateChanceSpent'
  BY <1>2 DEF IInv, LateChanceSpent, DelegateAlive
<1>7. QED
  BY <1>3, <1>4, <1>5, <1>6 DEF IInv

(* The invariant is kept by every step. *)
LEMMA InvariantStep == IInv /\ [Next]_vars => IInv'
<1> SUFFICES ASSUME IInv, [Next]_vars PROVE IInv'
  OBVIOUS
<1>1. TypeOK /\ TypeOK'
  BY TypeStep DEF IInv
<1>2. ASSUME Quiet PROVE IInv'
  BY <1>1, <1>2 DEF Quiet, IInv, AnswerNamesActiveSession, MonitorsFollowSessions,
                    ActiveIsNoZombie, LateChanceSpent, DelegateAlive
<1>3. ASSUME Answers PROVE IInv'
  BY <1>1, <1>3 DEF Answers, IInv, AnswerNamesActiveSession, MonitorsFollowSessions,
                    ActiveIsNoZombie, LateChanceSpent, DelegateAlive
<1>4. QED
  BY <1>1, <1>2, <1>3, StepKinds, OpensKeeps, KillsKeeps, TicksKeeps, RunLoopPassKeeps

LEMMA InvariantHolds == Spec => []IInv
BY InitInvariant, InvariantStep, PTL DEF Spec

(* No client is ever told a session identifier that is dead on arrival. *)
THEOREM AnswersAreCurrent == Spec => []AnswerNamesActiveSession
<1>1. IInv => AnswerNamesActiveSession
  BY DEF IInv
<1>2. QED
  BY <1>1, InvariantHolds, PTL

(* An enabled monitor that can reach its session belongs to the active       *)
(* session or to one that waits to be freed.                                 *)
THEOREM MonitorsAreOwned == Spec => []MonitorsFollowSessions
<1>1. IInv => MonitorsFollowSessions
  BY DEF IInv
<1>2. QED
  BY <1>1, InvariantHolds, PTL

(* A removed session's monitor closes at most one more alert, however the    *)
(* removal falls between its ticks.                                          *)
THEOREM OneLateAlert == Spec => []LateAlertAtMostOnce
<1>1. IInv => LateAlertAtMostOnce
  <2> SUFFICES ASSUME IInv, NEW s \in Session PROVE late[s] <= 1
    BY DEF LateAlertAtMostOnce
  <2>1. late[s] \in Nat
    BY DEF IInv, TypeOK, LateCap
  <2>2. late[s] > 0 => late[s] = 1
    BY DEF IInv, LateChanceSpent
  <2>3. QED
    BY <2>1, <2>2
<1>2. QED
  BY <1>1, InvariantHolds, PTL

-----------------------------------------------------------------------------
(* The chains of ticks *)

(* What each kind of step does to monitors and their chains. *)
LEMMA ChainKinds ==
  ASSUME TypeOK, [Next]_vars, NEW s \in Session
  PROVE  \/ monitoring'[s] = monitoring[s] /\ tick'[s] = tick[s]
         \/ s = created + 1 /\ (monitoring'[s] => tick'[s] = "queued")
         \/ ~monitoring'[s] /\ tick'[s] = tick[s]
         \/ ScheduleNextTick(s) \/ (\E tapped \in BOOLEAN : RunTick(s, tapped))
         \/ RunLoopPass
<1> USE DEF sessionVars, monitorVars, deviceVars, mainVars
<1>1. CASE Quiet \/ Answers
  BY <1>1 DEF Quiet, Answers
<1>2. CASE Opens
  <2>1. PICK b \in Bundle \cup {NoApp}, a \in AlertAction \cup {"none"},
             front \in App \cup {NoApp} : NewSession(b, a, front)
    BY <1>2 DEF Opens
  <2>2. CASE s = created + 1
    <3>1. monitoring'[s] = (a # "none") /\ tick'[s] = IF a # "none" THEN "queued" ELSE "none"
      BY <2>1, <2>2 DEF NewSession, FreshSession, TypeOK
    <3> QED
      BY <2>2, <3>1
  <2>3. CASE s # created + 1
    BY <2>1, <2>3, NothingSuperseded DEF NewSession, FreshSession, TypeOK
  <2> QED
    BY <2>2, <2>3
<1>3. CASE Kills
  BY <1>3 DEF Kills, Kill, TypeOK
<1>4. CASE Ticks
  <2>1. PICK x \in Session : ScheduleNextTick(x) \/ \E tapped \in BOOLEAN : RunTick(x, tapped)
    BY <1>4 DEF Ticks
  <2>2. CASE x # s
    BY <2>1, <2>2 DEF ScheduleNextTick, RunTick, TypeOK
  <2> QED
    BY <2>1, <2>2
<1> QED
  BY <1>1, <1>2, <1>3, <1>4, StepKinds

(* A tick lays the next link of an enabled monitor's chain, and shortens    *)
(* that of a disabled one.                                                  *)
LEMMA TickLays ==
  ASSUME TypeOK, NEW s \in Session,
         ScheduleNextTick(s) \/ \E tapped \in BOOLEAN : RunTick(s, tapped)
  PROVE  /\ monitoring'[s] = monitoring[s]
         /\ monitoring[s] => tick'[s] \in {"queued", "timer"}
         /\ ~monitoring[s] => \/ tick[s] = "timer" /\ tick'[s] = "none"
                              \/ tick[s] = "ready" /\ tick'[s] \in {"timer", "none"}
BY DEF ScheduleNextTick, RunTick, TypeOK

LEMMA PassMakesReady ==
  ASSUME TypeOK, NEW s \in Session, RunLoopPass
  PROVE  /\ monitoring'[s] = monitoring[s]
         /\ tick'[s] = IF tick[s] = "queued" THEN "ready" ELSE tick[s]
BY DEF RunLoopPass

(* An enabled monitor always has a next tick coming. *)
THEOREM EnabledMonitorsTick == Spec => []EnabledMonitorTicks
<1>1. Init => EnabledMonitorTicks
  BY DEF Init, EnabledMonitorTicks
<1>2. ASSUME TypeOK, EnabledMonitorTicks, [Next]_vars PROVE EnabledMonitorTicks'
  <2> SUFFICES ASSUME NEW s \in Session, monitoring'[s] PROVE tick'[s] # "none"
    BY DEF EnabledMonitorTicks
  <2>1. monitoring[s] => tick[s] # "none"
    BY <1>2 DEF EnabledMonitorTicks
  <2> QED
    BY <1>2, <2>1, ChainKinds, TickLays, PassMakesReady
<1> QED
  BY <1>1, <1>2, TypeCorrect, PTL DEF Spec

(* A disabled monitor is never enabled again, and its chain runs down.      *)
THEOREM DisabledMonitorsRunDown == Spec => DisabledMonitorRunsDown
<1>1. ASSUME TypeOK, [Next]_vars, NEW s \in Session, s <= created, ~monitoring[s]
      PROVE  /\ ~monitoring'[s]
             /\ StepsLeft(s)' <= StepsLeft(s)
             /\ ScheduleNextTick(s) \/ (\E tapped \in BOOLEAN : RunTick(s, tapped))
                  => StepsLeft(s)' < StepsLeft(s)
  <2>1. s # created + 1 /\ tick[s] \in TickState
    BY <1>1, SessionAssumption DEF TypeOK, Session
  <2>2. CASE ScheduleNextTick(s) \/ \E tapped \in BOOLEAN : RunTick(s, tapped)
    <3>1. /\ ~monitoring'[s]
          /\ \/ tick[s] = "timer" /\ tick'[s] = "none"
             \/ tick[s] = "ready" /\ tick'[s] \in {"timer", "none"}
      BY <1>1, <2>2, TickLays
    <3>2. StepsLeft(s)' < StepsLeft(s) /\ StepsLeft(s)' <= StepsLeft(s)
      BY <3>1 DEF StepsLeft
    <3> QED
      BY <3>1, <3>2
  <2>3. CASE ~(ScheduleNextTick(s) \/ \E tapped \in BOOLEAN : RunTick(s, tapped))
    <3>1. /\ ~monitoring'[s]
          /\ tick'[s] = tick[s] \/ (tick[s] = "queued" /\ tick'[s] = "ready")
      BY <1>1, <2>1, <2>3, ChainKinds, PassMakesReady
    <3>2. StepsLeft(s)' <= StepsLeft(s)
      BY <2>1, <3>1 DEF StepsLeft, TickState
    <3> QED
      BY <2>3, <3>1, <3>2
  <2> QED
    BY <2>2, <2>3
<1>2. TypeOK /\ [Next]_vars
        => [\A s \in Session :
              s <= created /\ ~monitoring[s]
                => /\ ~monitoring'[s]
                   /\ StepsLeft(s)' <= StepsLeft(s)
                   /\ ScheduleNextTick(s) \/ (\E tapped \in BOOLEAN : RunTick(s, tapped))
                        => StepsLeft(s)' < StepsLeft(s)]_vars
  BY <1>1
<1> QED
  BY <1>2, TypeCorrect, PTL DEF Spec, DisabledMonitorRunsDown

-----------------------------------------------------------------------------
(* The sessions implement the registry. *)

LEMMA RegistryInit == Init => Registry!Init
BY DEF Init, Registry!Init, NoSession

LEMMA RegistryStep == IInv /\ [Next]_vars => [Registry!Next]_(Registry!registryVars)
<1> SUFFICES ASSUME IInv, [Next]_vars PROVE [Registry!Next]_(Registry!registryVars)
  OBVIOUS
<1> USE DEF Registry!registryVars, sessionVars, monitorVars, deviceVars, mainVars
<1>1. TypeOK
  BY DEF IInv
<1>2. ASSUME UNCHANGED <<active, created>> PROVE UNCHANGED Registry!registryVars
  BY <1>2
<1>3. ASSUME Opens PROVE Registry!Next
  <2>1. PICK b \in Bundle \cup {NoApp}, a \in AlertAction \cup {"none"},
             front \in App \cup {NoApp} : NewSession(b, a, front)
    BY <1>3 DEF Opens
  <2>2. created' = created + 1 /\ created' \in Session /\ active' = created' /\ created \in Nat
    <3>1. created \in Nat
      BY <1>1 DEF TypeOK
    <3>2. QED
      BY <1>1, <2>1, <3>1, NewSessionType
  <2>3. created + 1 \notin (1 .. created) \cup {NoSession}
    BY <2>2 DEF NoSession
  <2>4. 1 .. created' = (1 .. created) \cup {created + 1}
    BY <2>2
  <2>5. Registry!Open(created + 1)
    BY <2>2, <2>3, <2>4 DEF Registry!Open
  <2>6. QED
    BY <2>2, <2>5 DEF Registry!Next
<1>4. ASSUME Kills PROVE Registry!Next
  BY <1>4 DEF Kills, Kill, Registry!Next, Registry!Close
<1>5. QED
  BY <1>1, <1>2, <1>3, <1>4, StepKinds
  DEF Quiet, Answers, Ticks, ScheduleNextTick, RunTick, RunLoopPass

(* A session identifier is never issued twice, and one that is no longer     *)
(* current never becomes current again.                                      *)
THEOREM SessionsImplementRegistry == Spec => ImplementsRegistry
BY RegistryInit, RegistryStep, InvariantHolds, PTL
DEF Spec, ImplementsRegistry, Registry!Spec
=============================================================================
