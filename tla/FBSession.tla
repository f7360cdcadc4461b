------------------------------ MODULE FBSession ------------------------------
(***************************************************************************)
(* The session layer of WebDriverAgent: the one active FBSession, the      *)
(* requests that create, use, replace and delete it, the alerts monitor    *)
(* each session may own, and the applications of the device.               *)
(*                                                                         *)
(* Everything here runs on the main thread.  A request handler is one      *)
(* block of the main dispatch queue, so no other handler and no monitor    *)
(* tick interleaves with it; what does interleave is the device (an        *)
(* application crashes, goes to the background, shows an alert) while the  *)
(* handler waits for XCTest, so a handler is split at those waits and `pc` *)
(* says where the running one is.                                          *)
(***************************************************************************)
EXTENDS Naturals, FiniteSets

CONSTANTS
  Bundle,        \* bundle identifiers of the applications under test
  Springboard,   \* the system application, frontmost when no other one is
  NoApp,         \* nil, where the code expects an application
  AlertAction,   \* the values of "defaultAlertAction" clients ask for
  MaxSessions    \* bound: sessions created in one life of the server

ASSUME SessionAssumption ==
  /\ NoApp \notin Bundle \cup {Springboard}
  /\ Springboard \notin Bundle
  /\ MaxSessions \in Nat \ {0}
  /\ AlertAction \subseteq {"accept", "dismiss", "unsupported"}

NoSession == 0
Session == 1 .. MaxSessions
App == Bundle \cup {Springboard}

(* The XCUIApplicationState values the code tells apart; 2 (suspended) is   *)
(* treated like 3 everywhere (fb_state < 2, fb_state >= 2).                 *)
NotRunning == 1
Background == 3
Foreground == 4

VARIABLES
  active,        \* _activeSession, or NoSession
  created,       \* number of sessions created; the last one has this number
  tested,        \* testedApplicationBundleId of each session, or NoApp
  apps,          \* the keys of each session's `applications`
  alertAction,   \* defaultAlertAction of each session, "none" for nil
  zombies,       \* sessions nothing refers to, still in an autorelease pool
  hasMonitor,    \* the session still owns its monitor (alertsMonitor # nil)
  monitoring,    \* isMonitoring of the monitor the session created
  monApp,        \* `application` of that monitor, or NoApp
  tick,          \* where that monitor's chain of ticks stands
  late,          \* alerts acted on for a session that was no longer active
  state,         \* state of each application
  alert,         \* the application shows an alert
  pc,            \* where the handler on the main queue is, or "idle"
  req,           \* the request that handler serves
  resp           \* the session identifier in the last answer sent

sessionVars == <<active, created, tested, apps, alertAction, zombies>>
monitorVars == <<hasMonitor, monitoring, monApp, tick, late>>
deviceVars  == <<state, alert>>
mainVars    == <<pc, req, resp>>
vars == <<sessionVars, monitorVars, deviceVars, mainVars>>

Status == {"none", "ok", "error", "noSession", "crashed"}
(* Bound of the ghost counter `late`: one more than the code may reach. *)
LateCap == 2

(* A tick chain is over, waits for its dispatch_after, has dispatched its   *)
(* block during the current pass over the main queue (the block runs in a   *)
(* later pass), or has its block next in line.                              *)
TickState == {"none", "timer", "queued", "ready"}

NoRequest == [bundle |-> NoApp, action |-> "none", status |-> "none"]

TypeOK ==
  /\ created \in 0 .. MaxSessions
  /\ active \in 0 .. created
  /\ tested \in [Session -> Bundle \cup {NoApp}]
  /\ apps \in [Session -> SUBSET Bundle]
  /\ alertAction \in [Session -> AlertAction \cup {"none"}]
  /\ zombies \in SUBSET (1 .. created)
  /\ hasMonitor \in [Session -> BOOLEAN]
  /\ monitoring \in [Session -> BOOLEAN]
  /\ monApp \in [Session -> App \cup {NoApp}]
  /\ tick \in [Session -> TickState]
  /\ late \in [Session -> 0 .. LateCap]
  /\ state \in [Bundle -> {NotRunning, Background, Foreground}]
  /\ alert \in [App -> BOOLEAN]
  /\ pc \in {"idle", "install", "inform", "respond", "stopped"}
  /\ req \in [bundle : Bundle \cup {NoApp},
              action : AlertAction \cup {"none"}, status : Status]
  /\ resp \in 0 .. created

Init ==
  /\ active = NoSession
  /\ created = 0
  /\ tested = [s \in Session |-> NoApp]
  /\ apps = [s \in Session |-> {}]
  /\ alertAction = [s \in Session |-> "none"]
  /\ zombies = {}
  /\ hasMonitor = [s \in Session |-> FALSE]
  /\ monitoring = [s \in Session |-> FALSE]
  /\ monApp = [s \in Session |-> NoApp]
  /\ tick = [s \in Session |-> "none"]
  /\ late = [s \in Session |-> 0]
  /\ state \in [Bundle -> {NotRunning, Background}]
  /\ alert = [a \in App |-> FALSE]
  /\ pc = "idle"
  /\ req = NoRequest
  /\ resp = NoSession

-----------------------------------------------------------------------------
(* The device *)

Running(a) == a = Springboard \/ (a \in Bundle /\ state[a] # NotRunning)

InForeground == {b \in Bundle : state[b] = Foreground}

(* activeApplications.firstObject, or nil while the device is between two   *)
(* applications.                                                            *)
FrontmostApps ==
  (IF InForeground = {} THEN {Springboard} ELSE InForeground) \cup {NoApp}

(* b comes to the front, the application that was there goes behind it. *)
ToForeground(b) ==
  [x \in Bundle |-> IF x = b THEN Foreground
                    ELSE IF state[x] = Foreground THEN Background ELSE state[x]]

NoAlertsOf(stopped) == [a \in App |-> alert[a] /\ a \notin stopped]

-----------------------------------------------------------------------------
(* FBSession *)

(* Fault: the next session gets the identifier of the last one. *)
FreshSession_Reused == IF created = 0 THEN 1 ELSE created

(* The identifier of a new session: a UUID, so never one in use before. *)
FreshSession == created + 1

(* The property markSessionActive compares.  Nothing assigns it. *)
TestedApplication(s) == NoApp

(* The applications [session kill] terminates: the tested one, if it is     *)
(* still among the registered ones.                                         *)
KillTargets(s) == apps[s] \cap {tested[s]}

(* The session markSessionActive kills before it activates the new one. *)
Superseded ==
  IF active # NoSession /\ TestedApplication(active) # TestedApplication(FreshSession)
  THEN {active} ELSE {}

TerminatedBy(killed) == UNION {KillTargets(s) : s \in killed}

(* Fault: nil is registered like an application. *)
RegisteredAtFirst_WithNil(b) == {b}

(* The application a new session registers, if there is one. *)
RegisteredAtFirst(b) == {b} \ {NoApp}

StopApps(stopped) ==
  /\ state' = [b \in Bundle |-> IF b \in stopped THEN NotRunning ELSE state[b]]
  /\ alert' = NoAlertsOf(stopped)

(* sessionWithApplication: and sessionWithApplication:defaultAlertAction:,  *)
(* the latter when `action` is not "none": a session for b becomes active,  *)
(* its monitor watches `front` and has its first block dispatched.          *)
NewSession(b, action, front) ==
  LET s == FreshSession
      monitored == action # "none"
  IN
  /\ created < MaxSessions
  /\ created' = s
  /\ active' = s
  /\ tested' = [tested EXCEPT ![s] = b]
  /\ apps' = [apps EXCEPT ![s] = RegisteredAtFirst(b)]
  /\ alertAction' = [alertAction EXCEPT ![s] = action]
  /\ zombies' = zombies \cup ({active} \ {NoSession})
  /\ hasMonitor' = [x \in Session |-> IF x = s THEN monitored
                                      ELSE hasMonitor[x] /\ x \notin Superseded]
  /\ monitoring' = [x \in Session |-> IF x = s THEN monitored
                                      ELSE monitoring[x] /\ x \notin Superseded]
  /\ monApp' = [monApp EXCEPT ![s] = IF monitored THEN front ELSE NoApp]
  /\ tick' = [tick EXCEPT ![s] = IF monitored THEN "queued" ELSE "none"]
  /\ StopApps(TerminatedBy(Superseded))
  /\ UNCHANGED late

(* Fault: kill disables the monitor and forgets to let go of it. *)
Kill_KeepsMonitor ==
  /\ monitoring' = [monitoring EXCEPT ![active] = FALSE]
  /\ StopApps(KillTargets(active))
  /\ active' = NoSession
  /\ zombies' = zombies \cup {active}
  /\ UNCHANGED <<created, tested, apps, alertAction, hasMonitor, monApp, tick, late>>

(* [session kill] of the active session. *)
Kill ==
  /\ hasMonitor' = [hasMonitor EXCEPT ![active] = FALSE]
  /\ monitoring' = [monitoring EXCEPT ![active] = FALSE]
  /\ StopApps(KillTargets(active))
  /\ active' = NoSession
  /\ zombies' = zombies \cup {active}
  /\ UNCHANGED <<created, tested, apps, alertAction, monApp, tick, late>>

-----------------------------------------------------------------------------
(* Requests.  A request's first step finds the main queue idle. *)

Idle == pc = "idle"

(* The handler has its answer, or an exception that FBExceptionHandler turns *)
(* into one; what is left is to build it.                                    *)
Finish(status) ==
  /\ pc' = "respond"
  /\ req' = [req EXCEPT !.status = status]
  /\ UNCHANGED resp

(* The session a request for identifier sid is served with. *)
SessionWithIdentifier(sid) ==
  IF sid # NoSession /\ sid = active THEN active ELSE NoSession

(* decorateRequest: the route needs a session and this is it. *)
ServedWith(sid) == Idle /\ SessionWithIdentifier(sid) # NoSession

(* A route that needs a session, and an identifier that names none. *)
RejectRequest(sid) ==
  /\ Idle
  /\ SessionWithIdentifier(sid) = NoSession
  /\ Finish("noSession")
  /\ UNCHANGED <<sessionVars, monitorVars, deviceVars>>

(* Routes that need no session and touch nothing, GET /status for one, and  *)
(* POST /session without a bundle identifier.                               *)
SessionlessRequest(status) ==
  /\ Idle
  /\ Finish(status)
  /\ UNCHANGED <<sessionVars, monitorVars, deviceVars>>

(* POST /session, up to [app launch] and the check of app.processID. *)
CreateSession(b, action) ==
  /\ Idle
  /\ created < MaxSessions
  /\ alert' = NoAlertsOf({b})
  /\ \/ /\ state' = ToForeground(b)
        /\ pc' = "install"
        /\ req' = [bundle |-> b, action |-> action, status |-> "ok"]
        /\ UNCHANGED resp
     \/ /\ state' = [state EXCEPT ![b] = NotRunning]
        /\ Finish("error")
  /\ UNCHANGED <<sessionVars, monitorVars>>

(* POST /session goes on: the session replaces the active one. *)
InstallSession ==
  /\ pc = "install"
  /\ \E front \in FrontmostApps : NewSession(req.bundle, req.action, front)
  /\ pc' = "inform"
  /\ UNCHANGED <<req, resp>>

(* [session activeApplication]: raises if the tested application is         *)
(* registered and does not run, else tells the monitor who is in front.     *)
ActiveApplication(s) ==
  \/ /\ tested[s] \in apps[s] /\ ~Running(tested[s])
     /\ Finish("crashed")
     /\ UNCHANGED monApp
  \/ /\ ~(tested[s] \in apps[s] /\ ~Running(tested[s]))
     /\ \E front \in FrontmostApps :
          monApp' = [monApp EXCEPT ![s] = IF hasMonitor[s] THEN front ELSE @]
     /\ Finish("ok")

(* POST /session ends with the session's description. *)
InformSession ==
  /\ pc = "inform"
  /\ ActiveApplication(active)
  /\ UNCHANGED <<sessionVars, hasMonitor, monitoring, tick, late, deviceVars>>

(* GET /session/<sid>; every command that asks its session for the active   *)
(* application starts like this.                                            *)
GetSession(sid) ==
  /\ ServedWith(sid)
  /\ ActiveApplication(active)
  /\ UNCHANGED <<sessionVars, hasMonitor, monitoring, tick, late, deviceVars>>

DeleteSession(sid) ==
  /\ ServedWith(sid)
  /\ created < MaxSessions      \* the answer will need a session
  /\ Kill
  /\ Finish("ok")

(* POST /wda/apps/launch: registers b, launches it if it does not run, and  *)
(* activates it; `up` is FALSE when the device does not bring it up.        *)
LaunchApplication(sid, b, up) ==
  /\ ServedWith(sid)
  /\ apps' = [apps EXCEPT ![active] = @ \cup {b}]
  /\ up \/ ~Running(b)
  /\ state' = IF up THEN ToForeground(b) ELSE state
  /\ Finish("ok")
  /\ UNCHANGED <<active, created, tested, alertAction, zombies, monitorVars, alert>>

(* POST /wda/apps/activate: [app activate] starts an application that does  *)
(* not run, so it differs from a launch in the arguments only.              *)
ActivateApplication(sid, b, up) == LaunchApplication(sid, b, up)

(* POST /wda/apps/terminate *)
TerminateApplication(sid, b) ==
  /\ ServedWith(sid)
  /\ StopApps({b})
  /\ apps' = [apps EXCEPT ![active] = @ \ {b}]
  /\ Finish("ok")
  /\ UNCHANGED <<active, created, tested, alertAction, zombies, monitorVars>>

(* POST /terminate: stops an application behind the session's back. *)
TerminateAny(b) ==
  /\ Idle
  /\ Running(b)
  /\ StopApps({b})
  /\ Finish("ok")
  /\ UNCHANGED <<sessionVars, monitorVars>>

(* Fault: an answer names no session when there is none. *)
Respond_WithoutSession ==
  /\ pc = "respond"
  /\ resp' = active
  /\ pc' = "idle"
  /\ req' = NoRequest
  /\ UNCHANGED <<sessionVars, monitorVars, deviceVars>>

(* Every answer names the active session, and [FBSession activeSession]     *)
(* creates an empty one when there is none.                                 *)
Respond ==
  /\ pc = "respond"
  /\ IF active # NoSession
     THEN UNCHANGED <<sessionVars, monitorVars, deviceVars>>
     ELSE NewSession(NoApp, "none", NoApp)
  /\ resp' = active'
  /\ pc' = "idle"
  /\ req' = NoRequest

(* /wda/shutdown: stopServing kills the active session and ends the main    *)
(* loop.  Without one it kills an empty session nobody saw.                 *)
StopServing ==
  /\ Idle
  /\ IF active # NoSession
     THEN Kill
     ELSE UNCHANGED <<sessionVars, monitorVars, deviceVars>>
  /\ pc' = "stopped"
  /\ UNCHANGED <<req, resp>>

-----------------------------------------------------------------------------
(* FBAlertsMonitor.  Its delegate is weak: nil once the session is freed. *)

DelegateAlive(s) == s = active \/ s \in zombies

(* A monitor is freed with the last block of its chain. *)
FreedMonitor(s) ==
  monApp' = [monApp EXCEPT ![s] = IF tick'[s] = "none" THEN NoApp ELSE @]

(* Fault: the tick goes on without looking at isMonitoring. *)
ScheduleNextTick_IgnoresDisable(s) ==
  /\ Idle
  /\ tick[s] = "timer"
  /\ tick' = [tick EXCEPT ![s] = IF DelegateAlive(s) THEN "queued" ELSE "timer"]
  /\ UNCHANGED <<sessionVars, hasMonitor, monitoring, monApp, late, deviceVars, mainVars>>

(* Fault: the tick looks for an alert at once instead of in a later block. *)
ScheduleNextTick_Synchronous(s) ==
  /\ Idle
  /\ tick[s] = "timer"
  /\ tick' = [tick EXCEPT ![s] = IF ~monitoring[s] THEN "none"
                                 ELSE IF DelegateAlive(s) THEN "ready" ELSE "timer"]
  /\ FreedMonitor(s)
  /\ UNCHANGED <<sessionVars, hasMonitor, monitoring, late, deviceVars, mainVars>>

(* The 2 s dispatch_after ends: scheduleNextTick. *)
ScheduleNextTick(s) ==
  /\ Idle
  /\ tick[s] = "timer"
  /\ tick' = [tick EXCEPT ![s] = IF ~monitoring[s] THEN "none"
                                 ELSE IF DelegateAlive(s) THEN "queued" ELSE "timer"]
  /\ FreedMonitor(s)
  /\ UNCHANGED <<sessionVars, hasMonitor, monitoring, late, deviceVars, mainVars>>

(* didDetectAlert reacts to the alert of the monitored application. *)
Acts(s) ==
  /\ DelegateAlive(s)
  /\ Running(monApp[s])
  /\ alert[monApp[s]]
  /\ alertAction[s] \in {"accept", "dismiss"}

(* Fault: the chain ends when the monitored application does not run. *)
RunTick_GivesUp(s, tapped) ==
  /\ Idle
  /\ tick[s] = "ready"
  /\ alert' = [alert EXCEPT ![monApp[s]] = @ /\ ~(Acts(s) /\ tapped)]
  /\ late' = [late EXCEPT ![s] = IF Acts(s) /\ s # active /\ @ < LateCap
                                 THEN @ + 1 ELSE @]
  /\ tick' = [tick EXCEPT ![s] = IF Running(monApp[s]) /\ monitoring[s]
                                 THEN "timer" ELSE "none"]
  /\ FreedMonitor(s)
  /\ UNCHANGED <<sessionVars, hasMonitor, monitoring, state, mainVars>>

(* The block scheduleNextTick dispatched; `tapped`: the tap on the alert's  *)
(* button closed it.                                                        *)
RunTick(s, tapped) ==
  /\ Idle
  /\ tick[s] = "ready"
  /\ IF ~Running(monApp[s])
     THEN /\ tick' = [tick EXCEPT ![s] = "timer"]
          /\ UNCHANGED <<alert, late>>
     ELSE /\ alert' = [alert EXCEPT ![monApp[s]] = @ /\ ~(Acts(s) /\ tapped)]
          /\ late' = [late EXCEPT ![s] = IF Acts(s) /\ s # active /\ @ < LateCap
                                         THEN @ + 1 ELSE @]
          /\ tick' = [tick EXCEPT ![s] = IF monitoring[s] THEN "timer" ELSE "none"]
  /\ FreedMonitor(s)
  /\ UNCHANGED <<sessionVars, hasMonitor, monitoring, state, mainVars>>

(* The main run loop ends a pass: the autorelease pool is drained, so the   *)
(* sessions nothing refers to are freed, and what was dispatched during the *)
(* pass is next in line.                                                    *)
RunLoopPass ==
  /\ Idle
  /\ zombies # {} \/ \E s \in Session : tick[s] = "queued"
  /\ zombies' = {}
  /\ tested' = [s \in Session |-> IF s \in zombies THEN NoApp ELSE tested[s]]
  /\ apps' = [s \in Session |-> IF s \in zombies THEN {} ELSE apps[s]]
  /\ alertAction' = [s \in Session |-> IF s \in zombies THEN "none" ELSE alertAction[s]]
  /\ hasMonitor' = [s \in Session |-> hasMonitor[s] /\ s \notin zombies]
  /\ tick' = [s \in Session |-> IF tick[s] = "queued" THEN "ready" ELSE tick[s]]
  /\ UNCHANGED <<active, created, monitoring, monApp, late, deviceVars, mainVars>>

-----------------------------------------------------------------------------
(* What the device does by itself, whatever the main thread is at. *)

CrashApp(b) ==
  /\ Running(b)
  /\ StopApps({b})
  /\ UNCHANGED <<sessionVars, monitorVars, mainVars>>

(* The user, or a tap on the Springboard, brings b to the front. *)
OpenApp(b) ==
  /\ state' = ToForeground(b)
  /\ UNCHANGED <<sessionVars, monitorVars, alert, mainVars>>

GoHome ==
  /\ InForeground # {}
  /\ state' = [b \in Bundle |-> IF state[b] = Foreground THEN Background ELSE state[b]]
  /\ UNCHANGED <<sessionVars, monitorVars, alert, mainVars>>

ShowAlert(a) ==
  /\ a \in FrontmostApps \ {NoApp}
  /\ alert' = [alert EXCEPT ![a] = TRUE]
  /\ UNCHANGED <<sessionVars, monitorVars, state, mainVars>>

-----------------------------------------------------------------------------
RequestStep ==
  \/ \E sid \in 0 .. MaxSessions :
       \/ RejectRequest(sid)
       \/ GetSession(sid)
       \/ DeleteSession(sid)
       \/ \E b \in Bundle : TerminateApplication(sid, b)
       \/ \E b \in Bundle, up \in BOOLEAN :
            LaunchApplication(sid, b, up) \/ ActivateApplication(sid, b, up)
  \/ \E b \in Bundle, action \in AlertAction \cup {"none"} : CreateSession(b, action)
  \/ \E b \in Bundle : TerminateAny(b)
  \/ \E status \in {"ok", "error"} : SessionlessRequest(status)
  \/ StopServing

HandlerStep == InstallSession \/ InformSession \/ Respond

MonitorStep ==
  \E s \in Session : ScheduleNextTick(s) \/ \E tapped \in BOOLEAN : RunTick(s, tapped)

DeviceStep ==
  \/ \E b \in Bundle : CrashApp(b) \/ OpenApp(b)
  \/ GoHome
  \/ \E a \in App : ShowAlert(a)

Next == RequestStep \/ HandlerStep \/ MonitorStep \/ RunLoopPass \/ DeviceStep

(* The main thread goes on with the handler it runs.  Blocks of the main    *)
(* queue are served in order and 2 s timers fire, so a block or timer that  *)
(* can run again and again between two requests runs; and a tap repeated    *)
(* for ever on a standing alert's button closes it in the end.              *)
Fairness ==
  /\ WF_vars(HandlerStep)
  /\ SF_vars(RunLoopPass)
  /\ \A s \in Session : SF_vars(ScheduleNextTick(s)) /\ SF_vars(RunTick(s, TRUE))

Spec == Init /\ [][Next]_vars
FairSpec == Spec /\ Fairness

-----------------------------------------------------------------------------
(* Properties *)

(* Every answer a client gets names a session, the active one at that time, *)
(* and that session stays the active one until another request runs: no     *)
(* client is told an identifier that is dead on arrival.  (Answers are      *)
(* built after DELETE has killed the session and after POST /session        *)
(* failed half way.)                                                        *)
AnswerNamesActiveSession ==
  Idle /\ created > 0 => resp = active /\ active # NoSession

(* A monitor that is enabled and can still reach its session belongs to the *)
(* active session, or to one that only waits to be freed; and the active    *)
(* session's own monitor is enabled as long as the session owns one.        *)
MonitorsFollowSessions ==
  \A s \in Session :
    /\ hasMonitor[s] => monitoring[s] /\ DelegateAlive(s)
    /\ s = active => (hasMonitor[s] <=> monitoring[s])

(* After DELETE, replacement or shutdown the removed session's monitor      *)
(* closes at most one more alert: the tick block that was already           *)
(* dispatched.                                                              *)
LateAlertAtMostOnce == \A s \in Session : late[s] <= 1

(* A monitor that is enabled has a chain of ticks, whether the watched      *)
(* application runs or the last tap failed: a link that is not laid is laid *)
(* by nothing else (FBAlertsMonitor.m:38-52).                               *)
EnabledMonitorTicks == \A s \in Session : monitoring[s] => tick[s] # "none"

(* Steps left to a chain that nobody prolongs. *)
StepsLeft(s) ==
  CASE tick[s] = "queued" -> 3
    [] tick[s] = "ready"  -> 2
    [] tick[s] = "timer"  -> 1
    [] tick[s] = "none"   -> 0

(* A monitor that was disabled stays so, and its chain runs down: at most   *)
(* the block already dispatched and one timer are left of it, which every   *)
(* tick uses up and nothing renews, neither a session that opens later nor  *)
(* an application that comes back.                                          *)
DisabledMonitorRunsDown ==
  [][\A s \in Session :
       s <= created /\ ~monitoring[s]
         => /\ ~monitoring'[s]
            /\ StepsLeft(s)' <= StepsLeft(s)
            /\ ScheduleNextTick(s) \/ (\E tapped \in BOOLEAN : RunTick(s, tapped))
                 => StepsLeft(s)' < StepsLeft(s)]_vars

(* The monitor of a killed session stops ticking, unless the server stops. *)
KilledMonitorStops ==
  \A s \in Session :
    (s <= created /\ ~monitoring[s] /\ tick[s] # "none") ~> (tick[s] = "none" \/ pc = "stopped")

(* The active session's monitor watches a, which runs. *)
Watching(s, a) ==
  /\ pc # "stopped"
  /\ s = active
  /\ hasMonitor[s]
  /\ alertAction[s] \in {"accept", "dismiss"}
  /\ monApp[s] = a
  /\ Running(a)

(* An alert of the application the active session watches is closed by the  *)
(* session's default action, however many requests run meanwhile, unless    *)
(* the session stops watching that application first.                       *)
WatchedAlertIsClosed ==
  \A s \in Session, a \in App : (Watching(s, a) /\ alert[a]) ~> ~(Watching(s, a) /\ alert[a])

(* What every step keeps, and what the properties above follow from. *)

(* The active session is not one of those waiting to be freed. *)
ActiveIsNoZombie == active \notin zombies

(* A monitor that closed an alert too late has spent its only chance: when  *)
(* its next block runs, its session is gone.                                *)
LateChanceSpent ==
  \A s \in Session :
    late[s] > 0 => /\ late[s] = 1
                   /\ s # active /\ s <= created
                   /\ tick[s] = "ready" => ~DelegateAlive(s)

IInv ==
  /\ TypeOK
  /\ AnswerNamesActiveSession
  /\ MonitorsFollowSessions
  /\ ActiveIsNoZombie
  /\ LateChanceSpent

(* The sessions implement the registry: identifiers are never issued twice  *)
(* and one that is no longer current never becomes current again.           *)
Registry == INSTANCE SessionRegistry
  WITH Id <- Session, None <- NoSession, current <- active, issued <- 1 .. created
ImplementsRegistry == Registry!Spec

(* FBSession.h of kill: "Kills application associated with that session and *)
(* removes session".  Removing a session leaves its tested application      *)
(* stopped, unless the session that follows is for the same application.    *)
RemovedSessionsAppIsKilled ==
  [][\A s \in Session :
       /\ active = s /\ active' # s /\ tested[s] # NoApp
       => state'[tested[s]] = NotRunning \/ (active' # NoSession /\ tested'[active'] = tested[s])]_vars
=============================================================================
