----------------------------- MODULE FBApplication -----------------------------
(***************************************************************************)
(* FBApplication objects: which process each one stands for, whether that  *)
(* process is wrapped in an FBApplicationProcessProxy (which never waits   *)
(* for quiescence), the KVO observers that wrap it, and the registry that  *)
(* finds the object of a pid.  With it the part of the session that        *)
(* creates, keeps and drops the objects, and the process-wide setting its  *)
(* relaunches read.                                                        *)
(*                                                                         *)
(* Requests run on the main thread.  An observer does not wrap a process   *)
(* when it is told of it; it dispatches a block to the main queue, which   *)
(* runs after the current request and after those queued before it.  The   *)
(* processes belong to the device: they start and crash at any moment, and *)
(* a pid may be given again once its process is gone.                      *)
(***************************************************************************)
EXTENDS Integers, Sequences, FiniteSets

CONSTANTS
  Bundle,        \* bundle identifiers
  NoBundle,      \* nil, where the code expects a bundle identifier
  Pid,           \* process identifiers the system hands out
  MaxProcesses,  \* bound: processes started
  MaxObjects,    \* bound: FBApplication objects allocated
  MaxObservers   \* bound: registrations of one object as an observer

ASSUME ApplicationAssumption ==
  /\ NoBundle \notin Bundle
  /\ MaxProcesses \in Nat \ {0}
  /\ MaxObjects \in Nat \ {0}
  /\ MaxObservers \in Nat \ {0}

Process == 1 .. MaxProcesses
Object  == 1 .. MaxObjects
NoProcess == 0
NoObject  == 0
(* Any object made by a look-up: it is in no session and observes nothing.  *)
LookedUp == MaxObjects + 1

VARIABLES
  started,    \* number of processes started so far
  live,       \* the processes that run: number, bundle, pid, and the object
              \* whose `launch` started it, or NoObject
  allocated,  \* number of FBApplication objects so far
  bundleID,   \* bundle identifier of each object
  waits,      \* its fb_shouldWaitForQuiescence
  observing,  \* its fb_isObservingAppImplCurrentProcess
  observers,  \* its registrations as KVO observer of currentProcess
  current,    \* its fb_appImpl.currentProcess
  proxied,    \* currentProcess is an FBApplicationProcessProxy
  assigned,   \* the process XCTest last set there
  registry,   \* FBPidToApplicationMapping
  apps,       \* `applications` of the active session
  tested,     \* its testedApplicationBundleId
  asked,      \* the shouldWaitForQuiescence it was created with
  config,     \* FBConfiguration.shouldWaitForQuiescence
  failed,     \* a POST /session has failed since the session was created
  blocks,     \* the observers' blocks in the main queue
  pc,         \* where the running handler is, or "idle"
  job         \* the object it works on, and what it was asked

deviceVars  == <<started, live>>
objectVars  == <<allocated, bundleID, waits, observing, observers>>
processVars == <<current, proxied, assigned>>
sessionVars == <<apps, tested, asked, config, failed>>
mainVars    == <<blocks, pc, job>>
vars == <<deviceVars, objectVars, processVars, registry, sessionVars, mainVars>>

Given == {"none", "yes", "no"}      \* an optional boolean of a request
NoJob == [object |-> NoObject, then |-> "none", given |-> "none"]

TypeOK ==
  /\ started \in 0 .. MaxProcesses
  /\ live \subseteq [process : 1 .. started, bundle : Bundle, pid : Pid,
                     launcher : 0 .. MaxObjects]
  /\ allocated \in 0 .. MaxObjects
  /\ bundleID \in [Object -> Bundle \cup {NoBundle}]
  /\ waits \in [Object -> BOOLEAN]
  /\ observing \in [Object -> BOOLEAN]
  /\ observers \in [Object -> 0 .. MaxObservers]
  /\ current \in [Object -> 0 .. MaxProcesses]
  /\ proxied \in [Object -> BOOLEAN]
  /\ assigned \in [Object -> 0 .. MaxProcesses]
  /\ registry \in [Pid -> 0 .. LookedUp]
  /\ apps \in [Bundle -> 0 .. allocated]
  /\ tested \in Bundle \cup {NoBundle}
  /\ asked \in BOOLEAN /\ config \in BOOLEAN /\ failed \in BOOLEAN
  /\ blocks \in Seq([object : Object, process : Process])
  /\ pc \in {"idle", "launch", "install", "activate"}
  /\ job \in [object : 0 .. allocated, then : {"none", "install", "activate"},
              given : Given]
  /\ pc # "idle" => job.object # NoObject

Init ==
  /\ started = 0
  /\ live = {}
  /\ allocated = 0
  /\ bundleID = [o \in Object |-> NoBundle]
  /\ waits = [o \in Object |-> FALSE]
  /\ observing = [o \in Object |-> FALSE]
  /\ observers = [o \in Object |-> 0]
  /\ current = [o \in Object |-> NoProcess]
  /\ proxied = [o \in Object |-> FALSE]
  /\ assigned = [o \in Object |-> NoProcess]
  /\ registry = [i \in Pid |-> NoObject]
  /\ apps = [b \in Bundle |-> NoObject]
  /\ tested = NoBundle
  /\ asked = FALSE /\ config = FALSE /\ failed = FALSE
  /\ blocks = <<>>
  /\ pc = "idle"
  /\ job = NoJob

-----------------------------------------------------------------------------
(* The device *)

RunningAs(b) == {r \in live : r.bundle = b}
FreePids == Pid \ {r.pid : r \in live}

(* A process of b starts under pid i, in place of the one that runs.        *)
StartProcess(b, i, o) ==
  /\ started < MaxProcesses
  /\ started' = started + 1
  /\ live' = (live \ RunningAs(b)) \cup
               {[process |-> started + 1, bundle |-> b, pid |-> i, launcher |-> o]}

(* The user starts b, or a URL does. *)
StartedByUser(b, i) ==
  /\ RunningAs(b) = {}
  /\ StartProcess(b, i, NoObject)
  /\ UNCHANGED <<objectVars, processVars, registry, sessionVars, mainVars>>

Crash(r) ==
  /\ live' = live \ {r}
  /\ UNCHANGED <<started, objectVars, processVars, registry, sessionVars, mainVars>>

-----------------------------------------------------------------------------
(* KVO and the process proxy *)

(* observeValueForKeyPath: for an object with n registrations, told of a    *)
(* process that is no proxy.  Each registration dispatches the same block;  *)
(* they run one after the other and the first does what all do.             *)
Notified(n, o, p) ==
  IF n > 0 /\ p # NoProcess
  THEN Append(blocks, [object |-> o, process |-> p])
  ELSE blocks

(* XCTest sets currentProcess of o's implementation. *)
AssignProcess(o, p) ==
  /\ current' = [current EXCEPT ![o] = p]
  /\ proxied' = [proxied EXCEPT ![o] = FALSE]
  /\ assigned' = [assigned EXCEPT ![o] = p]
  /\ blocks' = Notified(observers[o], o, p)

(* Fault: the queue is served from its other end. *)
RunBlock_LastFirst ==
  /\ pc = "idle"
  /\ blocks # <<>>
  /\ LET block == blocks[Len(blocks)] IN
     /\ current' = [current EXCEPT ![block.object] = block.process]
     /\ proxied' = [proxied EXCEPT ![block.object] = TRUE]
  /\ blocks' = SubSeq(blocks, 1, Len(blocks) - 1)
  /\ UNCHANGED <<deviceVars, objectVars, assigned, registry, sessionVars, pc, job>>

(* The block: a proxy of the process the observer was told of becomes the   *)
(* current process, whichever process that is by now.  The observers hear   *)
(* of it and leave a proxy alone.                                           *)
RunBlock ==
  /\ pc = "idle"
  /\ blocks # <<>>
  /\ LET block == Head(blocks) IN
     /\ current' = [current EXCEPT ![block.object] = block.process]
     /\ proxied' = [proxied EXCEPT ![block.object] = TRUE]
  /\ blocks' = Tail(blocks)
  /\ UNCHANGED <<deviceVars, objectVars, assigned, registry, sessionVars, pc, job>>

-----------------------------------------------------------------------------
(* launch and terminate *)

(* [o launch] up to the call of super: unless o waits for quiescence it     *)
(* observes currentProcess, and is told at once of the process that is      *)
(* there (NSKeyValueObservingOptionInitial) unless it is a proxy.           *)
Observe(o, wait) ==
  IF wait
  THEN UNCHANGED <<observing, observers, blocks>>
  ELSE /\ observers[o] < MaxObservers
       /\ observing' = [observing EXCEPT ![o] = TRUE]
       /\ observers' = [observers EXCEPT ![o] = @ + 1]
       /\ blocks' = IF proxied[o] THEN blocks ELSE Notified(1, o, current[o])

Begin(o, then, given) ==
  job' = [object |-> o, then |-> then, given |-> given]

(* Fault: an object found under the pid is left there. *)
EndLaunch_KeepsFound(i) ==
  LET o == job.object IN
  /\ pc = "launch"
  /\ StartProcess(bundleID[o], i, o)
  /\ AssignProcess(o, started + 1)
  /\ registry' = [registry EXCEPT ![i] = IF @ = NoObject THEN o ELSE @]
  /\ pc' = job.then
  /\ UNCHANGED <<objectVars, sessionVars, job>>

(* [super launch] returns with a new process, and the object is registered  *)
(* under its pid.                                                           *)
EndLaunch(i) ==
  LET o == job.object IN
  /\ pc = "launch"
  /\ StartProcess(bundleID[o], i, o)
  /\ AssignProcess(o, started + 1)
  /\ registry' = [registry EXCEPT ![i] = o]
  /\ pc' = job.then
  /\ UNCHANGED <<objectVars, sessionVars, job>>

(* [super launch] returns with no process: o.processID is 0, and o is       *)
(* registered under 0, where no look-up finds it.  POST /session answers    *)
(* with an error, a launch in a session goes on to activate.                *)
FailLaunch ==
  LET o == job.object
      create == job.then = "install"
  IN
  /\ pc = "launch"
  /\ live' = live \ RunningAs(bundleID[o])
  /\ AssignProcess(o, NoProcess)
  /\ failed' = (failed \/ (create /\ tested # NoBundle))
  /\ pc' = IF create THEN "idle" ELSE "activate"
  /\ job' = IF create THEN NoJob ELSE job
  /\ UNCHANGED <<started, objectVars, registry, apps, tested, asked, config>>

(* Fault: the observer is removed whether the flag is set or not. *)
Terminate_AlwaysRemoves(o) ==
  /\ observers' = [observers EXCEPT ![o] = @ - 1]
  /\ live' = live \ RunningAs(bundleID[o])

(* [o terminate].  Removing an observer that is not registered raises; the  *)
(* flag is never reset.                                                     *)
Terminate(o) ==
  IF observing[o] /\ observers[o] = 0
  THEN UNCHANGED <<observers, live>>
  ELSE /\ observers' = [observers EXCEPT ![o] = IF observing[o] THEN @ - 1 ELSE @]
       /\ live' = live \ RunningAs(bundleID[o])

-----------------------------------------------------------------------------
(* The session's objects *)

Idle == pc = "idle"

(* initPrivateWithPath:bundleID: gives a new object of b. *)
Allocate(b) ==
  /\ allocated < MaxObjects
  /\ allocated' = allocated + 1
  /\ bundleID' = [bundleID EXCEPT ![allocated + 1] = b]

(* registerApplicationWithBundleId: the session's object of b, made if it   *)
(* has none.                                                                *)
Registered(b) == IF apps[b] # NoObject THEN apps[b] ELSE allocated + 1

Register(b) ==
  /\ apps' = [apps EXCEPT ![b] = Registered(b)]
  /\ IF apps[b] # NoObject THEN UNCHANGED <<allocated, bundleID>> ELSE Allocate(b)

(* Fault: the setting is used for the new application and not written. *)
CreateSession_KeepsConfig(b, wait) ==
  LET o == allocated + 1 IN
  /\ Idle
  /\ Allocate(b)
  /\ waits' = [waits EXCEPT ![o] = wait]
  /\ Observe(o, wait)
  /\ Begin(o, "install", IF wait THEN "yes" ELSE "no")
  /\ pc' = "launch"
  /\ UNCHANGED <<deviceVars, processVars, registry, apps, tested, asked, config, failed>>

(* POST /session, up to the launch: the setting is written first. *)
CreateSession(b, wait) ==
  LET o == allocated + 1 IN
  /\ Idle
  /\ Allocate(b)
  /\ config' = wait
  /\ waits' = [waits EXCEPT ![o] = wait]
  /\ Observe(o, wait)
  /\ Begin(o, "install", IF wait THEN "yes" ELSE "no")
  /\ pc' = "launch"
  /\ UNCHANGED <<deviceVars, processVars, registry, apps, tested, asked, failed>>

(* sessionWithApplication: the session of the launched application takes    *)
(* the place of the active one, whose objects it drops as they are.         *)
InstallSession ==
  LET o == job.object IN
  /\ pc = "install"
  /\ apps' = [b \in Bundle |-> IF b = bundleID[o] THEN o ELSE NoObject]
  /\ tested' = bundleID[o]
  /\ asked' = (job.given = "yes")
  /\ failed' = FALSE
  /\ pc' = "idle"
  /\ job' = NoJob
  /\ UNCHANGED <<deviceVars, objectVars, processVars, registry, config, blocks>>

(* fb_shouldWaitForQuiescence as a launch in a session leaves it: what the  *)
(* request gives, else the process-wide setting for the tested application, *)
(* else what it was.                                                        *)
WaitsWhenLaunched(b, given) ==
  CASE given # "none" -> given = "yes"
    [] given = "none" /\ b = tested -> config
    [] OTHER -> waits[Registered(b)]

(* POST /wda/apps/launch, up to [app launch] or, if it runs, [app activate]. *)
LaunchApplication(b, given) ==
  LET o == Registered(b) IN
  /\ Idle
  /\ Register(b)
  /\ IF RunningAs(b) = {}
     THEN /\ waits' = [waits EXCEPT ![o] = WaitsWhenLaunched(b, given)]
          /\ Observe(o, waits'[o])
          /\ pc' = "launch"
     ELSE /\ pc' = "activate"
          /\ UNCHANGED <<waits, observing, observers, blocks>>
  /\ Begin(o, "activate", given)
  /\ UNCHANGED <<deviceVars, processVars, registry, tested, asked, config, failed>>

(* POST /wda/apps/activate, up to [app activate]. *)
ActivateApplication(b) ==
  /\ Idle
  /\ Register(b)
  /\ pc' = "activate"
  /\ Begin(Registered(b), "activate", "none")
  /\ UNCHANGED <<deviceVars, waits, observing, observers, processVars, registry,
                 tested, asked, config, failed, blocks>>

(* [app activate]: XCTest attaches o to the process that runs, or starts    *)
(* one, or brings nothing up.                                               *)
Activate ==
  LET o == job.object
      running == RunningAs(bundleID[o])
  IN
  /\ pc = "activate"
  /\ \/ /\ \E r \in running : IF r.process = current[o]
                              THEN UNCHANGED <<processVars, blocks>>
                              ELSE AssignProcess(o, r.process)
        /\ UNCHANGED deviceVars
     \/ /\ running = {}
        /\ \E i \in FreePids : StartProcess(bundleID[o], i, NoObject)
        /\ AssignProcess(o, started + 1)
     \/ /\ running = {}
        /\ UNCHANGED <<deviceVars, processVars, blocks>>
  /\ pc' = "idle"
  /\ job' = NoJob
  /\ UNCHANGED <<objectVars, registry, sessionVars>>

(* Fault: the session keeps the object it has terminated. *)
TerminateApplication_Keeps(b) ==
  LET o == apps[b] IN
  /\ Idle
  /\ o # NoObject
  /\ IF RunningAs(b) # {} THEN Terminate(o) ELSE UNCHANGED <<observers, live>>
  /\ UNCHANGED <<apps, started, allocated, bundleID, waits, observing,
                 processVars, registry, tested, asked, config, failed, mainVars>>

(* POST /wda/apps/terminate.  For a bundle the session has no object of, a  *)
(* new one is made, which observes nothing, and dropped again.              *)
TerminateApplication(b) ==
  LET o == apps[b] IN
  /\ Idle
  /\ IF RunningAs(b) = {} THEN UNCHANGED <<observers, live>>
     ELSE IF o # NoObject THEN Terminate(o)
     ELSE live' = live \ RunningAs(b) /\ UNCHANGED observers
  /\ apps' = [apps EXCEPT ![b] = NoObject]
  /\ UNCHANGED <<started, allocated, bundleID, waits, observing,
                 processVars, registry, tested, asked, config, failed, mainVars>>

(* DELETE /session: [session kill] terminates the tested application,       *)
(* whether it runs or not, and the answer makes an empty session.           *)
DeleteSession ==
  /\ Idle
  /\ tested # NoBundle
  /\ IF apps[tested] # NoObject
     THEN Terminate(apps[tested])
     ELSE UNCHANGED <<observers, live>>
  /\ apps' = [b \in Bundle |-> NoObject]
  /\ tested' = NoBundle
  /\ asked' = FALSE /\ failed' = FALSE
  /\ UNCHANGED <<started, allocated, bundleID, waits, observing,
                 processVars, registry, config, mainVars>>

(* Fault: an object is made and registered at every look. *)
ActiveApplication_AlwaysNew(r) ==
  /\ Idle
  /\ registry' = [registry EXCEPT ![r.pid] = LookedUp]
  /\ UNCHANGED <<deviceVars, objectVars, processVars, sessionVars, mainVars>>

(* fb_activeApplication, which most commands ask for, with process r in     *)
(* front: the object registered under its pid, or a new one.                *)
ActiveApplication(r) ==
  /\ Idle
  /\ registry' = [registry EXCEPT ![r.pid] = IF @ = NoObject THEN LookedUp ELSE @]
  /\ UNCHANGED <<deviceVars, objectVars, processVars, sessionVars, mainVars>>

Next ==
  \/ \E b \in Bundle, i \in FreePids : StartedByUser(b, i)
  \/ \E r \in live : Crash(r)
  \/ RunBlock
  \/ \E b \in Bundle, wait \in BOOLEAN : CreateSession(b, wait)
  \/ \E i \in FreePids : EndLaunch(i)
  \/ FailLaunch
  \/ InstallSession
  \/ \E b \in Bundle, given \in Given : LaunchApplication(b, given)
  \/ \E b \in Bundle : ActivateApplication(b)
  \/ Activate
  \/ \E b \in Bundle : TerminateApplication(b)
  \/ DeleteSession
  \/ \E r \in live : ActiveApplication(r)

Spec == Init /\ [][Next]_vars

-----------------------------------------------------------------------------
(* Properties *)

(* An object the session may terminate has an observer to remove if its     *)
(* flag says so: [app terminate] (FBApplication.m:93) never removes one     *)
(* that is not there, which would raise and leave the application running.  *)
(* The flag is never reset; what saves it is that the session lets go of an *)
(* object when it has terminated it.                                        *)
TerminateNeverRaises ==
  \A b \in Bundle : apps[b] # NoObject /\ observing[apps[b]] => observers[apps[b]] > 0

(* The blocks of object o that still wait. *)
PendingOf(o) == {i \in 1 .. Len(blocks) : blocks[i].object = o}

(* Once its blocks have run, an object that observes its process has the    *)
(* process XCTest gave it last, as a proxy: a block queued for an earlier   *)
(* process (FBApplication.m:159 sets the process it captured) never has the *)
(* last word.                                                               *)
LatestProcessWins ==
  \A b \in Bundle : LET o == apps[b] IN
    o # NoObject /\ assigned[o] # NoProcess /\ observers[o] > 0 /\ PendingOf(o) = {}
      => current[o] = assigned[o] /\ proxied[o]

(* An application started by [app launch] and still running is answered     *)
(* with the object that launched it when it is in front, however pids were  *)
(* given before: its registration is never overwritten by a look-up and     *)
(* replaces what an earlier process of that pid left (FBApplication.m:178). *)
LaunchedIsFoundByPid ==
  \A r \in live : r.launcher # NoObject => registry[r.pid] = r.launcher

(* When the tested application is launched again without saying whether to  *)
(* wait, it waits as its session was asked to (FBSession.m:186 reads a      *)
(* process-wide setting), unless a POST /session has failed meanwhile,      *)
(* which leaves its own value behind.                                       *)
RelaunchWaitsAsSessionAsked ==
  pc = "launch" /\ job.then = "activate" /\ job.given = "none" /\ bundleID[job.object] = tested
    => waits[job.object] = asked \/ failed

(* What FBApplication.h:27 says of fb_shouldWaitForQuiescence, that it      *)
(* turns waiting on and off: an application whose flag is set, launched by  *)
(* its session, is waited for.  A proxy never waits                         *)
(* (FBApplicationProcessProxy.m:37: nothing sets its own flag).             *)
WaitingCanBeTurnedOn ==
  \A b \in Bundle : LET o == apps[b] IN
    Idle /\ o # NoObject /\ blocks = <<>> /\ waits[o] => ~proxied[o]

=============================================================================
