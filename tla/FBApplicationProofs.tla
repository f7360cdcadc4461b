-------------------------- MODULE FBApplicationProofs --------------------------
(***************************************************************************)
(* What the application objects, their observers and the registry of pids  *)
(* guarantee for any bundles, pids and numbers of processes and objects.   *)
(***************************************************************************)
EXTENDS FBApplication, TLAPS

Block == [object : Object, process : Process]
LiveProcess(n) == [process : 1 .. n, bundle : Bundle, pid : Pid, launcher : 0 .. MaxObjects]

-----------------------------------------------------------------------------
(* Types *)

(* Beyond the types: an object that exists has a bundle identifier, the     *)
(* session keeps it under that one, and a launch goes on somewhere.         *)
Shape ==
  /\ \A o \in 1 .. allocated : bundleID[o] \in Bundle
  /\ \A b \in Bundle : apps[b] # NoObject => bundleID[apps[b]] = b
  /\ pc = "launch" => job.then \in {"install", "activate"}

Typed == TypeOK /\ Shape

(* The bounds are numbers, and an object that exists is one. *)
LEMMA Bounds ==
  ASSUME TypeOK
  PROVE  /\ MaxProcesses \in Nat /\ MaxObjects \in Nat /\ MaxObservers \in Nat
         /\ allocated \in Nat /\ started \in Nat
         /\ 1 .. allocated \subseteq Object
         /\ \A b \in Bundle : apps[b] # NoObject => apps[b] \in 1 .. allocated
         /\ pc # "idle" => job.object \in 1 .. allocated
BY ApplicationAssumption DEF TypeOK, Object, NoObject

(* An observer that is told of a process queues a block for it. *)
LEMMA NotifiedType ==
  ASSUME TypeOK, NEW n \in Nat, NEW o \in Object, NEW p \in 0 .. MaxProcesses
  PROVE  Notified(n, o, p) \in Seq(Block)
<1>1. blocks \in Seq(Block)
  BY DEF TypeOK, Block
<1>2. p # NoProcess => [object |-> o, process |-> p] \in Block
  BY Bounds DEF NoProcess, Process, Block
<1> QED
  BY <1>1, <1>2 DEF Notified

(* A new current process has the right types. *)
LEMMA AssignType ==
  ASSUME TypeOK, NEW o \in Object, NEW p \in 0 .. MaxProcesses, AssignProcess(o, p)
  PROVE  /\ current' \in [Object -> 0 .. MaxProcesses]
         /\ proxied' \in [Object -> BOOLEAN]
         /\ assigned' \in [Object -> 0 .. MaxProcesses]
         /\ blocks' \in Seq(Block)
<1>1. observers[o] \in Nat
  BY Bounds DEF TypeOK
<1> QED
  BY <1>1, NotifiedType DEF AssignProcess, TypeOK

(* So have the observers after a call of `launch`. *)
LEMMA ObserveType ==
  ASSUME TypeOK, NEW o \in Object, NEW wait \in BOOLEAN, Observe(o, wait)
  PROVE  /\ observing' \in [Object -> BOOLEAN]
         /\ observers' \in [Object -> 0 .. MaxObservers]
         /\ blocks' \in Seq(Block)
<1>1. CASE wait
  BY <1>1 DEF Observe, TypeOK, Block
<1>2. CASE ~wait
  <2>1. /\ observers[o] < MaxObservers
        /\ observing' = [observing EXCEPT ![o] = TRUE]
        /\ observers' = [observers EXCEPT ![o] = @ + 1]
        /\ blocks' = IF proxied[o] THEN blocks ELSE Notified(1, o, current[o])
    BY <1>2 DEF Observe
  <2>2. Notified(1, o, current[o]) \in Seq(Block) /\ blocks \in Seq(Block)
    BY NotifiedType DEF TypeOK, Block
  <2> QED
    BY <2>1, <2>2, Bounds DEF TypeOK
<1> QED
  BY <1>1, <1>2

(* A process that starts is one of those that run. *)
LEMMA StartType ==
  ASSUME TypeOK, NEW b \in Bundle, NEW i \in Pid, NEW o \in 0 .. MaxObjects,
         StartProcess(b, i, o)
  PROVE  /\ started' \in 0 .. MaxProcesses
         /\ started + 1 \in Process
         /\ live' \subseteq LiveProcess(started')
<1>1. /\ started < MaxProcesses /\ started' = started + 1
      /\ live' \subseteq live \cup
           {[process |-> started + 1, bundle |-> b, pid |-> i, launcher |-> o]}
  BY DEF StartProcess
<1>2. started' \in 0 .. MaxProcesses /\ started + 1 \in Process /\ 1 .. started \subseteq 1 .. started'
  BY <1>1, Bounds DEF Process
<1>3. live \subseteq LiveProcess(started')
  BY <1>2 DEF TypeOK, LiveProcess
<1>4. [process |-> started + 1, bundle |-> b, pid |-> i, launcher |-> o] \in LiveProcess(started')
  BY <1>1, <1>2, Bounds DEF LiveProcess
<1> QED
  BY <1>1, <1>2, <1>3, <1>4

(* Terminating an object takes processes and registrations away. *)
LEMMA TerminateType ==
  ASSUME TypeOK, NEW o \in Object, Terminate(o)
  PROVE  live' \subseteq live /\ observers' \in [Object -> 0 .. MaxObservers]
<1>1. observers[o] \in 0 .. MaxObservers
  BY DEF TypeOK
<1>2. observers[o] # 0 => observers[o] - 1 \in 0 .. MaxObservers
  BY <1>1, Bounds
<1> QED
  BY <1>2 DEF Terminate, TypeOK

(* The session's object of a bundle exists and bears its identifier. *)
LEMMA RegisterType ==
  ASSUME Typed, NEW b \in Bundle, Register(b)
  PROVE  /\ allocated' \in 0 .. MaxObjects /\ allocated <= allocated'
         /\ bundleID' \in [Object -> Bundle \cup {NoBundle}]
         /\ apps' \in [Bundle -> 0 .. allocated']
         /\ Registered(b) \in 1 .. allocated' /\ Registered(b) \in Object
         /\ bundleID'[Registered(b)] = b
         /\ \A o \in 1 .. allocated' : bundleID'[o] \in Bundle
         /\ \A c \in Bundle : apps'[c] # NoObject => bundleID'[apps'[c]] = c
<1> USE DEF Typed
<1>0. /\ allocated \in Nat /\ MaxObjects \in Nat /\ 1 .. allocated \subseteq Object
      /\ allocated \in 0 .. MaxObjects
      /\ apps \in [Bundle -> 0 .. allocated] /\ apps[b] \in 0 .. allocated
  BY Bounds DEF TypeOK
<1>1. apps' = [apps EXCEPT ![b] = Registered(b)]
  BY DEF Register
<1>2. CASE apps[b] # NoObject
  <2>1. Registered(b) = apps[b] /\ UNCHANGED <<allocated, bundleID>>
    BY <1>2 DEF Register, Registered
  <2>2. apps' = apps
    BY <1>0, <1>1, <2>1
  <2>3. Registered(b) \in 1 .. allocated' /\ Registered(b) \in Object
    BY <1>0, <1>2, <2>1 DEF NoObject
  <2>4. bundleID[apps[b]] = b /\ \A c \in Bundle : apps[c] # NoObject => bundleID[apps[c]] = c
    BY <1>2 DEF Shape
  <2>5. \A o \in 1 .. allocated : bundleID[o] \in Bundle
    BY DEF Shape
  <2>6. bundleID \in [Object -> Bundle \cup {NoBundle}]
    BY DEF TypeOK
  <2> QED
    BY <1>0, <2>1, <2>2, <2>3, <2>4, <2>5, <2>6
<1>3. CASE apps[b] = NoObject
  <2>1. /\ Registered(b) = allocated + 1 /\ allocated' = allocated + 1
        /\ allocated < MaxObjects
        /\ bundleID' = [bundleID EXCEPT ![allocated + 1] = b]
    BY <1>3 DEF Register, Registered, Allocate
  <2>2. allocated + 1 \in Object /\ allocated + 1 \in 1 .. allocated'
    BY <1>0, <2>1 DEF Object
  <2>3. /\ bundleID' \in [Object -> Bundle \cup {NoBundle}]
        /\ bundleID'[allocated + 1] = b
        /\ \A o \in 1 .. allocated : bundleID'[o] = bundleID[o]
    BY <1>0, <2>1, <2>2 DEF TypeOK
  <2>4. \A o \in 1 .. allocated' : bundleID'[o] \in Bundle
    BY <1>0, <2>1, <2>3 DEF Shape
  <2>5. apps' \in [Bundle -> 0 .. allocated']
    BY <1>0, <1>1, <2>1, <2>2
  <2>6. \A c \in Bundle : apps'[c] # NoObject => bundleID'[apps'[c]] = c
    <3> SUFFICES ASSUME NEW c \in Bundle, apps'[c] # NoObject
                 PROVE  bundleID'[apps'[c]] = c
      OBVIOUS
    <3>1. CASE c = b
      BY <1>0, <1>1, <2>1, <2>3, <3>1
    <3>2. CASE c # b
      <4>1. apps'[c] = apps[c]
        BY <1>0, <1>1, <3>2
      <4> QED
        BY <1>0, <2>3, <4>1, Bounds DEF Shape
    <3> QED
      BY <3>1, <3>2
  <2> QED
    BY <1>0, <2>1, <2>2, <2>3, <2>4, <2>5, <2>6
<1> QED
  BY <1>2, <1>3

(* What a launch in a session leaves in the flag is a Boolean. *)
LEMMA WaitsType ==
  ASSUME Typed, NEW b \in Bundle, NEW given \in Given, Registered(b) \in Object
  PROVE  WaitsWhenLaunched(b, given) \in BOOLEAN
<1>1. CASE given # "none"
  <2>1. WaitsWhenLaunched(b, given) = (given = "yes")
    BY <1>1 DEF WaitsWhenLaunched
  <2> QED
    BY <2>1, Zenon
<1>2. CASE given = "none" /\ b = tested
  <2>1. WaitsWhenLaunched(b, given) = config
    BY <1>2 DEF WaitsWhenLaunched
  <2> QED
    BY <2>1 DEF Typed, TypeOK
<1>3. CASE given = "none" /\ b # tested
  <2>1. WaitsWhenLaunched(b, given) = waits[Registered(b)]
    BY <1>3 DEF WaitsWhenLaunched
  <2> QED
    BY <2>1 DEF Typed, TypeOK
<1> QED
  BY <1>1, <1>2, <1>3

(* The initial state. *)
LEMMA InitType == Init => Typed
<1> SUFFICES ASSUME Init PROVE Typed
  OBVIOUS
<1>1. /\ 0 \in 0 .. MaxProcesses /\ 0 \in 0 .. MaxObjects /\ 0 \in 0 .. MaxObservers
      /\ 0 \in 0 .. LookedUp /\ 0 \in 0 .. 0
  BY ApplicationAssumption DEF LookedUp
<1>2. NoJob \in [object : 0 .. 0, then : {"none", "install", "activate"}, given : Given]
  BY DEF NoJob, NoObject, Given
<1>3. /\ bundleID \in [Object -> Bundle \cup {NoBundle}]
      /\ waits \in [Object -> BOOLEAN] /\ observing \in [Object -> BOOLEAN]
      /\ observers \in [Object -> 0 .. MaxObservers]
      /\ current \in [Object -> 0 .. MaxProcesses] /\ proxied \in [Object -> BOOLEAN]
      /\ assigned \in [Object -> 0 .. MaxProcesses]
      /\ registry \in [Pid -> 0 .. LookedUp] /\ apps \in [Bundle -> 0 .. 0]
      /\ blocks \in Seq([object : Object, process : Process])
  BY <1>1 DEF Init, NoObject, NoProcess
<1>4. TypeOK
  BY <1>1, <1>2, <1>3 DEF Init, TypeOK
<1>5. Shape
  BY DEF Init, Shape
<1> QED
  BY <1>4, <1>5 DEF Typed

(* The device's own steps. *)
LEMMA DeviceType ==
  ASSUME Typed,
         \/ \E b \in Bundle, i \in FreePids : StartedByUser(b, i)
         \/ \E r \in live : Crash(r)
  PROVE  Typed'
<1>1. ASSUME NEW b \in Bundle, NEW i \in FreePids, StartedByUser(b, i) PROVE Typed'
  <2>1. i \in Pid /\ NoObject \in 0 .. MaxObjects /\ StartProcess(b, i, NoObject)
    BY <1>1, Bounds DEF FreePids, StartedByUser, NoObject, Typed
  <2>2. started' \in 0 .. MaxProcesses /\ live' \subseteq LiveProcess(started')
    BY <2>1, StartType DEF Typed
  <2> QED
    BY <1>1, <2>2 DEF StartedByUser, Typed, TypeOK, Shape, LiveProcess,
                      objectVars, processVars, sessionVars, mainVars
<1>2. ASSUME NEW r \in live, Crash(r) PROVE Typed'
  BY <1>2 DEF Crash, Typed, TypeOK, Shape, objectVars, processVars, sessionVars, mainVars
<1> QED
  BY <1>1, <1>2

(* A block of an observer. *)
LEMMA RunBlockType == ASSUME Typed, RunBlock PROVE Typed'
<1>1. blocks \in Seq(Block) /\ blocks # <<>>
  BY DEF RunBlock, Typed, TypeOK, Block
<1>2. Head(blocks) \in Block /\ Tail(blocks) \in Seq(Block)
  BY <1>1
<1>3. Head(blocks).object \in Object /\ Head(blocks).process \in 0 .. MaxProcesses
  BY <1>2, Bounds DEF Block, Process, Typed
<1>4. /\ current' = [current EXCEPT ![Head(blocks).object] = Head(blocks).process]
      /\ proxied' = [proxied EXCEPT ![Head(blocks).object] = TRUE]
      /\ blocks' = Tail(blocks)
  BY DEF RunBlock
<1>5. current' \in [Object -> 0 .. MaxProcesses] /\ proxied' \in [Object -> BOOLEAN]
  BY <1>3, <1>4 DEF Typed, TypeOK
<1> QED
  BY <1>2, <1>4, <1>5 DEF RunBlock, Typed, TypeOK, Shape, Block,
                     deviceVars, objectVars, sessionVars

(* The end of a launch, well or not. *)
LEMMA LaunchEndsType ==
  ASSUME Typed, FailLaunch \/ \E i \in FreePids : EndLaunch(i)
  PROVE  Typed'
<1> DEFINE o == job.object
<1>1. /\ pc = "launch" /\ o \in Object /\ bundleID[o] \in Bundle /\ o \in 0 .. MaxObjects
      /\ job.then \in {"install", "activate"} /\ o # NoObject
      /\ o \in 0 .. LookedUp
  BY Bounds DEF FailLaunch, EndLaunch, Typed, Shape, Object, NoObject, LookedUp
<1>2. ASSUME NEW i \in FreePids, EndLaunch(i) PROVE Typed'
  <2>1. i \in Pid /\ StartProcess(bundleID[o], i, o) /\ AssignProcess(o, started + 1)
    BY <1>2 DEF FreePids, EndLaunch
  <2>2. /\ started' \in 0 .. MaxProcesses /\ started + 1 \in 0 .. MaxProcesses
        /\ live' \subseteq LiveProcess(started')
    BY <1>1, <2>1, StartType, Bounds DEF Typed, Process
  <2>3. /\ current' \in [Object -> 0 .. MaxProcesses] /\ proxied' \in [Object -> BOOLEAN]
        /\ assigned' \in [Object -> 0 .. MaxProcesses] /\ blocks' \in Seq(Block)
    BY <1>1, <2>1, <2>2, AssignType DEF Typed
  <2>4. registry' \in [Pid -> 0 .. LookedUp]
    BY <1>1, <1>2 DEF EndLaunch, Typed, TypeOK
  <2>5. pc' \in {"install", "activate"} /\ UNCHANGED <<objectVars, sessionVars, job>>
    BY <1>1, <1>2 DEF EndLaunch
  <2> QED
    BY <1>1, <2>2, <2>3, <2>4, <2>5
    DEF Typed, TypeOK, Shape, LiveProcess, Block, objectVars, sessionVars
<1>3. CASE FailLaunch
  <2>1. /\ AssignProcess(o, NoProcess) /\ NoProcess \in 0 .. MaxProcesses
        /\ live' \subseteq live
    BY <1>3, Bounds DEF FailLaunch, NoProcess, Typed
  <2>2. /\ current' \in [Object -> 0 .. MaxProcesses] /\ proxied' \in [Object -> BOOLEAN]
        /\ assigned' \in [Object -> 0 .. MaxProcesses] /\ blocks' \in Seq(Block)
    BY <1>1, <2>1, AssignType DEF Typed
  <2>3. /\ failed' \in BOOLEAN
        /\ UNCHANGED <<started, objectVars, registry, apps, tested, asked, config>>
    BY <1>3 DEF FailLaunch
  <2>4. \/ pc' = "idle" /\ job' = NoJob
        \/ pc' = "activate" /\ job' = job
    BY <1>3 DEF FailLaunch
  <2>5. /\ NoJob \in [object : 0 .. allocated, then : {"none", "install", "activate"},
                      given : Given]
        /\ job \in [object : 0 .. allocated, then : {"none", "install", "activate"},
                    given : Given]
    BY Bounds DEF NoJob, NoObject, Given, Typed, TypeOK
  <2> QED
    BY <1>1, <2>1, <2>2, <2>3, <2>4, <2>5 DEF Typed, TypeOK, Shape, Block, objectVars
<1> QED
  BY <1>2, <1>3

(* The start of POST /session. *)
LEMMA CreateType ==
  ASSUME Typed, NEW b \in Bundle, NEW wait \in BOOLEAN, CreateSession(b, wait)
  PROVE  Typed'
<1> DEFINE o == allocated + 1
<1>0. allocated \in Nat /\ MaxObjects \in Nat /\ allocated < MaxObjects
  BY Bounds DEF CreateSession, Allocate, Typed
<1>1. o \in Object /\ allocated' = o /\ o # NoObject /\ bundleID' = [bundleID EXCEPT ![o] = b]
  BY <1>0 DEF CreateSession, Allocate, Object, NoObject
<1>2. /\ observing' \in [Object -> BOOLEAN] /\ observers' \in [Object -> 0 .. MaxObservers]
      /\ blocks' \in Seq(Block)
  BY <1>1, ObserveType DEF CreateSession, Typed
<1>3. /\ waits' \in [Object -> BOOLEAN] /\ config' \in BOOLEAN
      /\ bundleID' \in [Object -> Bundle \cup {NoBundle}]
  BY <1>1 DEF CreateSession, Typed, TypeOK
<1>4. job' \in [object : 0 .. o, then : {"none", "install", "activate"}, given : Given]
      /\ job'.object = o /\ job'.then = "install"
  BY <1>0 DEF CreateSession, Begin, Given
<1>5. \A p \in 1 .. allocated : bundleID'[p] = bundleID[p]
  BY <1>0, <1>1, Bounds DEF Typed, TypeOK
<1>6. \A p \in 1 .. o : bundleID'[p] \in Bundle
  <2>1. bundleID'[o] = b
    BY <1>1 DEF Typed, TypeOK
  <2>2. \A p \in 1 .. o : p = o \/ p \in 1 .. allocated
    BY <1>0
  <2> QED
    BY <1>5, <2>1, <2>2 DEF Typed, Shape
<1>7. \A c \in Bundle : apps[c] # NoObject => bundleID'[apps[c]] = c
  BY <1>5, Bounds DEF Typed, Shape
<1>8. apps \in [Bundle -> 0 .. o] /\ o \in 0 .. MaxObjects
  BY <1>0 DEF Typed, TypeOK
<1>9. /\ pc' = "launch"
      /\ UNCHANGED <<deviceVars, processVars, registry, apps, tested, asked, failed>>
  BY DEF CreateSession
<1>10. Shape'
  BY <1>1, <1>4, <1>6, <1>7, <1>9 DEF Shape
<1> QED
  BY <1>1, <1>2, <1>3, <1>4, <1>8, <1>9, <1>10
  DEF Typed, TypeOK, Block, deviceVars, processVars

(* The end of POST /session. *)
LEMMA InstallType == ASSUME Typed, InstallSession PROVE Typed'
<1> DEFINE o == job.object
<1>1. o \in 1 .. allocated /\ o \in 0 .. allocated /\ bundleID[o] \in Bundle /\ 0 \in 0 .. allocated
  BY Bounds DEF InstallSession, Typed, Shape
<1>2. /\ apps' = [b \in Bundle |-> IF b = bundleID[o] THEN o ELSE NoObject]
      /\ tested' = bundleID[o] /\ asked' \in BOOLEAN /\ failed' = FALSE
      /\ pc' = "idle" /\ job' = NoJob
      /\ UNCHANGED <<deviceVars, objectVars, processVars, registry, config, blocks>>
  BY DEF InstallSession
<1>3. apps' \in [Bundle -> 0 .. allocated]
  BY <1>1, <1>2 DEF NoObject
<1>4. NoJob \in [object : 0 .. allocated, then : {"none", "install", "activate"}, given : Given]
  BY <1>1 DEF NoJob, NoObject, Given
<1>5. Shape'
  BY <1>1, <1>2 DEF Typed, Shape, objectVars, NoObject
<1> QED
  BY <1>1, <1>2, <1>3, <1>4, <1>5
  DEF Typed, TypeOK, deviceVars, objectVars, processVars

(* A launch or an activation in a session. *)
LEMMA LaunchType ==
  ASSUME Typed, NEW b \in Bundle, NEW given \in Given, LaunchApplication(b, given)
  PROVE  Typed'
<1> DEFINE o == Registered(b)
<1>1. Register(b)
  BY DEF LaunchApplication
<1>2. /\ allocated' \in 0 .. MaxObjects
      /\ bundleID' \in [Object -> Bundle \cup {NoBundle}]
      /\ apps' \in [Bundle -> 0 .. allocated']
      /\ o \in 1 .. allocated' /\ o \in Object
      /\ \A p \in 1 .. allocated' : bundleID'[p] \in Bundle
      /\ \A c \in Bundle : apps'[c] # NoObject => bundleID'[apps'[c]] = c
  BY <1>1, RegisterType
<1>3. /\ waits' \in [Object -> BOOLEAN] /\ observing' \in [Object -> BOOLEAN]
      /\ observers' \in [Object -> 0 .. MaxObservers] /\ blocks' \in Seq(Block)
      /\ pc' \in {"launch", "activate"}
  <2>1. CASE RunningAs(b) = {}
    <3>1. /\ waits' = [waits EXCEPT ![o] = WaitsWhenLaunched(b, given)]
          /\ Observe(o, waits'[o]) /\ pc' = "launch"
      BY <2>1 DEF LaunchApplication
    <3>2. waits' \in [Object -> BOOLEAN] /\ waits'[o] \in BOOLEAN
      BY <1>2, <3>1, WaitsType DEF Typed, TypeOK
    <3> QED
      BY <1>2, <3>1, <3>2, ObserveType DEF Typed
  <2>2. CASE RunningAs(b) # {}
    BY <2>2 DEF LaunchApplication, Typed, TypeOK, Block
  <2> QED
    BY <2>1, <2>2
<1>4. /\ job' \in [object : 0 .. allocated', then : {"none", "install", "activate"}, given : Given]
      /\ job'.object # NoObject /\ job'.then = "activate"
  <2>1. job' = [object |-> o, then |-> "activate", given |-> given]
    BY DEF LaunchApplication, Begin
  <2>2. allocated' \in Nat /\ o \in 0 .. allocated' /\ o # NoObject
    BY <1>2, Bounds DEF Typed, NoObject
  <2> QED
    BY <2>1, <2>2
<1>5. UNCHANGED <<deviceVars, processVars, registry, tested, asked, config, failed>>
  BY DEF LaunchApplication
<1> QED
  BY <1>2, <1>3, <1>4, <1>5 DEF Typed, TypeOK, Shape, Block, deviceVars, processVars

(* POST /wda/apps/activate. *)
LEMMA ActivateRequestType ==
  ASSUME Typed, NEW b \in Bundle, ActivateApplication(b)
  PROVE  Typed'
<1> DEFINE o == Registered(b)
<1>1. /\ allocated' \in 0 .. MaxObjects
      /\ bundleID' \in [Object -> Bundle \cup {NoBundle}]
      /\ apps' \in [Bundle -> 0 .. allocated']
      /\ o \in 1 .. allocated' /\ o \in Object
      /\ \A p \in 1 .. allocated' : bundleID'[p] \in Bundle
      /\ \A c \in Bundle : apps'[c] # NoObject => bundleID'[apps'[c]] = c
  BY RegisterType DEF ActivateApplication
<1>2. /\ job' \in [object : 0 .. allocated', then : {"none", "install", "activate"}, given : Given]
      /\ job'.object # NoObject /\ job'.then = "activate"
  <2>1. job' = [object |-> o, then |-> "activate", given |-> "none"]
    BY DEF ActivateApplication, Begin
  <2>2. allocated' \in Nat /\ o \in 0 .. allocated' /\ o # NoObject /\ "none" \in Given
    BY <1>1, Bounds DEF Typed, NoObject, Given
  <2> QED
    BY <2>1, <2>2
<1>3. /\ pc' = "activate"
      /\ UNCHANGED <<deviceVars, waits, observing, observers, processVars, registry,
                     tested, asked, config, failed, blocks>>
  BY DEF ActivateApplication
<1> QED
  BY <1>1, <1>2, <1>3 DEF Typed, TypeOK, Shape, deviceVars, processVars

(* What XCTest does when it activates. *)
LEMMA ActivateType == ASSUME Typed, Activate PROVE Typed'
<1> DEFINE o == job.object
<1>1. o \in Object /\ bundleID[o] \in Bundle /\ NoObject \in 0 .. MaxObjects
  BY Bounds DEF Activate, Typed, Shape, NoObject
<1>2. /\ started' \in 0 .. MaxProcesses /\ live' \subseteq LiveProcess(started')
      /\ current' \in [Object -> 0 .. MaxProcesses] /\ proxied' \in [Object -> BOOLEAN]
      /\ assigned' \in [Object -> 0 .. MaxProcesses] /\ blocks' \in Seq(Block)
  <2>1. \A r \in live : r.process \in 0 .. MaxProcesses
    BY Bounds DEF Typed, TypeOK
  <2>2. CASE UNCHANGED <<deviceVars, processVars, blocks>>
    BY <2>2 DEF deviceVars, processVars, Typed, TypeOK, LiveProcess, Block
  <2>3. CASE UNCHANGED deviceVars /\ \E r \in live : AssignProcess(o, r.process)
    BY <1>1, <2>1, <2>3, AssignType DEF deviceVars, Typed, TypeOK, LiveProcess
  <2>4. CASE /\ \E i \in FreePids : StartProcess(bundleID[o], i, NoObject)
             /\ AssignProcess(o, started + 1)
    <3>1. PICK i \in FreePids : StartProcess(bundleID[o], i, NoObject)
      BY <2>4
    <3>2. /\ started' \in 0 .. MaxProcesses /\ started + 1 \in 0 .. MaxProcesses
          /\ live' \subseteq LiveProcess(started')
      BY <1>1, <3>1, StartType, Bounds DEF FreePids, Process, Typed
    <3> QED
      BY <1>1, <2>4, <3>2, AssignType DEF Typed
  <2> QED
    BY <2>2, <2>3, <2>4 DEF Activate, RunningAs
<1>3. NoJob \in [object : 0 .. allocated, then : {"none", "install", "activate"}, given : Given]
  BY Bounds DEF NoJob, NoObject, Given, Typed
<1> QED
  BY <1>2, <1>3 DEF Activate, Typed, TypeOK, Shape, LiveProcess, Block, objectVars, sessionVars

(* The requests that stop an application, and the look for the active one.  *)
LEMMA StopType ==
  ASSUME Typed,
         \/ \E b \in Bundle : TerminateApplication(b)
         \/ DeleteSession
         \/ \E r \in live : ActiveApplication(r)
  PROVE  Typed'
<1>1. ASSUME NEW b \in Bundle, TerminateApplication(b) PROVE Typed'
  <2>1. live' \subseteq live /\ observers' \in [Object -> 0 .. MaxObservers]
    <3>1. CASE UNCHANGED <<observers, live>> \/ (live' = live \ RunningAs(b) /\ UNCHANGED observers)
      BY <3>1 DEF Typed, TypeOK
    <3>2. CASE apps[b] # NoObject /\ Terminate(apps[b])
      BY <3>2, TerminateType, Bounds DEF Typed
    <3> QED
      BY <1>1, <3>1, <3>2 DEF TerminateApplication
  <2>2. apps' = [apps EXCEPT ![b] = NoObject] /\ apps' \in [Bundle -> 0 .. allocated]
    BY <1>1, Bounds DEF TerminateApplication, Typed, TypeOK, NoObject
  <2>3. UNCHANGED <<started, allocated, bundleID, waits, observing,
                    processVars, registry, tested, asked, config, failed, mainVars>>
    BY <1>1 DEF TerminateApplication
  <2>4. Shape'
    BY <2>2, <2>3 DEF Typed, TypeOK, Shape, mainVars
  <2> QED
    BY <2>1, <2>2, <2>3, <2>4 DEF Typed, TypeOK, processVars, mainVars
<1>2. CASE DeleteSession
  <2>1. live' \subseteq live /\ observers' \in [Object -> 0 .. MaxObservers]
    <3>1. CASE UNCHANGED <<observers, live>>
      BY <3>1 DEF Typed, TypeOK
    <3>2. CASE apps[tested] # NoObject /\ Terminate(apps[tested])
      <4>1. tested \in Bundle
        BY <1>2 DEF DeleteSession, Typed, TypeOK
      <4> QED
        BY <3>2, <4>1, TerminateType, Bounds DEF Typed
    <3> QED
      BY <1>2, <3>1, <3>2 DEF DeleteSession
  <2>2. /\ apps' = [b \in Bundle |-> NoObject] /\ apps' \in [Bundle -> 0 .. allocated]
        /\ tested' = NoBundle /\ asked' = FALSE /\ failed' = FALSE
    BY <1>2, Bounds DEF DeleteSession, NoObject, Typed
  <2>3. UNCHANGED <<started, allocated, bundleID, waits, observing,
                    processVars, registry, config, mainVars>>
    BY <1>2 DEF DeleteSession
  <2>4. Shape'
    BY <2>2, <2>3 DEF Typed, Shape, mainVars
  <2> QED
    BY <2>1, <2>2, <2>3, <2>4 DEF Typed, TypeOK, processVars, mainVars
<1>3. ASSUME NEW r \in live, ActiveApplication(r) PROVE Typed'
  <2>1. LookedUp \in 0 .. LookedUp
    BY Bounds DEF LookedUp, Typed
  <2>2. registry' \in [Pid -> 0 .. LookedUp]
    BY <1>3, <2>1 DEF ActiveApplication, Typed, TypeOK
  <2> QED
    BY <1>3, <2>2 DEF ActiveApplication, Typed, TypeOK, Shape,
                      deviceVars, objectVars, processVars, sessionVars, mainVars
<1> QED
  BY <1>1, <1>2, <1>3

(* Every variable keeps its type. *)
LEMMA NextType == ASSUME Typed, [Next]_vars PROVE Typed'
<1>1. CASE UNCHANGED vars
  BY <1>1 DEF vars, deviceVars, objectVars, processVars, sessionVars, mainVars,
              Typed, TypeOK, Shape
<1> QED
  BY <1>1, DeviceType, RunBlockType, LaunchEndsType, CreateType, InstallType, LaunchType,
     ActivateRequestType, ActivateType, StopType DEF Next

(* Every variable keeps its type, and the session its objects' identifiers. *)
THEOREM TypeCorrect == Spec => []TypeOK
<1>1. Typed => TypeOK
  BY DEF Typed
<1> QED
  BY <1>1, InitType, NextType, PTL DEF Spec

-----------------------------------------------------------------------------
(* The registry *)

(* No step takes the registration of a launched application away. *)
LEMMA FoundStep ==
  ASSUME Typed, LaunchedIsFoundByPid, [Next]_vars PROVE LaunchedIsFoundByPid'
<1>1. ASSUME NEW i \in FreePids, EndLaunch(i) PROVE LaunchedIsFoundByPid'
  <2> DEFINE o == job.object
             new == [process |-> started + 1, bundle |-> bundleID[o], pid |-> i, launcher |-> o]
  <2>1. i \in Pid /\ \A r \in live : r.pid # i
    BY DEF FreePids
  <2>2. live' \subseteq live \cup {new} /\ registry' = [registry EXCEPT ![i] = o]
    BY <1>1 DEF EndLaunch, StartProcess
  <2>3. \A r \in live : r.pid \in Pid /\ registry'[r.pid] = registry[r.pid]
    BY <2>1, <2>2 DEF Typed, TypeOK
  <2>4. registry'[new.pid] = new.launcher
    BY <2>1, <2>2 DEF Typed, TypeOK
  <2> QED
    BY <2>2, <2>3, <2>4 DEF LaunchedIsFoundByPid
<1>2. ASSUME NEW r \in live, ActiveApplication(r) PROVE LaunchedIsFoundByPid'
  <2>1. live' = live /\ r.pid \in Pid
        /\ registry' = [registry EXCEPT ![r.pid] = IF @ = NoObject THEN LookedUp ELSE @]
    BY <1>2 DEF ActiveApplication, deviceVars, Typed, TypeOK
  <2>2. \A i \in Pid : registry[i] # NoObject => registry'[i] = registry[i]
    BY <2>1 DEF Typed, TypeOK
  <2>3. \A q \in live : q.pid \in Pid
    BY DEF Typed, TypeOK
  <2> QED
    BY <2>1, <2>2, <2>3 DEF LaunchedIsFoundByPid
<1>3. ASSUME NEW b \in Bundle, NEW i \in Pid, StartProcess(b, i, NoObject), UNCHANGED registry
      PROVE  LaunchedIsFoundByPid'
  BY <1>3 DEF StartProcess, LaunchedIsFoundByPid
<1>4. CASE live' \subseteq live /\ UNCHANGED registry
  BY <1>4 DEF LaunchedIsFoundByPid
<1>5. ASSUME NEW b \in Bundle, NEW i \in FreePids, StartedByUser(b, i)
      PROVE  LaunchedIsFoundByPid'
  BY <1>3, <1>5 DEF StartedByUser, FreePids
<1>6. CASE Activate
  <2>1. UNCHANGED registry /\ bundleID[job.object] \in Bundle
    BY <1>6, Bounds DEF Activate, Typed, Shape
  <2> QED
    BY <1>3, <1>4, <1>6, <2>1 DEF Activate, deviceVars, FreePids
<1>7. CASE \/ \E r \in live : Crash(r)
           \/ RunBlock
           \/ \E b \in Bundle, wait \in BOOLEAN : CreateSession(b, wait)
           \/ FailLaunch
           \/ InstallSession
           \/ \E b \in Bundle, given \in Given : LaunchApplication(b, given)
           \/ \E b \in Bundle : ActivateApplication(b)
           \/ \E b \in Bundle : TerminateApplication(b)
           \/ DeleteSession
           \/ UNCHANGED vars
  BY <1>4, <1>7
  DEF Crash, RunBlock, CreateSession, FailLaunch, InstallSession, LaunchApplication,
      ActivateApplication, TerminateApplication, DeleteSession, Terminate,
      vars, deviceVars
<1> QED
  BY <1>1, <1>2, <1>5, <1>6, <1>7 DEF Next

(* A launched application that runs is found under its pid, whoever had     *)
(* that pid before.                                                         *)
THEOREM LaunchedIsFound == Spec => []LaunchedIsFoundByPid
<1>1. Init => Typed /\ LaunchedIsFoundByPid
  BY InitType DEF Init, LaunchedIsFoundByPid
<1>2. ASSUME Typed /\ LaunchedIsFoundByPid, [Next]_vars
      PROVE  (Typed /\ LaunchedIsFoundByPid)'
  BY <1>2, NextType, FoundStep
<1> QED
  BY <1>1, <1>2, PTL DEF Spec

-----------------------------------------------------------------------------
(* The process-wide setting *)

(* What the running handler has been asked fits the place it is at. *)
JobInv ==
  /\ pc = "idle" => job = NoJob
  /\ pc = "install" => job.then = "install"
  /\ pc = "activate" => job.then = "activate"

(* Every step keeps that. *)
LEMMA JobStep == ASSUME Typed, JobInv, [Next]_vars PROVE JobInv'
<1>1. CASE UNCHANGED <<pc, job>>
  BY <1>1 DEF JobInv
<1>2. CASE \/ \E b \in Bundle, i \in FreePids : StartedByUser(b, i)
           \/ \E r \in live : Crash(r)
           \/ RunBlock
           \/ \E b \in Bundle : TerminateApplication(b)
           \/ DeleteSession
           \/ \E r \in live : ActiveApplication(r)
           \/ UNCHANGED vars
  BY <1>1, <1>2 DEF StartedByUser, Crash, RunBlock, TerminateApplication, DeleteSession,
                    ActiveApplication, vars, mainVars
<1>3. CASE \E i \in FreePids : EndLaunch(i)
  BY <1>3 DEF EndLaunch, JobInv, Typed, Shape
<1>4. CASE FailLaunch
  BY <1>4 DEF FailLaunch, JobInv, Typed, Shape
<1>5. CASE InstallSession \/ Activate
  BY <1>5 DEF InstallSession, Activate, JobInv
<1>6. CASE \E b \in Bundle, wait \in BOOLEAN : CreateSession(b, wait)
  BY <1>6 DEF CreateSession, JobInv
<1>7. CASE \E b \in Bundle, given \in Given : LaunchApplication(b, given)
  BY <1>7 DEF LaunchApplication, Begin, JobInv
<1>8. CASE \E b \in Bundle : ActivateApplication(b)
  BY <1>8 DEF ActivateApplication, Begin, JobInv
<1> QED
  BY <1>2, <1>3, <1>4, <1>5, <1>6, <1>7, <1>8 DEF Next

(* The process-wide setting is the session's, unless a POST /session has    *)
(* failed or is at work.                                                    *)
SettingInv ==
  /\ RelaunchWaitsAsSessionAsked
  /\ tested # NoBundle /\ job.then # "install" => config = asked \/ failed
  /\ job.then = "install" => config = (job.given = "yes")

(* Every step keeps that. *)
LEMMA SettingStep ==
  ASSUME Typed, JobInv, SettingInv, [Next]_vars PROVE SettingInv'
<1> USE DEF SettingInv, RelaunchWaitsAsSessionAsked
<1>1. CASE UNCHANGED <<pc, job, bundleID, waits, tested, asked, config, failed>>
  BY <1>1
<1>2. CASE \/ \E b \in Bundle, i \in FreePids : StartedByUser(b, i)
           \/ \E r \in live : Crash(r)
           \/ RunBlock
           \/ \E b \in Bundle : TerminateApplication(b)
           \/ \E r \in live : ActiveApplication(r)
           \/ UNCHANGED vars
  BY <1>1, <1>2 DEF StartedByUser, Crash, RunBlock, TerminateApplication,
                    ActiveApplication, vars, mainVars, objectVars, sessionVars
<1>3. CASE DeleteSession
  BY <1>3 DEF DeleteSession, Idle, JobInv, NoJob, mainVars
<1>4. CASE \E i \in FreePids : EndLaunch(i)
  BY <1>4 DEF EndLaunch, sessionVars, Typed, Shape
<1>5. CASE FailLaunch
  <2>1. CASE job.then = "install"
    BY <1>5, <2>1 DEF FailLaunch, NoJob
  <2>2. CASE job.then # "install"
    BY <1>5, <2>2 DEF FailLaunch, Typed, TypeOK
  <2> QED
    BY <2>1, <2>2
<1>6. CASE InstallSession
  BY <1>6 DEF InstallSession, JobInv, NoJob
<1>7. CASE Activate
  BY <1>7 DEF Activate, JobInv, NoJob, sessionVars
<1>8. ASSUME NEW b \in Bundle, NEW wait \in BOOLEAN, CreateSession(b, wait) PROVE SettingInv'
  <2>1. /\ pc' = "launch" /\ config' = wait
        /\ job' = [object |-> allocated + 1, then |-> "install",
                   given |-> IF wait THEN "yes" ELSE "no"]
    BY <1>8 DEF CreateSession, Begin
  <2>2. job'.then = "install" /\ (wait <=> job'.given = "yes")
    BY <2>1
  <2>3. config' = (job'.given = "yes")
    BY <2>1, <2>2
  <2> QED
    BY <2>2, <2>3
<1>9. ASSUME NEW b \in Bundle, NEW given \in Given, LaunchApplication(b, given)
      PROVE  SettingInv'
  <2> DEFINE o == Registered(b)
  <2>1. /\ Idle /\ Register(b)
        /\ job' = [object |-> o, then |-> "activate", given |-> given]
        /\ UNCHANGED <<tested, asked, config, failed>>
        /\ pc' = "launch" => waits' = [waits EXCEPT ![o] = WaitsWhenLaunched(b, given)]
    BY <1>9 DEF LaunchApplication, Begin
  <2>2. o \in Object /\ bundleID'[o] = b /\ b # NoBundle
    BY <2>1, RegisterType, ApplicationAssumption
  <2>3. tested # NoBundle => config = asked \/ failed
    BY <2>1 DEF Idle, JobInv, NoJob
  <2>4. pc' = "launch" /\ given = "none" /\ b = tested => waits'[o] = config
    BY <2>1, <2>2 DEF WaitsWhenLaunched, Typed, TypeOK
  <2> QED
    BY <2>1, <2>2, <2>3, <2>4
<1>10. CASE \E b \in Bundle : ActivateApplication(b)
  BY <1>10 DEF ActivateApplication, Begin, Idle, JobInv, NoJob
<1> QED
  BY <1>2, <1>3, <1>4, <1>5, <1>6, <1>7, <1>8, <1>9, <1>10 DEF Next

(* A relaunch waits as its session was asked to, until a creation fails. *)
THEOREM RelaunchWaits == Spec => []RelaunchWaitsAsSessionAsked
<1> DEFINE Inv == Typed /\ JobInv /\ SettingInv
<1>1. Init => Inv
  BY InitType DEF Init, JobInv, SettingInv, RelaunchWaitsAsSessionAsked, NoJob
<1>2. ASSUME Inv, [Next]_vars PROVE Inv'
  BY <1>2, NextType, JobStep, SettingStep
<1>3. Inv => RelaunchWaitsAsSessionAsked
  BY DEF SettingInv
<1> QED
  BY <1>1, <1>2, <1>3, PTL DEF Spec

-----------------------------------------------------------------------------
(* The observers and their blocks *)

NoneOf(s, o) == \A i \in 1 .. Len(s) : s[i].object # o
LastOf(s, o, p) ==
  \E i \in 1 .. Len(s) :
    /\ s[i].object = o /\ s[i].process = p
    /\ \A j \in i + 1 .. Len(s) : s[j].object # o

(* A block queued for o is o's last and leaves those of others alone. *)
LEMMA AppendBlock ==
  ASSUME NEW s \in Seq(Block), NEW o \in Object, NEW p \in Process
  PROVE  LET t == Append(s, [object |-> o, process |-> p]) IN
         /\ ~NoneOf(t, o) /\ LastOf(t, o, p)
         /\ \A q \in Object : q # o =>
              /\ NoneOf(s, q) <=> NoneOf(t, q)
              /\ \A r : LastOf(s, q, r) => LastOf(t, q, r)
<1> DEFINE e == [object |-> o, process |-> p]
           t == Append(s, e)
<1>1. e \in Block /\ e.object = o /\ e.process = p
  BY DEF Block
<1>2. /\ Len(t) = Len(s) + 1 /\ Len(s) \in Nat /\ t[Len(s) + 1] = e
      /\ \A i \in 1 .. Len(s) : t[i] = s[i]
  BY <1>1
<1> HIDE DEF t, e
<1>3. ~NoneOf(t, o) /\ LastOf(t, o, p)
  BY <1>1, <1>2 DEF NoneOf, LastOf
<1>4. ASSUME NEW q \in Object, q # o PROVE NoneOf(s, q) <=> NoneOf(t, q)
  BY <1>1, <1>2, <1>4 DEF NoneOf
<1>5. ASSUME NEW q \in Object, q # o, NEW r, LastOf(s, q, r) PROVE LastOf(t, q, r)
  <2>1. PICK i \in 1 .. Len(s) : /\ s[i].object = q /\ s[i].process = r
                                 /\ \A j \in i + 1 .. Len(s) : s[j].object # q
    BY <1>5 DEF LastOf
  <2>2. i \in 1 .. Len(t) /\ t[i] = s[i]
    BY <1>2
  <2>3. \A j \in i + 1 .. Len(t) : t[j].object # q
    BY <1>1, <1>2, <1>5, <2>1
  <2> QED
    BY <2>1, <2>2, <2>3 DEF LastOf
<1> QED
  BY <1>3, <1>4, <1>5 DEF t, e

(* The block that runs leaves those of others alone; it is the last of its  *)
(* object unless another comes later.                                       *)
LEMMA TailBlock ==
  ASSUME NEW s \in Seq(Block), s # <<>>, NEW o \in Object
  PROVE  /\ NoneOf(s, o) => NoneOf(Tail(s), o) /\ Head(s).object # o
         /\ Head(s).object # o => (NoneOf(Tail(s), o) => NoneOf(s, o))
         /\ \A p : LastOf(s, o, p) =>
              IF NoneOf(Tail(s), o) THEN Head(s).object = o /\ Head(s).process = p
                                    ELSE LastOf(Tail(s), o, p)
<1> DEFINE t == Tail(s)
<1>1. /\ Len(s) \in Nat \ {0} /\ Len(t) = Len(s) - 1 /\ Head(s) = s[1]
      /\ \A i \in 1 .. Len(t) : t[i] = s[i + 1]
  BY DEF Block
<1> HIDE DEF t
<1>2. NoneOf(s, o) => NoneOf(t, o) /\ Head(s).object # o
  BY <1>1 DEF NoneOf
<1>3. \A i \in 1 .. Len(s) : i = 1 \/ (i - 1 \in 1 .. Len(t) /\ s[i] = t[i - 1])
  BY <1>1
<1>4. Head(s).object # o => (NoneOf(t, o) => NoneOf(s, o))
  BY <1>1, <1>3 DEF NoneOf
<1>5. ASSUME NEW p, LastOf(s, o, p)
      PROVE  IF NoneOf(t, o) THEN Head(s).object = o /\ Head(s).process = p
                             ELSE LastOf(t, o, p)
  <2>1. PICK i \in 1 .. Len(s) : /\ s[i].object = o /\ s[i].process = p
                                 /\ \A j \in i + 1 .. Len(s) : s[j].object # o
    BY <1>5 DEF LastOf
  <2>2. CASE i = 1
    <3>1. NoneOf(t, o)
      BY <1>1, <2>1, <2>2 DEF NoneOf
    <3> QED
      BY <1>1, <2>1, <2>2, <3>1
  <2>3. CASE i # 1
    <3>1. i - 1 \in 1 .. Len(t) /\ t[i - 1].object = o /\ t[i - 1].process = p
      BY <1>3, <2>1, <2>3
    <3>2. \A j \in (i - 1) + 1 .. Len(t) : t[j].object # o
      BY <1>1, <2>1, <2>3
    <3> QED
      BY <3>1, <3>2 DEF NoneOf, LastOf
  <2> QED
    BY <2>2, <2>3
<1> QED
  BY <1>2, <1>4, <1>5 DEF t

(* An object that the session, the running handler or a later allocation    *)
(* may use.                                                                 *)
Held(o) == o > allocated \/ o = job.object \/ \E b \in Bundle : apps[b] = o

(* Its observers.  Removed ones had been added, the process of an object    *)
(* that has none is as XCTest set it, and that of one that has becomes what *)
(* XCTest set last when its blocks have run.                                *)
ObjectInv(o) ==
  /\ observing[o] => observers[o] > 0
  /\ observers[o] = 0 => ~proxied[o] /\ NoneOf(blocks, o)
  /\ observers[o] > 0 /\ assigned[o] # NoProcess =>
       IF NoneOf(blocks, o) THEN current[o] = assigned[o] /\ proxied[o]
                            ELSE LastOf(blocks, o, assigned[o])

ObserverInv ==
  /\ \A o \in Object : ~proxied[o] => current[o] = assigned[o]
  /\ \A o \in Object : Held(o) => ObjectInv(o)

(* A step that is not about the object. *)
LEMMA ObjectFrame ==
  ASSUME NEW o \in Object, ObjectInv(o),
         observing'[o] = observing[o], observers'[o] = observers[o],
         current'[o] = current[o], proxied'[o] = proxied[o], assigned'[o] = assigned[o],
         NoneOf(blocks, o) <=> NoneOf(blocks', o),
         \A p : LastOf(blocks, o, p) => LastOf(blocks', o, p)
  PROVE  ObjectInv(o)'
<1>1. NoneOf(blocks, o)' <=> NoneOf(blocks, o)
  BY DEF NoneOf
<1>2. \A p : LastOf(blocks, o, p) => LastOf(blocks, o, p)'
  BY DEF LastOf
<1> QED
  BY <1>1, <1>2 DEF ObjectInv

(* A process that XCTest sets keeps what is known of every object. *)
LEMMA AssignKeeps ==
  ASSUME Typed, NEW o \in Object, NEW p \in 0 .. MaxProcesses, AssignProcess(o, p),
         UNCHANGED <<observing, observers>>,
         NEW q \in Object, ~proxied[q] => current[q] = assigned[q]
  PROVE  /\ ~proxied'[q] => current'[q] = assigned'[q]
         /\ ObjectInv(q) => ObjectInv(q)'
<1>1. /\ current' = [current EXCEPT ![o] = p]
      /\ proxied' = [proxied EXCEPT ![o] = FALSE]
      /\ assigned' = [assigned EXCEPT ![o] = p]
      /\ blocks' = Notified(observers[o], o, p)
      /\ blocks \in Seq(Block) /\ observers[o] \in Nat
  BY Bounds DEF AssignProcess, Typed, TypeOK, Block
<1>2. p # NoProcess => p \in Process
  BY Bounds DEF NoProcess, Process, Typed
<1>3. CASE q = o
  <2>1. current'[q] = p /\ ~proxied'[q] /\ assigned'[q] = p
    BY <1>1, <1>3 DEF Typed, TypeOK
  <2>2. observers[o] = 0 \/ p = NoProcess => blocks' = blocks
    BY <1>1 DEF Notified
  <2>3. observers[o] > 0 /\ p # NoProcess => ~NoneOf(blocks', o) /\ LastOf(blocks', o, p)
    BY <1>1, <1>2, AppendBlock DEF Notified
  <2>4. ObjectInv(q) => ObjectInv(q)'
    <3> SUFFICES ASSUME ObjectInv(q) PROVE ObjectInv(q)'
      OBVIOUS
    <3>1. CASE observers[o] = 0
      BY <1>3, <2>1, <2>2, <3>1 DEF ObjectInv, NoneOf
    <3>2. CASE observers[o] > 0 /\ p = NoProcess
      BY <1>3, <2>1, <3>2 DEF ObjectInv
    <3>3. CASE observers[o] > 0 /\ p # NoProcess
      BY <1>3, <2>1, <2>3, <3>3 DEF ObjectInv, NoneOf, LastOf
    <3> QED
      BY <1>1, <3>1, <3>2, <3>3
  <2> QED
    BY <2>1, <2>4
<1>4. CASE q # o
  <2>1. current'[q] = current[q] /\ proxied'[q] = proxied[q] /\ assigned'[q] = assigned[q]
    BY <1>1, <1>4 DEF Typed, TypeOK
  <2>2. /\ NoneOf(blocks, q) <=> NoneOf(blocks', q)
        /\ \A r : LastOf(blocks, q, r) => LastOf(blocks', q, r)
    BY <1>1, <1>2, <1>4, AppendBlock DEF Notified
  <2> QED
    BY <2>1, <2>2, ObjectFrame
<1> QED
  BY <1>3, <1>4

(* So does an object that begins to observe its process. *)
LEMMA ObserveKeeps ==
  ASSUME Typed, NEW o \in Object, NEW wait \in BOOLEAN, Observe(o, wait),
         UNCHANGED processVars, ~proxied[o] => current[o] = assigned[o],
         ObjectInv(o), NEW q \in Object, ObjectInv(q)
  PROVE  ObjectInv(q)'
<1>1. CASE wait
  BY <1>1, ObjectFrame DEF Observe, processVars
<1>2. CASE ~wait
  <2>1. /\ observing' = [observing EXCEPT ![o] = TRUE]
        /\ observers' = [observers EXCEPT ![o] = @ + 1]
        /\ blocks' = IF proxied[o] THEN blocks ELSE Notified(1, o, current[o])
        /\ UNCHANGED <<current, proxied, assigned>>
        /\ blocks \in Seq(Block) /\ observers[o] \in Nat
    BY <1>2, Bounds DEF Observe, processVars, Typed, TypeOK, Block
  <2>2. current[o] # NoProcess => current[o] \in Process
    BY Bounds DEF NoProcess, Process, Typed, TypeOK
  <2>3. CASE q = o
    <3>1. observing'[q] /\ observers'[q] = observers[q] + 1
      BY <2>1, <2>3 DEF Typed, TypeOK
    <3>2. CASE proxied[o]
      <4>1. observers[q] > 0
        BY <2>1, <2>3, <3>2 DEF ObjectInv
      <4> QED
        BY <2>1, <2>3, <3>1, <3>2, <4>1 DEF ObjectInv, NoneOf, LastOf
    <3>3. CASE ~proxied[o] /\ current[o] = NoProcess
      BY <2>1, <2>3, <3>1, <3>3 DEF ObjectInv
    <3>4. CASE ~proxied[o] /\ current[o] # NoProcess
      <4>1. ~NoneOf(blocks', o) /\ LastOf(blocks', o, current[o]) /\ current[o] = assigned[o]
        BY <2>1, <2>2, <3>4, AppendBlock DEF Notified
      <4> QED
        BY <2>1, <2>3, <3>1, <4>1 DEF ObjectInv, NoneOf, LastOf
    <3> QED
      BY <3>2, <3>3, <3>4
  <2>4. CASE q # o
    <3>1. observing'[q] = observing[q] /\ observers'[q] = observers[q]
      BY <2>1, <2>4 DEF Typed, TypeOK
    <3>2. /\ NoneOf(blocks, q) <=> NoneOf(blocks', q)
          /\ \A r : LastOf(blocks, q, r) => LastOf(blocks', q, r)
      BY <2>1, <2>2, <2>4, AppendBlock DEF Notified
    <3> QED
      BY <2>1, <3>1, <3>2, ObjectFrame
  <2> QED
    BY <2>3, <2>4
<1> QED
  BY <1>1, <1>2

(* The session's object of a bundle is one it may use, and no other becomes *)
(* one with it.                                                             *)
LEMMA RegisterHeld ==
  ASSUME Typed, NEW b \in Bundle, Register(b), job'.object = Registered(b)
  PROVE  /\ Held(Registered(b))
         /\ \A o \in Object : Held(o)' => Held(o)
<1>1. /\ allocated \in Nat /\ allocated <= allocated' /\ allocated' \in Nat
      /\ apps' = [apps EXCEPT ![b] = Registered(b)]
      /\ apps \in [Bundle -> 0 .. allocated]
  <2>1. allocated' \in 0 .. MaxObjects /\ allocated <= allocated'
    BY RegisterType
  <2>2. allocated \in Nat /\ MaxObjects \in Nat
    BY Bounds DEF Typed
  <2>3. apps' = [apps EXCEPT ![b] = Registered(b)]
    BY DEF Register
  <2> QED
    BY <2>1, <2>2, <2>3 DEF Typed, TypeOK
<1>2. Held(Registered(b))
  BY <1>1 DEF Held, Registered
<1>3. \A c \in Bundle : apps'[c] = Registered(b) \/ apps'[c] = apps[c]
  BY <1>1
<1>4. ASSUME NEW o \in Object, Held(o)' PROVE Held(o)
  <2>1. CASE o > allocated'
    BY <1>1, <2>1, Bounds DEF Held, Object, Typed
  <2>2. CASE o = job'.object
    BY <1>2, <2>2
  <2>3. ASSUME NEW c \in Bundle, apps'[c] = o PROVE Held(o)
    <3>1. CASE apps'[c] = Registered(b)
      BY <1>2, <2>3, <3>1
    <3>2. CASE apps'[c] = apps[c]
      BY <2>3, <3>2 DEF Held
    <3> QED
      BY <1>3, <3>1, <3>2
  <2> QED
    BY <1>4, <2>1, <2>2, <2>3 DEF Held
<1> QED
  BY <1>2, <1>4

(* A block that runs. *)
LEMMA RunBlockKeeps == ASSUME Typed, ObserverInv, RunBlock PROVE ObserverInv'
<1> DEFINE e == Head(blocks)
<1>0. blocks \in Seq(Block) /\ blocks # <<>>
  BY DEF RunBlock, Typed, TypeOK, Block
<1>1. blocks \in Seq(Block) /\ blocks # <<>> /\ e \in Block
  BY <1>0
<1>2. e.object \in Object
  BY <1>1 DEF Block
<1>3. /\ current' = [current EXCEPT ![e.object] = e.process]
      /\ proxied' = [proxied EXCEPT ![e.object] = TRUE]
      /\ blocks' = Tail(blocks)
      /\ UNCHANGED <<allocated, observing, observers, assigned, apps, job>>
  BY DEF RunBlock, objectVars, sessionVars
<1>4. \A o \in Object : ~proxied'[o] => current'[o] = assigned'[o]
  BY <1>2, <1>3 DEF ObserverInv, Typed, TypeOK
<1>5. ASSUME NEW o \in Object, Held(o)' PROVE ObjectInv(o)'
  <2>1. ObjectInv(o)
    BY <1>3, <1>5 DEF Held, ObserverInv
  <2>2. /\ NoneOf(blocks, o) => NoneOf(blocks', o) /\ e.object # o
        /\ e.object # o => (NoneOf(blocks', o) => NoneOf(blocks, o))
        /\ \A p : LastOf(blocks, o, p) =>
             IF NoneOf(blocks', o) THEN e.object = o /\ e.process = p
                                   ELSE LastOf(blocks', o, p)
    BY <1>1, <1>3, TailBlock
  <2>3. CASE e.object # o
    <3>1. current'[o] = current[o] /\ proxied'[o] = proxied[o]
      BY <1>2, <1>3, <2>3 DEF Typed, TypeOK
    <3>2. NoneOf(blocks, o) <=> NoneOf(blocks', o)
      BY <2>2, <2>3
    <3>3. \A p : LastOf(blocks, o, p) => LastOf(blocks', o, p)
      BY <2>2, <2>3
    <3> QED
      BY <1>3, <2>1, <3>1, <3>2, <3>3, ObjectFrame
  <2>4. CASE e.object = o
    <3>1. current'[o] = e.process /\ proxied'[o]
      BY <1>2, <1>3, <2>4 DEF Typed, TypeOK
    <3>2. ~NoneOf(blocks, o) /\ observers[o] # 0
      BY <2>1, <2>2, <2>4 DEF ObjectInv
    <3>3. assigned[o] # NoProcess /\ observers[o] > 0 =>
            IF NoneOf(blocks', o) THEN e.process = assigned[o]
                                  ELSE LastOf(blocks', o, assigned[o])
      BY <2>1, <2>2, <3>2 DEF ObjectInv
    <3>4. NoneOf(blocks', o) <=> NoneOf(blocks, o)'
      BY DEF NoneOf
    <3>5. LastOf(blocks', o, assigned[o]) => LastOf(blocks, o, assigned[o])'
      BY <1>3 DEF LastOf
    <3> QED
      BY <1>3, <2>1, <3>1, <3>2, <3>3, <3>4, <3>5 DEF ObjectInv
  <2> QED
    BY <2>3, <2>4
<1> QED
  BY <1>4, <1>5 DEF ObserverInv

(* A process is set at the end of a launch and when XCTest activates. *)
LEMMA ProcessKeeps ==
  ASSUME Typed, ObserverInv,
         FailLaunch \/ Activate \/ \E i \in FreePids : EndLaunch(i)
  PROVE  ObserverInv'
<1> DEFINE o == job.object
<1>1. /\ o \in Object /\ UNCHANGED <<allocated, observing, observers, apps>>
      /\ job' = job \/ job' = NoJob
  BY Bounds DEF FailLaunch, Activate, EndLaunch, Typed, objectVars, sessionVars
<1>2. \A q \in Object : Held(q)' => Held(q)
  BY <1>1 DEF Held, NoJob, NoObject, Object
<1>3. UNCHANGED <<processVars, blocks>> \/ \E p \in 0 .. MaxProcesses : AssignProcess(o, p)
  <2>1. /\ NoProcess \in 0 .. MaxProcesses
        /\ \A r \in live : r.process \in 0 .. MaxProcesses
        /\ started < MaxProcesses => started + 1 \in 0 .. MaxProcesses
    BY Bounds DEF NoProcess, Typed, TypeOK
  <2>2. CASE FailLaunch
    BY <2>1, <2>2 DEF FailLaunch
  <2>3. CASE Activate
    BY <2>1, <2>3 DEF Activate, StartProcess, RunningAs
  <2>4. CASE \E i \in FreePids : EndLaunch(i)
    BY <2>1, <2>4 DEF EndLaunch, StartProcess
  <2> QED
    BY <2>2, <2>3, <2>4
<1>4. CASE UNCHANGED <<processVars, blocks>>
  <2>1. \A q \in Object : ObjectInv(q) => ObjectInv(q)'
    BY <1>1, <1>4, ObjectFrame DEF processVars
  <2> QED
    BY <1>2, <1>4, <2>1 DEF ObserverInv, processVars
<1>5. ASSUME NEW p \in 0 .. MaxProcesses, AssignProcess(o, p) PROVE ObserverInv'
  <2>1. \A q \in Object : /\ ~proxied'[q] => current'[q] = assigned'[q]
                          /\ ObjectInv(q) => ObjectInv(q)'
    BY <1>1, <1>5, AssignKeeps DEF ObserverInv
  <2> QED
    BY <1>2, <2>1 DEF ObserverInv
<1> QED
  BY <1>3, <1>4, <1>5

(* A request that takes or makes an object, and may begin to observe. *)
LEMMA RequestKeeps ==
  ASSUME Typed, ObserverInv,
         \/ \E b \in Bundle, wait \in BOOLEAN : CreateSession(b, wait)
         \/ \E b \in Bundle, given \in Given : LaunchApplication(b, given)
         \/ \E b \in Bundle : ActivateApplication(b)
  PROVE  ObserverInv'
<1>1. ASSUME UNCHANGED processVars, NEW o \in Object, Held(o), NEW wait \in BOOLEAN,
             Observe(o, wait), \A q \in Object : Held(q)' => Held(q)
      PROVE  ObserverInv'
  <2>1. \A q \in Object : ObjectInv(q) => ObjectInv(q)'
    BY <1>1, ObserveKeeps DEF ObserverInv
  <2> QED
    BY <1>1, <2>1 DEF ObserverInv, processVars
<1>2. ASSUME UNCHANGED <<processVars, observing, observers, blocks>>,
             \A q \in Object : Held(q)' => Held(q)
      PROVE  ObserverInv'
  <2>1. \A q \in Object : ObjectInv(q) => ObjectInv(q)'
    BY <1>2, ObjectFrame DEF processVars
  <2> QED
    BY <1>2, <2>1 DEF ObserverInv, processVars
<1>3. ASSUME NEW b \in Bundle, NEW wait \in BOOLEAN, CreateSession(b, wait) PROVE ObserverInv'
  <2>1. /\ allocated \in Nat /\ MaxObjects \in Nat /\ allocated < MaxObjects
        /\ allocated' = allocated + 1 /\ job'.object = allocated + 1 /\ apps' = apps
        /\ Observe(allocated + 1, wait) /\ UNCHANGED processVars
    BY <1>3, Bounds DEF CreateSession, Allocate, Begin, Typed
  <2>2. allocated + 1 \in Object /\ Held(allocated + 1)
    BY <2>1 DEF Object, Held
  <2>3. \A q \in Object : Held(q)' => Held(q)
    BY <2>1 DEF Held, Object
  <2> QED
    BY <1>1, <2>1, <2>2, <2>3
<1>4. ASSUME NEW b \in Bundle, NEW given \in Given, LaunchApplication(b, given)
      PROVE  ObserverInv'
  <2> DEFINE o == Registered(b)
  <2>1. Register(b) /\ job'.object = o /\ UNCHANGED processVars
    BY <1>4 DEF LaunchApplication, Begin
  <2>2. o \in Object /\ Held(o) /\ \A q \in Object : Held(q)' => Held(q)
    BY <2>1, RegisterType, RegisterHeld
  <2>3. CASE RunningAs(b) = {}
    <3>1. waits' = [waits EXCEPT ![o] = WaitsWhenLaunched(b, given)] /\ Observe(o, waits'[o])
      BY <1>4, <2>3 DEF LaunchApplication
    <3>2. waits'[o] \in BOOLEAN
      BY <2>2, <3>1, WaitsType DEF Typed, TypeOK
    <3> QED
      BY <1>1, <2>1, <2>2, <3>1, <3>2
  <2>4. CASE RunningAs(b) # {}
    BY <1>2, <1>4, <2>1, <2>2, <2>4 DEF LaunchApplication
  <2> QED
    BY <2>3, <2>4
<1>5. ASSUME NEW b \in Bundle, ActivateApplication(b) PROVE ObserverInv'
  <2>1. /\ Register(b) /\ job'.object = Registered(b)
        /\ UNCHANGED <<processVars, observing, observers, blocks>>
    BY <1>5 DEF ActivateApplication, Begin
  <2> QED
    BY <1>2, <2>1, RegisterHeld
<1> QED
  BY <1>3, <1>4, <1>5

(* A request that stops an application lets go of its object. *)
LEMMA StopKeeps ==
  ASSUME Typed, JobInv, ObserverInv,
         DeleteSession \/ \E b \in Bundle : TerminateApplication(b)
  PROVE  ObserverInv'
<1>1. /\ UNCHANGED <<processVars, observing, blocks, allocated, job>> /\ job.object = NoObject
  BY DEF DeleteSession, TerminateApplication, mainVars, Idle, JobInv, NoJob
<1>2. ASSUME \A q \in Object : Held(q)' => Held(q) /\ observers'[q] = observers[q]
      PROVE  ObserverInv'
  <2>1. \A q \in Object : Held(q)' => ObjectInv(q)'
    BY <1>1, <1>2, ObjectFrame DEF ObserverInv, processVars
  <2> QED
    BY <1>1, <2>1 DEF ObserverInv, processVars
<1>3. ASSUME NEW o \in Object, Terminate(o), NEW q \in Object, q # o
      PROVE  observers'[q] = observers[q]
  BY <1>3 DEF Terminate, Typed, TypeOK
<1>4. ASSUME NEW b \in Bundle, TerminateApplication(b) PROVE ObserverInv'
  <2>1. apps' = [apps EXCEPT ![b] = NoObject] /\ apps \in [Bundle -> 0 .. allocated]
    BY <1>4 DEF TerminateApplication, Typed, TypeOK
  <2>2. ASSUME NEW q \in Object, Held(q)' PROVE Held(q) /\ q # apps[b]
    <3>1. CASE q > allocated
      <4>1. apps[b] \in 0 .. allocated /\ allocated \in Nat
        BY <2>1, Bounds DEF Typed
      <4> QED
        BY <3>1, <4>1 DEF Held
    <3>2. ASSUME NEW c \in Bundle, apps'[c] = q PROVE Held(q) /\ q # apps[b]
      <4>1. c # b /\ apps[c] = q /\ q # NoObject
        BY <2>1, <3>2 DEF Object, NoObject
      <4> QED
        BY <4>1 DEF Held, Typed, Shape
    <3> QED
      BY <1>1, <2>2, <3>1, <3>2 DEF Held, Object, NoObject
  <2>3. ASSUME NEW q \in Object, q # apps[b] PROVE observers'[q] = observers[q]
    BY <1>3, <1>4, <2>3, Bounds DEF TerminateApplication, Typed
  <2> QED
    BY <1>2, <2>2, <2>3
<1>5. CASE DeleteSession
  <2>1. tested \in Bundle /\ apps' = [b \in Bundle |-> NoObject]
    BY <1>5 DEF DeleteSession, Typed, TypeOK
  <2>2. ASSUME NEW q \in Object, Held(q)' PROVE Held(q) /\ q # apps[tested]
    <3>1. q > allocated
      BY <1>1, <2>1, <2>2 DEF Held, Object, NoObject
    <3>2. apps[tested] \in 0 .. allocated /\ allocated \in Nat
      BY <2>1, Bounds DEF Typed, TypeOK
    <3> QED
      BY <3>1, <3>2 DEF Held
  <2>3. ASSUME NEW q \in Object, q # apps[tested] PROVE observers'[q] = observers[q]
    BY <1>3, <1>5, <2>1, <2>3, Bounds DEF DeleteSession, Typed
  <2> QED
    BY <1>2, <2>2, <2>3
<1> QED
  BY <1>4, <1>5

(* Every step keeps what is known of the observers. *)
LEMMA ObserverStep ==
  ASSUME Typed, JobInv, ObserverInv, [Next]_vars PROVE ObserverInv'
<1>1. ASSUME UNCHANGED <<processVars, observing, observers, blocks>>,
             \A q \in Object : Held(q)' => Held(q)
      PROVE  ObserverInv'
  <2>1. \A q \in Object : ObjectInv(q) => ObjectInv(q)'
    BY <1>1, ObjectFrame DEF processVars
  <2> QED
    BY <1>1, <2>1 DEF ObserverInv, processVars
<1>2. CASE InstallSession
  <2>1. /\ apps' = [b \in Bundle |-> IF b = bundleID[job.object] THEN job.object ELSE NoObject]
        /\ job'.object = NoObject
        /\ UNCHANGED <<processVars, observing, observers, blocks, allocated>>
    BY <1>2 DEF InstallSession, NoJob, objectVars
  <2>2. \A q \in Object : Held(q)' => Held(q)
    BY <2>1 DEF Held, Object, NoObject
  <2> QED
    BY <1>1, <2>1, <2>2
<1>3. CASE \/ \E b \in Bundle, i \in FreePids : StartedByUser(b, i)
           \/ \E r \in live : Crash(r)
           \/ \E r \in live : ActiveApplication(r)
           \/ UNCHANGED vars
  <2>1. UNCHANGED <<processVars, observing, observers, blocks, allocated, apps, job>>
    BY <1>3 DEF StartedByUser, Crash, ActiveApplication, vars, objectVars, sessionVars, mainVars
  <2>2. \A q \in Object : Held(q)' => Held(q)
    BY <2>1 DEF Held
  <2> QED
    BY <1>1, <2>1, <2>2
<1> QED
  BY <1>2, <1>3, RunBlockKeeps, ProcessKeeps, RequestKeeps, StopKeeps DEF Next

(* What follows for the session's objects from the invariant of observers.  *)
LEMMA ObserversAreSound == Spec => [](TerminateNeverRaises /\ LatestProcessWins)
<1> DEFINE Inv == Typed /\ JobInv /\ ObserverInv
<1>1. Init => Inv
  <2> SUFFICES ASSUME Init PROVE Inv
    OBVIOUS
  <2>1. \A o \in Object : ObjectInv(o) /\ current[o] = assigned[o]
    BY DEF Init, ObjectInv, NoneOf
  <2> QED
    BY <2>1, InitType DEF Init, JobInv, ObserverInv
<1>2. ASSUME Inv, [Next]_vars PROVE Inv'
  BY <1>2, NextType, JobStep, ObserverStep
<1>3. Inv => TerminateNeverRaises /\ LatestProcessWins
  <2> SUFFICES ASSUME Inv PROVE TerminateNeverRaises /\ LatestProcessWins
    OBVIOUS
  <2>1. \A b \in Bundle : apps[b] # NoObject => apps[b] \in Object /\ ObjectInv(apps[b])
    BY Bounds DEF Typed, ObserverInv, Held
  <2>2. \A o \in Object : PendingOf(o) = {} => NoneOf(blocks, o)
    BY DEF PendingOf, NoneOf
  <2> QED
    BY <2>1, <2>2 DEF TerminateNeverRaises, LatestProcessWins, ObjectInv
<1> QED
  BY <1>1, <1>2, <1>3, PTL DEF Spec

(* Terminating an application of the session never removes an observer that *)
(* is not there.                                                            *)
THEOREM TerminateIsSafe == Spec => []TerminateNeverRaises
BY ObserversAreSound, PTL

(* The process XCTest set last is the one that stays, as a proxy.           *)
THEOREM LatestProcessStays == Spec => []LatestProcessWins
BY ObserversAreSound, PTL

=============================================================================
