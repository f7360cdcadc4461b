-------------------------- MODULE FBScreenCastProofs ---------------------------
(***************************************************************************)
(* What the lock state, its requests and the screen cast guarantee for any *)
(* timeout, any images and any number of casts.                            *)
(***************************************************************************)
EXTENDS FBScreenCast, TLAPS

-----------------------------------------------------------------------------
(* Types *)

(* A step of the lock state and of its requests keeps the types. *)
LEMMA LockType ==
  ASSUME TypeOK, LockNext, UNCHANGED <<castVars, screen, mirrorVars>>
  PROVE  TypeOK'
<1>1. MaxPosts \in Nat /\ Timeout \in Nat \ {0}
  BY LockAssumption
<1>2. reading["locked"] \in Nat /\ reading["unlocked"] \in Nat /\ posted \in Nat /\ elapsed \in Nat
  BY <1>1 DEF TypeOK, LockTypeOK, State
<1>3. Later \in 0 .. Timeout
  BY <1>1, <1>2 DEF Later, TypeOK, LockTypeOK
<1> USE <1>1, <1>2 DEF castVars, mirrorVars, eventVars, stateVars, State
<1>4. CASE LockStateChanges
  BY <1>4 DEF LockStateChanges, Handlers, TypeOK, LockTypeOK
<1>5. CASE ReadState
  <2>1. PICK k \in 1 .. posted : posted' = posted - k
    BY <1>5 DEF ReadState
  <2>2. device \in State /\ reading' = [reading EXCEPT ![device] = @ + 1]
    BY <1>5 DEF ReadState, TypeOK, LockTypeOK
  <2>3. Handlers' = Handlers + 1 /\ posted' + Handlers' <= MaxPosts
    BY <2>1, <2>2 DEF Handlers, TypeOK, LockTypeOK
  <2>4. reading' \in [State -> 0 .. MaxPosts] /\ posted' \in 0 .. MaxPosts
    BY <2>1, <2>2, <2>3 DEF Handlers, TypeOK, LockTypeOK
  <2>5. overlapped' \in BOOLEAN
    BY <1>5 DEF ReadState
  <2> QED
    BY <1>5, <2>3, <2>4, <2>5 DEF ReadState, requestVars, TypeOK, LockTypeOK
<1>6. ASSUME NEW v \in State, WriteBelief(v) PROVE TypeOK'
  BY <1>6 DEF WriteBelief, requestVars, Handlers, TypeOK, LockTypeOK
<1>7. ASSUME NEW want \in State, RequestLock(want) PROVE TypeOK'
  <2>1. goal' \in State /\ elapsed' \in 0 .. Timeout
    BY <1>7 DEF RequestLock, End, TypeOK, LockTypeOK
  <2>3. witnessed' \in BOOLEAN
    BY <1>7 DEF RequestLock
  <2>2. /\ pc' \in {"idle", "home", "look"} /\ answer' \in {"none", "yes"}
    BY <1>7 DEF RequestLock, End
  <2> QED
    BY <1>7, <2>1, <2>2, <2>3 DEF RequestLock, Handlers, TypeOK, LockTypeOK
<1>8. CASE CoolOff \/ Look \/ EndPass
  BY <1>3, <1>8 DEF CoolOff, Look, EndPass, End, Handlers, TypeOK, LockTypeOK
<1> QED
  BY <1>4, <1>5, <1>6, <1>7, <1>8 DEF LockNext

(* A step of the cast, its sockets or the screen keeps the types.           *)
LEMMA CastType == ASSUME TypeOK, CastNext PROVE TypeOK'
<1>1. MaxCasts \in Nat /\ Tries \in Nat \ {0} /\ Timeout \in Nat \ {0}
  BY CastAssumption, LockAssumption
<1>2. Later \in 0 .. Timeout
  BY <1>1 DEF Later, TypeOK, LockTypeOK
<1>3. \A n \in 0 .. casts : Closed(n) \in [Cast -> {"none", "connecting", "open", "closed"}]
  BY DEF Closed, TypeOK
<1> USE DEF Handlers, State, stateVars, requestVars, mirrorVars, eventVars
<1>4. CASE StartCast
  BY <1>1, <1>3, <1>4 DEF StartCast, Idle, Cast, TypeOK, LockTypeOK
<1>5. CASE StopCast
  BY <1>1, <1>3, <1>5 DEF StopCast, Idle, TypeOK, LockTypeOK
<1>6. ASSUME NEW n \in Cast, Fire(n) PROVE TypeOK'
  <2>1. /\ kLast' \in Image \cup {NoImage} /\ shown' \in Image \cup {NoImage}
        /\ missed' \in BOOLEAN
    BY <1>6 DEF Fire, Send, TypeOK
  <2>2. elapsed' \in 0 .. Timeout
    BY <1>2, <1>6 DEF Fire, TypeOK, LockTypeOK
  <2> QED
    BY <1>6, <2>1, <2>2 DEF Fire, TypeOK, LockTypeOK
<1>7. ASSUME NEW n \in Cast, FireFails(n) PROVE TypeOK'
  BY <1>2, <1>7 DEF FireFails, castVars, TypeOK, LockTypeOK
<1>8. ASSUME NEW n \in Cast, SocketOpens(n) \/ SocketFails(n) PROVE TypeOK'
  <2>1. socket' \in [Cast -> {"none", "connecting", "open", "closed"}]
    BY <1>8 DEF SocketOpens, SocketFails, TypeOK
  <2>2. UNCHANGED <<stateVars, requestVars, screen, mirrorVars,
                    casts, scheduled, kTimer, kLast, shown, missed>>
    BY <1>8 DEF SocketOpens, SocketFails
  <2> QED
    BY <2>1, <2>2 DEF TypeOK, LockTypeOK
<1>9. ASSUME NEW i \in Image, ScreenChanges(i) PROVE TypeOK'
  BY <1>9 DEF ScreenChanges, castVars, TypeOK, LockTypeOK
<1> QED
  BY <1>4, <1>5, <1>6, <1>7, <1>8, <1>9 DEF CastNext

(* What the steps of the waiting requests leave alone. *)
LEMMA WaitFrame ==
  ASSUME WaitNext
  PROVE  UNCHANGED <<goal, elapsed, answer, witnessed, stateVars, castVars, screen>>
BY DEF WaitNext, RequestEvent, HandlerCalled, EventEnds, StartMirror, RestartMirror,
       MirrorTry, RequestSwitch, FindSwitch, requestVars

(* The part of the type invariant they may touch. *)
WaitVarsOK ==
  /\ pc \in {"idle", "home", "again", "look", "pass", "event", "mirror", "switch"}
  /\ isHandlerCalled \in BOOLEAN
  /\ after \in {"answer", "mirror", "drag"}
  /\ stage \in {1, 2} /\ tries \in 0 .. Tries /\ (pc = "mirror" => tries > 0)
  /\ waiting \in BOOLEAN

(* They keep the types. *)
LEMMA WaitType == ASSUME TypeOK, WaitNext PROVE TypeOK'
<1>1. Tries \in Nat \ {0} /\ Tries \in 0 .. Tries /\ WaitVarsOK
  BY CastAssumption DEF TypeOK, WaitVarsOK
<1> USE DEF WaitVarsOK, mirrorVars, eventVars, PostEvent, StartLoops
<1>2. CASE RequestEvent \/ HandlerCalled \/ RequestSwitch \/ FindSwitch
  <2>1. WaitVarsOK'
    BY <1>1, <1>2 DEF RequestEvent, HandlerCalled, RequestSwitch, FindSwitch, requestVars
  <2> QED
    BY <2>1, WaitFrame DEF stateVars, castVars, Handlers, TypeOK, LockTypeOK
<1>3. CASE EventEnds
  <2>1. isHandlerCalled' = FALSE /\ after' \in {"answer", "mirror"}
    BY <1>3 DEF EventEnds
  <2>2. waiting' \in BOOLEAN
    BY <1>1, <1>3 DEF EventEnds
  <2>3. \/ StartLoops
        \/ pc' \in {"idle", "event"} /\ UNCHANGED <<stage, tries>>
    BY <1>3 DEF EventEnds
  <2>4. WaitVarsOK'
    <3>1. CASE StartLoops
      <4>1. stage' \in {1, 2} /\ tries' \in 0 .. Tries /\ tries' > 0 /\ pc' = "mirror"
        BY <1>1, <3>1
      <4> QED
        BY <2>1, <2>2, <4>1
    <3>2. CASE pc' \in {"idle", "event"} /\ UNCHANGED <<stage, tries>>
      BY <1>1, <2>1, <2>2, <3>2
    <3> QED
      BY <2>3, <3>1, <3>2
  <2> QED
    BY <2>4, WaitFrame DEF stateVars, castVars, Handlers, TypeOK, LockTypeOK
<1>4. ASSUME NEW wait \in BOOLEAN, StartMirror(wait) \/ RestartMirror(wait) PROVE TypeOK'
  <2>1. WaitVarsOK'
    <3>1. CASE pc' = "event"
      BY <1>1, <1>4, <3>1 DEF StartMirror, RestartMirror
    <3>2. CASE pc' # "event"
      <4>1. StartLoops /\ UNCHANGED eventVars /\ waiting' = wait
        BY <1>4, <3>2 DEF StartMirror, RestartMirror
      <4> QED
        BY <1>1, <4>1
    <3> QED
      BY <3>1, <3>2
  <2> QED
    BY <2>1, WaitFrame DEF stateVars, castVars, Handlers, TypeOK, LockTypeOK
<1>5. ASSUME NEW found \in BOOLEAN, MirrorTry(found) PROVE TypeOK'
  <2>1. WaitVarsOK'
    BY <1>1, <1>5 DEF MirrorTry
  <2> QED
    BY <2>1, WaitFrame DEF stateVars, castVars, Handlers, TypeOK, LockTypeOK
<1> QED
  BY <1>2, <1>3, <1>4, <1>5 DEF WaitNext

(* The initial state has the right types. *)
LEMMA InitType == Init => TypeOK
<1> SUFFICES ASSUME Init PROVE TypeOK
  OBVIOUS
<1>1. reading["locked"] = 0 /\ reading["unlocked"] = 0
  BY DEF Init, LockInit, State
<1>2. /\ MaxPosts \in Nat /\ 0 \in 0 .. MaxPosts /\ 0 \in 0 .. Timeout
      /\ MaxCasts \in Nat /\ 0 \in 0 .. MaxCasts /\ 0 \in 0 .. Tries
  BY LockAssumption, CastAssumption
<1>3. reading \in [State -> 0 .. MaxPosts] /\ posted + Handlers <= MaxPosts
  BY <1>1, <1>2 DEF Init, LockInit, Handlers
<1>4. device \in State /\ belief \in State /\ goal \in State
  BY DEF Init, LockInit, State
<1>5. LockTypeOK
  BY <1>2, <1>3, <1>4 DEF Init, LockInit, LockTypeOK
<1>6. pc = "idle" /\ socket \in [Cast -> {"none", "connecting", "open", "closed"}]
  BY DEF Init, LockInit
<1>7. kLast \in Image \cup {NoImage} /\ shown \in Image \cup {NoImage} /\ screen \in Image
  BY DEF Init
<1>8. casts = 0 /\ kTimer = 0 /\ scheduled = {} /\ casts \in 0 .. MaxCasts /\ kTimer \in 0 .. casts
  BY <1>2 DEF Init
<1>9. /\ stage \in {1, 2} /\ tries \in 0 .. Tries /\ waiting \in BOOLEAN /\ missed \in BOOLEAN
      /\ isHandlerCalled \in BOOLEAN /\ after \in {"answer", "mirror", "drag"}
  BY <1>2 DEF Init
<1> QED
  BY <1>5, <1>6, <1>7, <1>8, <1>9 DEF TypeOK

(* Every variable keeps its type. *)
THEOREM TypeCorrect == Spec => []TypeOK
<1>1. ASSUME TypeOK, [Next]_vars PROVE TypeOK'
  <2>1. CASE UNCHANGED vars
    BY <1>1, <2>1 DEF vars, stateVars, requestVars, castVars, mirrorVars, eventVars,
                      TypeOK, LockTypeOK, Handlers
  <2> QED
    BY <1>1, <2>1, LockType, CastType, WaitType DEF Next
<1> QED
  BY <1>1, InitType, PTL DEF Spec

-----------------------------------------------------------------------------
(* The belief *)

(* What a settled belief rests on: handlers that do not overlap run one at  *)
(* a time, and the one that runs when nothing is posted has read the state  *)
(* there is.                                                                *)
SettledInv ==
  /\ ~overlapped => Handlers <= 1
  /\ ~overlapped /\ posted = 0 => \A v \in State : reading[v] > 0 => v = device
  /\ SettledBeliefIsTrue

(* Steps that leave the notification alone keep it. *)
LEMMA SettledFrame ==
  ASSUME SettledInv, UNCHANGED stateVars PROVE SettledInv'
BY DEF SettledInv, SettledBeliefIsTrue, stateVars, Handlers

(* So do the device and the handlers. *)
LEMMA SettledStep ==
  ASSUME TypeOK, SettledInv,
         LockStateChanges \/ ReadState \/ \E v \in State : WriteBelief(v)
  PROVE  SettledInv'
<1>1. /\ reading["locked"] \in Nat /\ reading["unlocked"] \in Nat /\ posted \in Nat
      /\ reading \in [State -> 0 .. MaxPosts]
      /\ device \in State /\ belief \in State
  BY LockAssumption DEF TypeOK, LockTypeOK, State
<1>2. CASE LockStateChanges
  BY <1>1, <1>2 DEF LockStateChanges, SettledInv, SettledBeliefIsTrue, Handlers
<1>3. CASE ReadState
  <2>1. reading' = [reading EXCEPT ![device] = @ + 1] /\ device' = device
    BY <1>3 DEF ReadState
  <2>2. Handlers' > 0
    BY <1>1, <2>1 DEF Handlers, State
  <2>3. ~overlapped' => reading["locked"] = 0 /\ reading["unlocked"] = 0
    <3>1. overlapped' = (Handlers > 0)
      BY <1>3 DEF ReadState
    <3>2. ~overlapped' => ~(Handlers > 0)
      BY ONLY <3>1, Zenon
    <3> QED
      BY <1>1, <3>2 DEF Handlers, State
  <2>4. ~overlapped' => Handlers' = 1 /\ \A v \in State : reading'[v] > 0 => v = device'
    BY <1>1, <2>1, <2>3 DEF Handlers, State
  <2> QED
    BY <2>2, <2>4 DEF SettledInv, SettledBeliefIsTrue
<1>4. ASSUME NEW v \in State, WriteBelief(v) PROVE SettledInv'
  <2>1. /\ reading[v] > 0 /\ reading' = [reading EXCEPT ![v] = @ - 1] /\ belief' = v
        /\ UNCHANGED <<device, posted, overlapped>>
    BY <1>4 DEF WriteBelief
  <2>2. \A w \in State : reading'[w] \in Nat /\ reading'[w] <= reading[w]
    BY <1>1, <2>1
  <2>3. ~overlapped' => Handlers' <= 1
    BY <1>1, <2>1, <2>2 DEF SettledInv, Handlers
  <2>4. ~overlapped /\ posted = 0 => v = device
    BY <2>1 DEF SettledInv
  <2>5. ~overlapped' /\ posted' = 0 => \A w \in State : reading'[w] > 0 => w = device'
    <3> SUFFICES ASSUME ~overlapped', posted' = 0, NEW w \in State, reading'[w] > 0
                 PROVE  w = device'
      OBVIOUS
    <3>1. reading[w] > 0
      BY <1>1, <2>2
    <3> QED
      BY <2>1, <3>1 DEF SettledInv
  <2> QED
    BY <2>1, <2>3, <2>4, <2>5 DEF SettledInv, SettledBeliefIsTrue
<1> QED
  BY <1>2, <1>3, <1>4

(* A settled belief is true, whatever the device does meanwhile. *)
THEOREM BeliefSettles == Spec => []SettledBeliefIsTrue
<1>1. Init => SettledInv
  BY DEF Init, LockInit, SettledInv, SettledBeliefIsTrue, Handlers, State
<1>2. ASSUME TypeOK, SettledInv, [Next]_vars PROVE SettledInv'
  <2>1. CASE LockNext
    <3>1. CASE \/ \E want \in State : RequestLock(want)
               \/ CoolOff \/ Look \/ EndPass
      BY <1>2, <3>1, SettledFrame DEF RequestLock, CoolOff, Look, EndPass
    <3> QED
      BY <1>2, <2>1, <3>1, SettledStep DEF LockNext
  <2>2. CASE CastNext \/ WaitNext \/ UNCHANGED vars
    BY <1>2, <2>2, SettledFrame, WaitFrame
    DEF CastNext, StartCast, StopCast, Fire, FireFails, SocketOpens, SocketFails,
        ScreenChanges, vars
  <2> QED
    BY <1>2, <2>1, <2>2 DEF Next
<1>3. SettledInv => SettledBeliefIsTrue
  BY DEF SettledInv
<1> QED
  BY <1>1, <1>2, <1>3, TypeCorrect, PTL DEF Spec

-----------------------------------------------------------------------------
(* The answers *)

Waits == pc \in {"home", "again", "look", "pass"}

(* While a request waits, all that could answer it YES is witnessed. *)
WitnessInv ==
  /\ Waits /\ (belief = goal \/ device = goal \/ reading[goal] > 0) => witnessed
  /\ YesIsWitnessed

(* Every step keeps that. *)
LEMMA WitnessStep ==
  ASSUME TypeOK, WitnessInv, [Next]_vars PROVE WitnessInv'
<1>1. /\ reading["locked"] \in Nat /\ reading["unlocked"] \in Nat
      /\ reading \in [State -> 0 .. MaxPosts]
      /\ device \in State /\ belief \in State /\ goal \in State /\ witnessed \in BOOLEAN
  BY LockAssumption DEF TypeOK, LockTypeOK, State
<1> USE DEF Waits, WitnessInv, YesIsWitnessed
<1>2. CASE LockStateChanges
  BY <1>1, <1>2 DEF LockStateChanges
<1>3. CASE ReadState
  <2>1. reading' = [reading EXCEPT ![device] = @ + 1] /\ UNCHANGED <<device, belief, requestVars>>
    BY <1>3 DEF ReadState
  <2>2. reading'[goal] > 0 => reading[goal] > 0 \/ device = goal
    BY <1>1, <2>1
  <2> QED
    BY <2>1, <2>2 DEF requestVars
<1>4. ASSUME NEW v \in State, WriteBelief(v) PROVE WitnessInv'
  <2>1. /\ reading[v] > 0 /\ reading' = [reading EXCEPT ![v] = @ - 1] /\ belief' = v
        /\ UNCHANGED <<device, requestVars>>
    BY <1>4 DEF WriteBelief
  <2>2. reading'[goal] > 0 => reading[goal] > 0
    BY <1>1, <2>1
  <2> QED
    BY <2>1, <2>2 DEF requestVars
<1>5. ASSUME NEW want \in State, RequestLock(want) PROVE WitnessInv'
  BY <1>1, <1>5 DEF RequestLock, Idle, End, stateVars
<1>6. CASE CoolOff \/ Look \/ EndPass
  BY <1>1, <1>6 DEF CoolOff, Look, EndPass, End, stateVars
<1>7. CASE CastNext
  BY <1>1, <1>7
  DEF CastNext, StartCast, StopCast, Fire, FireFails, SocketOpens, SocketFails,
      ScreenChanges, Idle, stateVars, requestVars
<1>8. CASE UNCHANGED vars
  BY <1>8 DEF vars, stateVars, requestVars
<1>9. CASE WaitNext
  <2>1. ~Waits'
    BY <1>9
    DEF WaitNext, RequestEvent, HandlerCalled, EventEnds, StartMirror, RestartMirror,
        MirrorTry, RequestSwitch, FindSwitch, PostEvent, StartLoops, requestVars
  <2> QED
    BY <1>9, <2>1, WaitFrame DEF stateVars
<1> QED
  BY <1>2, <1>3, <1>4, <1>5, <1>6, <1>7, <1>8, <1>9 DEF Next, LockNext

(* No lock or unlock request is answered YES without a reason. *)
THEOREM AnswersAreWitnessed == Spec => []YesIsWitnessed
<1>1. Init => WitnessInv
  BY DEF Init, LockInit, WitnessInv, Waits, YesIsWitnessed
<1>2. WitnessInv => YesIsWitnessed
  BY DEF WitnessInv
<1> QED
  BY <1>1, <1>2, WitnessStep, TypeCorrect, PTL DEF Spec

-----------------------------------------------------------------------------
(* The cast *)

(* Besides what the two properties say: an image kept while the latest      *)
(* socket connects was not sent on it.                                      *)
CastInv ==
  /\ OnlyTheLatestCastRuns
  /\ PeerHasLastImage
  /\ casts > 0 /\ socket[casts] = "connecting" /\ kLast # NoImage => missed

(* Steps that leave the cast alone keep it. *)
LEMMA CastFrame == ASSUME CastInv, UNCHANGED castVars PROVE CastInv'
BY DEF CastInv, OnlyTheLatestCastRuns, PeerHasLastImage, castVars

(* Every step of the cast keeps it. *)
LEMMA CastStep == ASSUME TypeOK, CastInv, CastNext PROVE CastInv'
<1>1. /\ casts \in Nat /\ casts <= MaxCasts /\ MaxCasts \in Nat
      /\ kTimer \in 0 .. casts /\ scheduled \subseteq 1 .. casts
      /\ socket \in [Cast -> {"none", "connecting", "open", "closed"}]
      /\ screen \in Image /\ NoImage \notin Image /\ missed \in BOOLEAN
  BY CastAssumption DEF TypeOK
<1> USE DEF CastInv, OnlyTheLatestCastRuns, PeerHasLastImage, Cast
<1>2. CASE StartCast
  <2>1. \A n \in Cast : Closed(casts)[n] \notin {"connecting", "open"}
    BY <1>1 DEF Closed
  <2> QED
    BY <1>1, <1>2, <2>1 DEF StartCast, Closed
<1>3. CASE StopCast
  <2>1. \A n \in Cast : Closed(casts)[n] \notin {"connecting", "open"}
    BY <1>1 DEF Closed
  <2>2. scheduled' = {}
    BY <1>1, <1>3 DEF StopCast
  <2> QED
    BY <1>3, <2>1, <2>2 DEF StopCast
<1>4. ASSUME NEW n \in Cast, Fire(n) PROVE CastInv'
  BY <1>1, <1>4 DEF Fire, Send
<1>5. ASSUME NEW n \in Cast, SocketOpens(n) \/ SocketFails(n) PROVE CastInv'
  BY <1>1, <1>5 DEF SocketOpens, SocketFails
<1>6. CASE \/ \E n \in Cast : FireFails(n)
           \/ \E i \in Image : ScreenChanges(i)
  BY <1>6, CastFrame DEF FireFails, ScreenChanges
<1> QED
  BY <1>2, <1>3, <1>4, <1>5, <1>6 DEF CastNext

(* What follows from the invariant of casts, which holds both together.     *)
LEMMA CastIsTheLatest == Spec => [](OnlyTheLatestCastRuns /\ PeerHasLastImage)
<1>1. Init => CastInv
  BY DEF Init, CastInv, OnlyTheLatestCastRuns, PeerHasLastImage
<1>2. ASSUME TypeOK, CastInv, [Next]_vars PROVE CastInv'
  BY <1>2, CastStep, CastFrame, WaitFrame DEF Next, vars
<1>3. CastInv => OnlyTheLatestCastRuns /\ PeerHasLastImage
  BY DEF CastInv
<1> QED
  BY <1>1, <1>2, <1>3, TypeCorrect, PTL DEF Spec

(* However casts are started over each other and stopped, only the latest   *)
(* has a timer or a socket that is not closed, and the socket has a timer.  *)
THEOREM OneCastRuns == Spec => []OnlyTheLatestCastRuns
BY CastIsTheLatest, PTL

(* The peer of an open socket has the image new ones are compared with.     *)
THEOREM PeerIsUpToDate == Spec => []PeerHasLastImage
BY CastIsTheLatest, PTL

-----------------------------------------------------------------------------
(* The end of a request *)

(* What the constants and types say of the numbers in Remaining.            *)
LEMMA Counters ==
  TypeOK => /\ Timeout \in Nat \ {0} /\ Tries \in Nat \ {0}
            /\ elapsed \in 0 .. Timeout /\ tries \in 0 .. Tries /\ stage \in {1, 2}
            /\ pc \in {"idle", "home", "again", "look", "pass", "event", "mirror", "switch"}
            /\ after \in {"answer", "mirror", "drag"} /\ isHandlerCalled \in BOOLEAN
            /\ pc = "mirror" => tries > 0
BY LockAssumption, CastAssumption DEF TypeOK, LockTypeOK

(* The steps a request has left are a number, zero only when it is over,    *)
(* and no larger than what the constants allow.                             *)
LEMMA RemainingCounts ==
  TypeOK => /\ Remaining \in Nat
            /\ Remaining = 0 <=> pc = "idle"
            /\ Remaining <= 2 * Timeout + 4 \/ Remaining <= 2 * Tries + 4
BY Counters DEF Remaining, Rest

(* A step that leaves the request where it is takes time off it at most.    *)
LEMMA OthersPutNothingOff ==
  ASSUME TypeOK, pc # "idle", UNCHANGED <<pc, mirrorVars>>,
         elapsed' = elapsed \/ (pc = "pass" /\ elapsed' = Later)
  PROVE  Remaining' <= Remaining
<1>1. Remaining \in Nat /\ UNCHANGED <<after, isHandlerCalled, stage, tries>>
  BY RemainingCounts DEF mirrorVars, eventVars
<1>2. CASE elapsed' = elapsed
  <2>1. Remaining' = Remaining
    BY <1>1, <1>2 DEF Remaining, Rest
  <2> QED
    BY <1>1, <2>1
<1>3. CASE pc = "pass" /\ elapsed' = Later
  <2>1. elapsed' \in 0 .. Timeout /\ elapsed' >= elapsed
    BY <1>3, Counters DEF Later
  <2> QED
    BY <1>3, <2>1, Counters DEF Remaining
<1> QED
  BY <1>2, <1>3

(* The end of an event is one of those steps, whatever follows it. *)
LEMMA EventEndCounts == ASSUME TypeOK, EventEnds PROVE Remaining' < Remaining
<1>1. pc = "event" /\ isHandlerCalled /\ ~isHandlerCalled' /\ Remaining = Rest + 1
  BY DEF EventEnds, Remaining
<1>2. CASE pc' = "idle"
  BY <1>1, <1>2, Counters DEF Remaining, Rest
<1>3. CASE after \in {"mirror", "drag"} /\ StartLoops
  <2>1. Remaining' = 2 * Tries
    BY <1>3, Counters DEF StartLoops, Remaining
  <2> QED
    BY <1>1, <1>3, <2>1, Counters DEF Rest
<1>4. CASE after = "drag" /\ after' = "mirror" /\ pc' = pc
  <2>1. Remaining' = 2 * Tries + 2
    BY <1>1, <1>4 DEF Remaining, Rest
  <2> QED
    BY <1>1, <1>4, <2>1, Counters DEF Rest
<1> QED
  BY <1>2, <1>3, <1>4 DEF EventEnds

(* So is a turn of the mirror loops, unless it waits and finds nothing,     *)
(* when nothing changes.                                                    *)
LEMMA MirrorTryCounts ==
  ASSUME TypeOK, NEW found \in BOOLEAN, MirrorTry(found), vars' # vars
  PROVE  Remaining' < Remaining
<1> DEFINE left == IF waiting THEN tries ELSE tries - 1
           over == found \/ left = 0
<1>1. pc = "mirror" /\ tries > 0
  BY Counters DEF MirrorTry
<1>2. CASE over /\ stage = 1
  <2>1. pc' = "mirror" /\ stage' = 2 /\ tries' = Tries
    BY <1>2 DEF MirrorTry
  <2> QED
    BY <1>1, <1>2, <2>1, Counters DEF Remaining
<1>3. CASE over /\ stage = 2
  <2>1. pc' = "idle"
    BY <1>3 DEF MirrorTry
  <2> QED
    BY <1>1, <1>3, <2>1, Counters DEF Remaining
<1>4. CASE ~over
  <2>1. pc' = "mirror" /\ stage' = stage /\ tries' = left /\ waiting' = waiting
    BY <1>1, <1>4 DEF MirrorTry, TypeOK
  <2>2. ~waiting
    BY <1>1, <2>1 DEF MirrorTry, vars, requestVars, mirrorVars
  <2> QED
    BY <1>1, <2>1, <2>2, Counters DEF Remaining
<1> QED
  BY <1>2, <1>3, <1>4, Counters

(* The request's own steps bring its end nearer. *)
LEMMA OwnStepsCount ==
  ASSUME TypeOK, OwnStep, vars' # vars
  PROVE  Remaining' < Remaining
<1>1. CASE CoolOff
  BY <1>1, Counters DEF CoolOff, Remaining
<1>2. CASE Look
  BY <1>2, Counters DEF Look, End, Remaining
<1>3. CASE EndPass
  <2>1. CASE elapsed = Timeout
    BY <1>3, <2>1, Counters DEF EndPass, Later, End, Remaining
  <2>2. CASE elapsed < Timeout
    <3>1. Later = elapsed + 1
      BY <2>2 DEF Later
    <3> QED
      BY <1>3, <2>2, <3>1, Counters DEF EndPass, End, Remaining
  <2> QED
    BY <2>1, <2>2, Counters
<1>4. CASE FindSwitch
  BY <1>4 DEF FindSwitch, Remaining
<1> QED
  BY <1>1, <1>2, <1>3, <1>4, EventEndCounts, MirrorTryCounts DEF OwnStep

(* The call XCTest makes is the one step of another that counts. *)
LEMMA CallCounts ==
  ASSUME TypeOK, HandlerCalled PROVE Remaining' <= Remaining
BY Counters DEF HandlerCalled, Remaining, Rest, requestVars

(* Every step of the system is one of these kinds. *)
LEMMA RunsDownStep ==
  ASSUME TypeOK, Next, vars' # vars, pc # "idle"
  PROVE  Remaining' <= Remaining
<1>1. ASSUME OwnStep PROVE Remaining' <= Remaining
  <2>1. TypeOK'
    BY LockType, CastType, WaitType DEF Next
  <2>2. Remaining' \in Nat
    <3>1. /\ Timeout \in Nat \ {0} /\ Tries \in Nat \ {0}
          /\ elapsed' \in 0 .. Timeout /\ tries' \in 0 .. Tries
          /\ pc' \in {"idle", "home", "again", "look", "pass", "event", "mirror", "switch"}
          /\ after' \in {"answer", "mirror", "drag"}
      BY <2>1, LockAssumption, CastAssumption DEF TypeOK, LockTypeOK
    <3> QED
      BY <3>1 DEF Remaining, Rest
  <2> QED
    BY <1>1, <2>2, OwnStepsCount, RemainingCounts
<1>2. ASSUME NEW want \in State, RequestLock(want) PROVE FALSE
  BY <1>2 DEF RequestLock, Idle
<1>3. CASE LockNext /\ UNCHANGED <<castVars, screen, mirrorVars>>
  <2>1. LockStateChanges \/ ReadState \/ (\E v \in State : WriteBelief(v)) \/ OwnStep
    BY <1>2, <1>3 DEF LockNext, OwnStep
  <2> QED
    BY <1>1, <1>3, <2>1, OthersPutNothingOff
    DEF LockStateChanges, ReadState, WriteBelief, requestVars
<1>4. CASE CastNext
  <2>1. \/ \E n \in Cast : Fire(n) \/ FireFails(n) \/ SocketOpens(n) \/ SocketFails(n)
        \/ \E i \in Image : ScreenChanges(i)
    BY <1>4 DEF CastNext, StartCast, StopCast, Idle
  <2> QED
    BY <2>1, OthersPutNothingOff
    DEF Fire, FireFails, SocketOpens, SocketFails, ScreenChanges, requestVars
<1>5. CASE WaitNext
  <2>1. HandlerCalled \/ OwnStep
    BY <1>5 DEF WaitNext, OwnStep, RequestEvent, StartMirror, RestartMirror, RequestSwitch, Idle
  <2> QED
    BY <1>1, <2>1, CallCounts
<1> QED
  BY <1>3, <1>4, <1>5 DEF Next

(* No step, of timers, sockets or the device, puts off the end of a         *)
(* request, and each step of the request's own that changes anything brings *)
(* it nearer: a request that is not stuck in a wait without limit, where    *)
(* nothing changes, has at most as many steps left as RemainingCounts says. *)
THEOREM RequestsRunDown == Spec => RequestRunsDown
<1>1. TypeOK /\ [Next]_vars
        => [pc # "idle" => Remaining' <= Remaining /\ (OwnStep => Remaining' < Remaining)]_vars
  BY RunsDownStep, OwnStepsCount
<1> QED
  BY <1>1, TypeCorrect, PTL DEF Spec, RequestRunsDown

=============================================================================
