------------------------------ MODULE FBScreenCast -----------------------------
(***************************************************************************)
(* The screen cast of FBCustomCommands: a repeating timer on the main run  *)
(* loop that sends a screenshot to a web socket when it differs from the   *)
(* last, and the requests that start and stop it; with the requests that   *)
(* hold the main thread meanwhile: those of FBLockState, those that wait   *)
(* for XCTest to call back, a drag among them, both in run loop passes     *)
(* that let the timer fire, and the mirror and Settings requests, which    *)
(* also look for something on the screen and sleep in between.             *)
(*                                                                         *)
(* Three of the waits have no limit: for XCTest, for the mirror's buttons  *)
(* if the request asks for it, and for the switch of a setting.  A turn of *)
(* theirs that ends nothing changes no variable.                           *)
(***************************************************************************)
EXTENDS FBLockState

CONSTANTS
  Image,      \* what a screenshot may show
  NoImage,    \* nil
  MaxCasts,   \* bound: casts started
  Tries       \* turns of a mirror loop that does not wait; 4 in the code

ASSUME CastAssumption == NoImage \notin Image /\ MaxCasts \in Nat \ {0} /\ Tries \in Nat \ {0}

Cast == 1 .. MaxCasts

VARIABLES
  casts,      \* number of casts started; each has a timer and a socket
  scheduled,  \* the timers on the run loop
  kTimer,     \* the latest timer, or 0 for nil
  socket,     \* state of each cast's socket; the latest is kSRWebSocket
  kLast,      \* kLastImageData
  screen,     \* what the screen shows
  shown,      \* the image the latest socket's peer got last
  missed,     \* kLast was set for another socket, or could not be sent
  isHandlerCalled, \* XCTest has called back
  after,      \* what a request does then: answer, mirror, or drag once more
  stage,      \* the loop a mirror request is in
  tries,      \* turns it has left
  waiting     \* it turns in its loops as long as it takes

castVars   == <<casts, scheduled, kTimer, socket, kLast, shown, missed>>
eventVars  == <<isHandlerCalled, after>>
mirrorVars == <<eventVars, stage, tries, waiting>>
vars == <<stateVars, requestVars, castVars, screen, mirrorVars>>

TypeOK ==
  /\ LockTypeOK
  /\ pc \in {"idle", "home", "again", "look", "pass", "event", "mirror", "switch"}
  /\ casts \in 0 .. MaxCasts
  /\ scheduled \subseteq 1 .. casts
  /\ kTimer \in 0 .. casts
  /\ socket \in [Cast -> {"none", "connecting", "open", "closed"}]
  /\ kLast \in Image \cup {NoImage}
  /\ screen \in Image
  /\ shown \in Image \cup {NoImage}
  /\ missed \in BOOLEAN
  /\ isHandlerCalled \in BOOLEAN
  /\ after \in {"answer", "mirror", "drag"}
  /\ stage \in {1, 2}
  /\ tries \in 0 .. Tries
  /\ pc = "mirror" => tries > 0
  /\ waiting \in BOOLEAN

Init ==
  /\ LockInit
  /\ casts = 0
  /\ scheduled = {}
  /\ kTimer = 0
  /\ socket = [n \in Cast |-> "none"]
  /\ kLast = NoImage
  /\ screen \in Image
  /\ shown = NoImage /\ missed = FALSE
  /\ isHandlerCalled = FALSE /\ after = "answer"
  /\ stage = 1 /\ tries = 0 /\ waiting = FALSE

-----------------------------------------------------------------------------
(* The screen, and the web socket's own queue *)

ScreenChanges(i) ==
  /\ screen' = i
  /\ UNCHANGED <<stateVars, requestVars, castVars, mirrorVars>>

SocketOpens(n) ==
  /\ socket[n] = "connecting"
  /\ socket' = [socket EXCEPT ![n] = "open"]
  /\ UNCHANGED <<stateVars, requestVars, screen, mirrorVars,
                 casts, scheduled, kTimer, kLast, shown, missed>>

SocketFails(n) ==
  /\ socket[n] \in {"connecting", "open"}
  /\ socket' = [socket EXCEPT ![n] = "closed"]
  /\ UNCHANGED <<stateVars, requestVars, screen, mirrorVars,
                 casts, scheduled, kTimer, kLast, shown, missed>>

-----------------------------------------------------------------------------
(* The requests *)

(* [kSRWebSocket close] *)
Closed(n) == IF n = 0 THEN socket ELSE [socket EXCEPT ![n] = "closed"]

(* Fault: the timer of the cast before is left on the run loop. *)
StartCast_KeepsTimer ==
  LET n == casts + 1 IN
  /\ Idle
  /\ casts < MaxCasts
  /\ casts' = n
  /\ scheduled' = scheduled \cup {n}
  /\ kTimer' = n
  /\ socket' = [Closed(casts) EXCEPT ![n] = "connecting"]
  /\ shown' = NoImage /\ missed' = (kLast # NoImage)
  /\ UNCHANGED <<kLast, stateVars, requestVars, screen, mirrorVars>>

(* handleScreenCast: the latest cast's timer and socket are done with, and  *)
(* the new ones take their place.  kLastImageData stays.                    *)
StartCast ==
  LET n == casts + 1 IN
  /\ Idle
  /\ casts < MaxCasts
  /\ casts' = n
  /\ scheduled' = (scheduled \ {kTimer}) \cup {n}
  /\ kTimer' = n
  /\ socket' = [Closed(casts) EXCEPT ![n] = "connecting"]
  /\ shown' = NoImage /\ missed' = (kLast # NoImage)
  /\ UNCHANGED <<kLast, stateVars, requestVars, screen, mirrorVars>>

(* Fault: the socket is left open. *)
StopCast_KeepsSocket ==
  /\ Idle
  /\ scheduled' = scheduled \ {kTimer}
  /\ kTimer' = 0
  /\ kLast' = NoImage
  /\ UNCHANGED <<casts, socket, shown, missed, stateVars, requestVars, screen, mirrorVars>>

(* handleStopScreenCast *)
StopCast ==
  /\ Idle
  /\ scheduled' = scheduled \ {kTimer}
  /\ kTimer' = 0
  /\ socket' = Closed(casts)
  /\ kLast' = NoImage
  /\ UNCHANGED <<casts, shown, missed, stateVars, requestVars, screen, mirrorVars>>

(* The run loop is in a pass: the main one, or one a request lets go by.    *)
RunLoopPasses == pc \in {"idle", "home", "again", "pass", "event"}

(* It may be: XCTest lets it pass in taps and queries, as it likes.         *)
RunLoopMayPass == RunLoopPasses \/ pc \in {"mirror", "switch"}

(* The screenshot that was taken goes to the latest socket if it differs    *)
(* from the last one, which it replaces whether it can be sent or not.      *)
Send ==
  IF kLast = screen
  THEN UNCHANGED <<kLast, shown, missed>>
  ELSE /\ kLast' = screen
       /\ IF socket[casts] = "open"
          THEN shown' = screen /\ missed' = FALSE
          ELSE missed' = TRUE /\ UNCHANGED shown

(* performScreenCast: takes its time off the request that lets the run loop *)
(* pass.  A screenshot that fails is skipped.                               *)
Fire(n) ==
  /\ n \in scheduled
  /\ RunLoopMayPass
  /\ elapsed' = IF pc = "pass" THEN Later ELSE elapsed
  /\ Send
  /\ UNCHANGED <<casts, scheduled, kTimer, socket, stateVars,
                 pc, goal, answer, witnessed, screen, mirrorVars>>

(* Fault: the image is kept before it is known to be usable. *)
FireFails_KeepsImage(n) ==
  /\ n \in scheduled
  /\ RunLoopMayPass
  /\ elapsed' = IF pc = "pass" THEN Later ELSE elapsed
  /\ kLast' = screen
  /\ UNCHANGED <<casts, scheduled, kTimer, socket, shown, missed, stateVars,
                 pc, goal, answer, witnessed, screen, mirrorVars>>

FireFails(n) ==
  /\ n \in scheduled
  /\ RunLoopMayPass
  /\ elapsed' = IF pc = "pass" THEN Later ELSE elapsed
  /\ UNCHANGED <<castVars, stateVars, pc, goal, answer, witnessed, screen, mirrorVars>>

-----------------------------------------------------------------------------
(* The requests that wait for XCTest or for the screen.  One that finds an  *)
(* alert in front, or what it looks for missing, answers at once.           *)

(* drag2, or spinUntilCompletion: XCTest is asked for an event, and the run *)
(* loop passes until it has called the handler.                             *)
PostEvent(next) ==
  /\ pc' = "event"
  /\ isHandlerCalled' = FALSE
  /\ after' = next

(* A drag of a client's, a list of touches, typing; the requests that stop  *)
(* mirroring, ask for it or lock the orientation, which begin with a drag.  *)
RequestEvent ==
  /\ Idle
  /\ PostEvent("answer")
  /\ UNCHANGED <<goal, elapsed, answer, witnessed, stage, tries, waiting,
                 stateVars, castVars, screen>>

(* The loops of handleScreenMirror are ahead. *)
StartLoops == pc' = "mirror" /\ stage' = 1 /\ tries' = Tries

(* handleScreenMirror drags first, except in landscape on an iPhone X and   *)
(* later, where XCTest's own drag does not return before it is done.        *)
StartMirror(wait) ==
  /\ Idle
  /\ waiting' = wait
  /\ \/ PostEvent("mirror") /\ UNCHANGED <<stage, tries>>
     \/ StartLoops /\ UNCHANGED eventVars
  /\ UNCHANGED <<goal, elapsed, answer, witnessed, stateVars, castVars, screen>>

(* handleRestartScreenMirror, the drag of handleStopScreenMirror.           *)
RestartMirror(wait) ==
  /\ Idle
  /\ waiting' = wait
  /\ PostEvent("drag")
  /\ UNCHANGED <<goal, elapsed, answer, witnessed, stage, tries, stateVars, castVars, screen>>

HandlerCalled ==
  /\ pc = "event"
  /\ isHandlerCalled' = TRUE
  /\ UNCHANGED <<requestVars, after, stage, tries, waiting, stateVars, castVars, screen>>

(* Fault: a restart does not remember its first drag. *)
EventEnds_DragsAgain ==
  /\ pc = "event"
  /\ isHandlerCalled
  /\ isHandlerCalled' = FALSE
  /\ \/ after = "answer" /\ pc' = "idle" /\ waiting' = FALSE /\ UNCHANGED <<after, stage, tries>>
     \/ after = "mirror" /\ StartLoops /\ after' = "answer" /\ UNCHANGED waiting
     \/ after = "drag" /\ UNCHANGED <<pc, after, waiting, stage, tries>>
  /\ UNCHANGED <<goal, elapsed, answer, witnessed, stateVars, castVars, screen>>

(* A pass ends, the handler has been called in it.  The request goes on:    *)
(* the restart begins to mirror as StartMirror does, and is over if an      *)
(* alert has come.                                                          *)
EventEnds ==
  /\ pc = "event"
  /\ isHandlerCalled
  /\ isHandlerCalled' = FALSE
  /\ \/ after \in {"answer", "drag"} /\ pc' = "idle" /\ waiting' = FALSE
        /\ after' = "answer" /\ UNCHANGED <<stage, tries>>
     \/ after \in {"mirror", "drag"} /\ StartLoops /\ after' = "answer" /\ UNCHANGED waiting
     \/ after = "drag" /\ after' = "mirror" /\ UNCHANGED <<pc, waiting, stage, tries>>
  /\ UNCHANGED <<goal, elapsed, answer, witnessed, stateVars, castVars, screen>>

(* setPreference: looks for a switch of the Settings application ...        *)
RequestSwitch ==
  /\ Idle
  /\ pc' = "switch"
  /\ UNCHANGED <<goal, elapsed, answer, witnessed, mirrorVars, stateVars, castVars, screen>>

(* ... until there is one. *)
FindSwitch ==
  /\ pc = "switch"
  /\ pc' = "idle"
  /\ UNCHANGED <<goal, elapsed, answer, witnessed, mirrorVars, stateVars, castVars, screen>>

(* Fault: a loop has one turn too many. *)
MirrorTry_OneMore(found) ==
  LET left == IF waiting THEN tries ELSE tries - 1
      over == found \/ tries = 0
  IN
  /\ pc = "mirror"
  /\ pc' = IF over /\ stage = 2 THEN "idle" ELSE "mirror"
  /\ stage' = IF over /\ stage = 1 THEN 2 ELSE IF over THEN 1 ELSE stage
  /\ tries' = IF ~over THEN left ELSE IF stage = 1 THEN Tries ELSE 0
  /\ waiting' = (waiting /\ pc' = "mirror")
  /\ UNCHANGED <<goal, elapsed, answer, witnessed, eventVars, stateVars, castVars, screen>>

(* A turn of one of its loops.  Without `wait` it has a few turns and goes  *)
(* on in any case.                                                          *)
MirrorTry(found) ==
  LET left == IF waiting THEN tries ELSE tries - 1
      over == found \/ left = 0
  IN
  /\ pc = "mirror"
  /\ pc' = IF over /\ stage = 2 THEN "idle" ELSE "mirror"
  /\ stage' = IF over /\ stage = 1 THEN 2 ELSE IF over THEN 1 ELSE stage
  /\ tries' = IF ~over THEN left ELSE IF stage = 1 THEN Tries ELSE 0
  /\ waiting' = (waiting /\ pc' = "mirror")
  /\ UNCHANGED <<goal, elapsed, answer, witnessed, eventVars, stateVars, castVars, screen>>

WaitNext ==
  \/ RequestEvent
  \/ HandlerCalled
  \/ EventEnds
  \/ \E wait \in BOOLEAN : StartMirror(wait) \/ RestartMirror(wait)
  \/ \E found \in BOOLEAN : MirrorTry(found)
  \/ RequestSwitch
  \/ FindSwitch

CastNext ==
  \/ StartCast
  \/ StopCast
  \/ \E n \in Cast : Fire(n) \/ FireFails(n)
  \/ \E n \in Cast : SocketOpens(n) \/ SocketFails(n)
  \/ \E i \in Image : ScreenChanges(i)

Next ==
  \/ LockNext /\ UNCHANGED <<castVars, screen, mirrorVars>>
  \/ CastNext
  \/ WaitNext

Spec == Init /\ [][Next]_vars

(* A request that has begun goes on.  A timer that is due fires in every    *)
(* pass of the run loop that is sure to come, and screenshots do not fail   *)
(* for ever.  Nothing says that XCTest calls back or that what a request    *)
(* looks for without limit is ever found.                                   *)
Fairness ==
  /\ WF_vars((CoolOff \/ Look \/ EndPass) /\ UNCHANGED <<castVars, screen, mirrorVars>>)
  /\ WF_vars(EventEnds)
  /\ WF_vars(\E found \in BOOLEAN : MirrorTry(found))
  /\ SF_vars(RunLoopPasses /\ \E n \in Cast : Fire(n))

FairSpec == Spec /\ Fairness

-----------------------------------------------------------------------------
(* Properties *)

(* A timer on the run loop, and a socket that is not closed, are those of   *)
(* the latest cast, however casts were started over each other              *)
(* (FBCustomCommands.m:301); a stopped cast has none, and no socket is left *)
(* without the timer that feeds it.                                         *)
OnlyTheLatestCastRuns ==
  /\ scheduled \subseteq {kTimer}
  /\ \A n \in Cast : socket[n] \in {"connecting", "open"} => n = casts /\ scheduled = {n}

(* While a socket is open its peer has the image that new screenshots are   *)
(* compared with, unless none was sent on it since kLastImageData was set   *)
(* by a screenshot no open socket of this cast could take                   *)
(* (FBCustomCommands.m:338 sets it before it sends).                        *)
PeerHasLastImage ==
  casts > 0 /\ socket[casts] = "open" /\ kLast # NoImage /\ ~missed => shown = kLast

(* The request waits for XCTest or the screen without a limit.              *)
WaitsWithoutLimit ==
  \/ pc = "event" /\ ~isHandlerCalled
  \/ pc = "mirror" /\ waiting
  \/ pc = "switch"

(* Steps a request has left when an event of its is done.                   *)
Rest ==
  CASE after = "answer" -> 0
    [] after = "mirror" -> 2 * Tries
    [] after = "drag"   -> 2 * Tries + 2

(* Steps the running request has left: the cool-offs, a look and a pass for *)
(* each part of its time that is not over, the call and the end of each     *)
(* event, the turns of its loops.  A turn of a wait without limit is none.  *)
Remaining ==
  CASE pc = "idle"   -> 0
    [] pc = "home"   -> 2 * Timeout + 4
    [] pc = "again"  -> 2 * Timeout + 3
    [] pc = "look"   -> 2 * (Timeout - elapsed) + 2
    [] pc = "pass"   -> 2 * (Timeout - elapsed) + 1
    [] pc = "event"  -> Rest + IF isHandlerCalled THEN 1 ELSE 2
    [] pc = "mirror" -> IF stage = 1 THEN Tries + tries ELSE tries
    [] pc = "switch" -> 1

OwnStep ==
  \/ CoolOff \/ Look \/ EndPass \/ EventEnds \/ FindSwitch
  \/ \E found \in BOOLEAN : MirrorTry(found)

(* Nothing that runs in the passes of a request (FBRunLoopSpinner.m:73)     *)
(* puts off its end, and each step of its own that changes anything brings  *)
(* it nearer: the deadline is the one it began with, no event is posted     *)
(* over again, and what a wait without limit waits for is all it still      *)
(* needs to go on.                                                          *)
RequestRunsDown ==
  [][pc # "idle" => Remaining' <= Remaining /\ (OwnStep => Remaining' < Remaining)]_vars

(* Requests are answered, whatever notifications, timers and sockets do     *)
(* meanwhile, unless one is stuck for good in a wait without limit          *)
(* (FBElementCommands.m:405, FBRunLoopSpinner.m:32, FBCustomCommands.m:449  *)
(* with `wait`, 652): nothing else keeps the main thread.                   *)
RequestsAreAnswered == []<>(pc = "idle") \/ <>[]WaitsWithoutLimit

(* The screen shows what the open socket has not been offered.              *)
Behind == casts > 0 /\ socket[casts] = "open" /\ kLast # screen

(* A change of the screen does not go unsent for ever, however often it     *)
(* changes and whatever requests come in between (FBCustomCommands.m:333):  *)
(* not even one XCTest never calls back keeps it, but those that look and   *)
(* sleep without limit do.                                                  *)
ChangeIsShown == Behind ~> ~Behind \/ pc = "switch" \/ (pc = "mirror" /\ waiting)

=============================================================================
