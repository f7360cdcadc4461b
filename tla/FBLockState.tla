------------------------------ MODULE FBLockState ------------------------------
(***************************************************************************)
(* What the server believes of the screen lock, and the requests that lock *)
(* and unlock the device with an FBRunLoopSpinner.                         *)
(*                                                                         *)
(* Each lock notification runs a handler on a concurrent queue: it reads   *)
(* the state there is by then and writes it to fb_isLocked, so that two    *)
(* handlers may write in the other order than they read.  A request looks  *)
(* at fb_isLocked on the main thread and lets the run loop pass in between *)
(* until its time is up.  The loads and stores of fb_isLocked are not      *)
(* ordered; they are single bytes, and each load here gives the old or the *)
(* new value.                                                              *)
(***************************************************************************)
EXTENDS Naturals

CONSTANTS
  Timeout,    \* passes of the run loop until FBScreenLockTimeout is over
  MaxPosts    \* bound: notifications that are not handled to the end

ASSUME LockAssumption == Timeout \in Nat \ {0} /\ MaxPosts \in Nat \ {0}

State == {"locked", "unlocked"}     \* "locked" stands for YES in fb_isLocked

VARIABLES
  device,     \* the state the device is in
  posted,     \* notifications whose handler has not started
  reading,    \* of each value, the handlers that have read it and not written it
  belief,     \* fb_isLocked
  known,      \* a handler has written fb_isLocked
  overlapped, \* the handlers that read last overlapped
  pc,         \* where the running handler of a request is, or "idle"
  goal,       \* what a lock request waits for fb_isLocked to become
  elapsed,    \* the part of its time that is over
  answer,     \* its answer
  witnessed   \* since it began the device was as it wants it, or a handler
              \* that began before had found it so

stateVars   == <<device, posted, reading, belief, known, overlapped>>
requestVars == <<pc, goal, elapsed, answer, witnessed>>

Handlers == reading["locked"] + reading["unlocked"]

LockTypeOK ==
  /\ device \in State /\ belief \in State /\ goal \in State
  /\ known \in BOOLEAN /\ overlapped \in BOOLEAN
  /\ posted \in 0 .. MaxPosts
  /\ reading \in [State -> 0 .. MaxPosts]
  /\ posted + Handlers <= MaxPosts
  /\ witnessed \in BOOLEAN
  /\ elapsed \in 0 .. Timeout
  /\ answer \in {"none", "yes", "no"}

(* fb_isLocked is NO until the first notification, whatever the device is.  *)
LockInit ==
  /\ device \in State
  /\ posted = 0
  /\ reading = [v \in State |-> 0]
  /\ belief = "unlocked"
  /\ known = FALSE /\ overlapped = FALSE
  /\ pc = "idle"
  /\ goal = "unlocked"
  /\ elapsed = 0
  /\ answer = "none"
  /\ witnessed = FALSE

-----------------------------------------------------------------------------
(* The device and the notification *)

(* The device is locked or unlocked, by a button press of ours or by its    *)
(* user, sets its state and posts the notification.                         *)
LockStateChanges ==
  /\ posted + Handlers < MaxPosts
  /\ device' \in State \ {device}
  /\ posted' = posted + 1
  /\ witnessed' = (witnessed \/ (pc # "idle" /\ device' = goal))
  /\ UNCHANGED <<reading, belief, known, overlapped, pc, goal, elapsed, answer>>

(* Fault: a notification that comes while a handler runs is dropped. *)
ReadState_Drops ==
  /\ posted > 0
  /\ posted' = posted - 1
  /\ IF Handlers > 0
     THEN UNCHANGED <<reading, overlapped>>
     ELSE /\ reading' = [reading EXCEPT ![device] = @ + 1]
          /\ overlapped' = FALSE
  /\ UNCHANGED <<device, belief, known, requestVars>>

(* A handler starts for the k oldest notifications, which the system may    *)
(* have merged, and calls notify_get_state.                                 *)
ReadState ==
  /\ posted > 0
  /\ \E k \in 1 .. posted : posted' = posted - k
  /\ reading' = [reading EXCEPT ![device] = @ + 1]
  /\ overlapped' = (Handlers > 0)
  /\ UNCHANGED <<device, belief, known, requestVars>>

(* It writes fb_isLocked. *)
WriteBelief(v) ==
  /\ reading[v] > 0
  /\ reading' = [reading EXCEPT ![v] = @ - 1]
  /\ belief' = v
  /\ known' = TRUE
  /\ UNCHANGED <<device, posted, overlapped, requestVars>>

-----------------------------------------------------------------------------
(* The requests *)

Idle == pc = "idle"

(* The handler ends with answer a and forgets what it worked on. *)
End(a) ==
  /\ pc' = "idle"
  /\ goal' = "unlocked"
  /\ elapsed' = 0
  /\ answer' = a

(* POST /lock or /unlock: answered at once when fb_isLocked says so, else   *)
(* a button is pressed; what the device makes of it is LockStateChanges.    *)
RequestLock(want) ==
  /\ Idle
  /\ IF belief = want
     THEN /\ End("yes")
          /\ witnessed' = TRUE
     ELSE /\ pc' = IF want = "locked" THEN "look" ELSE "home"
          /\ goal' = want
          /\ elapsed' = 0
          /\ answer' = "none"
          /\ witnessed' = (device = want \/ reading[want] > 0)
  /\ UNCHANGED stateVars

(* The home button's cool-off ends; it is pressed once more and cools off   *)
(* again, then the spinner starts.                                          *)
CoolOff ==
  /\ pc \in {"home", "again"}
  /\ pc' = IF pc = "home" THEN "again" ELSE "look"
  /\ UNCHANGED <<goal, elapsed, answer, witnessed, stateVars>>

(* spinUntilTrue: untilTrue() *)
Look ==
  /\ pc = "look"
  /\ IF belief = goal
     THEN End("yes")
     ELSE pc' = "pass" /\ UNCHANGED <<goal, elapsed, answer>>
  /\ UNCHANGED <<witnessed, stateVars>>

(* Time that is over; it is not counted beyond the timeout. *)
Later == IF elapsed < Timeout THEN elapsed + 1 ELSE elapsed

(* Fault: the timeout answers YES. *)
EndPass_AnswersYes ==
  /\ pc = "pass"
  /\ IF Later = Timeout
     THEN End("yes")
     ELSE pc' = "look" /\ elapsed' = Later /\ UNCHANGED <<goal, answer>>
  /\ UNCHANGED <<witnessed, stateVars>>

(* Fault: the deadline is computed anew in every turn of the loop. *)
EndPass_NewDeadline ==
  /\ pc = "pass"
  /\ elapsed' = 0
  /\ pc' = "look"
  /\ UNCHANGED <<goal, answer, witnessed, stateVars>>

(* The pass ends.  When the deadline is over the answer is NO, without      *)
(* another look at the condition.                                           *)
EndPass ==
  /\ pc = "pass"
  /\ IF Later = Timeout
     THEN End("no")
     ELSE pc' = "look" /\ elapsed' = Later /\ UNCHANGED <<goal, answer>>
  /\ UNCHANGED <<witnessed, stateVars>>

LockNext ==
  \/ LockStateChanges
  \/ ReadState
  \/ \E v \in State : WriteBelief(v)
  \/ \E want \in State : RequestLock(want)
  \/ CoolOff
  \/ Look
  \/ EndPass

-----------------------------------------------------------------------------
(* Properties *)

(* When every notification is handled, fb_isLocked is the device's state,   *)
(* unless the handlers that ran last overlapped on their concurrent queue   *)
(* (XCUIDevice+FBHelpers.m:44) or none has run yet: a change between a      *)
(* handler's read and its write is made good by the notification it posts.  *)
SettledBeliefIsTrue ==
  posted = 0 /\ Handlers = 0 /\ known /\ ~overlapped => belief = device

(* A lock or unlock request is answered YES only if the device was as       *)
(* asked at some moment since the request began, or a handler that had      *)
(* begun before wrote what it had found: neither the timeout nor the run    *)
(* loop in between (FBRunLoopSpinner.m:73) makes up an answer.  One that    *)
(* is answered at once relies on fb_isLocked alone and is left out.         *)
YesIsWitnessed == answer = "yes" => witnessed

=============================================================================
