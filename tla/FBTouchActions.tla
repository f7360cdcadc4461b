--------------------------- MODULE FBTouchActions ---------------------------
(***************************************************************************)
(* Touch actions: /actions (the W3C dialect) and /wda/touch/perform (the   *)
(* Appium dialect).  A request gives each finger a list of items.  The     *)
(* synthesizer of the dialect drops cancelled items, gives every item a    *)
(* position and an offset in time, and lets each item draw on the event    *)
(* paths that XCTest then performs.  A path is what one touch does, from   *)
(* the point where the finger comes down.                                  *)
(*                                                                         *)
(* Utilities/FBBaseActionsSynthesizer.m, FBW3CActionsSynthesizer.m and     *)
(* FBAppiumActionsSynthesizer.m.  Times are in milliseconds; the code      *)
(* keeps items in milliseconds and events in seconds.                      *)
(***************************************************************************)
EXTENDS FBOrientation, Sequences, FiniteSets

CONSTANTS
  W3CItem,      \* the items W3C lists are made of
  AppiumItem,   \* and the Appium lists
  Device,       \* what the device shows while a request is served
  Element,      \* the frame of the element that gestures refer to
  MaxFingers,   \* bound: the lists of a request
  MaxItems      \* bound: the items of a request

(* An item of a list as its class reads it: ms stands for the duration, the *)
(* number of milliseconds or the number of taps, if it is given.  "hidden"  *)
(* is an element with an empty frame or gone, "stale" an id that is not in  *)
(* the element cache any more.                                              *)
Item == [action   : STRING,
         ms       : Int,
         given    : BOOLEAN,
         origin   : {"viewport", "pointer", "element", "hidden", "stale"},
         xy       : {"none", "half", "both"},
         offset   : Point,
         pressure : BOOLEAN]

(* turned: the window's frame contradicts the application's (the broken     *)
(* transformation of XCTest); hitPoint: XCTest knows the element's hit point. *)
DeviceType == [orientation : Orientation, width : Nat, height : Nat,
               turned : BOOLEAN, hitPoint : BOOLEAN]

ASSUME TouchAssumption ==
  /\ W3CItem \subseteq Item
  /\ AppiumItem \subseteq {it \in Item : it.origin # "pointer"}
  /\ Device \subseteq DeviceType
  /\ Element \in [x : Int, y : Int, width : Nat, height : Nat]
  /\ MaxFingers \in Nat \ {0}
  /\ MaxItems \in Nat

VARIABLES
  dialect,         \* the class of the synthesizer
  device,          \* orientation and frames, as the handler finds them
  pc,              \* what the synthesizer does
  todo,            \* fingers whose lists are still to be converted
  room,            \* bound: the items the remaining lists may have
  list,            \* the list of the finger, as the client sent it
  left,            \* the items of list the preprocessing has still to see
  skip,            \* shouldCancelNextItem, shouldSkipNextItem
  kept,            \* the list without what was cancelled
  items,           \* chain.items: gesture items
  durationOffset,  \* chain.durationOffset
  index,           \* the gesture item that adds to the paths next
  paths,           \* the event paths of the finger; the last one is current
  record,          \* the event record: the paths of the fingers converted
  outcome          \* how the last request was answered

requestVars == <<dialect, device>>
listVars == <<list, left, skip, kept>>
chainVars == <<items, durationOffset>>
pathVars == <<index, paths>>
vars == <<requestVars, pc, todo, room, listVars, chainVars, pathVars, record, outcome>>

Dialect == {"w3c", "appium"}

FB_TAP_DURATION_MS == 100
FB_INTERTAP_MIN_DURATION_MS == 40
FB_LONG_TAP_DURATION_MS == 600

Lists(n) == UNION {[1 .. k -> IF dialect = "w3c" THEN W3CItem ELSE AppiumItem] : k \in 0 .. n}

-----------------------------------------------------------------------------
(* Events and paths.                                                        *)

Event == [kind : {"touch", "move"}, at : Point, time : Int]
           \cup [kind : {"lift", "pressure"}, time : Int]

Touch(p, t) == [kind |-> "touch", at |-> p, time |-> t]
Move(p, t)  == [kind |-> "move", at |-> p, time |-> t]
Lift(t)     == [kind |-> "lift", time |-> t]
Press(t)    == [kind |-> "pressure", time |-> t]

GestureItem == [item : Item, at : Point, offset : Int, duration : Nat]

-----------------------------------------------------------------------------
(* The request is over: an error is answered as such, a raised exception is *)
(* turned into an answer by the exception handler.                          *)
Answer(how) ==
  /\ outcome' = how
  /\ pc' = "done"
  /\ UNCHANGED <<requestVars, todo, room, listVars, chainVars, pathVars, record>>

(* A new chain object, and nothing drawn. *)
StartOver ==
  /\ list' = <<>> /\ left' = 0 /\ skip' = FALSE /\ kept' = <<>>
  /\ items' = <<>> /\ durationOffset' = 0
  /\ index' = 0 /\ paths' = <<>>

Init ==
  /\ dialect \in Dialect
  /\ device \in Device
  /\ pc = "finger"
  /\ todo \in 1 .. MaxFingers
  /\ room = MaxItems
  /\ list = <<>> /\ left = 0 /\ skip = FALSE /\ kept = <<>>
  /\ items = <<>> /\ durationOffset = 0
  /\ index = 0 /\ paths = <<>>
  /\ record = <<>>
  /\ outcome = "none"

NextRequest ==
  /\ pc = "done"
  /\ dialect' \in Dialect
  /\ device' \in Device
  /\ pc' = "finger"
  /\ todo' \in 1 .. MaxFingers
  /\ room' = MaxItems
  /\ StartOver
  /\ record' = <<>>
  /\ outcome' = "none"

(* No actions at all or, in W3C, an id that is missing or not unique: known *)
(* before the first list is read.                                           *)
RejectRequest ==
  /\ pc = "finger"
  /\ record = <<>>
  /\ Answer("error")

(* W3C: not a touch pointer, or no items. *)
RejectFinger ==
  /\ pc = "finger"
  /\ dialect = "w3c"
  /\ Answer("error")

ReadFinger ==
  /\ pc = "finger"
  /\ \E l \in Lists(room) :
       /\ dialect = "w3c" => l # <<>>
       /\ list' = l
       /\ left' = Len(l)
       /\ room' = room - Len(l)
       /\ pc' = IF l = <<>> THEN "chain" ELSE "preprocess"
  /\ skip' = FALSE
  /\ kept' = <<>>
  /\ UNCHANGED <<requestVars, todo, chainVars, pathVars, record, outcome>>

-----------------------------------------------------------------------------
(* Preprocessing: one pass from the last item to the first.  That an id is  *)
(* replaced by the cached element shows in the item's origin only.          *)

IsCancel(it) == it.action = (IF dialect = "w3c" THEN "pointerCancel" ELSE "cancel")

(* Fault: a cancel can be cancelled in both dialects. *)
Cancels_InPairs(it) == IsCancel(it) /\ ~skip

(* In W3C a cancel can be cancelled itself; in the Appium dialect it cannot. *)
Cancels(it) == IsCancel(it) /\ (dialect = "appium" \/ ~skip)

PreprocessItem ==
  /\ pc = "preprocess"
  /\ LET it == list[left]
     IN  /\ skip' = Cancels(it)
         /\ kept' = IF Cancels(it) \/ skip THEN kept ELSE <<it>> \o kept
  /\ left' = left - 1
  /\ pc' = IF left = 1 THEN "chain" ELSE "preprocess"
  /\ UNCHANGED <<requestVars, todo, room, list, chainVars, pathVars, record, outcome>>

-----------------------------------------------------------------------------
(* The chain: every item gets a position, a duration and its offset.        *)

HasAbsolutePositioning(it) ==
  it.action \in {"pointerMove", "tap", "press", "longPress", "moveTo"}

ActionName ==
  IF dialect = "w3c" THEN {"pointerDown", "pointerMove", "pause", "pointerUp"}
  ELSE {"tap", "press", "longPress", "moveTo", "wait", "release"}

Number(it, default) == IF it.given THEN it.ms ELSE default

(* Fault: the breaks between the taps of one item are forgotten. *)
Duration_NoBreaks(it) ==
  CASE it.action \in {"press", "release"} -> 0
    [] it.action = "longPress" -> Number(it, FB_LONG_TAP_DURATION_MS)
    [] it.action = "tap" -> FB_TAP_DURATION_MS * Number(it, 1)
    [] OTHER -> Number(it, 0)

Duration(it) ==
  CASE it.action \in {"press", "release"} -> 0
    [] it.action = "longPress" -> Number(it, FB_LONG_TAP_DURATION_MS)
    [] it.action = "tap" ->
         FB_TAP_DURATION_MS * Number(it, 1) + FB_INTERTAP_MIN_DURATION_MS * (Number(it, 1) - 1)
    [] OTHER -> Number(it, 0)

FixedHitPoint(p) ==
  IF device.orientation # "portrait" /\ device.turned
  THEN InvertPointForApplication(p, device.width, device.height, device.orientation)
  ELSE p

Corner == At(Element.x, Element.y)
Center == At(Element.x + Element.width \div 2, Element.y + Element.height \div 2)

(* The Appium dialect counts from the element's corner, W3C from its center. *)
(* The hit point XCTest knows is taken to be the center, never corrected.   *)
HitPointWithElement(it) ==
  IF it.xy = "both"
  THEN FixedHitPoint(Plus(IF dialect = "w3c" THEN Center ELSE Corner, it.offset))
  ELSE IF device.hitPoint THEN Center ELSE FixedHitPoint(Center)

(* Fault: the first item's position is taken for the last one's. *)
RecentPosition_First == items[1].at

RecentPosition == items[Len(items)].at

(* The position an item names itself. *)
OwnPosition(it) ==
  CASE it.origin = "element" -> HitPointWithElement(it)
    [] it.origin = "pointer" ->
         Plus(RecentPosition,
              InvertOffsetForOrientation(IF it.xy = "none" THEN Origin ELSE it.offset,
                                         device.orientation))
    [] it.origin = "viewport" ->
         InvertPointForApplication(it.offset, device.width, device.height, device.orientation)

Position(it) == IF HasAbsolutePositioning(it) THEN OwnPosition(it) ELSE RecentPosition

(* Whether an item with a position of its own says which.  Pointer moves    *)
(* relative to the pointer need an item before them.                        *)
IsPlaced(it) ==
  /\ it.xy # "half"
  /\ \/ it.origin = "viewport" /\ it.xy = "both"
     \/ it.origin = "pointer" /\ items # <<>>
     \/ it.origin = "element"

(* Fault: a negative duration is not found. *)
IsValid_AnyDuration(it) ==
  /\ it.action \in ActionName
  /\ IF HasAbsolutePositioning(it) THEN IsPlaced(it) ELSE items # <<>>

(* An item without a position takes the last one, so it is not the first. *)
IsValid(it) ==
  /\ it.action \in ActionName
  /\ Duration(it) >= 0
  /\ IF HasAbsolutePositioning(it) THEN IsPlaced(it) ELSE items # <<>>

(* Fault: W3C takes whatever the origin is for an element. *)
HasStaleElement_AnyDialect(it) ==
  /\ it.action \in ActionName
  /\ HasAbsolutePositioning(it)
  /\ it.origin = "stale"
  /\ it.xy # "half"

(* An id that is not cached stays a string in Appium items, and a string    *)
(* has no snapshot.  W3C asks for an element first.                         *)
HasStaleElement(it) ==
  /\ dialect = "appium"
  /\ it.action \in ActionName
  /\ HasAbsolutePositioning(it)
  /\ it.origin = "stale"
  /\ it.xy # "half"

NextKept == kept[Len(items) + 1]

AddItem ==
  /\ pc = "chain"
  /\ Len(items) < Len(kept)
  /\ ~HasStaleElement(NextKept)
  /\ IsValid(NextKept)
  /\ items' = Append(items, [item |-> NextKept, at |-> Position(NextKept),
                             offset |-> durationOffset, duration |-> Duration(NextKept)])
  /\ durationOffset' = durationOffset + Duration(NextKept)
  /\ UNCHANGED <<requestVars, pc, todo, room, listVars, pathVars, record, outcome>>

RejectItem ==
  /\ pc = "chain"
  /\ Len(items) < Len(kept)
  /\ ~HasStaleElement(NextKept)
  /\ ~IsValid(NextKept)
  /\ Answer("error")

RaiseOnStaleElement ==
  /\ pc = "chain"
  /\ Len(items) < Len(kept)
  /\ HasStaleElement(NextKept)
  /\ Answer("raised")

RejectEmptyChain ==
  /\ pc = "chain"
  /\ kept = <<>>
  /\ Answer("error")

ChainIsComplete ==
  /\ pc = "chain"
  /\ kept # <<>>
  /\ Len(items) = Len(kept)
  /\ pc' = "paths"
  /\ index' = 1
  /\ UNCHANGED <<requestVars, todo, room, listVars, chainVars, paths, record, outcome>>

-----------------------------------------------------------------------------
(* Event paths: each item in turn draws on the current path or opens new    *)
(* ones.  A new path is added to the result, as it is not the previous one. *)

Current == items[index]

IsLast == index = Len(items)

Draw(e) == paths' = [paths EXCEPT ![Len(paths)] = Append(@, e)]

Open(new) == paths' = paths \o new

(* addToEventPath: of an item with one of the actions. *)
Adds(actions) ==
  /\ pc = "paths"
  /\ index <= Len(items)
  /\ Current.item.action \in actions
  /\ index' = index + 1
  /\ UNCHANGED <<requestVars, pc, todo, room, listVars, chainVars, record, outcome>>

PointerMove ==
  /\ Adds({"pointerMove"})
  /\ IF paths = <<>>
     THEN Open(<< <<Touch(Current.at, Current.offset + Current.duration)>> >>)
     ELSE Draw(Move(Current.at, Current.offset))

(* The first move has put the finger down already.  A pressure is lost then. *)
IsDownAlready == paths # <<>> /\ index = 2 /\ items[1].item.action = "pointerMove"

PointerDown ==
  /\ Adds({"pointerDown"})
  /\ IF IsDownAlready
     THEN UNCHANGED paths
     ELSE Open(<< IF Current.item.pressure
                  THEN <<Touch(Current.at, Current.offset), Press(Current.offset)>>
                  ELSE <<Touch(Current.at, Current.offset)>> >>)

Lifts == {"pointerUp", "release"}

(* Fault: a pause that ends the list is like any other. *)
OnlyWaits_ToTheEnd ==
  /\ paths # <<>>
  /\ \/ index = 1
     \/ items[index - 1].item.action \notin Lifts

(* Time passes without an event, but for a pause after the finger was       *)
(* lifted or at the end of the list.                                        *)
OnlyWaits ==
  /\ paths # <<>>
  /\ \/ index = 1
     \/ items[index - 1].item.action \notin Lifts /\ ~IsLast

Pause ==
  /\ Adds({"pause", "wait"})
  /\ LET then == Current.offset + Current.duration
     IN  IF OnlyWaits
         THEN UNCHANGED paths
         ELSE Open(<< IF IsLast THEN <<Touch(Current.at, then), Lift(then)>>
                                ELSE <<Touch(Current.at, then)>> >>)

(* Nothing precedes an up or a release but an item that opened a path, or a *)
(* moveTo, which raises without one.                                        *)
LiftUp ==
  /\ paths # <<>>
  /\ Adds(Lifts)
  /\ Draw(Lift(Current.offset))

Tap ==
  /\ Adds({"tap"})
  /\ Open([n \in 1 .. Number(Current.item, 1) |->
             LET start == Current.offset
                            + (n - 1) * (FB_TAP_DURATION_MS + FB_INTERTAP_MIN_DURATION_MS)
             IN  <<Touch(Current.at, start), Lift(start + FB_TAP_DURATION_MS)>>])

(* The touch is at the offset in seconds, the pressure at the same number   *)
(* without the conversion.                                                  *)
PressDown ==
  /\ Adds({"press", "longPress"})
  /\ Open(<< IF Current.item.action = "press" /\ Current.item.pressure
             THEN <<Touch(Current.at, Current.offset), Press(1000 * Current.offset)>>
             ELSE <<Touch(Current.at, Current.offset)>> >>)

MoveTo ==
  /\ paths # <<>>
  /\ Adds({"moveTo"})
  /\ Draw(Move(Current.at, Current.offset))

(* An array literal with nil in it raises. *)
RaiseWithoutPath ==
  /\ pc = "paths"
  /\ index <= Len(items)
  /\ Current.item.action = "moveTo"
  /\ paths = <<>>
  /\ Answer("raised")

FinishFinger ==
  /\ pc = "paths"
  /\ index > Len(items)
  /\ record' = Append(record, paths)
  /\ todo' = todo - 1
  /\ pc' = IF todo = 1 THEN "perform" ELSE "finger"
  /\ StartOver
  /\ UNCHANGED <<requestVars, room, outcome>>

(* XCTest performs the whole record, or reports an error. *)
SynthesizeEvent(done) ==
  /\ pc = "perform"
  /\ Answer(IF done THEN "ok" ELSE "error")

Next ==
  \/ NextRequest \/ RejectRequest \/ RejectFinger \/ ReadFinger \/ PreprocessItem
  \/ AddItem \/ RejectItem \/ RaiseOnStaleElement \/ RejectEmptyChain \/ ChainIsComplete
  \/ PointerMove \/ PointerDown \/ Pause \/ LiftUp \/ Tap \/ PressDown \/ MoveTo
  \/ RaiseWithoutPath \/ FinishFinger
  \/ \E done \in BOOLEAN : SynthesizeEvent(done)

Spec == Init /\ [][Next]_vars

-----------------------------------------------------------------------------
(* Type invariant. *)
TypeOK ==
  /\ dialect \in Dialect
  /\ device \in Device
  /\ pc \in {"finger", "preprocess", "chain", "paths", "perform", "done"}
  /\ todo \in 0 .. MaxFingers
  /\ room \in 0 .. MaxItems
  /\ list \in Seq(Item)
  /\ left \in 0 .. Len(list)
  /\ skip \in BOOLEAN
  /\ kept \in Seq(Item)
  /\ items \in Seq(GestureItem)
  /\ durationOffset \in Nat
  /\ index \in 0 .. Len(items) + 1
  /\ paths \in Seq(Seq(Event))
  /\ record \in Seq(Seq(Seq(Event)))
  /\ outcome \in {"none", "ok", "error", "raised"}

(* Within one finger, what is drawn later happens later: on a path and from *)
(* one path to the next.  Each item draws at times it computes from its own *)
(* duration, and the next one relies on their sum.  (The pressure of an     *)
(* Appium press is left out: it comes too late, FBAppiumActionsSynthesizer.m *)
(* line 220.)                                                               *)
Timed(e) == dialect = "w3c" \/ e.kind # "pressure"

EventsInOrder ==
  \A k, l \in DOMAIN paths :
    \A i \in DOMAIN paths[k], j \in DOMAIN paths[l] :
      /\ k < l \/ (k = l /\ i < j)
      /\ Timed(paths[k][i]) /\ Timed(paths[l][j])
      => paths[k][i].time <= paths[l][j].time

(* What the preprocessing keeps, said without a pass over the list: in the  *)
(* Appium dialect an item with a cancel behind it is dropped, in W3C one    *)
(* with an odd number of them, as every second cancel cancels a cancel.     *)
CancelsBehind(i) ==
  Cardinality({j \in i + 1 .. Len(list) : \A k \in i + 1 .. j : IsCancel(list[k])})

Survivors ==
  {i \in DOMAIN list :
     /\ ~IsCancel(list[i])
     /\ IF dialect = "w3c" THEN CancelsBehind(i) % 2 = 0 ELSE CancelsBehind(i) = 0}

KeptIsWhatSurvives ==
  pc = "chain" =>
    /\ Len(kept) = Cardinality(Survivors)
    /\ \A i \in Survivors : kept[Cardinality({j \in Survivors : j <= i})] = list[i]

(* A finger comes down where it was left: in W3C every path begins where    *)
(* the path before it last touched or moved.  Items that open a path have   *)
(* positions computed when the chain was built, several items earlier.      *)
Places(path) == {i \in DOMAIN path : path[i].kind \in {"touch", "move"}}

LeftAt(path) == path[CHOOSE i \in Places(path) : \A j \in Places(path) : j <= i].at

ComesDownWhereItWasLeft ==
  dialect = "w3c" =>
    \A k \in DOMAIN paths : k > 1 => paths[k][1].at = LeftAt(paths[k - 1])

(* A list that ends with a lift, a tap or a W3C pause ends with the finger  *)
(* lifted, exactly when the items before (the tap and the pause included)   *)
(* have taken the time they ask for.  Nothing is said of lists with a long  *)
(* press that asks for no time (the code and XCUIApplication+FBTouchAction  *)
(* differ in its default), nor of Appium lists that end with a wait.        *)
TimeOf(n) ==
  LET sum[i \in 0 .. n] == IF i = 0 THEN 0 ELSE sum[i - 1] + Duration(kept[i])
  IN  sum[n]

LastEvent == LET path == paths[Len(paths)] IN path[Len(path)]

LiftedInTime ==
  /\ pc = "paths" /\ index > Len(items)
  /\ \A i \in DOMAIN kept : kept[i].action = "longPress" => kept[i].given
  => LET last == kept[Len(kept)].action
     IN  /\ last \in Lifts => LastEvent = Lift(TimeOf(Len(kept) - 1))
         /\ last \in {"tap", "pause"} => LastEvent = Lift(TimeOf(Len(kept)))

(* A list raises only if it names an element that is no longer cached, or   *)
(* if it is an Appium list that begins with moveTo: everything else that    *)
(* is wrong with it is found before an item draws, and is an error.         *)
RaisesOnlyFor ==
  outcome = "raised" =>
    /\ dialect = "appium"
    /\ \/ kept[1].action = "moveTo"
       \/ \E i \in DOMAIN kept : kept[i].origin = "stale"

(* FBMathUtilsTests.m, testPointInvertion: where the point (1, 2) lies on a *)
(* screen of 10 by 15.  Viewport coordinates of a gesture are turned so.    *)
TestedPoint ==
  CASE device.orientation \in {"unknown", "portrait"} -> At(1, 2)
    [] device.orientation = "upsideDown"     -> At(9, 13)
    [] device.orientation = "landscapeLeft"  -> At(2, 14)
    [] device.orientation = "landscapeRight" -> At(8, 1)

ViewportPointsLieWhereTested ==
  \A i \in DOMAIN items :
    /\ HasAbsolutePositioning(items[i].item) /\ items[i].item.origin = "viewport"
    /\ items[i].item.offset = At(1, 2)
    /\ device.width = 10 /\ device.height = 15
    => items[i].at = TestedPoint

=============================================================================
