------------------------- MODULE FBTouchPathProofs -------------------------
(***************************************************************************)
(* More theorems about FBTouchActions: where the paths of a finger begin   *)
(* and when the last one ends, and how points are turned with the screen.  *)
(* The invariant of FBTouchProofs is taken over and extended with what is  *)
(* drawn (Follows).                                                        *)
(***************************************************************************)
EXTENDS FBTouchProofs, WellFoundedInduction

(* The finger's last position on the path is p. *)
LeavesAt(path, p) ==
  \E i \in Places(path) : path[i].at = p /\ \A j \in Places(path) : j <= i

(* Each path begins at the place where the one before it left the finger. *)
Joined(ps) ==
  /\ \A k \in DOMAIN ps : ps[k] # <<>>
  /\ \A k \in DOMAIN ps : k > 1 => LeavesAt(ps[k - 1], ps[k][1].at)

(* In W3C, an item without a position of its own is where the previous one  *)
(* is, and the finger is where the last item that drew has put it.          *)
Inherits ==
  \A i \in 2 .. Len(items) :
    ~HasAbsolutePositioning(items[i].item) => items[i].at = items[i - 1].at

IsAtLastItem ==
  /\ index = 1 => paths = <<>>
  /\ index > 1 => paths # <<>> /\ LeavesAt(paths[Len(paths)], items[index - 1].at)

Follows ==
  dialect = "w3c" =>
    /\ Inherits
    /\ Joined(paths)
    /\ pc = "paths" => IsAtLastItem

-----------------------------------------------------------------------------
LEMMA LeavesAtIsLeftAt ==
  ASSUME NEW path \in Seq(Event), NEW p, LeavesAt(path, p)
  PROVE  LeftAt(path) = p
<1>1. PICK i \in Places(path) : path[i].at = p /\ \A j \in Places(path) : j <= i
  BY DEF LeavesAt
<1>2. Places(path) \subseteq Int
  BY DEF Places
<1>3. \A j \in Places(path) : (\A l \in Places(path) : l <= j) => j = i
  BY <1>1, <1>2
<1>4. (CHOOSE j \in Places(path) : \A l \in Places(path) : l <= j) = i
  BY <1>1, <1>3
<1> QED
  BY <1>1, <1>4 DEF LeftAt

(* A path of a touch and, perhaps, an event without a place. *)
LEMMA ShortPathLeaves ==
  ASSUME NEW p \in Point, NEW t \in Int, NEW path,
         \/ path = <<Touch(p, t)>>
         \/ \E e \in Event : path = <<Touch(p, t), e>> /\ e.kind \notin {"touch", "move"}
  PROVE  path # <<>> /\ path[1].at = p /\ LeavesAt(path, p)
<1>1. Touch(p, t).kind = "touch" /\ Touch(p, t).at = p
  BY DEF Touch
<1>2. path # <<>> /\ path[1] = Touch(p, t) /\ Places(path) = {1}
  <2>1. CASE path = <<Touch(p, t)>>
    BY <1>1, <2>1 DEF Places
  <2>2. ASSUME NEW e \in Event, path = <<Touch(p, t), e>>, e.kind \notin {"touch", "move"}
        PROVE  path # <<>> /\ path[1] = Touch(p, t) /\ Places(path) = {1}
    <3>1. /\ DOMAIN path = {1, 2} /\ path[1] = Touch(p, t) /\ path[2] = e
          /\ path # <<>>
      BY <2>2
    <3> QED
      BY <1>1, <2>2, <3>1 DEF Places
  <2> QED
    BY <2>1, <2>2
<1> QED
  BY <1>1, <1>2 DEF LeavesAt

(* Drawing on a path: a move takes the finger along, anything else leaves   *)
(* it where it was.                                                         *)
LEMMA AppendLeaves ==
  ASSUME NEW path \in Seq(Event), path # <<>>, NEW e \in Event
  PROVE  LET longer == Append(path, e)
         IN  /\ longer # <<>> /\ longer[1] = path[1]
             /\ e.kind \in {"touch", "move"} => LeavesAt(longer, e.at)
             /\ \A p : LeavesAt(path, p) /\ e.kind \notin {"touch", "move"} => LeavesAt(longer, p)
<1> DEFINE longer == Append(path, e)
           n == Len(path)
<1>1. n \in Nat \ {0} /\ DOMAIN path = 1 .. n
  OBVIOUS
<1>2. /\ DOMAIN longer = 1 .. (n + 1) /\ longer[n + 1] = e
      /\ \A i \in 1 .. n : longer[i] = path[i]
  OBVIOUS
<1>3. longer # <<>> /\ longer[1] = path[1]
  BY <1>1, <1>2
<1> HIDE DEF longer, n
<1>4. ASSUME e.kind \in {"touch", "move"}
      PROVE  LeavesAt(longer, e.at)
  BY <1>1, <1>2, <1>4 DEF LeavesAt, Places
<1>5. ASSUME NEW p, LeavesAt(path, p), e.kind \notin {"touch", "move"}
      PROVE  LeavesAt(longer, p)
  <2>1. Places(longer) = Places(path)
    BY <1>1, <1>2, <1>5 DEF Places
  <2>2. \A i \in Places(path) : longer[i] = path[i]
    BY <1>1, <1>2 DEF Places
  <2> QED
    BY <1>5, <2>1, <2>2 DEF LeavesAt
<1> QED
  BY <1>3, <1>4, <1>5 DEF longer

LEMMA DrawLeaves ==
  ASSUME paths \in Seq(Seq(Event)), paths # <<>>, Joined(paths), NEW e \in Event, Draw(e)
  PROVE  /\ paths' # <<>> /\ Joined(paths')
         /\ e.kind \in {"touch", "move"} => LeavesAt(paths'[Len(paths')], e.at)
         /\ \A p : LeavesAt(paths[Len(paths)], p) /\ e.kind \notin {"touch", "move"}
                     => LeavesAt(paths'[Len(paths')], p)
<1> DEFINE ps == paths
           qs == paths'
           n == Len(ps)
<1>a. ps \in Seq(Seq(Event)) /\ ps # <<>> /\ Joined(ps)
  OBVIOUS
<1>b. qs = [ps EXCEPT ![Len(ps)] = Append(@, e)]
  BY DEF Draw
<1> HIDE DEF ps, qs
<1>1. n \in Nat \ {0} /\ DOMAIN ps = 1 .. n /\ ps[n] \in Seq(Event) /\ n \in 1 .. n
  BY <1>a
<1>2. /\ qs # <<>> /\ Len(qs) = n /\ DOMAIN qs = 1 .. n /\ qs[n] = Append(ps[n], e)
      /\ \A k \in 1 .. n : k # n => qs[k] = ps[k]
  <2>1. Append(ps[n], e) \in Seq(Event)
    BY <1>1
  <2>2. qs \in Seq(Seq(Event)) /\ DOMAIN qs = 1 .. n /\ qs # <<>>
    BY <1>a, <1>b, <1>1, <2>1
  <2>3. qs[n] = Append(ps[n], e) /\ \A k \in 1 .. n : k # n => qs[k] = ps[k]
    BY <1>a, <1>b, <1>1
  <2>4. Len(qs) = n
    <3> HIDE DEF n
    <3> QED
      BY <1>1, <2>2
  <2> QED
    BY <2>2, <2>3, <2>4
<1>3. ps[n] # <<>>
  BY <1>a, <1>1 DEF Joined
<1> HIDE DEF n
<1>4. /\ qs[n] # <<>> /\ qs[n][1] = ps[n][1]
      /\ e.kind \in {"touch", "move"} => LeavesAt(qs[n], e.at)
      /\ \A p : LeavesAt(ps[n], p) /\ e.kind \notin {"touch", "move"} => LeavesAt(qs[n], p)
  BY <1>1, <1>2, <1>3, AppendLeaves
<1>5. Joined(qs)
  <2>1. \A k \in 1 .. n : qs[k] # <<>> /\ qs[k][1] = ps[k][1]
    BY <1>a, <1>1, <1>2, <1>4 DEF Joined
  <2>2. \A k \in 1 .. n : k > 1 => LeavesAt(qs[k - 1], qs[k][1].at)
    <3> SUFFICES ASSUME NEW k \in 1 .. n, k > 1
                 PROVE  LeavesAt(qs[k - 1], qs[k][1].at)
      OBVIOUS
    <3>1. LeavesAt(ps[k - 1], ps[k][1].at)
      BY <1>a, <1>1 DEF Joined
    <3>2. qs[k - 1] = ps[k - 1]
      BY <1>1, <1>2
    <3> QED
      BY <2>1, <3>1, <3>2
  <2> QED
    BY <1>2, <2>1, <2>2 DEF Joined
<1> QED
  BY <1>2, <1>4, <1>5 DEF n, ps, qs

LEMMA OpenJoins ==
  ASSUME NEW ps \in Seq(Seq(Event)), Joined(ps), NEW path \in Seq(Event), path # <<>>,
         ps # <<>> => LeavesAt(ps[Len(ps)], path[1].at),
         NEW qs, qs = ps \o <<path>>
  PROVE  qs # <<>> /\ Joined(qs) /\ qs[Len(qs)] = path
<1> DEFINE n == Len(ps)
<1>1. n \in Nat /\ DOMAIN ps = 1 .. n /\ (ps = <<>> <=> n = 0)
  OBVIOUS
<1>2. /\ qs # <<>> /\ Len(qs) = n + 1 /\ DOMAIN qs = 1 .. (n + 1) /\ qs[n + 1] = path
      /\ \A k \in 1 .. n : qs[k] = ps[k]
  <2>1. <<path>> \in Seq(Seq(Event)) /\ Len(<<path>>) = 1 /\ <<path>>[1] = path
    OBVIOUS
  <2> QED
    BY <2>1
<1> HIDE DEF n
<1>3. \A k \in 1 .. (n + 1) : qs[k] # <<>>
  <2> SUFFICES ASSUME NEW k \in 1 .. (n + 1)
               PROVE  qs[k] # <<>>
    OBVIOUS
  <2>1. k = n + 1 \/ k \in 1 .. n
    BY <1>1
  <2>2. k \in 1 .. n => qs[k] = ps[k] /\ ps[k] # <<>>
    BY <1>1, <1>2 DEF Joined
  <2> QED
    BY <1>2, <2>1, <2>2, Zenon
<1>4. \A k \in 1 .. (n + 1) : k > 1 => LeavesAt(qs[k - 1], qs[k][1].at)
  <2> SUFFICES ASSUME NEW k \in 1 .. (n + 1), k > 1
               PROVE  LeavesAt(qs[k - 1], qs[k][1].at)
    OBVIOUS
  <2>1. CASE k = n + 1
    <3>1. LeavesAt(ps[n], path[1].at) /\ qs[k - 1] = ps[n] /\ qs[k] = path
      BY <1>1, <1>2, <2>1 DEF n
    <3> QED
      BY <3>1
  <2>2. CASE k \in 1 .. n
    <3>1. LeavesAt(ps[k - 1], ps[k][1].at)
      BY <1>1, <2>2 DEF Joined
    <3>2. qs[k - 1] = ps[k - 1] /\ qs[k] = ps[k]
      BY <1>1, <1>2, <2>2
    <3> QED
      BY <3>1, <3>2
  <2> QED
    BY <1>1, <2>1, <2>2
<1> QED
  BY <1>2, <1>3, <1>4 DEF Joined

-----------------------------------------------------------------------------
(* The item that draws leaves the finger where the item is. *)
LEMMA AddingLeaves ==
  ASSUME TouchInv, Follows, dialect = "w3c", Adding
  PROVE  paths' # <<>> /\ Joined(paths') /\ LeavesAt(paths'[Len(paths')], Current.at)
<1>1. /\ TypeOK /\ Stage /\ Chain /\ Drawn
      /\ Inherits /\ Joined(paths)
  BY DEF TouchInv, Follows
<1>2. /\ pc = "paths" /\ index \in 1 .. Len(items)
  BY <1>1 DEF Adding, PointerMove, PointerDown, Pause, LiftUp, Tap, PressDown, MoveTo, Adds,
     Stage, TypeOK
<1>3. /\ Current.at \in Point /\ Current.offset \in Int /\ Current.duration \in Nat
      /\ Start \in Int /\ Finish \in Int /\ paths \in Seq(Seq(Event))
  BY <1>1, <1>2, CurrentType DEF Start, Finish, TypeOK
<1>4. Current.item.action \in {"pointerDown", "pointerMove", "pause", "pointerUp"}
  <2>1. items[index].item.action \in ActionName
    BY <1>1, <1>2 DEF Chain
  <2> QED
    BY <2>1 DEF Current, ActionName
<1>5. paths # <<>> => index > 1 /\ LeavesAt(paths[Len(paths)], items[index - 1].at)
  BY <1>2 DEF Follows, IsAtLastItem
<1>6. ASSUME paths # <<>>, Current.item.action # "pointerMove"
      PROVE  LeavesAt(paths[Len(paths)], Current.at)
  <2>1. index \in 2 .. Len(items) /\ LeavesAt(paths[Len(paths)], items[index - 1].at)
    BY <1>2, <1>5, <1>6
  <2>2. ~HasAbsolutePositioning(items[index].item)
    BY <1>4, <1>6 DEF HasAbsolutePositioning, Current
  <2>3. items[index].at = items[index - 1].at
    BY <1>1, <2>1, <2>2 DEF Inherits
  <2> QED
    BY <2>1, <2>3 DEF Current
(* A new path with a touch at the item's place, and perhaps one more event. *)
<1>7. ASSUME paths # <<>> => Current.item.action # "pointerMove",
             NEW path, Open(<<path>>), NEW t \in Int,
             \/ path = <<Touch(Current.at, t)>>
             \/ \E e \in Event : path = <<Touch(Current.at, t), e>> /\ e.kind \notin {"touch", "move"}
      PROVE  paths' # <<>> /\ Joined(paths') /\ LeavesAt(paths'[Len(paths')], Current.at)
  <2>1. path # <<>> /\ path[1].at = Current.at /\ LeavesAt(path, Current.at)
    BY <1>3, <1>7, ShortPathLeaves
  <2>2. path \in Seq(Event)
    <3>1. Touch(Current.at, t) \in Event
      BY <1>3, <1>7, EventTypes
    <3>2. path = <<Touch(Current.at, t)>> => path \in Seq(Event)
      BY <3>1, Singles
    <3>3. \A e \in Event : path = <<Touch(Current.at, t), e>> => path \in Seq(Event)
      BY <3>1, Pairs
    <3> QED
      BY <1>7, <3>2, <3>3
  <2>3. paths # <<>> => LeavesAt(paths[Len(paths)], path[1].at)
    BY <1>6, <1>7, <2>1
  <2>4. paths' = paths \o <<path>>
    BY <1>7 DEF Open
  <2>5. paths' # <<>> /\ Joined(paths') /\ paths'[Len(paths')] = path
    BY <1>1, <1>3, <2>1, <2>2, <2>3, <2>4, OpenJoins
  <2> QED
    BY <2>1, <2>5
<1>8. Lift(Start).kind = "lift" /\ Lift(Finish).kind = "lift" /\ Press(Start).kind = "pressure"
      /\ Lift(Start) \in Event /\ Lift(Finish) \in Event /\ Press(Start) \in Event
  BY <1>3, EventTypes DEF Lift, Press
<1>a. CASE PointerMove
  <2>1. CASE paths = <<>>
    <3>1. Open(<< <<Touch(Current.at, Finish)>> >>)
      BY <1>a, <2>1 DEF PointerMove, Finish
    <3> QED
      BY <1>3, <1>7, <2>1, <3>1
  <2>2. CASE paths # <<>>
    <3> DEFINE e == Move(Current.at, Start)
    <3>1. Draw(e)
      BY <1>a, <2>2 DEF PointerMove, Start
    <3>2. e \in Event /\ e.kind = "move" /\ e.at = Current.at
      BY <1>3, EventTypes DEF Move
    <3> HIDE DEF e
    <3>3. /\ paths' # <<>> /\ Joined(paths')
          /\ e.kind \in {"touch", "move"} => LeavesAt(paths'[Len(paths')], e.at)
      BY <1>1, <1>3, <2>2, <3>1, <3>2, DrawLeaves
    <3> QED
      BY <3>2, <3>3
  <2> QED
    BY <2>1, <2>2
<1>b. CASE PointerDown
  <2>1. Current.item.action = "pointerDown"
    BY <1>b DEF PointerDown, Adds
  <2>2. CASE IsDownAlready
    <3>1. paths # <<>> /\ UNCHANGED paths
      BY <1>b, <2>2 DEF PointerDown, IsDownAlready
    <3> QED
      BY <1>1, <1>6, <2>1, <3>1
  <2>3. CASE ~IsDownAlready
    <3> DEFINE path == IF Current.item.pressure
                       THEN <<Touch(Current.at, Start), Press(Start)>>
                       ELSE <<Touch(Current.at, Start)>>
    <3>1. \/ path = <<Touch(Current.at, Start)>>
          \/ \E e \in Event : path = <<Touch(Current.at, Start), e>> /\ e.kind \notin {"touch", "move"}
      BY <1>8
    <3>2. Open(<<path>>)
      BY <1>b, <2>3 DEF PointerDown, Start
    <3> HIDE DEF path
    <3> QED
      BY <1>3, <1>7, <2>1, <3>1, <3>2
  <2> QED
    BY <2>2, <2>3
<1>c. CASE Pause
  <2>1. Current.item.action # "pointerMove"
    BY <1>c DEF Pause, Adds
  <2>2. CASE OnlyWaits
    <3>1. paths # <<>> /\ UNCHANGED paths
      BY <1>c, <2>2 DEF Pause, OnlyWaits
    <3> QED
      BY <1>1, <1>6, <2>1, <3>1
  <2>3. CASE ~OnlyWaits
    <3> DEFINE path == IF IsLast THEN <<Touch(Current.at, Finish), Lift(Finish)>>
                                 ELSE <<Touch(Current.at, Finish)>>
    <3>1. \/ path = <<Touch(Current.at, Finish)>>
          \/ \E e \in Event : path = <<Touch(Current.at, Finish), e>> /\ e.kind \notin {"touch", "move"}
      BY <1>8
    <3>2. Open(<<path>>)
      BY <1>c, <2>3 DEF Pause, Finish
    <3> HIDE DEF path
    <3> QED
      BY <1>3, <1>7, <2>1, <3>1, <3>2
  <2> QED
    BY <2>2, <2>3
<1>d. CASE LiftUp
  <2>1. paths # <<>> /\ Current.item.action # "pointerMove"
    BY <1>d DEF LiftUp, Adds, Lifts
  <2>2. Draw(Lift(Start))
    BY <1>d DEF LiftUp, Start
  <2>3. Lift(Start).kind \notin {"touch", "move"} /\ LeavesAt(paths[Len(paths)], Current.at)
    BY <1>6, <1>8, <2>1
  <2>4. /\ paths' # <<>> /\ Joined(paths')
        /\ \A p : LeavesAt(paths[Len(paths)], p) /\ Lift(Start).kind \notin {"touch", "move"}
                    => LeavesAt(paths'[Len(paths')], p)
    BY <1>1, <1>3, <1>8, <2>1, <2>2, DrawLeaves
  <2> QED
    BY <2>3, <2>4
<1>e. CASE Tap \/ PressDown \/ MoveTo
  BY <1>4, <1>e DEF Tap, PressDown, MoveTo, Adds
<1> QED
  BY <1>a, <1>b, <1>c, <1>d, <1>e DEF Adding

LEMMA FollowsStep ==
  ASSUME TouchInv, Follows, [Next]_vars
  PROVE  Follows'
<1> SUFFICES ASSUME dialect' = "w3c"
             PROVE  Inherits' /\ Joined(paths') /\ (pc' = "paths" => IsAtLastItem')
  BY DEF Follows, Joined, LeavesAt, Places
<1>1. TypeOK /\ Stage
  BY DEF TouchInv
<1>2. ASSUME items' = <<>>, paths' = <<>>, pc' # "paths"
      PROVE  Inherits' /\ Joined(paths') /\ (pc' = "paths" => IsAtLastItem')
  <2>1. Len(items') = 0
    BY <1>2, EmptyTypes
  <2> QED
    BY <1>2, <2>1 DEF Inherits, Joined
<1>3. ASSUME UNCHANGED <<dialect, items, paths>>, pc' = "paths" => pc = "paths" /\ index' = index
      PROVE  Inherits' /\ Joined(paths') /\ (pc' = "paths" => IsAtLastItem')
  BY <1>3 DEF Follows, Inherits, Joined, IsAtLastItem, LeavesAt, Places, HasAbsolutePositioning
<1>4. CASE NextRequest \/ FinishFinger
  BY <1>2, <1>4 DEF NextRequest, FinishFinger, StartOver
<1>5. CASE ReadFinger \/ PreprocessItem
  BY <1>3, <1>5 DEF ReadFinger, PreprocessItem, requestVars, chainVars, pathVars
<1>6. CASE \E how : Answer(how)
  BY <1>3, <1>6 DEF Answer, requestVars, chainVars, pathVars
<1>7. CASE UNCHANGED vars
  BY <1>3, <1>7 DEF vars, requestVars, chainVars, pathVars
<1>8. CASE AddItem
  <2> DEFINE n == Len(items)
             new == [item |-> NextKept, at |-> Position(NextKept),
                     offset |-> durationOffset, duration |-> Duration(NextKept)]
  <2>1. /\ items' = Append(items, new) /\ UNCHANGED <<dialect, pc, paths>> /\ pc = "chain"
        /\ IsValid(NextKept)
    BY <1>8 DEF AddItem, requestVars, pathVars
  <2>2. n \in Nat /\ Len(items') = n + 1 /\ items'[n + 1] = new
        /\ \A i \in 1 .. n : items'[i] = items[i]
    BY <1>1, <2>1 DEF TypeOK
  <2>3. new.item = NextKept /\ new.at = Position(NextKept)
    OBVIOUS
  <2> HIDE DEF new, n
  <2>4. Inherits'
    <3> SUFFICES ASSUME NEW i \in 2 .. (n + 1), ~HasAbsolutePositioning(items'[i].item)
                 PROVE  items'[i].at = items'[i - 1].at
      BY <2>2 DEF Inherits, HasAbsolutePositioning
    <3>1. CASE i = n + 1
      <4>1. items'[i].at = RecentPosition
        BY <2>2, <2>3, <3>1 DEF Position
      <4>2. i - 1 \in 1 .. n /\ i - 1 = n
        BY <2>2, <3>1
      <4> QED
        BY <2>2, <4>1, <4>2 DEF RecentPosition, n
    <3>2. CASE i \in 2 .. n
      <4>1. items'[i] = items[i] /\ items'[i - 1] = items[i - 1]
        BY <2>2, <3>2
      <4>2. Inherits
        BY <2>1 DEF Follows
      <4> QED
        BY <3>2, <4>1, <4>2 DEF Inherits, n
    <3> QED
      BY <2>2, <3>1, <3>2
  <2> QED
    BY <2>1, <2>4 DEF Follows, Joined, LeavesAt, Places
<1>9. CASE ChainIsComplete
  <2>1. /\ UNCHANGED <<dialect, items, paths>> /\ index' = 1 /\ paths = <<>>
    BY <1>1, <1>9 DEF ChainIsComplete, requestVars, chainVars, Stage
  <2> QED
    BY <2>1 DEF Follows, Inherits, Joined, IsAtLastItem, LeavesAt, Places, HasAbsolutePositioning
<1>10. CASE Adding
  <2>1. /\ UNCHANGED <<dialect, items, pc>> /\ index' = index + 1 /\ index \in 1 .. Len(items)
    BY <1>1, <1>10 DEF Adding, PointerMove, PointerDown, Pause, LiftUp, Tap, PressDown, MoveTo,
       Adds, Stage, TypeOK, requestVars, chainVars
  <2>2. paths' # <<>> /\ Joined(paths') /\ LeavesAt(paths'[Len(paths')], Current.at)
    BY <1>10, <2>1, AddingLeaves
  <2>3. Inherits'
    BY <2>1 DEF Follows, Inherits, HasAbsolutePositioning
  <2>4. IsAtLastItem'
    BY <2>1, <2>2 DEF IsAtLastItem, LeavesAt, Places, Current
  <2> QED
    BY <2>2, <2>3, <2>4
<1> QED
  <2>1. ASSUME NEW done \in BOOLEAN, SynthesizeEvent(done)
        PROVE  \E how : Answer(how)
    BY <2>1 DEF SynthesizeEvent
  <2>2. RejectRequest \/ RejectFinger \/ RejectItem \/ RejectEmptyChain
        \/ RaiseOnStaleElement \/ RaiseWithoutPath => \E how : Answer(how)
    BY DEF RejectRequest, RejectFinger, RejectItem, RejectEmptyChain, RaiseOnStaleElement,
       RaiseWithoutPath
  <2> QED
    BY <1>4, <1>5, <1>6, <1>7, <1>8, <1>9, <1>10, <2>1, <2>2 DEF Next, Adding

THEOREM FollowsInvariance == Spec => [](TouchInv /\ Follows)
<1>1. Init => Follows
  BY DEF Init, Follows, Inherits, Joined
<1>2. TouchInv /\ Follows /\ [Next]_vars => Follows'
  BY FollowsStep
<1> QED
  BY <1>1, <1>2, Invariance, PTL DEF Spec

(* A finger comes down where it was left, whatever the moves, the presses   *)
(* and the pauses of the list: the positions of the chain and the order in  *)
(* which items draw agree.                                                  *)
THEOREM FingersComeBack == Spec => []ComesDownWhereItWasLeft
<1>1. ASSUME TouchInv, Follows
      PROVE  ComesDownWhereItWasLeft
  <2> SUFFICES ASSUME dialect = "w3c", NEW k \in DOMAIN paths, k > 1
               PROVE  paths[k][1].at = LeftAt(paths[k - 1])
    BY DEF ComesDownWhereItWasLeft
  <2>1. LeavesAt(paths[k - 1], paths[k][1].at)
    BY <1>1 DEF Follows, Joined
  <2>2. paths[k - 1] \in Seq(Event)
    BY <1>1 DEF TouchInv, TypeOK
  <2> QED
    BY <2>1, <2>2, LeavesAtIsLeftAt
<1> QED
  BY <1>1, FollowsInvariance, PTL

-----------------------------------------------------------------------------
(* The offsets of the chain are the times of LiftedInTime.  TimeOf is a     *)
(* recursive function on 0 .. n; the clock of the chain solves the same     *)
(* recursion, and two solutions cannot differ at a least argument.          *)

LEMMA LeastElement ==
  ASSUME NEW T \in SUBSET Nat, T # {}
  PROVE  \E x \in T : \A y \in T : x <= y
<1> DEFINE R == OpToRel(<, Nat)
<1>1. PICK x \in T : \A y \in T : ~ (<<y, x>> \in R)
  BY NatLessThanWellFounded, WFMin
<1>2. \A y, z \in Nat : y < z => <<y, z>> \in R
  BY DEF OpToRel
<1> HIDE DEF R
<1>3. \A y \in T : ~ (y < x)
  BY <1>1, <1>2
<1> QED
  BY <1>3

(* f sums up the durations of the list, up to its item n. *)
IsSum(f, n) == f = [i \in 0 .. n |-> IF i = 0 THEN 0 ELSE f[i - 1] + Duration(kept[i])]

LEMMA SumIsUnique ==
  ASSUME NEW n \in Nat, NEW f, IsSum(f, n), NEW g, IsSum(g, n)
  PROVE  f = g
<1> DEFINE T == {i \in 0 .. n : f[i] # g[i]}
<1>1. /\ f = [i \in 0 .. n |-> IF i = 0 THEN 0 ELSE f[i - 1] + Duration(kept[i])]
      /\ g = [i \in 0 .. n |-> IF i = 0 THEN 0 ELSE g[i - 1] + Duration(kept[i])]
  BY DEF IsSum
<1>2. ASSUME T # {}
      PROVE  FALSE
  <2>1. T \in SUBSET Nat
    OBVIOUS
  <2>2. PICK i \in T : \A j \in T : i <= j
    BY <1>2, <2>1, LeastElement
  <2>3. i # 0 /\ i \in 0 .. n /\ f[i] # g[i]
    BY <1>1
  <2>4. i - 1 \in 0 .. n /\ i - 1 \notin T
    BY <2>1, <2>2, <2>3
  <2>5. f[i - 1] = g[i - 1]
    BY <2>4
  <2> QED
    BY <1>1, <2>3, <2>5
<1>3. \A i \in 0 .. n : f[i] = g[i]
  BY <1>2
<1> QED
  BY <1>1, <1>3

LEMMA TimeIsTheSum ==
  ASSUME NEW n \in Nat, NEW f, IsSum(f, n)
  PROVE  TimeOf(n) = f[n]
<1> DEFINE sum == CHOOSE s : s = [i \in 0 .. n |->
                                    IF i = 0 THEN 0 ELSE s[i - 1] + Duration(kept[i])]
<1>1. \A g : IsSum(g, n) => g = f
  BY SumIsUnique
<1>2. sum = f
  BY <1>1 DEF IsSum
<1> QED
  BY <1>2 DEF TimeOf

LEMMA ClockIsTime ==
  ASSUME TypeOK, Chain, Clock(1) = 0, NEW n \in 0 .. Len(items)
  PROVE  Clock(n + 1) = TimeOf(n)
<1> DEFINE f == [i \in 0 .. n |-> Clock(i + 1)]
<1>1. n \in Nat /\ Len(items) \in Nat
  BY DEF TypeOK
<1>2. ASSUME NEW i \in 1 .. n
      PROVE  Clock(i + 1) = Clock(i) + Duration(kept[i])
  <2>1. i \in 1 .. Len(items)
    BY <1>1
  <2>2. /\ items[i].offset + items[i].duration = Clock(i + 1)
        /\ items[i].duration = Duration(kept[i])
    BY <2>1 DEF Chain
  <2>3. Clock(i) = items[i].offset
    BY <2>1 DEF Clock
  <2> QED
    BY <2>2, <2>3
<1>3. IsSum(f, n)
  <2>1. \A i \in 0 .. n : f[i] = IF i = 0 THEN 0 ELSE f[i - 1] + Duration(kept[i])
    <3> SUFFICES ASSUME NEW i \in 0 .. n
                 PROVE  f[i] = IF i = 0 THEN 0 ELSE f[i - 1] + Duration(kept[i])
      OBVIOUS
    <3>1. CASE i = 0
      BY <3>1
    <3>2. CASE i \in 1 .. n
      <4>1. i - 1 \in 0 .. n /\ (i - 1) + 1 = i /\ i # 0
        BY <3>2
      <4>2. f[i - 1] = Clock(i) /\ f[i] = Clock(i + 1)
        BY <4>1
      <4> QED
        BY <1>2, <3>2, <4>1, <4>2
    <3> QED
      BY <3>1, <3>2
  <2> HIDE DEF f
  <2>2. f = [i \in 0 .. n |-> f[i]]
    BY DEF f
  <2> QED
    BY <2>1, <2>2 DEF IsSum
<1>4. TimeOf(n) = f[n]
  BY <1>1, <1>3, TimeIsTheSum
<1> QED
  BY <1>1, <1>4

-----------------------------------------------------------------------------
(* What the last item has drawn: a lift at its beginning, or at its end. *)
Ended ==
  index > Len(items) =>
    LET last == items[Len(items)]
    IN  /\ last.item.action \in Lifts => LastEvent = Lift(last.offset)
        /\ last.item.action \in {"tap", "pause", "wait"}
             => LastEvent = Lift(last.offset + last.duration)

Timely ==
  /\ Clock(1) = 0
  /\ pc = "paths" =>
       /\ items # <<>>
       /\ index = 1 => paths = <<>>
       /\ Ended

LEMMA LastOfOpened ==
  ASSUME paths \in Seq(Seq(Event)), NEW new \in Seq(Seq(Event)), new # <<>>, Open(new)
  PROVE  paths'[Len(paths')] = new[Len(new)]
<1> DEFINE ps == paths
           qs == paths'
<1>1. qs = ps \o new /\ ps \in Seq(Seq(Event))
  BY DEF Open
<1> HIDE DEF ps, qs
<1>2. Len(new) \in Nat \ {0} /\ Len(ps) \in Nat
  BY <1>1
<1>3. Len(qs) = Len(ps) + Len(new) /\ qs[Len(ps) + Len(new)] = new[Len(new)]
  BY <1>1, <1>2
<1> QED
  BY <1>3 DEF qs

(* When the last item draws, the finger is lifted as Ended has it. *)
LEMMA LastItemEnds ==
  ASSUME TouchInv, Timely, Adding, index = Len(items)
  PROVE  /\ Current.item.action \in Lifts => LastEvent' = Lift(Start)
         /\ Current.item.action \in {"tap", "pause", "wait"} => LastEvent' = Lift(Finish)
<1>1. /\ TypeOK /\ Stage /\ Chain /\ pc = "paths" /\ index \in 1 .. Len(items)
      /\ index = 1 => paths = <<>>
  BY DEF TouchInv, Timely, Adding, PointerMove, PointerDown, Pause, LiftUp, Tap, PressDown,
     MoveTo, Adds, Stage, TypeOK
<1>2. /\ Current.at \in Point /\ Current.offset \in Int /\ Current.duration \in Nat
      /\ Start \in Int /\ Finish \in Int /\ paths \in Seq(Seq(Event))
  BY <1>1, CurrentType DEF Start, Finish, TypeOK
<1>a. CASE LiftUp
  <2>1. paths # <<>> /\ Draw(Lift(Start)) /\ Current.item.action \in Lifts
    BY <1>a DEF LiftUp, Adds, Start
  <2>2. LastEvent' = Lift(Start)
    <3> DEFINE n == Len(paths)
               path == paths[n]
               qs == paths'
    <3>1. n \in Nat \ {0} /\ n \in DOMAIN paths /\ path \in Seq(Event)
      BY <1>2, <2>1
    <3>2. Lift(Start) \in Event
      BY <1>2, EventTypes
    <3>3. Append(path, Lift(Start)) \in Seq(Event)
      BY <3>1, <3>2
    <3>4. /\ qs \in Seq(Seq(Event)) /\ DOMAIN qs = DOMAIN paths
          /\ qs[n] = Append(path, Lift(Start))
      BY <1>2, <2>1, <3>1, <3>3 DEF Draw
    <3>5. Len(qs) = n
      <4>1. DOMAIN paths = 1 .. n
        BY <1>2
      <4> HIDE DEF n, qs
      <4> QED
        BY <3>1, <3>4, <4>1
    <3> HIDE DEF path
    <3>6. /\ Len(Append(path, Lift(Start))) = Len(path) + 1
          /\ Append(path, Lift(Start))[Len(path) + 1] = Lift(Start)
      BY <3>1
    <3> QED
      BY <3>4, <3>5, <3>6 DEF LastEvent
  <2> QED
    BY <2>1, <2>2 DEF Lifts
<1>b. CASE Tap
  <2> DEFINE count == Number(Current.item, 1)
             start(n) == Current.offset + (n - 1) * (FB_TAP_DURATION_MS + FB_INTERTAP_MIN_DURATION_MS)
             new == [n \in 1 .. count |->
                       <<Touch(Current.at, start(n)), Lift(start(n) + FB_TAP_DURATION_MS)>>]
  <2>1. count \in Nat \ {0} /\ Finish = Current.offset + 140 * count - 40
        /\ Current.item.action = "tap"
    BY <1>1, <1>b, TapCount DEF Tap, Adds
  <2>2. Open(new)
    BY <1>b DEF Tap
  <2>3. \A n \in 1 .. count : start(n) \in Int /\ start(n) + FB_TAP_DURATION_MS \in Int
    BY <1>2, <2>1 DEF FB_TAP_DURATION_MS, FB_INTERTAP_MIN_DURATION_MS
  <2>4. start(count) + FB_TAP_DURATION_MS = Finish
    BY <1>2, <2>1 DEF FB_TAP_DURATION_MS, FB_INTERTAP_MIN_DURATION_MS
  <2> HIDE DEF start
  <2>5. new \in Seq(Seq(Event)) /\ new # <<>> /\ Len(new) = count
    <3>1. \A n \in 1 .. count : <<Touch(Current.at, start(n)), Lift(start(n) + FB_TAP_DURATION_MS)>> \in Seq(Event)
      <4> SUFFICES ASSUME NEW n \in 1 .. count
                   PROVE  <<Touch(Current.at, start(n)), Lift(start(n) + FB_TAP_DURATION_MS)>> \in Seq(Event)
        OBVIOUS
      <4>1. Touch(Current.at, start(n)) \in Event /\ Lift(start(n) + FB_TAP_DURATION_MS) \in Event
        BY <1>2, <2>3, EventTypes
      <4> QED
        BY <4>1, Pairs
    <3>2. new \in [1 .. count -> Seq(Event)]
      BY <3>1
    <3> HIDE DEF new
    <3> QED
      BY <2>1, <3>2
  <2>6. new[count] = <<Touch(Current.at, start(count)), Lift(Finish)>>
    BY <2>1, <2>4
  <2> HIDE DEF new
  <2>7. paths'[Len(paths')] = <<Touch(Current.at, start(count)), Lift(Finish)>>
    BY <1>2, <2>2, <2>5, <2>6, LastOfOpened
  <2>8. LastEvent' = Lift(Finish)
    BY <2>7 DEF LastEvent
  <2> QED
    BY <2>1, <2>8 DEF Lifts
<1>c. CASE Pause
  <2>1. Current.item.action \in {"pause", "wait"}
    BY <1>c DEF Pause, Adds
  <2>2. ~OnlyWaits /\ IsLast
    BY <1>1 DEF OnlyWaits, IsLast
  <2> DEFINE path == <<Touch(Current.at, Finish), Lift(Finish)>>
  <2>3. Open(<<path>>)
    BY <1>c, <2>2 DEF Pause, Finish
  <2>4. path \in Seq(Event)
    <3>1. Touch(Current.at, Finish) \in Event /\ Lift(Finish) \in Event
      BY <1>2, EventTypes
    <3> QED
      BY <3>1, Pairs
  <2>5. <<path>> \in Seq(Seq(Event)) /\ <<path>> # <<>> /\ Len(<<path>>) = 1 /\ <<path>>[1] = path
    <3> HIDE DEF path
    <3> QED
      BY <2>4
  <2>6. paths'[Len(paths')] = path
    BY <1>2, <2>3, <2>5, LastOfOpened
  <2>7. LastEvent' = Lift(Finish)
    BY <2>6 DEF LastEvent
  <2> QED
    BY <2>1, <2>7 DEF Lifts
<1>d. CASE PointerMove \/ PointerDown \/ PressDown \/ MoveTo
  BY <1>d DEF PointerMove, PointerDown, PressDown, MoveTo, Adds, Lifts
<1> QED
  BY <1>a, <1>b, <1>c, <1>d DEF Adding

LEMMA TimelyStep ==
  ASSUME TouchInv, Timely, [Next]_vars
  PROVE  Timely'
<1>1. TypeOK /\ Stage
  BY DEF TouchInv
<1>2. ASSUME items' = <<>>, durationOffset' = 0, pc' # "paths"
      PROVE  Timely'
  BY <1>2, EmptyTypes DEF Timely, Clock
<1>3. ASSUME UNCHANGED <<items, durationOffset, paths>>, pc' = "paths" => pc = "paths" /\ index' = index
      PROVE  Timely'
  BY <1>3 DEF Timely, Clock, Ended, LastEvent, Lifts
<1>4. CASE NextRequest \/ FinishFinger
  BY <1>2, <1>4 DEF NextRequest, FinishFinger, StartOver
<1>5. CASE ReadFinger \/ PreprocessItem
  BY <1>3, <1>5 DEF ReadFinger, PreprocessItem, chainVars, pathVars
<1>6. CASE \E how : Answer(how)
  BY <1>3, <1>6 DEF Answer, chainVars, pathVars
<1>7. CASE UNCHANGED vars
  BY <1>3, <1>7 DEF vars, chainVars, pathVars
<1>8. CASE AddItem
  <2> DEFINE new == [item |-> NextKept, at |-> Position(NextKept),
                     offset |-> durationOffset, duration |-> Duration(NextKept)]
  <2>1. items' = Append(items, new) /\ pc' = "chain"
    BY <1>8 DEF AddItem
  <2>2. new.offset = durationOffset
    OBVIOUS
  <2> HIDE DEF new
  <2>3. /\ Len(items) \in Nat /\ Len(items') = Len(items) + 1 /\ items'[Len(items) + 1] = new
        /\ \A i \in 1 .. Len(items) : items'[i] = items[i]
    BY <1>1, <2>1 DEF TypeOK
  <2>4. Clock(1) = IF Len(items) = 0 THEN durationOffset ELSE items[1].offset
    BY <2>3 DEF Clock
  <2>5. items'[1].offset = Clock(1)
    BY <2>2, <2>3, <2>4
  <2> QED
    BY <2>1, <2>3, <2>5 DEF Timely, Clock
<1>9. CASE ChainIsComplete
  <2>1. /\ UNCHANGED <<items, durationOffset>> /\ index' = 1 /\ paths' = <<>>
        /\ kept # <<>> /\ Len(items) = Len(kept)
    BY <1>1, <1>9 DEF ChainIsComplete, chainVars, Stage
  <2>2. Len(items) \in Nat \ {0} /\ items # <<>>
    BY <1>1, <2>1 DEF TypeOK
  <2> QED
    BY <2>1, <2>2 DEF Timely, Clock, Ended
<1>10. CASE Adding
  <2>1. /\ UNCHANGED <<items, durationOffset, pc>> /\ index' = index + 1 /\ pc = "paths"
        /\ index \in 1 .. Len(items)
    BY <1>1, <1>10 DEF Adding, PointerMove, PointerDown, Pause, LiftUp, Tap, PressDown, MoveTo,
       Adds, Stage, TypeOK, chainVars
  <2>2. ASSUME index' > Len(items')
        PROVE  /\ items[Len(items)].item.action \in Lifts
                    => LastEvent' = Lift(items[Len(items)].offset)
               /\ items[Len(items)].item.action \in {"tap", "pause", "wait"}
                    => LastEvent' = Lift(items[Len(items)].offset + items[Len(items)].duration)
    <3>1. index = Len(items)
      BY <2>1, <2>2
    <3> QED
      BY <1>10, <3>1, LastItemEnds DEF Current, Start, Finish
  <2>3. Ended'
    BY <2>1, <2>2 DEF Ended, Lifts
  <2>4. Clock(1)' = Clock(1) /\ items' # <<>> /\ index' # 1
    BY <2>1 DEF Clock, Timely
  <2> QED
    BY <2>3, <2>4 DEF Timely
<1> QED
  <2>1. ASSUME NEW done \in BOOLEAN, SynthesizeEvent(done)
        PROVE  \E how : Answer(how)
    BY <2>1 DEF SynthesizeEvent
  <2>2. RejectRequest \/ RejectFinger \/ RejectItem \/ RejectEmptyChain
        \/ RaiseOnStaleElement \/ RaiseWithoutPath => \E how : Answer(how)
    BY DEF RejectRequest, RejectFinger, RejectItem, RejectEmptyChain, RaiseOnStaleElement,
       RaiseWithoutPath
  <2> QED
    BY <1>4, <1>5, <1>6, <1>7, <1>8, <1>9, <1>10, <2>1, <2>2 DEF Next, Adding

THEOREM TimelyInvariance == Spec => [](TouchInv /\ Timely)
<1>1. Init => Timely
  BY EmptyTypes DEF Init, Timely, Clock
<1>2. TouchInv /\ Timely /\ [Next]_vars => Timely'
  BY TimelyStep
<1> QED
  BY <1>1, <1>2, Invariance, PTL DEF Spec

(* A list that ends with a lift, a tap or a W3C pause, and whose long       *)
(* presses say how long they are, ends with the finger lifted exactly when  *)
(* the durations before add up to that, whatever the items, their number    *)
(* and their durations.                                                     *)
THEOREM FingersAreLiftedInTime == Spec => []LiftedInTime
<1>1. ASSUME TouchInv, Timely
      PROVE  LiftedInTime
  <2> SUFFICES ASSUME pc = "paths", index > Len(items)
               PROVE  LET last == kept[Len(kept)].action
                      IN  /\ last \in Lifts => LastEvent = Lift(TimeOf(Len(kept) - 1))
                          /\ last \in {"tap", "pause"} => LastEvent = Lift(TimeOf(Len(kept)))
    BY DEF LiftedInTime
  <2> DEFINE n == Len(items)
  <2>1. /\ TypeOK /\ Stage /\ Chain /\ Clock(1) = 0 /\ Ended
        /\ n = Len(kept) /\ n \in Nat \ {0}
    <3>1. TypeOK /\ Stage /\ Chain /\ Clock(1) = 0 /\ Ended /\ items # <<>>
      BY <1>1 DEF TouchInv, Timely
    <3>2. n \in Nat \ {0}
      BY <3>1 DEF TypeOK
    <3> QED
      BY <3>1, <3>2 DEF Stage
  <2>2. /\ items[n].item = kept[n]
        /\ items[n].offset + items[n].duration = Clock(n + 1)
        /\ items[n].offset = Clock(n)
    BY <2>1 DEF Chain, Clock
  <2>3. Clock(n + 1) = TimeOf(n)
    BY <2>1, ClockIsTime
  <2>4. Clock(n) = TimeOf(n - 1)
    <3>1. n - 1 \in 0 .. Len(items) /\ (n - 1) + 1 = n
      BY <2>1
    <3>2. Clock((n - 1) + 1) = TimeOf(n - 1)
      BY <2>1, <3>1, ClockIsTime
    <3> QED
      BY <3>1, <3>2
  <2> QED
    BY <2>1, <2>2, <2>3, <2>4 DEF Ended
<1> QED
  BY <1>1, TimelyInvariance, PTL

-----------------------------------------------------------------------------
(* Turned points *)

Landscape == {"landscapeLeft", "landscapeRight"}

(* The points of a screen, and of the interface that is shown on it.        *)
Screen(width, height) == {p \in Point : p.x \in 0 .. width /\ p.y \in 0 .. height}

Interface(width, height, o) ==
  IF o \in Landscape THEN Screen(height, width) ELSE Screen(width, height)

(* A viewport point of a gesture lies on the screen, and every point of the *)
(* screen is meant by exactly one viewport point, in every orientation.     *)
THEOREM PointsFillTheScreen ==
  ASSUME NEW width \in Nat, NEW height \in Nat, NEW o \in Orientation
  PROVE  /\ \A p \in Interface(width, height, o) :
              InvertPointForApplication(p, width, height, o) \in Screen(width, height)
         /\ \A q \in Screen(width, height) : \E p \in Interface(width, height, o) :
              /\ InvertPointForApplication(p, width, height, o) = q
              /\ \A other \in Interface(width, height, o) :
                   InvertPointForApplication(other, width, height, o) = q => other = p
<1> DEFINE turned(p) == InvertPointForApplication(p, width, height, o)
           from(q) == CASE o \in {"unknown", "portrait"} -> q
                        [] o = "upsideDown"     -> At(width - q.x, height - q.y)
                        [] o = "landscapeRight" -> At(height - q.y, q.x)
                        [] o = "landscapeLeft"  -> At(q.y, width - q.x)
<1>1. ASSUME NEW p \in Interface(width, height, o)
      PROVE  turned(p) \in Screen(width, height) /\ from(turned(p)) = p
  BY <1>1 DEF InvertPointForApplication, Interface, Landscape, Screen, Point, At, Orientation
<1>2. ASSUME NEW q \in Screen(width, height)
      PROVE  from(q) \in Interface(width, height, o) /\ turned(from(q)) = q
  BY <1>2 DEF InvertPointForApplication, Interface, Landscape, Screen, Point, At, Orientation
<1> HIDE DEF turned, from
<1>3. ASSUME NEW q \in Screen(width, height)
      PROVE  \E p \in Interface(width, height, o) :
               turned(p) = q /\ \A other \in Interface(width, height, o) : turned(other) = q => other = p
  <2>1. from(q) \in Interface(width, height, o) /\ turned(from(q)) = q
    BY <1>2
  <2>2. \A other \in Interface(width, height, o) : turned(other) = q => other = from(q)
    BY <1>1
  <2> QED
    BY <2>1, <2>2
<1> QED
  BY <1>1, <1>3 DEF turned

(* The point d away from a viewport point, and the point that a pointer     *)
(* move by d leads to from the same place, are the same in portrait and     *)
(* upside down.  In landscape the two moves cancel out: points and offsets  *)
(* are turned in opposite directions (FBMathUtils.m:51 and 66), wherever    *)
(* the gesture is and whatever the size of the screen.                      *)
THEOREM OffsetsTurnAgainstPoints ==
  ASSUME NEW p \in Point, NEW d \in Point, NEW width \in Nat, NEW height \in Nat,
         NEW o \in Orientation
  PROVE  LET turned(q) == InvertPointForApplication(q, width, height, o)
             moved(q) == Plus(q, InvertOffsetForOrientation(d, o))
         IN  IF o \in Landscape
             THEN moved(turned(Plus(p, d))) = turned(p)
             ELSE turned(Plus(p, d)) = moved(turned(p))
BY DEF InvertPointForApplication, InvertOffsetForOrientation, Landscape, Plus, Point, At, Orientation

=============================================================================
