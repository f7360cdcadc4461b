--------------------------- MODULE FBTouchProofs ---------------------------
(***************************************************************************)
(* Theorems about FBTouchActions, for any set of items, any devices and    *)
(* any bounds.  The invariant is TouchInv: the offsets of the chain are    *)
(* sums of durations (Chain), and nothing drawn so far is later than the   *)
(* offset of the item that draws next (Drawn).                             *)
(***************************************************************************)
EXTENDS FBTouchActions, TLAPS

ListItems == IF dialect = "w3c" THEN W3CItem ELSE AppiumItem

(* When item i begins: at its offset, or at the end of the chain. *)
Clock(i) == IF i <= Len(items) THEN items[i].offset ELSE durationOffset

(* What each stage leaves alone. *)
Stage ==
  /\ pc = "preprocess" => left >= 1
  /\ pc \in {"finger", "preprocess", "chain", "paths"} => todo >= 1
  /\ pc \in {"finger", "preprocess"} => items = <<>> /\ durationOffset = 0
  /\ pc \in {"finger", "preprocess", "chain"} => paths = <<>> /\ index = 0
  /\ pc = "chain" => Len(items) <= Len(kept)
  /\ pc = "paths" => Len(items) = Len(kept) /\ index >= 1
  /\ pc # "done" => outcome = "none"

(* The gesture items are those of the list, one after the other in time. *)
Chain ==
  \A i \in 1 .. Len(items) :
    /\ i <= Len(kept)
    /\ items[i].item = kept[i]
    /\ items[i].item.action \in ActionName
    /\ items[i].duration = Duration(items[i].item)
    /\ items[i].offset + items[i].duration = Clock(i + 1)

UpTo(ps, t) ==
  \A k \in DOMAIN ps : \A i \in DOMAIN ps[k] : Timed(ps[k][i]) => ps[k][i].time <= t

(* Nothing drawn is later than the clock, and the first item draws. *)
Drawn ==
  pc = "paths" =>
    /\ index > 1 => paths # <<>>
    /\ UpTo(paths, Clock(index))

TouchInv == TypeOK /\ Stage /\ Chain /\ Drawn /\ EventsInOrder /\ RaisesOnlyFor

-----------------------------------------------------------------------------
(* Types of what an item is given. *)

LEMMA EmptyTypes ==
  /\ <<>> \in Seq(Item) /\ <<>> \in Seq(GestureItem)
  /\ <<>> \in Seq(Seq(Event)) /\ <<>> \in Seq(Seq(Seq(Event)))
  /\ Len(<<>>) = 0
  OBVIOUS

LEMMA BoundTypes ==
  /\ MaxFingers \in Nat /\ MaxItems \in Nat
  /\ 1 .. MaxFingers \subseteq 0 .. MaxFingers /\ MaxItems \in 0 .. MaxItems
<1>1. MaxFingers \in Nat /\ MaxItems \in Nat
  BY TouchAssumption
<1> QED
  BY <1>1

(* A new chain, with nothing drawn, has the types of the variables. *)
LEMMA StartOverTypes ==
  ASSUME StartOver
  PROVE  /\ list' \in Seq(Item) /\ left' \in 0 .. Len(list') /\ skip' \in BOOLEAN
         /\ kept' \in Seq(Item) /\ items' \in Seq(GestureItem) /\ durationOffset' \in Nat
         /\ index' \in 0 .. Len(items') + 1 /\ paths' \in Seq(Seq(Event))
<1>1. list' \in Seq(Item) /\ kept' \in Seq(Item) /\ items' \in Seq(GestureItem)
      /\ paths' \in Seq(Seq(Event))
  BY EmptyTypes DEF StartOver
<1>2. left' \in 0 .. Len(list') /\ index' \in 0 .. Len(items') + 1 /\ durationOffset' \in Nat
  <2>1. left' = 0 /\ Len(list') = 0 /\ Len(items') = 0 /\ index' = 0 /\ durationOffset' = 0
    BY EmptyTypes DEF StartOver
  <2> QED
    BY <2>1
<1>3. skip' \in BOOLEAN
  BY DEF StartOver
<1> QED
  BY <1>1, <1>2, <1>3

LEMMA ListItemsType == ListItems \subseteq Item
  BY TouchAssumption DEF ListItems

LEMMA DurationType ==
  ASSUME NEW it \in Item
  PROVE  Duration(it) \in Int
  BY DEF Duration, Number, Item, FB_TAP_DURATION_MS, FB_INTERTAP_MIN_DURATION_MS,
         FB_LONG_TAP_DURATION_MS

LEMMA InvertPointType ==
  ASSUME NEW p \in Point, NEW w \in Nat, NEW h \in Nat, NEW o \in Orientation
  PROVE  InvertPointForApplication(p, w, h, o) \in Point
  BY DEF InvertPointForApplication, Point, At, Orientation

LEMMA InvertOffsetType ==
  ASSUME NEW p \in Point, NEW o \in Orientation
  PROVE  InvertOffsetForOrientation(p, o) \in Point
  BY DEF InvertOffsetForOrientation, Point, At, Orientation

LEMMA HitPointType ==
  ASSUME TypeOK, NEW it \in Item
  PROVE  HitPointWithElement(it) \in Point
<1>1. device \in DeviceType
  BY TouchAssumption DEF TypeOK
<1>2. Center \in Point /\ Corner \in Point
  BY TouchAssumption DEF Center, Corner, Point, At
<1>3. it.offset \in Point
  BY DEF Item
<1>4. \A p \in Point : Plus(p, it.offset) \in Point
  BY <1>3 DEF Plus, Point, At
<1>5. \A p \in Point : FixedHitPoint(p) \in Point
  <2>1. device.width \in Nat /\ device.height \in Nat /\ device.orientation \in Orientation
    BY <1>1 DEF DeviceType
  <2> QED
    BY <2>1, InvertPointType DEF FixedHitPoint
<1> QED
  BY <1>2, <1>4, <1>5 DEF HitPointWithElement

LEMMA PositionType ==
  ASSUME TypeOK, NEW it \in Item, IsValid(it)
  PROVE  Position(it) \in Point
<1>1. device.width \in Nat /\ device.height \in Nat /\ device.orientation \in Orientation
  BY TouchAssumption DEF TypeOK, DeviceType
<1>2. it.offset \in Point /\ Origin \in Point
  BY DEF Item, Origin, At, Point
<1>3. items # <<>> => RecentPosition \in Point
  <2>1. items # <<>> => items[Len(items)] \in GestureItem
    BY DEF TypeOK
  <2> QED
    BY <2>1 DEF RecentPosition, GestureItem
<1>4. CASE ~HasAbsolutePositioning(it)
  BY <1>3, <1>4 DEF IsValid, Position
<1>5. CASE HasAbsolutePositioning(it) /\ it.origin = "element"
  BY <1>5, HitPointType DEF Position, OwnPosition
<1>6. CASE HasAbsolutePositioning(it) /\ it.origin = "pointer"
  <2>1. items # <<>>
    BY <1>6 DEF IsValid, IsPlaced
  <2> DEFINE turned == InvertOffsetForOrientation(IF it.xy = "none" THEN Origin ELSE it.offset,
                                                   device.orientation)
  <2>2. turned \in Point
    BY <1>1, <1>2, InvertOffsetType
  <2>3. Position(it) = Plus(RecentPosition, turned)
    BY <1>6 DEF Position, OwnPosition
  <2> QED
    BY <1>3, <2>1, <2>2, <2>3 DEF Plus, Point, At
<1>7. CASE HasAbsolutePositioning(it) /\ it.origin = "viewport"
  BY <1>1, <1>2, <1>7, InvertPointType DEF Position, OwnPosition
<1>8. HasAbsolutePositioning(it) => it.origin \in {"element", "pointer", "viewport"}
  BY DEF IsValid, IsPlaced
<1> QED
  BY <1>4, <1>5, <1>6, <1>7, <1>8

-----------------------------------------------------------------------------
(* What one item draws.                                                     *)

(* The events of ps follow each other in time, as EventsInOrder has it. *)
InOrder(ps) ==
  \A k, l \in DOMAIN ps :
    \A i \in DOMAIN ps[k], j \in DOMAIN ps[l] :
      /\ k < l \/ (k = l /\ i < j)
      /\ Timed(ps[k][i]) /\ Timed(ps[l][j])
      => ps[k][i].time <= ps[l][j].time

(* They all lie between t and u. *)
Within(ps, t, u) ==
  \A k \in DOMAIN ps : \A i \in DOMAIN ps[k] :
    Timed(ps[k][i]) => t <= ps[k][i].time /\ ps[k][i].time <= u

(* When the current item begins and ends. *)
Start == Current.offset
Finish == Current.offset + Current.duration

(* The three things an item can do: nothing, draw on the current path at    *)
(* its offset, or open paths that last no longer than itself.               *)
Emits ==
  \/ paths # <<>> /\ UNCHANGED paths
  \/ paths # <<>> /\ \E e \in Event : Draw(e) /\ e.time = Start
  \/ \E new \in Seq(Seq(Event)) :
       /\ Open(new)
       /\ new # <<>>
       /\ InOrder(new)
       /\ Within(new, Start, Finish)

Adding ==
  PointerMove \/ PointerDown \/ Pause \/ LiftUp \/ Tap \/ PressDown \/ MoveTo

LEMMA EventTypes ==
  ASSUME NEW p \in Point, NEW t \in Int
  PROVE  /\ Touch(p, t) \in Event /\ Touch(p, t).time = t
         /\ Move(p, t) \in Event /\ Move(p, t).time = t
         /\ Lift(t) \in Event /\ Lift(t).time = t
         /\ Press(t) \in Event /\ Press(t).time = t /\ Press(t).kind = "pressure"
  BY DEF Touch, Move, Lift, Press, Event

LEMMA TimeType == \A e \in Event : e.time \in Int
  BY DEF Event

(* Short sequences. *)
LEMMA Singles ==
  ASSUME NEW S, NEW s \in S
  PROVE  <<s>> \in Seq(S) /\ <<s>> # <<>> /\ DOMAIN <<s>> = {1} /\ <<s>>[1] = s
  OBVIOUS

LEMMA Pairs ==
  ASSUME NEW S, NEW s \in S, NEW r \in S
  PROVE  /\ <<s, r>> \in Seq(S) /\ DOMAIN <<s, r>> = {1, 2}
         /\ <<s, r>>[1] = s /\ <<s, r>>[2] = r
  OBVIOUS

(* A path of a touch and, perhaps, one more event at the same time. *)
LEMMA ShortPath ==
  ASSUME NEW p \in Point, NEW t \in Int, NEW a \in Int, NEW b \in Int, a <= t, t <= b,
         NEW path,
         \/ path = <<Touch(p, t)>>
         \/ \E e \in Event : path = <<Touch(p, t), e>> /\ (Timed(e) => e.time = t)
  PROVE  /\ <<path>> \in Seq(Seq(Event)) /\ <<path>> # <<>>
         /\ InOrder(<<path>>) /\ Within(<<path>>, a, b)
<1>1. Touch(p, t) \in Event /\ Touch(p, t).time = t
  BY EventTypes
<1>2. /\ path \in Seq(Event) /\ DOMAIN path \in {{1}, {1, 2}}
      /\ \A i \in DOMAIN path : Timed(path[i]) => path[i].time = t
  <2>1. CASE path = <<Touch(p, t)>>
    <3>1. path \in Seq(Event) /\ DOMAIN path = {1} /\ path[1] = Touch(p, t)
      BY <1>1, <2>1, Singles
    <3> QED
      BY <1>1, <3>1
  <2>2. ASSUME NEW e \in Event, path = <<Touch(p, t), e>>, Timed(e) => e.time = t
        PROVE  /\ path \in Seq(Event) /\ DOMAIN path \in {{1}, {1, 2}}
               /\ \A i \in DOMAIN path : Timed(path[i]) => path[i].time = t
    <3>1. path \in Seq(Event) /\ DOMAIN path = {1, 2} /\ path[1] = Touch(p, t) /\ path[2] = e
      BY <1>1, <2>2, Pairs
    <3> QED
      BY <1>1, <2>2, <3>1
  <2> QED
    BY <2>1, <2>2
<1>3. <<path>> \in Seq(Seq(Event)) /\ <<path>> # <<>> /\ DOMAIN <<path>> = {1} /\ <<path>>[1] = path
  BY <1>2, Singles
<1>4. InOrder(<<path>>)
  BY <1>2, <1>3 DEF InOrder
<1>5. Within(<<path>>, a, b)
  BY <1>2, <1>3 DEF Within
<1> QED
  BY <1>3, <1>4, <1>5

(* The taps of one item. *)
LEMMA TapCount ==
  ASSUME TypeOK, Chain, index \in 1 .. Len(items), Current.item.action = "tap"
  PROVE  /\ Number(Current.item, 1) \in Nat \ {0}
         /\ Finish = Current.offset + 140 * Number(Current.item, 1) - 40
<1>1. Current \in GestureItem /\ Current.duration = Duration(Current.item)
  BY DEF TypeOK, Chain, Current
<1>2. Current.item \in Item /\ Current.duration \in Nat /\ Current.offset \in Int
  BY <1>1 DEF GestureItem
<1>3. Number(Current.item, 1) \in Int
  BY <1>2 DEF Number, Item
<1>4. Current.duration = 100 * Number(Current.item, 1) + 40 * (Number(Current.item, 1) - 1)
  BY <1>1 DEF Duration, FB_TAP_DURATION_MS, FB_INTERTAP_MIN_DURATION_MS
<1> QED
  BY <1>2, <1>3, <1>4 DEF Finish

LEMMA CurrentType ==
  ASSUME TypeOK, index \in 1 .. Len(items)
  PROVE  /\ Current.item \in Item /\ Current.at \in Point
         /\ Current.offset \in Int /\ Current.duration \in Nat
<1>1. Current \in GestureItem
  BY DEF TypeOK, Current
<1> QED
  BY <1>1 DEF GestureItem

LEMMA AddingEmits ==
  ASSUME TypeOK, Stage, Chain, Adding
  PROVE  Emits
<1>1. pc = "paths" /\ index \in 1 .. Len(items)
  BY DEF Adding, PointerMove, PointerDown, Pause, LiftUp, Tap, PressDown, MoveTo, Adds,
         Stage, TypeOK
<1>2. /\ Current.item \in Item /\ Current.at \in Point
      /\ Current.offset \in Int /\ Current.duration \in Nat
  BY <1>1, CurrentType
<1>3. Start \in Int /\ Finish \in Int /\ Start <= Finish
  BY <1>2 DEF Start, Finish
<1>4. ASSUME NEW path, Open(<<path>>), NEW t \in Int, Start <= t, t <= Finish,
             \/ path = <<Touch(Current.at, t)>>
             \/ \E e \in Event : path = <<Touch(Current.at, t), e>> /\ (Timed(e) => e.time = t)
      PROVE  Emits
  <2>1. /\ <<path>> \in Seq(Seq(Event)) /\ <<path>> # <<>>
        /\ InOrder(<<path>>) /\ Within(<<path>>, Start, Finish)
    BY <1>2, <1>3, <1>4, ShortPath
  <2> QED
    BY <1>4, <2>1 DEF Emits
<1>a. CASE PointerMove
  <2>1. CASE paths = <<>>
    BY <1>3, <1>4, <1>a, <2>1 DEF PointerMove, Finish
  <2>2. CASE paths # <<>>
    BY <1>2, <1>a, <2>2, EventTypes DEF PointerMove, Emits, Start
  <2> QED
    BY <2>1, <2>2
<1>b. CASE PointerDown
  <2>1. CASE IsDownAlready
    BY <1>b, <2>1 DEF PointerDown, IsDownAlready, Emits
  <2>2. CASE ~IsDownAlready
    <3> DEFINE path == IF Current.item.pressure
                       THEN <<Touch(Current.at, Start), Press(Start)>>
                       ELSE <<Touch(Current.at, Start)>>
    <3>1. \/ path = <<Touch(Current.at, Start)>>
          \/ \E e \in Event : path = <<Touch(Current.at, Start), e>> /\ (Timed(e) => e.time = Start)
      BY <1>2, <1>3, EventTypes
    <3>2. Open(<<path>>)
      BY <1>b, <2>2 DEF PointerDown, Start
    <3> HIDE DEF path
    <3> QED
      BY <1>2, <1>3, <1>4, <3>1, <3>2
  <2> QED
    BY <2>1, <2>2
<1>c. CASE Pause
  <2>1. CASE OnlyWaits
    BY <1>c, <2>1 DEF Pause, OnlyWaits, Emits
  <2>2. CASE ~OnlyWaits
    <3> DEFINE path == IF IsLast THEN <<Touch(Current.at, Finish), Lift(Finish)>>
                                 ELSE <<Touch(Current.at, Finish)>>
    <3>1. \/ path = <<Touch(Current.at, Finish)>>
          \/ \E e \in Event : path = <<Touch(Current.at, Finish), e>> /\ (Timed(e) => e.time = Finish)
      BY <1>2, <1>3, EventTypes
    <3>2. Open(<<path>>)
      BY <1>c, <2>2 DEF Pause, Finish
    <3> HIDE DEF path
    <3> QED
      BY <1>2, <1>3, <1>4, <3>1, <3>2
  <2> QED
    BY <2>1, <2>2
<1>d. CASE LiftUp
  BY <1>2, <1>d, EventTypes DEF LiftUp, Emits, Start
<1>e. CASE Tap
  <2> DEFINE count == Number(Current.item, 1)
             start(n) == Current.offset + (n - 1) * (FB_TAP_DURATION_MS + FB_INTERTAP_MIN_DURATION_MS)
             new == [n \in 1 .. count |->
                       <<Touch(Current.at, start(n)), Lift(start(n) + FB_TAP_DURATION_MS)>>]
  <2>1. count \in Nat \ {0} /\ Finish = Current.offset + 140 * count - 40
    BY <1>1, <1>e, TapCount DEF Tap, Adds
  <2>2. \A n \in 1 .. count :
          /\ start(n) \in Int
          /\ start(n) = Current.offset + 140 * (n - 1)
          /\ start(n) + FB_TAP_DURATION_MS = Current.offset + 140 * (n - 1) + 100
    BY <1>2, <2>1 DEF FB_TAP_DURATION_MS, FB_INTERTAP_MIN_DURATION_MS
  <2>3. Open(new)
    BY <1>e DEF Tap
  <2> HIDE DEF start
  <2>4. \A n \in 1 .. count :
          /\ new[n] \in Seq(Event) /\ DOMAIN new[n] = {1, 2}
          /\ new[n][1].time = Current.offset + 140 * (n - 1)
          /\ new[n][2].time = Current.offset + 140 * (n - 1) + 100
    <3> SUFFICES ASSUME NEW n \in 1 .. count
                 PROVE  /\ new[n] \in Seq(Event) /\ DOMAIN new[n] = {1, 2}
                        /\ new[n][1].time = Current.offset + 140 * (n - 1)
                        /\ new[n][2].time = Current.offset + 140 * (n - 1) + 100
      OBVIOUS
    <3>1. start(n) \in Int /\ start(n) + FB_TAP_DURATION_MS \in Int
      BY <2>2 DEF FB_TAP_DURATION_MS
    <3>2. /\ Touch(Current.at, start(n)) \in Event
          /\ Touch(Current.at, start(n)).time = start(n)
          /\ Lift(start(n) + FB_TAP_DURATION_MS) \in Event
          /\ Lift(start(n) + FB_TAP_DURATION_MS).time = start(n) + FB_TAP_DURATION_MS
      BY <1>2, <3>1, EventTypes
    <3>3. new[n] = <<Touch(Current.at, start(n)), Lift(start(n) + FB_TAP_DURATION_MS)>>
      OBVIOUS
    <3> QED
      BY <2>2, <3>2, <3>3
  <2>5. DOMAIN new = 1 .. count
    OBVIOUS
  <2> HIDE DEF new
  <2>6. new \in Seq(Seq(Event)) /\ new # <<>>
    <3>1. new \in [1 .. count -> Seq(Event)]
      BY <2>4, <2>5 DEF new
    <3> QED
      BY <2>1, <2>5, <3>1
  <2>7. InOrder(new) /\ Within(new, Start, Finish)
    <3>1. \A n \in DOMAIN new, i \in {1, 2} :
            new[n][i].time = Current.offset + 140 * (n - 1) + (IF i = 1 THEN 0 ELSE 100)
      BY <1>2, <2>4, <2>5
    <3>2. \A n \in DOMAIN new : \A i \in DOMAIN new[n] :
            Start <= new[n][i].time /\ new[n][i].time <= Finish
      <4> SUFFICES ASSUME NEW n \in 1 .. count, NEW i \in {1, 2}
                   PROVE  Start <= new[n][i].time /\ new[n][i].time <= Finish
        BY <2>4, <2>5
      <4>1. new[n][i].time = Current.offset + 140 * (n - 1) + (IF i = 1 THEN 0 ELSE 100)
        BY <2>5, <3>1
      <4> QED
        BY <1>2, <2>1, <4>1 DEF Start
    <3>3. \A n, m \in 1 .. count : \A i, j \in {1, 2} :
            n < m \/ (n = m /\ i < j) => new[n][i].time <= new[m][j].time
      <4> SUFFICES ASSUME NEW n \in 1 .. count, NEW m \in 1 .. count,
                          NEW i \in {1, 2}, NEW j \in {1, 2}, n < m \/ (n = m /\ i < j)
                   PROVE  new[n][i].time <= new[m][j].time
        OBVIOUS
      <4>1. /\ new[n][i].time = Current.offset + 140 * (n - 1) + (IF i = 1 THEN 0 ELSE 100)
            /\ new[m][j].time = Current.offset + 140 * (m - 1) + (IF j = 1 THEN 0 ELSE 100)
        BY <2>5, <3>1
      <4> QED
        BY <1>2, <2>1, <4>1
    <3>4. Within(new, Start, Finish)
      BY <3>2 DEF Within
    <3>5. InOrder(new)
      BY <2>4, <2>5, <3>3 DEF InOrder
    <3> QED
      BY <3>4, <3>5
  <2> QED
    BY <2>3, <2>6, <2>7 DEF Emits
<1>f. CASE PressDown
  <2>1. dialect = "appium"
    <3>1. Current.item.action \in {"press", "longPress"} /\ Current.item.action \in ActionName
      BY <1>1, <1>f DEF PressDown, Adds, Chain, Current
    <3> QED
      BY <3>1 DEF ActionName, TypeOK, Dialect
  <2> DEFINE path == IF Current.item.action = "press" /\ Current.item.pressure
                     THEN <<Touch(Current.at, Start), Press(1000 * Start)>>
                     ELSE <<Touch(Current.at, Start)>>
  <2>2. \/ path = <<Touch(Current.at, Start)>>
        \/ \E e \in Event : path = <<Touch(Current.at, Start), e>> /\ (Timed(e) => e.time = Start)
    <3>1. 1000 * Start \in Int
      BY <1>3
    <3>2. Press(1000 * Start) \in Event /\ ~Timed(Press(1000 * Start))
      BY <1>2, <2>1, <3>1, EventTypes DEF Timed
    <3> QED
      BY <3>2
  <2>3. Open(<<path>>)
    BY <1>f DEF PressDown, Start
  <2> HIDE DEF path
  <2> QED
    BY <1>2, <1>3, <1>4, <2>2, <2>3
<1>g. CASE MoveTo
  BY <1>2, <1>g, EventTypes DEF MoveTo, Emits, Start
<1> QED
  BY <1>a, <1>b, <1>c, <1>d, <1>e, <1>f, <1>g DEF Adding

-----------------------------------------------------------------------------
LEMMA OrderOfPaths ==
  ASSUME NEW ps, NEW n, DOMAIN ps = 1 .. n,
         \A k, l \in 1 .. n : \A i \in DOMAIN ps[k], j \in DOMAIN ps[l] :
           /\ k < l \/ (k = l /\ i < j)
           /\ Timed(ps[k][i]) /\ Timed(ps[l][j])
           => ps[k][i].time <= ps[l][j].time
  PROVE  InOrder(ps)
  BY DEF InOrder

(* Paths stay in order when an event is drawn at the end of the last one... *)
LEMMA DrawKeepsOrder ==
  ASSUME NEW ps \in Seq(Seq(Event)), ps # <<>>, InOrder(ps),
         NEW e \in Event, UpTo(ps, e.time),
         NEW qs, qs = [ps EXCEPT ![Len(ps)] = Append(@, e)]
  PROVE  qs \in Seq(Seq(Event)) /\ qs # <<>> /\ InOrder(qs) /\ UpTo(qs, e.time)
<1> DEFINE n == Len(ps)
           end == Len(ps[n]) + 1
<1>1. n \in Nat \ {0} /\ DOMAIN ps = 1 .. n /\ n \in 1 .. n /\ ps[n] \in Seq(Event)
  OBVIOUS
<1>2. Append(ps[n], e) \in Seq(Event)
  BY <1>1
<1>3. qs \in Seq(Seq(Event)) /\ qs # <<>> /\ DOMAIN qs = 1 .. n
  BY <1>1, <1>2
<1>4. /\ qs[n] = Append(ps[n], e)
      /\ \A k \in 1 .. n : k # n => qs[k] = ps[k]
  BY <1>1
<1>5. /\ DOMAIN qs[n] = 1 .. end /\ qs[n][end] = e /\ end \in Nat \ {0}
      /\ DOMAIN ps[n] = 1 .. (end - 1)
      /\ \A i \in 1 .. end : i # end => i \in DOMAIN ps[n] /\ qs[n][i] = ps[n][i]
  <2> DEFINE path == ps[n]
  <2>1. path \in Seq(Event) /\ qs[n] = Append(path, e)
    BY <1>1, <1>4
  <2> HIDE DEF path
  <2>2. /\ Len(path) \in Nat /\ DOMAIN path = 1 .. Len(path)
        /\ DOMAIN Append(path, e) = 1 .. (Len(path) + 1)
        /\ Append(path, e)[Len(path) + 1] = e
        /\ \A i \in 1 .. Len(path) : Append(path, e)[i] = path[i]
    BY <2>1
  <2>3. end = Len(path) + 1 /\ ps[n] = path
    BY DEF path
  <2> QED
    BY <2>1, <2>2, <2>3
<1> HIDE DEF end, n
<1>6. \A k \in 1 .. n : \A i \in DOMAIN qs[k] :
        \/ k = n /\ i = end /\ qs[k][i] = e
        \/ i \in DOMAIN ps[k] /\ qs[k][i] = ps[k][i] /\ (k = n => i < end)
  <2> SUFFICES ASSUME NEW k \in 1 .. n, NEW i \in DOMAIN qs[k]
               PROVE  \/ k = n /\ i = end /\ qs[k][i] = e
                      \/ i \in DOMAIN ps[k] /\ qs[k][i] = ps[k][i] /\ (k = n => i < end)
    OBVIOUS
  <2>1. CASE k = n
    BY <1>5, <2>1
  <2>2. CASE k # n
    BY <1>4, <2>2
  <2> QED
    BY <2>1, <2>2
<1>7. UpTo(qs, e.time)
  <2> SUFFICES ASSUME NEW k \in 1 .. n, NEW i \in DOMAIN qs[k], Timed(qs[k][i])
               PROVE  qs[k][i].time <= e.time
    BY <1>3, Zenon DEF UpTo
  <2>1. CASE k = n /\ i = end /\ qs[k][i] = e
    BY <2>1, TimeType
  <2>2. CASE i \in DOMAIN ps[k] /\ qs[k][i] = ps[k][i]
    BY <1>1, <2>2 DEF UpTo
  <2> QED
    BY <1>6, <2>1, <2>2
<1>8. InOrder(qs)
  <2> SUFFICES ASSUME NEW k \in 1 .. n, NEW l \in 1 .. n,
                      NEW i \in DOMAIN qs[k], NEW j \in DOMAIN qs[l],
                      k < l \/ (k = l /\ i < j), Timed(qs[k][i]), Timed(qs[l][j])
               PROVE  qs[k][i].time <= qs[l][j].time
    BY <1>3, OrderOfPaths
  <2>1. CASE l = n /\ j = end /\ qs[l][j] = e
    BY <1>3, <1>7, <2>1 DEF UpTo
  <2>2. CASE j \in DOMAIN ps[l] /\ qs[l][j] = ps[l][j] /\ (l = n => j < end)
    <3>1. i \in DOMAIN ps[k] /\ qs[k][i] = ps[k][i]
      <4>1. CASE k = n /\ i = end
        <5>1. l = n /\ j < end /\ i < j
          BY <1>1, <2>2, <4>1
        <5> QED
          BY <1>5, <2>2, <4>1, <5>1
      <4>2. CASE ~(k = n /\ i = end)
        BY <1>6, <4>2
      <4> QED
        BY <4>1, <4>2
    <3> QED
      BY <1>1, <2>2, <3>1 DEF InOrder
  <2> QED
    BY <1>6, <2>1, <2>2
<1> QED
  BY <1>3, <1>7, <1>8

(* ... and when paths that begin no earlier follow. *)
LEMMA OpenKeepsOrder ==
  ASSUME NEW ps \in Seq(Seq(Event)), InOrder(ps), NEW t \in Int, UpTo(ps, t),
         NEW new \in Seq(Seq(Event)), new # <<>>, InOrder(new),
         NEW u \in Int, t <= u, Within(new, t, u)
  PROVE  /\ ps \o new \in Seq(Seq(Event)) /\ ps \o new # <<>>
         /\ InOrder(ps \o new) /\ UpTo(ps \o new, u)
<1> DEFINE n == Len(ps)
           m == Len(new)
           qs == ps \o new
<1>1. /\ n \in Nat /\ m \in Nat \ {0} /\ DOMAIN ps = 1 .. n /\ DOMAIN new = 1 .. m
      /\ qs \in Seq(Seq(Event)) /\ qs # <<>> /\ DOMAIN qs = 1 .. (n + m)
  OBVIOUS
<1>2. \A k \in 1 .. (n + m) :
        \/ k \in 1 .. n /\ qs[k] = ps[k]
        \/ k > n /\ k - n \in 1 .. m /\ qs[k] = new[k - n]
  OBVIOUS
<1>3. \A k \in 1 .. n : ps[k] \in Seq(Event)
  BY <1>1
<1>4. \A k \in 1 .. m : new[k] \in Seq(Event)
  BY <1>1
<1> HIDE DEF qs, n, m
<1>5. ASSUME NEW k \in 1 .. n, NEW i \in DOMAIN ps[k], Timed(ps[k][i])
      PROVE  ps[k][i].time \in Int /\ ps[k][i].time <= t
  <2>1. ps[k][i] \in Event
    BY <1>3
  <2> QED
    BY <1>1, <1>5, <2>1, TimeType DEF UpTo
<1>6. ASSUME NEW k \in 1 .. m, NEW i \in DOMAIN new[k], Timed(new[k][i])
      PROVE  new[k][i].time \in Int /\ t <= new[k][i].time /\ new[k][i].time <= u
  <2>1. new[k][i] \in Event
    BY <1>4
  <2> QED
    BY <1>1, <1>6, <2>1, TimeType DEF Within
<1>7. UpTo(qs, u)
  <2> SUFFICES ASSUME NEW k \in 1 .. (n + m), NEW i \in DOMAIN qs[k], Timed(qs[k][i])
               PROVE  qs[k][i].time <= u
    BY <1>1, Zenon DEF UpTo
  <2>2. CASE k - n \in 1 .. m /\ qs[k] = new[k - n]
    BY <1>6, <2>2
  <2> QED
    <3>1. CASE k \in 1 .. n /\ qs[k] = ps[k]
      <4>1. ps[k][i].time <= t
        BY <1>5, <3>1
      <4>2. ps[k][i].time \in Int
        BY <1>5, <3>1
      <4> QED
        BY <3>1, <4>1, <4>2
    <3>2. CASE k > n /\ k - n \in 1 .. m /\ qs[k] = new[k - n]
      BY <2>2, <3>2
    <3> QED
      BY <1>2, <3>1, <3>2
<1>8. InOrder(qs)
  <2> SUFFICES ASSUME NEW k \in 1 .. (n + m), NEW l \in 1 .. (n + m),
                      NEW i \in DOMAIN qs[k], NEW j \in DOMAIN qs[l],
                      k < l \/ (k = l /\ i < j), Timed(qs[k][i]), Timed(qs[l][j])
               PROVE  qs[k][i].time <= qs[l][j].time
    BY <1>1 DEF InOrder
  <2>1. CASE k \in 1 .. n /\ qs[k] = ps[k] /\ l \in 1 .. n /\ qs[l] = ps[l]
    BY <1>1, <2>1 DEF InOrder
  <2>2. CASE k \in 1 .. n /\ qs[k] = ps[k] /\ l - n \in 1 .. m /\ qs[l] = new[l - n]
    <3>1. ps[k][i].time \in Int /\ ps[k][i].time <= t
      BY <1>5, <2>2
    <3>2. new[l - n][j].time \in Int /\ t <= new[l - n][j].time
      BY <1>6, <2>2
    <3> QED
      BY <2>2, <3>1, <3>2
  <2>3. CASE k > n /\ k - n \in 1 .. m /\ qs[k] = new[k - n] /\ l > n /\ l - n \in 1 .. m /\ qs[l] = new[l - n]
    <3>1. k - n < l - n \/ (k - n = l - n /\ i < j)
      BY <1>1
    <3> QED
      BY <1>1, <2>3, <3>1 DEF InOrder
  <2>4. ~(k > n /\ l \in 1 .. n)
    BY <1>1
  <2> QED
    BY <1>2, <2>1, <2>2, <2>3, <2>4
<1> QED
  BY <1>1, <1>7, <1>8 DEF qs

-----------------------------------------------------------------------------
(* The invariant.                                                           *)

LEMMA Beginning ==
  ASSUME Init
  PROVE  TouchInv
<1>1. TypeOK
  <2>1. /\ list \in Seq(Item) /\ kept \in Seq(Item) /\ items \in Seq(GestureItem)
        /\ paths \in Seq(Seq(Event)) /\ record \in Seq(Seq(Seq(Event)))
    BY EmptyTypes DEF Init
  <2>2. /\ left \in 0 .. Len(list) /\ index \in 0 .. Len(items) + 1 /\ durationOffset \in Nat
    <3>1. /\ Len(list) = 0 /\ Len(items) = 0
          /\ left = 0 /\ index = 0 /\ durationOffset = 0
      BY EmptyTypes DEF Init
    <3> QED
      BY <3>1
  <2>3. todo \in 0 .. MaxFingers /\ room \in 0 .. MaxItems
    BY BoundTypes DEF Init
  <2>4. dialect \in Dialect /\ device \in Device /\ pc = "finger" /\ outcome = "none"
    BY DEF Init
  <2>5. skip \in BOOLEAN
    BY DEF Init
  <2> QED
    BY <2>1, <2>2, <2>3, <2>4, <2>5 DEF TypeOK
<1>2. Stage
  BY BoundTypes DEF Init, Stage
<1>3. Chain /\ Drawn /\ EventsInOrder /\ RaisesOnlyFor
  BY DEF Init, Chain, Drawn, EventsInOrder, RaisesOnlyFor
<1> QED
  BY <1>1, <1>2, <1>3 DEF TouchInv

(* The offsets are those of the chain. *)
LEMMA ClockFacts ==
  ASSUME TypeOK, Chain, index \in 1 .. Len(items)
  PROVE  /\ Start \in Int /\ Finish \in Int /\ Start <= Finish
         /\ Start = Clock(index) /\ Finish = Clock(index + 1)
<1>1. Current.offset \in Int /\ Current.duration \in Nat
  BY CurrentType
<1>2. items[index].offset + items[index].duration = Clock(index + 1)
  BY DEF Chain
<1>3. Clock(index) = items[index].offset
  BY DEF Clock
<1> QED
  BY <1>1, <1>2, <1>3 DEF Start, Finish, Current

LEMMA AddingStep ==
  ASSUME TouchInv, Adding
  PROVE  TouchInv'
<1>1. TypeOK /\ Stage /\ Chain /\ Drawn /\ InOrder(paths) /\ RaisesOnlyFor
  BY DEF TouchInv, EventsInOrder, InOrder
<1>2. /\ pc = "paths" /\ index \in 1 .. Len(items) /\ index' = index + 1
      /\ UNCHANGED <<requestVars, pc, todo, room, listVars, chainVars, record, outcome>>
  BY <1>1 DEF Adding, PointerMove, PointerDown, Pause, LiftUp, Tap, PressDown, MoveTo, Adds,
     Stage, TypeOK
<1>3. UpTo(paths, Start) /\ Start \in Int /\ Finish \in Int /\ Start <= Finish
  BY <1>1, <1>2, ClockFacts DEF Drawn
<1>4. paths' \in Seq(Seq(Event)) /\ paths' # <<>> /\ InOrder(paths') /\ UpTo(paths', Finish)
  <2>1. Emits /\ paths \in Seq(Seq(Event))
    BY <1>1, AddingEmits DEF TypeOK
  <2>2. \A ps \in Seq(Seq(Event)) : UpTo(ps, Start) => UpTo(ps, Finish)
    <3> SUFFICES ASSUME NEW ps \in Seq(Seq(Event)), UpTo(ps, Start),
                        NEW k \in DOMAIN ps, NEW i \in DOMAIN ps[k], Timed(ps[k][i])
                 PROVE  ps[k][i].time <= Finish
      BY DEF UpTo
    <3>1. ps[k][i] \in Event
      OBVIOUS
    <3>2. ps[k][i].time \in Int /\ ps[k][i].time <= Start
      BY <3>1, TimeType DEF UpTo
    <3> QED
      BY <1>3, <3>2
  <2>3. CASE paths # <<>> /\ UNCHANGED paths
    BY <1>1, <1>3, <2>1, <2>2, <2>3
  <2>4. ASSUME paths # <<>>, NEW e \in Event, Draw(e), e.time = Start
        PROVE  /\ paths' \in Seq(Seq(Event)) /\ paths' # <<>>
               /\ InOrder(paths') /\ UpTo(paths', Finish)
    <3>1. /\ paths' \in Seq(Seq(Event)) /\ paths' # <<>>
          /\ InOrder(paths') /\ UpTo(paths', Start)
      BY <1>1, <1>3, <2>1, <2>4, DrawKeepsOrder DEF Draw
    <3> QED
      BY <2>2, <3>1
  <2>5. ASSUME NEW new \in Seq(Seq(Event)), Open(new), new # <<>>, InOrder(new),
               Within(new, Start, Finish)
        PROVE  /\ paths' \in Seq(Seq(Event)) /\ paths' # <<>>
               /\ InOrder(paths') /\ UpTo(paths', Finish)
    BY <1>1, <1>3, <2>1, <2>5, OpenKeepsOrder DEF Open
  <2> QED
    BY <2>1, <2>3, <2>4, <2>5 DEF Emits
<1>5. TypeOK'
  BY <1>1, <1>2, <1>4 DEF TypeOK, requestVars, listVars, chainVars
<1>6. Stage'
  BY <1>1, <1>2 DEF Stage, TypeOK, requestVars, listVars, chainVars
<1>7. Chain'
  BY <1>1, <1>2 DEF Chain, Clock, Duration, Number, ActionName, requestVars, listVars, chainVars
<1>8. Drawn'
  <2>1. UpTo(paths', Clock(index'))
    BY <1>1, <1>2, <1>4, ClockFacts
  <2> QED
    BY <1>2, <1>4, <2>1 DEF Drawn, UpTo, Timed, Clock, requestVars, chainVars
<1>9. EventsInOrder'
  BY <1>2, <1>4 DEF EventsInOrder, InOrder, Timed, requestVars
<1>10. RaisesOnlyFor'
  BY <1>1, <1>2 DEF RaisesOnlyFor, requestVars, listVars
<1> QED
  BY <1>5, <1>6, <1>7, <1>8, <1>9, <1>10 DEF TouchInv

-----------------------------------------------------------------------------
(* The steps that draw nothing. *)

(* An answer changes the stage only. *)
LEMMA AnswerStep ==
  ASSUME TouchInv, NEW how, Answer(how), how \in {"ok", "error", "raised"},
         how = "raised" => RaisesOnlyFor'
  PROVE  TouchInv'
<1>1. TypeOK'
  BY DEF TouchInv, Answer, TypeOK, requestVars, listVars, chainVars, pathVars
<1>2. Stage' /\ Drawn'
  BY DEF Answer, Stage, Drawn
<1>3. Chain'
  BY DEF TouchInv, Answer, Chain, Clock, Duration, Number, ActionName, requestVars, listVars,
         chainVars
<1>4. EventsInOrder'
  BY DEF TouchInv, Answer, EventsInOrder, Timed, requestVars, pathVars
<1>5. RaisesOnlyFor'
  BY DEF Answer, RaisesOnlyFor
<1> QED
  BY <1>1, <1>2, <1>3, <1>4, <1>5 DEF TouchInv

(* Without items and paths there is nothing to be in order. *)
LEMMA NothingDrawn ==
  ASSUME items' = <<>>, paths' = <<>>, pc' # "paths", outcome' # "raised"
  PROVE  Chain' /\ Drawn' /\ EventsInOrder' /\ RaisesOnlyFor'
  BY DEF Chain, Drawn, EventsInOrder, RaisesOnlyFor

LEMMA ReadStep ==
  ASSUME TouchInv, ReadFinger
  PROVE  TouchInv'
<1>1. /\ TypeOK /\ Stage /\ pc = "finger" /\ outcome = "none" /\ outcome' = "none"
      /\ items' = <<>> /\ paths' = <<>> /\ pc' \in {"chain", "preprocess"}
  BY DEF TouchInv, ReadFinger, Stage, chainVars, pathVars
<1>2. PICK l \in Lists(room) :
        /\ list' = l /\ left' = Len(l) /\ room' = room - Len(l)
        /\ pc' = IF l = <<>> THEN "chain" ELSE "preprocess"
  BY DEF ReadFinger
<1>3. l \in Seq(Item) /\ Len(l) \in 0 .. room
  <2>1. PICK k \in 0 .. room : l \in [1 .. k -> ListItems]
    BY DEF Lists, ListItems
  <2>2. k \in Nat /\ l \in [1 .. k -> Item]
    BY <1>1, <2>1, ListItemsType DEF TypeOK
  <2> QED
    BY <2>1, <2>2
<1>4. TypeOK'
  <2>1. room \in Nat /\ Len(l) \in Nat /\ room - Len(l) \in 0 .. MaxItems
    BY <1>1, <1>3, BoundTypes DEF TypeOK
  <2>2. list' \in Seq(Item) /\ left' \in 0 .. Len(list') /\ room' \in 0 .. MaxItems
    BY <1>2, <1>3, <2>1
  <2>3. kept' \in Seq(Item) /\ skip' \in BOOLEAN
    BY EmptyTypes DEF ReadFinger
  <2>4. UNCHANGED <<requestVars, todo, chainVars, pathVars, record, outcome>>
    BY DEF ReadFinger
  <2> QED
    BY <1>1, <2>2, <2>3, <2>4 DEF TypeOK, requestVars, chainVars, pathVars
<1>5. Stage'
  BY <1>1, <1>2, <1>3 DEF TypeOK, ReadFinger, Stage, chainVars, pathVars
<1> QED
  BY <1>1, <1>4, <1>5, NothingDrawn DEF TouchInv

LEMMA PreprocessStep ==
  ASSUME TouchInv, PreprocessItem
  PROVE  TouchInv'
<1>1. /\ TypeOK /\ Stage /\ pc = "preprocess" /\ outcome' = "none"
      /\ items' = <<>> /\ paths' = <<>> /\ pc' \in {"chain", "preprocess"}
      /\ left >= 1
  BY DEF TouchInv, PreprocessItem, Stage, chainVars, pathVars
<1>2. kept' \in Seq(Item) /\ skip' \in BOOLEAN
  <2>1. list[left] \in Item
    BY <1>1 DEF TypeOK
  <2>2. <<list[left]>> \o kept \in Seq(Item)
    BY <1>1, <2>1 DEF TypeOK
  <2>3. kept' = kept \/ kept' = <<list[left]>> \o kept
    BY DEF PreprocessItem
  <2>4. skip' = Cancels(list[left])
    BY DEF PreprocessItem
  <2> QED
    BY <1>1, <2>2, <2>3, <2>4 DEF TypeOK, Cancels, IsCancel
<1>3. TypeOK'
  BY <1>1, <1>2 DEF TypeOK, PreprocessItem, requestVars, chainVars, pathVars
<1>4. Stage'
  BY <1>1, <1>2 DEF TypeOK, PreprocessItem, Stage, chainVars, pathVars
<1> QED
  BY <1>1, <1>3, <1>4, NothingDrawn DEF TouchInv

LEMMA AddItemStep ==
  ASSUME TouchInv, AddItem
  PROVE  TouchInv'
<1> DEFINE it == NextKept
           n == Len(items)
           new == [item |-> it, at |-> Position(it), offset |-> durationOffset,
                   duration |-> Duration(it)]
<1>1. /\ TypeOK /\ Stage /\ Chain /\ pc = "chain" /\ paths = <<>>
      /\ outcome = "none" /\ n < Len(kept) /\ n \in Nat
  BY DEF TouchInv, AddItem, Stage, TypeOK
<1>2. /\ it \in Item /\ it = kept[n + 1]
      /\ Position(it) \in Point /\ Duration(it) \in Nat
      /\ it.action \in ActionName
  <2>1. it \in Item /\ it = kept[n + 1]
    BY <1>1 DEF TypeOK, NextKept
  <2>2. IsValid(it)
    BY DEF AddItem
  <2>3. Duration(it) >= 0 /\ it.action \in ActionName
    BY <2>2 DEF IsValid
  <2> QED
    BY <1>1, <2>1, <2>2, <2>3, DurationType, PositionType
<1>3. new \in GestureItem
  BY <1>1, <1>2 DEF GestureItem, TypeOK
<1>4. /\ items' = Append(items, new) /\ durationOffset' = durationOffset + Duration(it)
      /\ UNCHANGED <<requestVars, pc, todo, room, listVars, pathVars, record, outcome>>
  BY DEF AddItem
<1> HIDE DEF it
<1>5. new.item = it /\ new.offset = durationOffset /\ new.duration = Duration(it)
  OBVIOUS
<1> HIDE DEF new
<1>6. /\ items' \in Seq(GestureItem) /\ Len(items') = n + 1 /\ items'[n + 1] = new
      /\ \A i \in 1 .. n : items'[i] = items[i]
  BY <1>1, <1>3, <1>4 DEF TypeOK
<1>7. TypeOK'
  BY <1>1, <1>2, <1>4, <1>6 DEF TypeOK, Stage, requestVars, listVars, pathVars
<1>8. Stage'
  BY <1>1, <1>4, <1>6 DEF Stage, TypeOK, listVars, pathVars
<1>9. Chain'
  <2> SUFFICES ASSUME NEW i \in 1 .. (n + 1)
               PROVE  /\ i <= Len(kept)
                      /\ items'[i].item = kept[i]
                      /\ items'[i].item.action \in ActionName
                      /\ items'[i].duration = Duration(items'[i].item)
                      /\ items'[i].offset + items'[i].duration
                           = (IF i + 1 <= n + 1 THEN items'[i + 1].offset ELSE durationOffset')
    BY <1>4, <1>6 DEF Chain, Clock, Duration, Number, ActionName, requestVars, listVars
  <2>1. CASE i = n + 1
    BY <1>1, <1>2, <1>4, <1>5, <1>6, <2>1
  <2>2. CASE i \in 1 .. n
    <3>1. /\ i <= Len(kept)
          /\ items[i].item = kept[i]
          /\ items[i].item.action \in ActionName
          /\ items[i].duration = Duration(items[i].item)
          /\ items[i].offset + items[i].duration = Clock(i + 1)
      BY <1>1, <2>2 DEF Chain
    <3>2. Clock(i + 1) = items'[i + 1].offset
      BY <1>1, <1>5, <1>6, <2>2 DEF Clock
    <3> QED
      BY <1>1, <1>6, <2>2, <3>1, <3>2
  <2> QED
    BY <1>1, <2>1, <2>2
<1>10. Drawn' /\ EventsInOrder' /\ RaisesOnlyFor'
  BY <1>1, <1>4 DEF Drawn, EventsInOrder, RaisesOnlyFor, pathVars
<1> QED
  BY <1>7, <1>8, <1>9, <1>10 DEF TouchInv

LEMMA ChainCompleteStep ==
  ASSUME TouchInv, ChainIsComplete
  PROVE  TouchInv'
<1>1. /\ TypeOK /\ Stage /\ Chain /\ pc = "chain" /\ paths = <<>> /\ outcome = "none"
      /\ pc' = "paths" /\ index' = 1 /\ paths' = <<>> /\ outcome' = "none"
  BY DEF TouchInv, ChainIsComplete, Stage
<1>2. TypeOK'
  BY <1>1 DEF ChainIsComplete, TypeOK, requestVars, listVars, chainVars
<1>3. Stage'
  BY <1>1 DEF ChainIsComplete, Stage, TypeOK, requestVars, listVars, chainVars
<1>4. Chain'
  BY <1>1 DEF ChainIsComplete, Chain, Clock, Duration, Number, ActionName, requestVars, listVars,
         chainVars
<1>5. Drawn' /\ EventsInOrder' /\ RaisesOnlyFor'
  BY <1>1 DEF Drawn, UpTo, EventsInOrder, RaisesOnlyFor
<1> QED
  BY <1>2, <1>3, <1>4, <1>5 DEF TouchInv

LEMMA FinishStep ==
  ASSUME TouchInv, FinishFinger
  PROVE  TouchInv'
<1>1. /\ TypeOK /\ Stage /\ pc = "paths" /\ outcome = "none" /\ outcome' = "none"
      /\ items' = <<>> /\ paths' = <<>> /\ pc' \in {"perform", "finger"}
  BY DEF TouchInv, FinishFinger, Stage, StartOver
<1>2. TypeOK'
  <2>1. Append(record, paths) \in Seq(Seq(Seq(Event)))
    BY <1>1 DEF TypeOK
  <2>2. todo' \in 0 .. MaxFingers
    BY <1>1, BoundTypes DEF FinishFinger, TypeOK, Stage
  <2>3. StartOver /\ UNCHANGED <<requestVars, room, outcome>> /\ record' = Append(record, paths)
    BY DEF FinishFinger
  <2> QED
    BY <1>1, <2>1, <2>2, <2>3, StartOverTypes DEF TypeOK, requestVars
<1>3. Stage'
  BY <1>1 DEF FinishFinger, StartOver, Stage, TypeOK
<1> QED
  BY <1>1, <1>2, <1>3, NothingDrawn DEF TouchInv

LEMMA NextRequestStep ==
  ASSUME TouchInv, NextRequest
  PROVE  TouchInv'
<1>1. /\ items' = <<>> /\ paths' = <<>> /\ pc' = "finger" /\ outcome' = "none"
  BY DEF NextRequest, StartOver
<1>2. TypeOK'
  <2>1. /\ dialect' \in Dialect /\ device' \in Device /\ record' \in Seq(Seq(Seq(Event)))
        /\ todo' \in 0 .. MaxFingers /\ room' \in 0 .. MaxItems /\ StartOver
    BY EmptyTypes, BoundTypes DEF NextRequest
  <2> QED
    BY <1>1, <2>1, StartOverTypes DEF TypeOK
<1>3. Stage'
  BY BoundTypes DEF NextRequest, StartOver, Stage
<1> QED
  BY <1>1, <1>2, <1>3, NothingDrawn DEF TouchInv

(* Exceptions: a stale element, or a move without a path, which is the      *)
(* first item then.                                                         *)
LEMMA RaiseStep ==
  ASSUME TouchInv, RaiseOnStaleElement \/ RaiseWithoutPath
  PROVE  TouchInv'
<1>1. TypeOK /\ Stage /\ Chain /\ Drawn
  BY DEF TouchInv
<1>2. CASE RaiseOnStaleElement
  <2>1. /\ dialect = "appium" /\ NextKept.origin = "stale" /\ Len(items) < Len(kept)
        /\ Answer("raised")
    BY <1>2 DEF RaiseOnStaleElement, HasStaleElement
  <2>2. Len(items) + 1 \in DOMAIN kept /\ kept[Len(items) + 1].origin = "stale"
    BY <1>1, <2>1 DEF NextKept, TypeOK
  <2>3. RaisesOnlyFor'
    BY <2>1, <2>2 DEF RaisesOnlyFor, Answer, requestVars, listVars
  <2> QED
    BY <2>1, <2>3, AnswerStep
<1>3. CASE RaiseWithoutPath
  <2>1. /\ pc = "paths" /\ index <= Len(items) /\ paths = <<>> /\ index \in Nat
        /\ Current.item.action = "moveTo" /\ Answer("raised")
    BY <1>1, <1>3 DEF RaiseWithoutPath, TypeOK
  <2>2. index = 1
    BY <1>1, <2>1 DEF Drawn, Stage
  <2>3. kept[1].action = "moveTo" /\ "moveTo" \in ActionName
    BY <1>1, <2>1, <2>2 DEF Chain, Current
  <2>4. dialect = "appium"
    BY <1>1, <2>3 DEF ActionName, TypeOK, Dialect
  <2>5. RaisesOnlyFor'
    BY <2>1, <2>3, <2>4 DEF RaisesOnlyFor, Answer, requestVars, listVars
  <2> QED
    BY <2>1, <2>5, AnswerStep
<1> QED
  BY <1>2, <1>3

LEMMA InvariantStep ==
  ASSUME TouchInv, [Next]_vars
  PROVE  TouchInv'
<1>1. CASE NextRequest
  BY <1>1, NextRequestStep
<1>2. CASE RejectRequest \/ RejectFinger \/ RejectItem \/ RejectEmptyChain
  BY <1>2, AnswerStep DEF RejectRequest, RejectFinger, RejectItem, RejectEmptyChain
<1>3. CASE ReadFinger
  BY <1>3, ReadStep
<1>4. CASE PreprocessItem
  BY <1>4, PreprocessStep
<1>5. CASE AddItem
  BY <1>5, AddItemStep
<1>6. CASE RaiseOnStaleElement \/ RaiseWithoutPath
  BY <1>6, RaiseStep
<1>7. CASE ChainIsComplete
  BY <1>7, ChainCompleteStep
<1>8. CASE Adding
  BY <1>8, AddingStep
<1>9. CASE FinishFinger
  BY <1>9, FinishStep
<1>10. ASSUME NEW done \in BOOLEAN, SynthesizeEvent(done)
       PROVE  TouchInv'
  BY <1>10, AnswerStep DEF SynthesizeEvent
<1>11. CASE UNCHANGED vars
  BY <1>11 DEF TouchInv, TypeOK, Stage, Chain, Clock, Duration, Number, ActionName, Drawn, UpTo,
     Timed, EventsInOrder, RaisesOnlyFor, vars, requestVars, listVars, chainVars, pathVars
<1> QED
  BY <1>1, <1>2, <1>3, <1>4, <1>5, <1>6, <1>7, <1>8, <1>9, <1>10, <1>11 DEF Next, Adding

THEOREM Invariance == Spec => []TouchInv
<1>1. Init => TouchInv
  BY Beginning
<1>2. TouchInv /\ [Next]_vars => TouchInv'
  BY InvariantStep
<1> QED
  BY <1>1, <1>2, PTL DEF Spec

(* Lists of any length over any items become well-typed paths: no negative  *)
(* duration and no item without a position gets into a chain.               *)
THEOREM TypeCorrect == Spec => []TypeOK
<1>1. TouchInv => TypeOK
  BY DEF TouchInv
<1> QED
  BY <1>1, Invariance, PTL

(* What a finger does later in its list it does later in time, whatever the *)
(* durations, the number of taps and the items between.                     *)
THEOREM GesturesRunForward == Spec => []EventsInOrder
<1>1. TouchInv => EventsInOrder
  BY DEF TouchInv
<1> QED
  BY <1>1, Invariance, PTL

(* A list raises an exception for one of two reasons only.                  *)
THEOREM FewListsRaise == Spec => []RaisesOnlyFor
<1>1. TouchInv => RaisesOnlyFor
  BY DEF TouchInv
<1> QED
  BY <1>1, Invariance, PTL

=============================================================================
