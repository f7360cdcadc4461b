------------------------------ MODULE MCTouch ------------------------------
(* Instances of FBTouchActions for TLC. *)
EXTENDS FBTouchActions

Plain(action) ==
  [action |-> action, ms |-> 0, given |-> FALSE, origin |-> "viewport",
   xy |-> "none", offset |-> Origin, pressure |-> FALSE]

For(it, ms) == [it EXCEPT !.ms = ms, !.given = TRUE]
To(it, origin, xy, x, y) == [it EXCEPT !.origin = origin, !.xy = xy, !.offset = At(x, y)]
Pressed(it) == [it EXCEPT !.pressure = TRUE]

MCW3CItem ==
  {For(To(Plain("pointerMove"), "viewport", "both", 2, 3), 30),
   To(Plain("pointerMove"), "pointer", "both", 1, -1),
   To(Plain("pointerMove"), "stale", "none", 0, 0),
   For(To(Plain("pointerMove"), "element", "both", 1, 1), 10),
   Pressed(Plain("pointerDown")),
   For(Plain("pause"), 50),
   For(Plain("pause"), -1),
   For(Plain("pointerUp"), 20),
   Plain("pointerCancel")}

MCAppiumItem ==
  {For(To(Plain("tap"), "viewport", "both", 2, 3), 2),
   For(To(Plain("tap"), "element", "none", 0, 0), 0),
   Pressed(To(Plain("press"), "element", "both", 1, 1)),
   To(Plain("longPress"), "stale", "none", 0, 0),
   For(To(Plain("longPress"), "element", "none", 0, 0), 70),
   For(To(Plain("moveTo"), "viewport", "both", 4, 1), 10),
   For(Plain("wait"), 50),
   Plain("release"),
   Plain("cancel")}

MCDevice ==
  {[orientation |-> "landscapeRight", width |-> 10, height |-> 16,
    turned |-> TRUE, hitPoint |-> FALSE],
   [orientation |-> "portrait", width |-> 10, height |-> 16,
    turned |-> FALSE, hitPoint |-> TRUE]}

(* The screen and the point of FBMathUtilsTests.m, in every orientation. *)
TestedDevice ==
  {[orientation |-> o, width |-> 10, height |-> 15, turned |-> FALSE, hitPoint |-> TRUE] :
     o \in Orientation}

TestedW3CItem == {To(Plain("pointerMove"), "viewport", "both", 1, 2)}
TestedAppiumItem == {To(Plain("tap"), "viewport", "both", 1, 2)}

MCElement == [x |-> 2, y |-> 4, width |-> 6, height |-> 4]

=============================================================================
