--------------------------- MODULE FBOrientation ---------------------------
(***************************************************************************)
(* Points of the screen and the orientation of the interface: the part of  *)
(* Utilities/FBMathUtils.m that gestures use.  XCTest takes coordinates of *)
(* the portrait screen, so a point or an offset given for a rotated        *)
(* interface is turned.                                                    *)
(***************************************************************************)
EXTENDS Integers

Orientation ==
  {"unknown", "portrait", "upsideDown", "landscapeLeft", "landscapeRight"}

Point == [x : Int, y : Int]

At(x, y) == [x |-> x, y |-> y]

Origin == At(0, 0)

Plus(p, q) == At(p.x + q.x, p.y + q.y)

InvertPointForApplication(p, width, height, orientation) ==
  CASE orientation \in {"unknown", "portrait"} -> p
    [] orientation = "upsideDown"     -> At(width - p.x, height - p.y)
    [] orientation = "landscapeRight" -> At(p.y, height - p.x)
    [] orientation = "landscapeLeft"  -> At(width - p.y, p.x)

InvertOffsetForOrientation(p, orientation) ==
  CASE orientation \in {"unknown", "portrait"} -> p
    [] orientation = "upsideDown"     -> At(-p.x, -p.y)
    [] orientation = "landscapeLeft"  -> At(p.y, -p.x)
    [] orientation = "landscapeRight" -> At(-p.y, p.x)

=============================================================================
