------------------------------ MODULE Geometry ------------------------------
(***************************************************************************)
(* Where things are: the desktop spanned by the displays                   *)
(* (src/src/proto.rs), the size of a screenshot of it                      *)
(* (src/src/desktop/local/capture.rs), the map between its pixels and the  *)
(* desktop (src/src/view.rs), and the points the input thread accepts      *)
(* (src/src/desktop/local/input.rs).                                       *)
(*                                                                         *)
(* Both axes are treated alike, so everything is said of one axis: a span  *)
(* is where a rectangle starts on it and how long it is.  The code's f64   *)
(* values are kept as exact fractions; which way an exact half that f64    *)
(* misses is rounded is the one thing this leaves out.  Pixels are in      *)
(* units of 1/Part, for an agent may name fractions of one.                *)
(***************************************************************************)
EXTENDS Integers

CONSTANT Part

ASSUME PartAssumption == Part \in Nat \ {0}

Spans == [lo : Int, len : Nat]

Least(m, n)    == IF m =< n THEN m ELSE n
Greatest(m, n) == IF m >= n THEN m ELSE n
Clamp(n, lo, hi) == Greatest(lo, Least(n, hi))

(* f64::round of n / d: to the nearest, a half away from zero. *)
Round(n, d) == IF n >= 0 THEN (2 * n + d) \div (2 * d) ELSE -((d - 2 * n) \div (2 * d))

-----------------------------------------------------------------------------
(* Rect::union, and its fold over the displays; none span nothing. *)
End(s) == s.lo + s.len

UnionOfLengths(s, t) ==  \* mutant: as long as the longer of the two
  [lo |-> Least(s.lo, t.lo), len |-> Greatest(s.len, t.len)]
Union(s, t) ==
  LET lo == Least(s.lo, t.lo)
  IN  [lo |-> lo, len |-> Greatest(End(s), End(t)) - lo]

-----------------------------------------------------------------------------
(* The pixels of an image: those of a single display as they are captured, *)
(* those of several at the density of the primary one, Num / Den pixels to *)
(* a point; then scaled down to the long edge asked for, 0 meaning none.   *)
CanvasSize(len, num, den) == Greatest(Round(len * num, den), 1)

ScaledToNothing(size, long, max) ==  \* mutant: a thin edge may vanish
  IF max > 0 /\ long > max THEN Round(size * max, long) ELSE size
Scaled(size, long, max) ==
  IF max > 0 /\ long > max THEN Greatest(Round(size * max, long), 1) ELSE size

-----------------------------------------------------------------------------
(* ViewMap, for an image size pixels long of a span. *)

ClampPixel(p, size) == Clamp(p, 0, size * Part)

FarEdgeClosed(s) == End(s)  \* mutant: the far edge belongs to it
FarEdge(s) == s.lo + Greatest(s.len - 1, 0)

ToDesktop(s, size, p) ==
  LET d == Greatest(size, 1) * Part
      x == Round(s.lo * d + ClampPixel(p, size) * s.len, d)
  IN  Clamp(x, s.lo, FarEdge(s))

ToViewTruncated(s, size, x) == ((x - s.lo) * size) \div Greatest(s.len, 1)  \* mutant
ToView(s, size, x) == Round((x - s.lo) * size, Greatest(s.len, 1))

-----------------------------------------------------------------------------
(* CoordMap::check and map: bounds is the union of the displays, and a     *)
(* Wayland compositor takes the point as a fraction of extent.             *)
Inside(bounds, x) == bounds.len # 0 /\ bounds.lo =< x /\ x =< End(bounds)

ToExtent(bounds, extent, x) == Round((x - bounds.lo) * extent, bounds.len)

-----------------------------------------------------------------------------
Within(s, x) == s.lo =< x /\ x < End(s)
Covers(outer, inner) == outer.lo =< inner.lo /\ End(inner) =< End(outer)
Distance(m, n) == Greatest(m - n, n - m)
=============================================================================
