--------------------------- MODULE GeometryProofs ---------------------------
(***************************************************************************)
(* What holds of Geometry and Capture for every desktop, every image size, *)
(* every pixel and any changes of the displays, checked by TLAPS.          *)
(***************************************************************************)
EXTENDS Capture, TLAPS, FiniteSetTheorems, SequenceTheorems, WellFoundedInduction

LEMMA ClampStays ==
  ASSUME NEW n \in Int, NEW lo \in Int, NEW hi \in Int, lo =< hi
  PROVE  Clamp(n, lo, hi) \in lo .. hi
BY DEF Clamp, Greatest, Least

LEMMA RoundIsWhole ==
  ASSUME NEW n \in Int, NEW d \in Nat \ {0}
  PROVE  Round(n, d) \in Int
<1>1. CASE n >= 0
  <2>1. 2 * n + d \in Int /\ 2 * d \in Nat \ {0}
    OBVIOUS
  <2> QED BY <1>1, <2>1 DEF Round
<1>2. CASE ~(n >= 0)
  <2>1. d - 2 * n \in Int /\ 2 * d \in Nat \ {0}
    OBVIOUS
  <2> QED BY <1>2, <2>1 DEF Round
<1> QED BY <1>1, <1>2

(* The union of two displays covers both, so the desktop that is spanned   *)
(* by folding it over the displays covers each (proto.rs, Rect::union).    *)
THEOREM UnionCoversBoth ==
  ASSUME NEW s \in Spans, NEW t \in Spans
  PROVE  /\ Union(s, t) \in Spans
         /\ Covers(Union(s, t), s) /\ Covers(Union(s, t), t)
         /\ \A u \in Spans : Covers(u, s) /\ Covers(u, t) => Covers(u, Union(s, t))
BY DEF Spans, Union, Covers, End, Least, Greatest

(* A pixel is mapped to a point of the region the image shows, the far     *)
(* edge excluded, whatever its size and whatever the agent names           *)
(* (view.rs:21-23).                                                        *)
THEOREM PixelStaysInItsRegion ==
  ASSUME NEW s \in Spans, s.len > 0, NEW size \in Nat, NEW p \in Int
  PROVE  Within(s, ToDesktop(s, size, p)) /\ ToDesktop(s, size, p) \in Int
<1> DEFINE d == Greatest(size, 1) * Part
           n == s.lo * d + ClampPixel(p, size) * s.len
<1>1. s.lo \in Int /\ s.len \in Nat /\ s.lo =< FarEdge(s) /\ FarEdge(s) \in Int
      /\ FarEdge(s) < End(s)
  BY DEF Spans, FarEdge, End, Greatest
<1>2. Greatest(size, 1) \in Nat \ {0} /\ Part \in Nat \ {0}
  BY PartAssumption DEF Greatest
<1>3. d \in Nat \ {0}
  BY <1>2
<1>4. ClampPixel(p, size) \in Int
  <2>1. size * Part \in Nat
    BY PartAssumption
  <2> QED BY <2>1, ClampStays DEF ClampPixel
<1>5. n \in Int
  <2> HIDE DEF d
  <2> QED BY <1>1, <1>3, <1>4
<1>6. Round(n, d) \in Int
  <2> HIDE DEF d, n
  <2> QED BY <1>3, <1>5, RoundIsWhole
<1>7. ToDesktop(s, size, p) = Clamp(Round(n, d), s.lo, FarEdge(s))
  BY DEF ToDesktop
<1>8. Clamp(Round(n, d), s.lo, FarEdge(s)) \in s.lo .. FarEdge(s)
  <2> HIDE DEF d, n
  <2> QED BY <1>1, <1>6, ClampStays
<1> HIDE DEF d, n
<1> QED BY <1>1, <1>7, <1>8 DEF Within, End, Spans

(* A point read off a screenshot of any part of the desktop is inside the  *)
(* desktop, so the input thread does not refuse it while the displays stay *)
(* as they are (input.rs, CoordMap::check).                                *)
THEOREM PixelIsAccepted ==
  ASSUME NEW whole \in Spans, NEW s \in Spans, s.len > 0, Covers(whole, s),
         NEW size \in Nat, NEW p \in Int
  PROVE  Inside(whole, ToDesktop(s, size, p))
<1>1. ToDesktop(s, size, p) \in Int /\ Within(s, ToDesktop(s, size, p))
  BY PixelStaysInItsRegion
<1> QED BY <1>1 DEF Inside, Within, Covers, End, Spans

-----------------------------------------------------------------------------
(* Induction, told of a set: a property of numbers is the set of those     *)
(* that have it.                                                           *)
LEMMA LeastNumber ==
  ASSUME NEW T \in SUBSET Nat, T # {}
  PROVE  \E n \in T : \A m \in T : n =< m
<1>1. PICK x \in T : \A y \in T : ~(<<y, x>> \in OpToRel(<, Nat))
  BY NatLessThanWellFounded, WFMin, Zenon
<1>2. \A y \in T : ~(y < x)
  BY <1>1, Zenon DEF OpToRel
<1> QED BY <1>2

LEMMA Induction ==
  ASSUME NEW S, 0 \in S, \A n \in Nat : n \in S => n + 1 \in S
  PROVE  Nat \subseteq S
<1>1. SUFFICES ASSUME Nat \ S # {} PROVE FALSE
  OBVIOUS
<1>2. PICK n \in Nat \ S : \A m \in Nat \ S : n =< m
  BY <1>1, LeastNumber
<1>3. n # 0
  OBVIOUS
<1>4. n - 1 \in Nat /\ n - 1 < n
  BY <1>3
<1>5. n - 1 \in S
  BY <1>4, <1>2
<1>6. (n - 1) + 1 \in S
  BY <1>4, <1>5
<1> QED BY <1>6, <1>2

-----------------------------------------------------------------------------
(* The displays in the order of the system: each once, and all of them.    *)
Enumerates(s, S, n) ==
  s \in [1 .. n -> S] /\ Range(s) = S /\ \A i, j \in DOMAIN s : i < j => s[i] < s[j]

LEMMA SetsAreEnumerated ==
  ASSUME NEW S \in SUBSET Nat, IsFiniteSet(S)
  PROVE  \E s : Enumerates(s, S, Cardinality(S))
<1> DEFINE Good == {n \in Nat : \A T \in SUBSET Nat : IsFiniteSet(T) /\ Cardinality(T) = n
                                                     => \E s : Enumerates(s, T, n)}
<1>1. 0 \in Good
  <2> SUFFICES ASSUME NEW T \in SUBSET Nat, IsFiniteSet(T), Cardinality(T) = 0
               PROVE  \E s : Enumerates(s, T, 0)
    OBVIOUS
  <2>1. T = {}
    BY FS_EmptySet
  <2> DEFINE s == [i \in 1 .. 0 |-> 0]
  <2>2. Enumerates(s, T, 0)
    BY <2>1 DEF Enumerates, Range
  <2> QED BY <2>2
<1>2. ASSUME NEW n \in Nat, n \in Good PROVE n + 1 \in Good
  <2> SUFFICES ASSUME NEW T \in SUBSET Nat, IsFiniteSet(T), Cardinality(T) = n + 1
               PROVE  \E s : Enumerates(s, T, n + 1)
    OBVIOUS
  <2>1. T # {}
    BY FS_EmptySet
  <2>2. PICK m \in T : \A k \in T : m =< k
    BY <2>1, LeastNumber
  <2> DEFINE U == T \ {m}
  <2>3. IsFiniteSet(U) /\ Cardinality(U) = n /\ U \in SUBSET Nat
    BY FS_RemoveElement
  <2>4. PICK s : Enumerates(s, U, n)
    BY <1>2, <2>3
  <2> DEFINE t == [i \in 1 .. n + 1 |-> IF i = 1 THEN m ELSE s[i - 1]]
  <2>5. /\ DOMAIN s = 1 .. n /\ \A i \in 1 .. n : s[i] \in U
        /\ \A k \in U : \E i \in 1 .. n : s[i] = k
        /\ \A i, j \in 1 .. n : i < j => s[i] < s[j]
    BY <2>4 DEF Enumerates, Range
  <2>6. \A i \in 1 .. n + 1 : i # 1 => i - 1 \in 1 .. n
    OBVIOUS
  <2>7. t[1] = m /\ \A i \in 1 .. n + 1 : i # 1 => t[i] = s[i - 1]
    OBVIOUS
  <2>8. t \in [1 .. n + 1 -> T]
    BY <2>5, <2>6
  <2>9. DOMAIN t = 1 .. n + 1
    OBVIOUS
  <2> HIDE DEF t
  <2>10. \A k \in T : \E i \in 1 .. n + 1 : t[i] = k
    <3> SUFFICES ASSUME NEW k \in T PROVE \E i \in 1 .. n + 1 : t[i] = k
      OBVIOUS
    <3>1. CASE k = m
      BY <2>7, <3>1
    <3>2. CASE k # m
      <4>1. PICK i \in 1 .. n : s[i] = k
        BY <2>5, <3>2
      <4>2. i + 1 \in 1 .. n + 1 /\ i + 1 # 1 /\ (i + 1) - 1 = i
        OBVIOUS
      <4> QED BY <2>7, <4>1, <4>2
    <3> QED BY <3>1, <3>2
  <2>11. Range(t) = T
    BY <2>8, <2>9, <2>10 DEF Range
  <2>12. ASSUME NEW i \in 1 .. n + 1, NEW j \in 1 .. n + 1, i < j PROVE t[i] < t[j]
    <3>1. j # 1 /\ j - 1 \in 1 .. n /\ t[j] = s[j - 1] /\ s[j - 1] \in U
      BY <2>5, <2>7, <2>12
    <3>2. CASE i = 1
      <4>1. m =< s[j - 1] /\ s[j - 1] # m /\ m \in Nat /\ s[j - 1] \in Nat
        BY <2>2, <3>1
      <4> QED BY <2>7, <3>1, <3>2, <4>1
    <3>3. CASE i # 1
      <4>1. i - 1 \in 1 .. n /\ i - 1 < j - 1 /\ t[i] = s[i - 1]
        BY <2>6, <2>7, <2>12, <3>3
      <4> QED BY <2>5, <3>1, <4>1
    <3> QED BY <3>2, <3>3
  <2>13. Enumerates(t, T, n + 1)
    BY <2>8, <2>9, <2>11, <2>12 DEF Enumerates
  <2> QED BY <2>13
<1>3. Nat \subseteq Good
  <2> HIDE DEF Good
  <2> QED BY <1>1, <1>2, Induction
<1>4. Cardinality(S) \in Nat
  BY FS_CardinalityType
<1> QED BY <1>3, <1>4

LEMMA OrderListsAll ==
  ASSUME NEW l, DOMAIN l \subseteq Monitors
  PROVE  /\ Order(l) \in Seq(DOMAIN l)
         /\ \A m \in DOMAIN l : \E i \in 1 .. Len(Order(l)) : Order(l)[i] = m
         /\ DOMAIN l # {} => Order(l) # << >> /\ Head(Order(l)) \in DOMAIN l
<1> DEFINE S == DOMAIN l
           n == Cardinality(S)
           s == Order(l)
<1>1. S \in SUBSET Nat /\ IsFiniteSet(S)
  BY CaptureAssumption, FS_Subset
<1>2. n \in Nat
  BY <1>1, FS_CardinalityType
<1>3. \E t : Enumerates(t, S, n)
  <2> HIDE DEF S
  <2> QED BY <1>1, SetsAreEnumerated
<1>4. Enumerates(s, S, n)
  BY <1>3 DEF Enumerates, Order
<1> HIDE DEF S, n, s
<1>5. s \in [1 .. n -> S] /\ Range(s) = S
  BY <1>4 DEF Enumerates
<1>6. s \in Seq(S) /\ Len(s) = n /\ DOMAIN s = 1 .. n
  BY <1>2, <1>5
<1>7. \A m \in S : \E i \in 1 .. n : s[i] = m
  BY <1>5, <1>6 DEF Range
<1>8. S # {} => s # << >>
  BY <1>6, <1>7
<1>9. s # << >> => Head(s) \in S
  BY <1>6
<1> QED BY <1>6, <1>7, <1>8, <1>9 DEF S, s

-----------------------------------------------------------------------------
(* The union of several displays covers each of them, and what covers each *)
(* covers it.                                                              *)
UnionUpTo(ms, where, i, u) ==
  /\ u \in Displays
  /\ \A j \in 1 .. i : where[ms[j]] \in Displays /\ Covers(u, where[ms[j]])
  /\ \A v \in Spans : (\A j \in 1 .. i : Covers(v, where[ms[j]])) => Covers(v, u)

LEMMA CoversIsTransitive ==
  ASSUME NEW s \in Spans, NEW t \in Spans, NEW u \in Spans, Covers(s, t), Covers(t, u)
  PROVE  Covers(s, u)
BY DEF Covers, Spans, End

LEMMA UnionOfOneMore ==
  ASSUME NEW ms, NEW where, NEW i \in Nat, NEW u, UnionUpTo(ms, where, i, u), where[ms[i + 1]] \in Displays
  PROVE  UnionUpTo(ms, where, i + 1, Union(u, where[ms[i + 1]]))
<1> DEFINE t == where[ms[i + 1]]
           w == Union(u, t)
<1>1. u \in Displays /\ t \in Displays /\ Displays \subseteq Spans
  BY DEF UnionUpTo, Displays
<1> HIDE DEF t
<1>2. w \in Spans /\ Covers(w, u) /\ Covers(w, t) /\ \A v \in Spans : Covers(v, u) /\ Covers(v, t) => Covers(v, w)
  BY <1>1, UnionCoversBoth
<1>3. w \in Displays
  BY <1>1, <1>2 DEF Displays, Spans, Covers, End
<1>4. 1 .. i + 1 = (1 .. i) \cup {i + 1}
  OBVIOUS
<1> HIDE DEF w
<1>5. ASSUME NEW j \in 1 .. i PROVE where[ms[j]] \in Displays /\ Covers(w, where[ms[j]])
  <2>1. where[ms[j]] \in Displays /\ Covers(u, where[ms[j]])
    BY DEF UnionUpTo
  <2> QED BY <1>1, <1>2, <2>1, CoversIsTransitive
<1>6. \A j \in 1 .. i + 1 : where[ms[j]] \in Displays /\ Covers(w, where[ms[j]])
  BY <1>1, <1>2, <1>4, <1>5 DEF t
<1>7. ASSUME NEW v \in Spans, \A j \in 1 .. i + 1 : Covers(v, where[ms[j]]) PROVE Covers(v, w)
  <2>1. Covers(v, u) /\ Covers(v, t)
    BY <1>4, <1>7 DEF UnionUpTo, t
  <2> QED BY <1>2, <2>1
<1> QED BY <1>3, <1>6, <1>7 DEF UnionUpTo, w, t

LEMMA SpannedCovers ==
  ASSUME NEW D, NEW where, \A m \in D : where[m] \in Displays, NEW ms \in Seq(D), ms # << >>
  PROVE  UnionUpTo(ms, where, Len(ms), Spanned(ms, where))
<1>1. PICK N \in Nat \ {0} : N = Len(ms)
  OBVIOUS
<1>2. \A i \in 1 .. N : where[ms[i]] \in Displays
  BY <1>1
<1> DEFINE At(f, i) == IF i = 1 THEN where[ms[1]] ELSE Union(f[i - 1], where[ms[i]])
           Folds(f, n) == f = [i \in 1 .. n |-> At(f, i)]
           Good == {n \in Nat : \E f : Folds(f, n)}
<1>3. 0 \in Good
  <2> DEFINE f == [i \in 1 .. 0 |-> 0]
  <2>1. Folds(f, 0)
    OBVIOUS
  <2> QED BY <2>1
<1>4. ASSUME NEW n \in Nat, n \in Good PROVE n + 1 \in Good
  <2>1. PICK f : Folds(f, n)
    BY <1>4
  <2> DEFINE g == [i \in 1 .. n + 1 |-> IF i = n + 1 THEN At(f, n + 1) ELSE f[i]]
  <2>2. \A i \in 1 .. n : g[i] = f[i] /\ f[i] = At(f, i)
    BY <2>1
  <2>3. g[n + 1] = At(f, n + 1)
    OBVIOUS
  <2>4. \A i \in 1 .. n + 1 : g[i] = At(g, i)
    <3> SUFFICES ASSUME NEW i \in 1 .. n + 1 PROVE g[i] = At(g, i)
      OBVIOUS
    <3>1. i # 1 => i - 1 \in 1 .. n
      OBVIOUS
    <3>2. At(g, i) = At(f, i)
      <4> HIDE DEF g
      <4> QED BY <2>2, <3>1
    <3>3. i = n + 1 \/ i \in 1 .. n
      OBVIOUS
    <3> HIDE DEF g, At
    <3> QED BY <2>2, <2>3, <3>2, <3>3
  <2>5. Folds(g, n + 1)
    BY <2>4
  <2> HIDE DEF g, Folds
  <2> QED BY <2>5
<1>5. \E f : Folds(f, N)
  <2> HIDE DEF Good
  <2>1. N \in Good
    BY <1>3, <1>4, Induction
  <2> QED BY <2>1 DEF Good
<1> DEFINE h == CHOOSE f : Folds(f, N)
<1>6. Folds(h, N)
  BY <1>5, Zenon
<1>7. Spanned(ms, where) = h[N]
  BY <1>1 DEF Spanned
<1> HIDE DEF h
<1>8. \A i \in 1 .. N : h[i] = At(h, i)
  BY <1>6
<1> DEFINE Covered == {n \in Nat : n + 1 =< N => UnionUpTo(ms, where, n + 1, h[n + 1])}
<1>9. 0 \in Covered
  <2>1. 1 \in 1 .. N /\ h[1] = where[ms[1]] /\ h[1] \in Displays
    BY <1>1, <1>2, <1>8
  <2>2. \A j \in 1 .. 1 : j = 1
    OBVIOUS
  <2>3. Covers(h[1], h[1])
    BY <2>1 DEF Covers, Displays, Spans, End
  <2>4. UnionUpTo(ms, where, 1, h[1])
    BY <2>1, <2>2, <2>3 DEF UnionUpTo
  <2> QED BY <2>4
<1>10. ASSUME NEW n \in Nat, n \in Covered PROVE n + 1 \in Covered
  <2>1. SUFFICES ASSUME (n + 1) + 1 =< N PROVE UnionUpTo(ms, where, (n + 1) + 1, h[(n + 1) + 1])
    OBVIOUS
  <2>2. UnionUpTo(ms, where, n + 1, h[n + 1])
    BY <1>10, <2>1
  <2>3. (n + 1) + 1 \in 1 .. N /\ (n + 1) + 1 # 1 /\ ((n + 1) + 1) - 1 = n + 1 /\ n + 1 \in Nat
    BY <2>1
  <2>4. h[(n + 1) + 1] = Union(h[n + 1], where[ms[(n + 1) + 1]])
    BY <1>8, <2>3
  <2>5. where[ms[(n + 1) + 1]] \in Displays
    BY <1>2, <2>3
  <2> QED BY <2>2, <2>3, <2>4, <2>5, UnionOfOneMore
<1>11. N - 1 \in Covered
  <2> HIDE DEF Covered
  <2>1. Nat \subseteq Covered
    BY <1>9, <1>10, Induction
  <2> QED BY <2>1
<1>12. UnionUpTo(ms, where, N, h[N])
  BY <1>11
<1> QED BY <1>1, <1>7, <1>12

-----------------------------------------------------------------------------
(* The capture.                                                            *)

(* The display found is the one looked for, or there is an excuse.         *)
LEMMA MonitorForFinds ==
  ASSUME LayoutInv, phase # "idle", NEW d \in DOMAIN listed, NEW m \in MonitorFor(d)
  PROVE  m \in DOMAIN layout /\ (m = d \/ Excused(d))
<1> DEFINE known == {n \in DOMAIN layout : n = d /\ setup.keys \in {"id", "twins"}}
           named == {n \in DOMAIN layout : SameName(n, d)}
           least == CHOOSE n \in named : \A k \in named : n =< k
           there == AtPoint(d)
<1>1. m \in (IF known # {} THEN known ELSE IF named # {} THEN {least} ELSE there)
  BY DEF MonitorFor
<1>2. DOMAIN layout \subseteq Nat /\ d \in Monitors
  BY CaptureAssumption DEF LayoutInv
<1>3. named # {} => least \in named
  <2>1. named \in SUBSET Nat
    BY <1>2
  <2> HIDE DEF named
  <2> QED BY <2>1, LeastNumber
<1>4. m \in DOMAIN layout
  <2> HIDE DEF least
  <2> QED BY <1>1, <1>3 DEF AtPoint
<1>5. d \notin DOMAIN layout => d \in disturbed
  BY <1>2 DEF LayoutInv, Alike
<1>6. CASE setup.keys \in {"id", "twins"}
  <2>1. d \in DOMAIN layout => known = {d}
    BY <1>6
  <2> HIDE DEF least, named, there
  <2> QED BY <1>1, <1>4, <1>5, <2>1 DEF Excused
<1>7. CASE setup.keys = "point"
  <2>1. known = {} /\ named = {}
    BY <1>7 DEF SameName
  <2>2. Within(InXcap(layout[m]), listed[d].lo + 1)
    BY <1>1, <2>1 DEF AtPoint
  <2>3. SUFFICES ASSUME disturbed = {}, m # d, setup.zoom = <<1, 1>> PROVE Overlapping
    BY <1>4, <1>7 DEF Excused, Foreign
  <2>6. InXcap(layout[m]) = layout[m]
    <3>1. layout[m] \in Spans
      BY <1>4 DEF LayoutInv, Displays
    <3>2. \A n \in Int : Round(n * 1, 1) = n
      BY DEF Round
    <3>3. setup.zoom[1] = 1 /\ setup.zoom[2] = 1
      BY <2>3
    <3>4. layout[m].lo \in Int /\ layout[m].len \in Int /\ layout[m] = [lo |-> layout[m].lo, len |-> layout[m].len]
      BY <3>1 DEF Spans
    <3> QED BY <3>2, <3>3, <3>4 DEF InXcap
  <2>4. m \in DOMAIN listed /\ Within(listed[m], listed[d].lo + 1) /\ listed[m] \in Displays /\ listed[d] \in Displays
    BY <1>4, <2>2, <2>3, <2>6 DEF LayoutInv
  <2>5. Within(listed[m], listed[d].lo) \/ Within(listed[d], listed[m].lo)
    BY <2>4 DEF Within, Displays, Spans, End
  <2> QED BY <2>3, <2>4, <2>5 DEF Overlapping
<1>8. CASE setup.keys \notin {"id", "twins", "point"}
  <2>1. known = {} /\ named = {n \in DOMAIN layout : n = d}
    BY <1>8 DEF SameName
  <2>2. named # {} => m = d
    <3> HIDE DEF least, known, there
    <3> QED BY <1>1, <1>3, <2>1
  <2> QED BY <1>4, <1>5, <2>1, <2>2 DEF Excused
<1> QED BY <1>4, <1>6, <1>7, <1>8

(* While nothing has changed, the display is at the index it is counted at. *)
LEMMA IndexOfFinds ==
  ASSUME LayoutInv, phase # "idle", NEW d \in DOMAIN listed, disturbed = {}
  PROVE  IndexOf(d) \in DOMAIN Order(listed) /\ Order(listed)[IndexOf(d)] = d
<1>1. layout = listed /\ DOMAIN listed \subseteq Monitors
  BY DEF LayoutInv
<1> DEFINE order == Order(listed)
           at == {i \in DOMAIN order : order[i] = d}
           first == CHOOSE i \in at : \A j \in at : i =< j
<1>2. order \in Seq(DOMAIN listed) /\ \E i \in 1 .. Len(order) : order[i] = d
  BY <1>1, OrderListsAll
<1>3. at # {} /\ at \in SUBSET Nat
  <2> HIDE DEF order
  <2> QED BY <1>2
<1>4. first \in at
  <2> HIDE DEF at
  <2> QED BY <1>3, LeastNumber
<1>5. IndexOf(d) = first
  BY <1>1, <1>3 DEF IndexOf
<1> QED BY <1>4, <1>5

-----------------------------------------------------------------------------
LEMMA CurrentIsListed ==
  ASSUME CaptureInv, phase = "capturing"
  PROVE  Current \in DOMAIN listed
BY DEF CaptureInv, Current

LEMMA RegionIsADisplay ==
  ASSUME LayoutInv, CaptureInv, chosen # << >>
  PROVE  Region \in Displays /\ UnionUpTo(chosen, listed, Len(chosen), Region)
<1>1. UnionUpTo(chosen, listed, Len(chosen), Region)
  BY SpannedCovers DEF LayoutInv, CaptureInv, Region
<1> QED BY <1>1 DEF UnionUpTo

LEMMA CanvasIsSome ==
  ASSUME NEW len \in Nat, NEW num \in Nat, NEW den \in Nat \ {0}
  PROVE  CanvasSize(len, num, den) \in Nat \ {0}
<1>1. len * num \in Int
  OBVIOUS
<1>2. Round(len * num, den) \in Int
  BY <1>1, RoundIsWhole
<1> QED BY <1>2 DEF CanvasSize, Greatest

LEMMA ListKept == ASSUME CaptureInvs, List PROVE CaptureInvs'
<1> USE DEF CaptureInvs
<1>1. /\ phase = "idle" /\ listed' = layout /\ disturbed' = {}
      /\ UNCHANGED <<setup, layout, changes, found, shows, native, bounds>>
  BY DEF List
<1>2. chosen = << >> /\ shows = << >> /\ found = NoWhere
  BY <1>1 DEF CaptureInv, FoundInv
<1>3. phase' \in {"capturing", "failed"} /\ chosen' \in Seq(DOMAIN layout)
      /\ (phase' = "capturing" => chosen' # << >>)
  <2>1. CASE phase' = "capturing" /\ DOMAIN layout # {}
             /\ chosen' \in {Order(layout), <<Primary>>} \cup {<<m>> : m \in DOMAIN layout}
    <3>1. DOMAIN layout \subseteq Monitors
      BY DEF LayoutInv
    <3>2. Order(layout) \in Seq(DOMAIN layout) /\ Order(layout) # << >> /\ Head(Order(layout)) \in DOMAIN layout
      BY <2>1, <3>1, OrderListsAll
    <3>3. Primary \in DOMAIN layout
      BY <3>2 DEF Primary
    <3>4. \A k \in DOMAIN layout : <<k>> \in Seq(DOMAIN layout) /\ <<k>> # << >>
      OBVIOUS
    <3>5. chosen' = Order(layout) \/ \E k \in DOMAIN layout : chosen' = <<k>>
      BY <2>1, <3>3
    <3> HIDE <2>1
    <3>6. chosen' \in Seq(DOMAIN layout) /\ chosen' # << >>
      BY <3>2, <3>4, <3>5
    <3> QED BY <2>1, <3>6
  <2>2. CASE phase' = "failed" /\ UNCHANGED chosen
    <3>1. chosen' = << >>
      BY <1>2, <2>2
    <3>2. << >> \in Seq(DOMAIN layout)
      OBVIOUS
    <3> QED BY <2>2, <3>1, <3>2
  <2> QED BY <2>1, <2>2 DEF List
<1>4. LayoutInv'
  BY <1>1, <1>3 DEF LayoutInv, Alike
<1>5. CaptureInv'
  BY <1>1, <1>2, <1>3 DEF CaptureInv, Shot
<1>6. FoundInv'
  BY <1>1, <1>2, <1>3 DEF FoundInv, NoWhere
<1>7. ShowsWhatItSays'
  BY <1>1, <1>2 DEF ShowsWhatItSays
<1> QED BY <1>4, <1>5, <1>6, <1>7

(* What a step leaves alone while it only looks for a display.             *)
LEMMA LookingKept ==
  ASSUME CaptureInvs, UNCHANGED <<setup, layout, changes, phase, listed, disturbed, chosen, shows, native, bounds>>
  PROVE  LayoutInv' /\ CaptureInv' /\ ShowsWhatItSays' /\ Current' = Current /\ (Excused(Current)' <=> Excused(Current))
<1>1. LayoutInv'
  BY DEF CaptureInvs, LayoutInv, Alike
<1>2. CaptureInv'
  BY DEF CaptureInvs, CaptureInv, Shot
<1>3. ShowsWhatItSays'
  BY DEF CaptureInvs, ShowsWhatItSays, Excused, Overlapping, Foreign
<1> QED BY <1>1, <1>2, <1>3 DEF Current, Excused, Overlapping, Foreign

LEMMA MonitorFoundKept ==
  ASSUME CaptureInvs, phase = "capturing", NEW m \in MonitorFor(Current),
         found' = [NoWhere EXCEPT !.monitor = m],
         UNCHANGED <<setup, layout, changes, phase, listed, disturbed, chosen, shows, native, bounds>>
  PROVE  CaptureInvs'
<1>1. LayoutInv' /\ CaptureInv' /\ ShowsWhatItSays' /\ Current' = Current /\ (Excused(Current)' <=> Excused(Current))
  BY LookingKept
<1>2. m = Current \/ Excused(Current)
  BY CurrentIsListed, MonitorForFinds DEF CaptureInvs
<1>3. found'.monitor = m /\ found'.index = 0
  BY DEF NoWhere
<1>4. FoundInv'
  BY <1>1, <1>2, <1>3 DEF FoundInv
<1> QED BY <1>1, <1>4 DEF CaptureInvs

LEMMA LookUpKept == ASSUME CaptureInvs, LookUp PROVE CaptureInvs'
<1>1. phase = "capturing"
      /\ UNCHANGED <<setup, layout, changes, phase, listed, disturbed, chosen, shows, native, bounds>>
  BY DEF LookUp, Looking
<1>2. CASE setup.cli /\ found' = [NoWhere EXCEPT !.index = IndexOf(Current)]
  <2>1. LayoutInv' /\ CaptureInv' /\ ShowsWhatItSays' /\ Current' = Current
    BY <1>1, LookingKept
  <2>2. found'.monitor = 0 /\ found'.index = IndexOf(Current)
    BY <1>2 DEF NoWhere
  <2>3. disturbed = {} => IndexOf(Current) \in DOMAIN Order(listed) /\ Order(listed)[IndexOf(Current)] = Current
    BY <1>1, CurrentIsListed, IndexOfFinds DEF CaptureInvs
  <2>4. FoundInv'
    BY <1>1, <1>2, <2>1, <2>2, <2>3 DEF FoundInv
  <2> QED BY <2>1, <2>4 DEF CaptureInvs
<1>3. ASSUME NEW m \in MonitorFor(Current), found' = [NoWhere EXCEPT !.monitor = m] PROVE CaptureInvs'
  BY <1>1, <1>3, MonitorFoundKept
<1> QED BY <1>2, <1>3 DEF LookUp

LEMMA CliFailsKept == ASSUME CaptureInvs, CliFails PROVE CaptureInvs'
BY MonitorFoundKept DEF CliFails

(* The display that is captured is the one being looked for.               *)
LEMMA TargetFits ==
  ASSUME CaptureInvs, phase = "capturing", found # NoWhere, NEW m \in Target
  PROVE  m \in DOMAIN layout /\ (m = Current \/ Excused(Current))
<1> USE DEF CaptureInvs
<1>1. DOMAIN layout \subseteq Monitors /\ 0 \notin Monitors
  BY CaptureAssumption DEF LayoutInv
<1>2. CASE found.index = 0
  BY <1>1, <1>2 DEF Target, FoundInv
<1>3. CASE found.index # 0
  <2>1. Order(layout) \in Seq(DOMAIN layout)
    BY <1>1, OrderListsAll
  <2>2. found.index \in DOMAIN Order(layout) /\ m = Order(layout)[found.index]
    BY <1>3 DEF Target
  <2>3. m \in DOMAIN layout
    BY <2>1, <2>2
  <2>4. setup.cli /\ (disturbed = {} => Order(listed)[found.index] = Current /\ layout = listed)
    BY <1>3 DEF FoundInv, LayoutInv
  <2> QED BY <2>2, <2>3, <2>4 DEF Excused
<1> QED BY <1>2, <1>3

LEMMA GrabKept == ASSUME CaptureInvs, Grab PROVE CaptureInvs'
<1> USE DEF CaptureInvs
<1>1. /\ phase = "capturing" /\ found # NoWhere /\ found' = NoWhere
      /\ phase' = IF Len(shows') = Len(chosen) THEN "done" ELSE phase
      /\ UNCHANGED <<setup, layout, changes, listed, disturbed, chosen, bounds>>
  BY DEF Grab
<1> DEFINE span(m) == IF Len(chosen) = 1 THEN layout[m] ELSE Region
<1>2. PICK m \in Target : /\ shows' = Append(shows, m)
                          /\ native' = CanvasSize(span(m).len, setup.density[1], setup.density[2])
  BY DEF Grab
<1>3. m \in DOMAIN layout /\ m \in Monitors /\ (m = Current \/ Excused(Current))
  BY <1>1, TargetFits DEF LayoutInv
<1>4. /\ chosen \in Seq(DOMAIN listed) /\ shows \in Seq(Monitors)
      /\ Len(shows) \in Nat /\ Len(chosen) \in Nat /\ Len(shows) < Len(chosen) /\ chosen # << >>
  BY <1>1 DEF CaptureInv
<1>5. /\ shows' \in Seq(Monitors) /\ Len(shows') = Len(shows) + 1
      /\ \A i \in 1 .. Len(shows) : shows'[i] = shows[i]
      /\ shows'[Len(shows) + 1] = m
  BY <1>2, <1>3, <1>4, AppendProperties
<1>6. native' \in Nat \ {0}
  <2>1. span(m).len \in Nat
    BY <1>3, <1>4, RegionIsADisplay DEF LayoutInv, Displays, Spans
  <2>2. setup.density[1] \in Nat /\ setup.density[2] \in Nat \ {0}
    BY CaptureAssumption DEF LayoutInv
  <2> HIDE DEF span
  <2> QED BY <1>2, <2>1, <2>2, CanvasIsSome
<1>7. LayoutInv'
  BY <1>1 DEF LayoutInv, Alike
<1>8. CaptureInv'
  BY <1>1, <1>4, <1>5, <1>6 DEF CaptureInv, Shot
<1>9. FoundInv'
  BY <1>1 DEF FoundInv, NoWhere
<1>10. ASSUME NEW i \in DOMAIN shows' PROVE shows'[i] = chosen[i] \/ Excused(chosen[i])
  <2>1. CASE i \in 1 .. Len(shows)
    BY <1>4, <1>5, <2>1 DEF ShowsWhatItSays
  <2>2. CASE i = Len(shows) + 1
    BY <1>3, <1>5, <2>2 DEF Current
  <2> QED BY <1>4, <1>5, <2>1, <2>2
<1>11. ShowsWhatItSays'
  BY <1>1, <1>10 DEF ShowsWhatItSays, Excused, Overlapping, Foreign
<1> QED BY <1>7, <1>8, <1>9, <1>11

LEMMA AskKept == ASSUME CaptureInvs, Ask PROVE CaptureInvs'
<1> USE DEF CaptureInvs, Ask
<1>1. LayoutInv'
  BY DEF LayoutInv, Alike
<1>2. CaptureInv'
  BY DEF CaptureInv, Shot
<1>3. FoundInv'
  BY DEF FoundInv
<1>4. ShowsWhatItSays'
  BY DEF ShowsWhatItSays, Excused, Overlapping, Foreign
<1> QED BY <1>1, <1>2, <1>3, <1>4

LEMMA GrabFailsKept == ASSUME CaptureInvs, GrabFails PROVE CaptureInvs'
<1> USE DEF CaptureInvs, GrabFails
<1>1. LayoutInv'
  BY DEF LayoutInv, Alike
<1>2. CaptureInv'
  BY DEF CaptureInv, Shot
<1>3. FoundInv'
  BY DEF FoundInv
<1>4. ShowsWhatItSays'
  BY DEF ShowsWhatItSays, Excused, Overlapping, Foreign
<1> QED BY <1>1, <1>2, <1>3, <1>4

(* A display that changes is marked, and no other is touched.              *)
LEMMA ChangeKept ==
  ASSUME CaptureInvs, NEW m \in Monitors, Change(m)
  PROVE  CaptureInvs'
<1> USE DEF CaptureInvs
<1>1. /\ disturbed' = disturbed \cup {m}
      /\ UNCHANGED <<setup, phase, listed, chosen, found, shows, native, bounds>>
  BY DEF Change
<1>2. /\ DOMAIN layout' \subseteq DOMAIN layout \cup {m}
      /\ \A n \in DOMAIN layout' : layout'[n] \in Displays
      /\ \A n : n # m => (n \in DOMAIN layout' <=> n \in DOMAIN layout) /\ (n \in DOMAIN layout' => layout'[n] = layout[n])
  <2>1. CASE layout' = [n \in DOMAIN layout \ {m} |-> layout[n]]
    BY <2>1 DEF LayoutInv
  <2>2. ASSUME NEW s \in Spots, layout' = [n \in DOMAIN layout \cup {m} |-> IF n = m THEN s ELSE layout[n]]
        PROVE  <1>2!:
    <3>1. s \in Displays
      BY CaptureAssumption
    <3> QED BY <2>2, <3>1 DEF LayoutInv
  <2> QED BY <2>1, <2>2 DEF Change
<1>3. LayoutInv'
  BY <1>1, <1>2 DEF LayoutInv, Alike
<1>4. CaptureInv'
  BY <1>1 DEF CaptureInv, Shot
<1>5. \A d : Excused(d) => Excused(d)'
  BY <1>1 DEF Excused, Overlapping, Foreign
<1>6. Current' = Current
  BY <1>1 DEF Current
<1>7. FoundInv'
  BY <1>1, <1>5, <1>6 DEF FoundInv
<1>8. ShowsWhatItSays'
  BY <1>1, <1>5 DEF ShowsWhatItSays
<1> QED BY <1>3, <1>4, <1>7, <1>8

LEMMA CaptureInvsInductive == Spec => []CaptureInvs
<1>1. Init => CaptureInvs
  <2> SUFFICES ASSUME Init PROVE CaptureInvs
    OBVIOUS
  <2> USE DEF Init
  <2>1. LayoutInv
    BY CaptureAssumption DEF LayoutInv
  <2>2. CaptureInv
    BY DEF CaptureInv, Shot
  <2>3. FoundInv
    BY DEF FoundInv
  <2>4. ShowsWhatItSays
    BY DEF ShowsWhatItSays
  <2> QED BY <2>1, <2>2, <2>3, <2>4 DEF CaptureInvs
<1>2. CaptureInvs /\ [Next]_vars => CaptureInvs'
  <2> SUFFICES ASSUME CaptureInvs, [Next]_vars PROVE CaptureInvs'
    OBVIOUS
  <2>1. CASE UNCHANGED vars
    BY <2>1 DEF vars, CaptureInvs, LayoutInv, Alike, CaptureInv, Shot, FoundInv, Current, ShowsWhatItSays, Excused, Overlapping, Foreign
  <2>2. CASE \E m \in Monitors : Change(m)
    BY <2>2, ChangeKept
  <2> QED BY <2>1, <2>2, ListKept, LookUpKept, CliFailsKept, GrabKept, GrabFailsKept, AskKept DEF Next
<1> QED BY <1>1, <1>2, PTL DEF Spec

(* A display of the image is the one it is said to be, unless that display *)
(* was itself unplugged or moved since it was listed, or nothing tells the *)
(* displays apart (capture.rs, monitor_for and screencapture_cli).         *)
THEOREM AlwaysShowsWhatItSays == Spec => []ShowsWhatItSays
<1>1. CaptureInvs => ShowsWhatItSays
  BY DEF CaptureInvs
<1> QED BY <1>1, CaptureInvsInductive, PTL

-----------------------------------------------------------------------------
(* Rounding is exact to a half, and stays between whole bounds.            *)
LEMMA ProductGrows ==
  ASSUME NEW d \in Nat, NEW m \in Int, NEW n \in Int, m =< n
  PROVE  d * m =< d * n
<1>1. PICK k \in Nat : n = m + k
  <2>1. n - m \in Nat /\ n = m + (n - m)
    OBVIOUS
  <2> QED BY <2>1
<1>2. d * n = d * m + d * k /\ d * k \in Nat /\ d * m \in Int
  BY <1>1
<1> QED BY <1>2

LEMMA ProductCancels ==
  ASSUME NEW d \in Nat \ {0}, NEW m \in Int, NEW n \in Int, d * m =< d * n
  PROVE  m =< n
<1> SUFFICES ASSUME n + 1 =< m PROVE FALSE
  OBVIOUS
<1>1. d * (n + 1) =< d * m
  BY ProductGrows
<1>2. d * (n + 1) = d * n + d /\ d * n \in Int /\ d * m \in Int
  OBVIOUS
<1> QED BY <1>1, <1>2

LEMMA RoundIsNearest ==
  ASSUME NEW n \in Int, NEW d \in Nat \ {0}
  PROVE  /\ 2 * (Round(n, d) * d) - 2 * n =< d
         /\ 2 * n - 2 * (Round(n, d) * d) =< d
<1>1. 2 * d \in Nat \ {0}
  OBVIOUS
<1>2. CASE n >= 0
  <2> DEFINE q == (2 * n + d) \div (2 * d)
  <2>1. q \in Int /\ (2 * d) * q =< 2 * n + d /\ 2 * n + d < (2 * d) * (q + 1)
    <3>1. 2 * n + d \in Int
      OBVIOUS
    <3> QED BY <1>1, <3>1
  <2>2. Round(n, d) = q
    BY <1>2 DEF Round
  <2> HIDE DEF q
  <2>3. (2 * d) * q = 2 * (q * d) /\ (2 * d) * (q + 1) = 2 * (q * d) + 2 * d /\ q * d \in Int
    BY <2>1
  <2> QED BY <2>1, <2>2, <2>3
<1>3. CASE ~(n >= 0)
  <2> DEFINE q == (d - 2 * n) \div (2 * d)
  <2>1. q \in Int /\ (2 * d) * q =< d - 2 * n /\ d - 2 * n < (2 * d) * (q + 1)
    <3>1. d - 2 * n \in Int
      OBVIOUS
    <3> QED BY <1>1, <3>1
  <2>2. Round(n, d) = -q
    BY <1>3 DEF Round
  <2> HIDE DEF q
  <2>3. (2 * d) * q = 2 * (q * d) /\ (2 * d) * (q + 1) = 2 * (q * d) + 2 * d /\ q * d \in Int /\ (-q) * d = -(q * d)
    BY <2>1
  <2> QED BY <2>1, <2>2, <2>3
<1> QED BY <1>2, <1>3

LEMMA RoundBetween ==
  ASSUME NEW d \in Nat \ {0}, NEW n \in Int, NEW lo \in Int, NEW hi \in Int,
         d * lo =< n, n =< d * hi
  PROVE  Round(n, d) \in lo .. hi
<1> DEFINE q == Round(n, d)
<1>1. q \in Int
  BY RoundIsWhole
<1>2. 2 * (q * d) - 2 * n =< d /\ 2 * n - 2 * (q * d) =< d
  BY RoundIsNearest
<1> HIDE DEF q
<1>3. lo =< q
  <2> SUFFICES ASSUME q + 1 =< lo PROVE FALSE
    BY <1>1
  <2>1. d * (q + 1) =< d * lo
    BY <1>1, ProductGrows
  <2>2. d * (q + 1) = q * d + d /\ q * d \in Int /\ d * lo \in Int
    BY <1>1
  <2> QED BY <1>2, <2>1, <2>2
<1>4. q =< hi
  <2> SUFFICES ASSUME hi + 1 =< q PROVE FALSE
    BY <1>1
  <2>1. d * (hi + 1) =< d * q
    BY <1>1, ProductGrows
  <2>2. d * (hi + 1) = d * hi + d /\ d * q = q * d /\ q * d \in Int /\ d * hi \in Int
    BY <1>1
  <2> QED BY <1>2, <2>1, <2>2
<1> QED BY <1>1, <1>3, <1>4 DEF q

LEMMA RoundFromZero ==
  ASSUME NEW d \in Nat \ {0}, NEW n \in Nat, NEW hi \in Nat, n =< d * hi
  PROVE  Round(n, d) \in 0 .. hi
<1>1. PICK z \in Int : z = 0 /\ d * z = 0
  OBVIOUS
<1>2. d * z =< n /\ n \in Int /\ hi \in Int
  BY <1>1
<1>3. Round(n, d) \in z .. hi
  BY <1>2, RoundBetween
<1> QED BY <1>1, <1>3

-----------------------------------------------------------------------------
(* The size of a screenshot.                                               *)
LEMMA ScaledFits ==
  ASSUME NEW size \in Nat \ {0}, NEW long \in Nat \ {0}, size =< long, NEW max \in Nat
  PROVE  /\ Scaled(size, long, max) \in Nat \ {0}
         /\ max > 0 => Scaled(size, long, max) \in 1 .. max
<1>1. CASE max > 0 /\ long > max
  <2>1. size * max \in Int /\ long * 0 =< size * max /\ size * max =< long * max
    <3>1. max * size =< max * long /\ max * size = size * max /\ max * long = long * max /\ size * max \in Nat
      BY ProductGrows
    <3> QED BY <3>1
  <2>2. Round(size * max, long) \in 0 .. max
    BY <2>1, RoundBetween
  <2> QED BY <1>1, <2>2 DEF Scaled, Greatest
<1>2. CASE ~(max > 0 /\ long > max)
  BY <1>2 DEF Scaled
<1> QED BY <1>1, <1>2

LEMMA SizeIsSome ==
  ASSUME CaptureInvs, Shot
  PROVE  Size \in Nat \ {0} /\ native \in Nat \ {0} /\ setup.max \in Nat /\ setup.other \in Nat \ {0}
         /\ (setup.max > 0 => Size \in 1 .. setup.max)
<1>1. native \in Nat \ {0} /\ setup.max \in Nat /\ setup.other \in Nat \ {0}
  BY CaptureAssumption DEF CaptureInvs, CaptureInv, LayoutInv
<1>2. Greatest(native, setup.other) \in Nat \ {0} /\ native =< Greatest(native, setup.other)
  BY <1>1 DEF Greatest
<1> QED BY <1>1, <1>2, ScaledFits DEF Size

(* A screenshot keeps to the long edge asked for, and no edge of it        *)
(* disappears (capture.rs, screenshot).                                    *)
THEOREM AlwaysFitsAndStays == Spec => []FitsAndStays
<1>1. ASSUME CaptureInvs PROVE FitsAndStays
  <2> SUFFICES ASSUME Shot
               PROVE  /\ Size >= 1
                      /\ setup.max > 0 =>
                           Size =< setup.max
                           /\ Scaled(setup.other, Greatest(native, setup.other), setup.max) \in 1 .. setup.max
    BY DEF FitsAndStays
  <2>1. Size \in Nat \ {0} /\ native \in Nat \ {0} /\ setup.max \in Nat /\ setup.other \in Nat \ {0}
        /\ (setup.max > 0 => Size \in 1 .. setup.max)
    BY <1>1, SizeIsSome
  <2>2. Greatest(native, setup.other) \in Nat \ {0} /\ setup.other =< Greatest(native, setup.other)
    BY <2>1 DEF Greatest
  <2>3. setup.max > 0 => Scaled(setup.other, Greatest(native, setup.other), setup.max) \in 1 .. setup.max
    BY <2>1, <2>2, ScaledFits
  <2> QED BY <2>1, <2>3
<1> QED BY <1>1, CaptureInvsInductive, PTL

-----------------------------------------------------------------------------
LEMMA RegionOfAShot ==
  ASSUME CaptureInvs, Shot
  PROVE  /\ chosen # << >> /\ Region \in Displays /\ Region \in Spans /\ Region.len > 0
         /\ UnionUpTo(chosen, listed, Len(chosen), Region)
<1>1. chosen # << >>
  BY DEF CaptureInvs, CaptureInv
<1> QED BY <1>1, RegionIsADisplay DEF CaptureInvs, Displays, Spans

(* Whatever an agent names in an image is a point of the region the image  *)
(* shows (view.rs:21-23).                                                  *)
THEOREM PixelAlwaysOnItsDisplay == Spec => []PixelOnItsDisplay
<1>1. ASSUME CaptureInvs PROVE PixelOnItsDisplay
  <2> SUFFICES ASSUME phase = "done", NEW p \in Named
               PROVE  Within(Region, ToDesktop(Region, Size, p))
    BY DEF PixelOnItsDisplay
  <2>1. Size \in Nat \ {0} /\ Region \in Spans /\ Region.len > 0
    BY <1>1, SizeIsSome, RegionOfAShot DEF Shot
  <2>2. p \in Int
    BY <2>1, PartAssumption DEF Named
  <2> QED BY <2>1, <2>2, PixelStaysInItsRegion
<1> QED BY <1>1, CaptureInvsInductive, PTL

(* The desktop the input thread spans covers the image's region, for they  *)
(* are unions of the same displays (input.rs, CoordMap; capture.rs).       *)
LEMMA BoundsCoverRegion ==
  ASSUME CaptureInvs, phase = "asked", disturbed = {}
  PROVE  Bounds \in Spans /\ Bounds.len > 0 /\ Covers(Bounds, Region)
<1>1. /\ bounds = listed /\ DOMAIN listed \subseteq Monitors
      /\ chosen \in Seq(DOMAIN listed) /\ \A m \in DOMAIN listed : listed[m] \in Displays
  BY DEF CaptureInvs, LayoutInv, CaptureInv
<1>2. chosen # << >> /\ UnionUpTo(chosen, listed, Len(chosen), Region)
  BY RegionOfAShot DEF Shot
<1> DEFINE all == Order(listed)
<1>3. all \in Seq(DOMAIN listed) /\ \A m \in DOMAIN listed : \E i \in 1 .. Len(all) : all[i] = m
  BY <1>1, OrderListsAll
<1> HIDE DEF all
<1>4. chosen[1] \in DOMAIN listed
  BY <1>1, <1>2
<1>5. all # << >>
  BY <1>3, <1>4
<1>6. Bounds = Spanned(all, listed)
  BY <1>1 DEF Bounds, all
<1>7. UnionUpTo(all, listed, Len(all), Bounds)
  BY <1>1, <1>3, <1>5, <1>6, SpannedCovers
<1>8. Bounds \in Displays /\ Bounds \in Spans /\ Bounds.len > 0
  BY <1>7 DEF UnionUpTo, Displays, Spans
<1>9. \A m \in DOMAIN listed : Covers(Bounds, listed[m])
  BY <1>3, <1>7 DEF UnionUpTo
<1>10. \A j \in 1 .. Len(chosen) : Covers(Bounds, listed[chosen[j]])
  BY <1>1, <1>9
<1> QED BY <1>2, <1>8, <1>10 DEF UnionUpTo

LEMMA ExtentHolds ==
  ASSUME NEW s \in Spans, s.len > 0, NEW x \in Int, Inside(s, x), NEW extent \in Nat
  PROVE  ToExtent(s, extent, x) \in 0 .. extent
<1>1. PICK lo \in Int, len \in Nat \ {0} : lo = s.lo /\ len = s.len
  BY DEF Spans
<1>2. PICK k \in Nat : k = x - lo /\ k =< len
  BY <1>1 DEF Inside, End
<1>3. k * extent \in Int /\ len * 0 =< k * extent /\ k * extent =< len * extent
  <2>1. extent * k =< extent * len /\ extent * k = k * extent /\ extent * len = len * extent /\ k * extent \in Nat
    BY <1>2, ProductGrows
  <2> QED BY <2>1
<1>4. Round(k * extent, len) \in 0 .. extent
  <2>1. PICK m \in Nat : m = k * extent /\ m =< len * extent
    BY <1>3
  <2>2. Round(m, len) \in 0 .. extent
    BY <2>1, RoundFromZero
  <2> QED BY <2>1, <2>2
<1> QED BY <1>1, <1>2, <1>4 DEF ToExtent

(* A point read off a screenshot is one the input thread accepts while the *)
(* displays stay as they are, and on Wayland it lies in the extent         *)
(* (capture.rs, composite; input.rs, CoordMap).                            *)
THEOREM AlwaysAcceptedByInput == Spec => []AcceptedByInput
<1>1. ASSUME CaptureInvs PROVE AcceptedByInput
  <2> SUFFICES ASSUME phase = "asked", disturbed = {}, NEW p \in Named
               PROVE  LET x == ToDesktop(Region, Size, p)
                      IN  Inside(Bounds, x) /\ \A extent \in {1, 3, 9} : ToExtent(Bounds, extent, x) \in 0 .. extent
    BY DEF AcceptedByInput
  <2> DEFINE x == ToDesktop(Region, Size, p)
  <2>1. Size \in Nat \ {0} /\ Region \in Spans /\ Region.len > 0
    BY <1>1, SizeIsSome, RegionOfAShot DEF Shot
  <2>2. p \in Int
    BY <2>1, PartAssumption DEF Named
  <2>3. Bounds \in Spans /\ Bounds.len > 0 /\ Covers(Bounds, Region)
    BY <1>1, BoundsCoverRegion
  <2>4. Inside(Bounds, x) /\ x \in Int
    BY <2>1, <2>2, <2>3, PixelIsAccepted, PixelStaysInItsRegion
  <2> HIDE DEF x
  <2>5. \A extent \in {1, 3, 9} : ToExtent(Bounds, extent, x) \in 0 .. extent
    BY <2>3, <2>4, ExtentHolds
  <2> QED BY <2>4, <2>5 DEF x
<1> QED BY <1>1, CaptureInvsInductive, PTL

-----------------------------------------------------------------------------
(* To the pixel and back: each way rounds once, by a half at most.         *)
LEMMA RoundOfMultiple ==
  ASSUME NEW c \in Nat \ {0}, NEW n \in Int, NEW d \in Nat \ {0}, NEW q, q = Round(c * n, c * d)
  PROVE  q \in Int /\ 2 * (q * d) - 2 * n =< d /\ 2 * n - 2 * (q * d) =< d
<1>1. c * n \in Int /\ c * d \in Nat \ {0}
  OBVIOUS
<1>2. q \in Int
  BY <1>1, RoundIsWhole
<1>3. 2 * (q * (c * d)) - 2 * (c * n) =< c * d /\ 2 * (c * n) - 2 * (q * (c * d)) =< c * d
  BY <1>1, RoundIsNearest
<1>4. PICK e \in Int : e = 2 * (q * d) - 2 * n
  BY <1>2
<1>5. c * e = 2 * (q * (c * d)) - 2 * (c * n) /\ c * (-e) = 2 * (c * n) - 2 * (q * (c * d))
  BY <1>2, <1>4
<1>6. c * e =< c * d /\ c * (-e) =< c * d
  BY <1>3, <1>5
<1>7. e =< d /\ -e =< d
  BY <1>4, <1>6, ProductCancels
<1> QED BY <1>2, <1>4, <1>7

LEMMA ClampNoFarther ==
  ASSUME NEW n \in Int, NEW lo \in Int, NEW hi \in Int, NEW x \in lo .. hi
  PROVE  Clamp(n, lo, hi) \in Int /\ Distance(Clamp(n, lo, hi), x) =< Distance(n, x)
BY DEF Clamp, Greatest, Least, Distance

LEMMA BackFromPixel ==
  ASSUME NEW s \in Displays, NEW size \in Nat \ {0}, NEW x \in s.lo .. (End(s) - 1)
  PROVE  2 * size * Distance(ToDesktop(s, size, ToView(s, size, x) * Part), x) =< s.len + size
<1>1. PICK lo \in Int, len \in Nat \ {0} : lo = s.lo /\ len = s.len
  BY DEF Displays, Spans
<1>2. PICK k \in Nat : k = x - lo /\ k =< len - 1 /\ x = lo + k
  BY <1>1 DEF End
<1> DEFINE v == Round(k * size, len)
<1>3. k * size \in Int /\ len * 0 =< k * size /\ k * size =< len * size
  <2>1. size * k =< size * len /\ size * k = k * size /\ size * len = len * size /\ k * size \in Nat
    BY <1>2, ProductGrows
  <2> QED BY <2>1
<1>4. v \in 0 .. size /\ 2 * (v * len) - 2 * (k * size) =< len /\ 2 * (k * size) - 2 * (v * len) =< len
  <2>1. PICK m \in Nat : m = k * size /\ m =< len * size
    BY <1>3
  <2>2. Round(m, len) \in 0 .. size
    BY <2>1, RoundFromZero
  <2>3. 2 * (Round(m, len) * len) - 2 * m =< len /\ 2 * m - 2 * (Round(m, len) * len) =< len
    BY RoundIsNearest
  <2> QED BY <2>1, <2>2, <2>3
<1>5. ToView(s, size, x) = v
  BY <1>1, <1>2 DEF ToView, Greatest
<1> HIDE DEF v
<1> DEFINE n == lo * size + v * len
           q == Round(Part * n, Part * size)
           y == ToDesktop(s, size, v * Part)
<1>6. ClampPixel(v * Part, size) = v * Part
  <2>1. Part * 0 =< Part * v /\ Part * v =< Part * size /\ Part * v = v * Part /\ Part * size = size * Part
        /\ v * Part \in Nat /\ size * Part \in Nat
    BY <1>4, PartAssumption, ProductGrows
  <2> QED BY <2>1 DEF ClampPixel, Clamp, Greatest, Least
<1>7. y = Clamp(q, lo, lo + (len - 1))
  <2>1. Greatest(size, 1) * Part = Part * size
    BY PartAssumption DEF Greatest
  <2>2. lo * (Part * size) + (v * Part) * len = Part * n
    BY <1>4, PartAssumption
  <2>3. FarEdge(s) = lo + (len - 1)
    BY <1>1 DEF FarEdge, Greatest
  <2> HIDE DEF n
  <2> QED BY <1>1, <1>6, <2>1, <2>2, <2>3 DEF ToDesktop
<1>8. n \in Int
  BY <1>4
<1>9. q \in Int /\ 2 * (q * size) - 2 * n =< size /\ 2 * n - 2 * (q * size) =< size
  <2> HIDE DEF n
  <2> QED BY <1>8, PartAssumption, RoundOfMultiple
<1>10. y \in Int /\ Distance(y, x) =< Distance(q, x)
  <2> HIDE DEF q
  <2> QED BY <1>2, <1>7, <1>9, ClampNoFarther
<1> HIDE DEF q, y
<1>11. 2 * (q * size) - 2 * (x * size) =< len + size /\ 2 * (x * size) - 2 * (q * size) =< len + size
  <2>1. x * size = lo * size + k * size /\ lo * size \in Int /\ k * size \in Int /\ v * len \in Int /\ q * size \in Int
    BY <1>2, <1>4, <1>9
  <2> QED BY <1>4, <1>9, <2>1
<1>12. PICK e \in Int : e = q - x
  BY <1>2, <1>9
<1>13. Distance(q, x) \in {e, -e} /\ Distance(q, x) \in Int /\ Distance(y, x) \in Int
  BY <1>2, <1>9, <1>10, <1>12 DEF Distance, Greatest
<1>14. (2 * size) * e =< len + size /\ (2 * size) * (-e) =< len + size
  <2>1. (2 * size) * e = 2 * (q * size) - 2 * (x * size) /\ (2 * size) * (-e) = 2 * (x * size) - 2 * (q * size)
    BY <1>2, <1>9, <1>12
  <2> QED BY <1>11, <2>1
<1>15. (2 * size) * Distance(q, x) =< len + size
  BY <1>13, <1>14
<1>16. (2 * size) * Distance(y, x) =< (2 * size) * Distance(q, x)
  <2>1. 2 * size \in Nat
    OBVIOUS
  <2> QED BY <1>10, <1>13, <2>1, ProductGrows
<1>17. (2 * size) * Distance(y, x) \in Int /\ (2 * size) * Distance(q, x) \in Int
  BY <1>13
<1>18. (2 * size) * Distance(y, x) =< len + size
  BY <1>15, <1>16, <1>17
<1> QED BY <1>1, <1>5, <1>18 DEF y

(* Where a window is said to be in the image is where a click lands on it, *)
(* but for half a pixel and half a point (view.rs).                        *)
THEOREM AlwaysThereAndBack == Spec => []ThereAndBack
<1>1. ASSUME CaptureInvs PROVE ThereAndBack
  <2>1. phase = "done" => Size \in Nat \ {0} /\ Region \in Displays
    BY <1>1, SizeIsSome, RegionOfAShot DEF Shot
  <2> QED BY <2>1, BackFromPixel DEF ThereAndBack
<1> QED BY <1>1, CaptureInvsInductive, PTL

-----------------------------------------------------------------------------
LEMMA ProductsOfTwo ==
  ASSUME NEW k \in Int, NEW m \in Int, NEW n \in Int
  PROVE  2 * k * m = 2 * (k * m) /\ 2 * k * m = 2 * (m * k) /\ k * (2 * (n * m)) = 2 * m * k * n
OBVIOUS

(* Where a click into the picture of one of several displays lands.  Its   *)
(* end first: with what was rounded there, p is short of the display's     *)
(* end, b points into the region, by more than half a point.               *)
LEMMA ShortOfTheEnd ==
  ASSUME NEW num \in Nat \ {0}, NEW den \in Nat \ {0}, NEW unit \in Nat \ {0}, NEW n \in Nat,
         NEW R \in Nat, NEW b \in Nat, b =< R, NEW p \in 0 .. unit, NEW end \in Int,
         2 * (R * num) - 2 * (n * den) =< den,
         2 * (den * end) =< 2 * (b * num) + 2 * den,
         2 * den * p * n =< (2 * den * end - 3 * den - num) * unit
  PROVE  2 * (p * R) < (2 * b - 1) * unit
<1>1. /\ R * num \in Nat /\ n * den \in Nat /\ b * num \in Nat /\ den * end \in Int /\ p * R \in Nat
      /\ b * unit \in Nat /\ (2 * b - 1) * unit = 2 * (b * unit) - unit
  OBVIOUS
<1>2. (2 * den * end - 3 * den - num) * unit =< num * ((2 * b - 1) * unit) - den * unit
  <2> DEFINE e == 2 * den * end - 3 * den - num
             c == 2 * (b * num) - den - num
  <2>1. e \in Int /\ c \in Int
    BY <1>1
  <2>2. e =< c
    <3>1. 2 * den * end = 2 * (den * end)
      BY ProductsOfTwo
    <3> QED BY <1>1, <3>1
  <2>3. unit * c = num * ((2 * b - 1) * unit) - den * unit
    OBVIOUS
  <2>4. unit * e = (2 * den * end - 3 * den - num) * unit
    OBVIOUS
  <2> HIDE DEF e, c
  <2>5. unit * e =< unit * c
    BY <2>1, <2>2, ProductGrows
  <2> QED BY <2>3, <2>4, <2>5
<1>3. num * (2 * (p * R)) - den * p =< 2 * den * p * n
  <2> DEFINE e == 2 * (R * num) - den
             c == 2 * (n * den)
  <2>1. e \in Int /\ c \in Int
    BY <1>1
  <2>2. e =< c
    BY <1>1
  <2>3. p * c = 2 * den * p * n
    BY ProductsOfTwo
  <2>4. p * e = num * (2 * (p * R)) - den * p
    OBVIOUS
  <2> HIDE DEF e, c
  <2>5. p * e =< p * c
    BY <2>1, <2>2, ProductGrows
  <2> QED BY <2>3, <2>4, <2>5
<1> DEFINE x == 2 * (p * R)
           y == (2 * b - 1) * unit
<1>4. x \in Int /\ y \in Int /\ num * x \in Int /\ num * y \in Int /\ den * p \in Int /\ den * unit \in Int
      /\ 2 * den * p * n \in Int /\ (2 * den * end - 3 * den - num) * unit \in Int
  OBVIOUS
<1>5. num * x + den * unit =< num * y + den * p
  <2> HIDE DEF x, y
  <2>1. num * x - den * p =< num * y - den * unit
    <3>1. num * x - den * p =< 2 * den * p * n
      BY <1>3 DEF x
    <3>2. (2 * den * end - 3 * den - num) * unit =< num * y - den * unit
      BY <1>2 DEF y
    <3> HIDE DEF x, y
    <3> QED BY <1>4, <3>1, <3>2
  <2> QED BY <1>4, <2>1
<1>6. x # y
  <2> SUFFICES ASSUME x = y PROVE FALSE
    OBVIOUS
  <2>1. den * unit =< den * p
    <3> HIDE DEF x, y
    <3> QED BY <1>4, <1>5
  <2>2. p = unit
    BY <2>1, ProductCancels
  <2>3. unit * b =< unit * R /\ unit * b = b * unit /\ unit * R \in Nat
    BY ProductGrows
  <2> QED BY <1>1, <2>2, <2>3
<1>7. x =< y
  <2>1. den * p =< den * unit
    BY ProductGrows
  <2> HIDE DEF x, y
  <2>2. num * x =< num * y
    BY <1>4, <1>5, <2>1
  <2> QED BY <1>4, <2>2, ProductCancels
<1> HIDE DEF x, y
<1>8. x < y
  BY <1>4, <1>6, <1>7
<1> QED BY <1>8 DEF x, y

(* And its start, a points into the region.                                *)
LEMMA PastTheStart ==
  ASSUME NEW num \in Nat \ {0}, NEW den \in Nat \ {0}, NEW unit \in Nat \ {0}, NEW n \in Nat,
         NEW R \in Nat, NEW a \in Nat, a < R, NEW p \in 0 .. unit, NEW start \in Int,
         2 * (n * den) - 2 * (R * num) =< den,
         2 * (a * num) - 2 * (start * den) =< den,
         (2 * den * start + 2 * den - num) * unit =< 2 * den * p * n
  PROVE  (2 * a - 1) * unit < 2 * (p * R)
<1>1. /\ R * num \in Nat /\ n * den \in Nat /\ a * num \in Nat /\ start * den \in Int /\ p * R \in Nat
      /\ a * unit \in Nat /\ (2 * a - 1) * unit = 2 * (a * unit) - unit
  OBVIOUS
<1>2. num * ((2 * a - 1) * unit) + den * unit =< (2 * den * start + 2 * den - num) * unit
  <2> DEFINE e == 2 * den * start + 2 * den - num
             c == 2 * (a * num) + den - num
  <2>1. e \in Int /\ c \in Int
    BY <1>1
  <2>2. c =< e
    <3>1. 2 * den * start = 2 * (start * den)
      BY ProductsOfTwo
    <3> QED BY <1>1, <3>1
  <2>3. unit * c = num * ((2 * a - 1) * unit) + den * unit
    OBVIOUS
  <2>4. unit * e = (2 * den * start + 2 * den - num) * unit
    OBVIOUS
  <2> HIDE DEF e, c
  <2>5. unit * c =< unit * e
    BY <2>1, <2>2, ProductGrows
  <2> QED BY <2>3, <2>4, <2>5
<1>3. 2 * den * p * n =< num * (2 * (p * R)) + den * p
  <2> DEFINE e == 2 * (R * num) + den
             c == 2 * (n * den)
  <2>1. e \in Int /\ c \in Int
    BY <1>1
  <2>2. c =< e
    BY <1>1
  <2>3. p * c = 2 * den * p * n
    BY ProductsOfTwo
  <2>4. p * e = num * (2 * (p * R)) + den * p
    OBVIOUS
  <2> HIDE DEF e, c
  <2>5. p * c =< p * e
    BY <2>1, <2>2, ProductGrows
  <2> QED BY <2>3, <2>4, <2>5
<1> DEFINE x == 2 * (p * R)
           y == (2 * a - 1) * unit
<1>4. x \in Int /\ y \in Int /\ num * x \in Int /\ num * y \in Int /\ den * p \in Int /\ den * unit \in Int
      /\ 2 * den * p * n \in Int /\ (2 * den * start + 2 * den - num) * unit \in Int
  OBVIOUS
<1>5. num * y + den * unit =< num * x + den * p
  <2>1. num * y + den * unit =< (2 * den * start + 2 * den - num) * unit
    BY <1>2 DEF y
  <2>2. 2 * den * p * n =< num * x + den * p
    BY <1>3 DEF x
  <2> HIDE DEF x, y
  <2> QED BY <1>4, <2>1, <2>2
<1>6. x # y
  <2> SUFFICES ASSUME x = y PROVE FALSE
    OBVIOUS
  <2>1. den * unit =< den * p
    <3> HIDE DEF x, y
    <3> QED BY <1>4, <1>5
  <2>2. p = unit
    BY <2>1, ProductCancels
  <2>3. unit * a =< unit * R /\ unit * a = a * unit /\ unit * R \in Nat
    BY ProductGrows
  <2> QED BY <1>1, <2>2, <2>3
<1>7. y =< x
  <2>1. den * p =< den * unit
    BY ProductGrows
  <2> HIDE DEF x, y
  <2>2. num * y =< num * x
    BY <1>4, <1>5, <2>1
  <2> QED BY <1>4, <2>2, ProductCancels
<1> HIDE DEF x, y
<1>8. y < x
  BY <1>4, <1>6, <1>7
<1> QED BY <1>8 DEF x, y

LEMMA RoundsInto ==
  ASSUME NEW unit \in Nat \ {0}, NEW L \in Int, NEW m \in Int, NEW a \in Nat, NEW b \in Nat,
         (2 * a - 1) * unit < 2 * m, 2 * m < (2 * b - 1) * unit
  PROVE  Round(L * unit + m, unit) \in (L + a) .. (L + b - 1)
<1> DEFINE n == L * unit + m
           q == Round(n, unit)
<1>1. n \in Int
  OBVIOUS
<1>2. q \in Int /\ 2 * (q * unit) - 2 * n =< unit /\ 2 * n - 2 * (q * unit) =< unit
  <2> HIDE DEF n
  <2> QED BY <1>1, RoundIsWhole, RoundIsNearest
<1> HIDE DEF q
<1>3. /\ (2 * a - 1) * unit = 2 * (a * unit) - unit /\ a * unit \in Int
      /\ (2 * b - 1) * unit = 2 * (b * unit) - unit /\ b * unit \in Int
      /\ L * unit \in Int
  OBVIOUS
<1>4. q * unit < L * unit + b * unit
  <2>1. q * unit \in Int
    BY <1>2
  <2> QED BY <1>2, <1>3, <2>1
<1>5. L * unit + a * unit - unit < q * unit
  <2>1. q * unit \in Int
    BY <1>2
  <2> QED BY <1>2, <1>3, <2>1
<1>6. q < L + b
  <2> SUFFICES ASSUME L + b =< q PROVE FALSE
    BY <1>2
  <2>1. unit * (L + b) =< unit * q
    BY <1>2, ProductGrows
  <2>2. unit * (L + b) = L * unit + b * unit /\ unit * q = q * unit /\ q * unit \in Int
    BY <1>2
  <2> QED BY <1>3, <1>4, <2>1, <2>2
<1>7. L + a - 1 < q
  <2> SUFFICES ASSUME q =< L + a - 1 PROVE FALSE
    BY <1>2
  <2>1. unit * q =< unit * (L + a - 1)
    BY <1>2, ProductGrows
  <2>2. unit * (L + a - 1) = L * unit + a * unit - unit /\ unit * q = q * unit /\ q * unit \in Int
    BY <1>2
  <2> QED BY <1>3, <1>5, <2>1, <2>2
<1> QED BY <1>2, <1>6, <1>7 DEF q

(* The map clamps neither a pixel that is in the image nor a point that is *)
(* in the region.                                                          *)
LEMMA ToDesktopRounds ==
  ASSUME NEW s \in Displays, NEW size \in Nat \ {0}, NEW p \in 0 .. size * Part, NEW a \in Nat, NEW b \in Nat,
         b =< s.len, Round(s.lo * (size * Part) + p * s.len, size * Part) \in (s.lo + a) .. (s.lo + b - 1)
  PROVE  ToDesktop(s, size, p) \in (s.lo + a) .. (s.lo + b - 1)
<1>1. PICK unit \in Nat \ {0} : unit = size * Part
  <2>1. size * Part \in Nat \ {0}
    BY PartAssumption
  <2> QED BY <2>1
<1>2. Greatest(size, 1) * Part = unit
  BY <1>1 DEF Greatest
<1>3. ClampPixel(p, size) = p
  BY <1>1 DEF ClampPixel, Clamp, Greatest, Least
<1> DEFINE q == Round(s.lo * unit + p * s.len, unit)
<1>4. ToDesktop(s, size, p) = Clamp(q, s.lo, FarEdge(s))
  BY <1>2, <1>3 DEF ToDesktop
<1>5. q \in (s.lo + a) .. (s.lo + b - 1)
  BY <1>1
<1> HIDE DEF q
<1> QED BY <1>4, <1>5 DEF Clamp, Greatest, Least, FarEdge, Displays, Spans

(* A picture that has room for more than its seams is longer than a pixel, *)
(* so its length and that of the canvas are what rounding gave.            *)
LEMMA PictureHasRoom ==
  ASSUME NEW num \in Nat \ {0}, NEW den \in Nat \ {0}, NEW unit \in Nat \ {0}, NEW at \in Int, NEW start \in Int,
         NEW len \in Nat,
         (2 * den * start + 2 * den - num) * unit =< at,
         at =< (2 * den * (start + len) - 3 * den - num) * unit
  PROVE  2 =< len
<1> SUFFICES ASSUME len =< 1 PROVE FALSE
  OBVIOUS
<1> DEFINE e == 2 * den * start + 2 * den - num
           c == 2 * den * (start + len) - 3 * den - num
<1>1. e \in Int /\ c \in Int /\ unit * e = e * unit /\ unit * c = c * unit /\ unit * e \in Int /\ unit * c \in Int
  OBVIOUS
<1>2. e =< c
  <2>1. unit * e =< unit * c
    <3>1. e * unit =< at /\ at =< c * unit
      OBVIOUS
    <3> HIDE DEF e, c
    <3> QED BY <1>1, <3>1
  <2> HIDE DEF e, c
  <2> QED BY <1>1, <2>1, ProductCancels
<1>3. PICK d \in Int : d = 2 * den * start
  OBVIOUS
<1>4. len = 0 \/ len = 1
  OBVIOUS
<1>5. 2 * den * (start + len) = d \/ 2 * den * (start + len) = d + 2 * den
  BY <1>3, <1>4
<1>6. d + 2 * den - num =< d - 3 * den - num \/ d + 2 * den - num =< d + 2 * den - 3 * den - num
  BY <1>2, <1>3, <1>5
<1> QED BY <1>3, <1>6

LEMMA RoundOfProduct ==
  ASSUME NEW m \in Nat, NEW num \in Nat, NEW den \in Nat \ {0}
  PROVE  /\ Round(m * num, den) \in Int
         /\ 2 * (Round(m * num, den) * den) - 2 * (m * num) =< den
         /\ 2 * (m * num) - 2 * (Round(m * num, den) * den) =< den
<1>1. PICK n \in Nat : n = m * num
  OBVIOUS
<1>2. Round(n, den) \in Int /\ 2 * (Round(n, den) * den) - 2 * n =< den /\ 2 * n - 2 * (Round(n, den) * den) =< den
  BY RoundIsWhole, RoundIsNearest
<1> QED BY <1>1, <1>2

LEMMA LandsWithin ==
  ASSUME NEW num \in Nat \ {0}, NEW den \in Nat \ {0}, NEW size \in Nat \ {0}, NEW p \in 0 .. size * Part,
         NEW region \in Displays, NEW s \in Displays, Covers(region, s),
         NEW n, n = CanvasSize(region.len, num, den),
         NEW start, start = Round((s.lo - region.lo) * num, den),
         NEW len, len = CanvasSize(s.len, num, den),
         (2 * den * start + 2 * den - num) * (size * Part) =< 2 * den * p * n,
         2 * den * p * n =< (2 * den * (start + len) - 3 * den - num) * (size * Part)
  PROVE  Within(s, ToDesktop(region, size, p))
<1>1. PICK L \in Int, R \in Nat : L = region.lo /\ R = region.len
  BY DEF Displays, Spans
<1>2. PICK a \in Nat, l \in Nat : s.lo = L + a /\ s.len = l /\ 1 =< l /\ a + l =< R
  <2>1. s.lo - L \in Nat /\ s.lo = L + (s.lo - L) /\ s.len \in Nat /\ 1 =< s.len /\ (s.lo - L) + s.len =< R
    BY <1>1 DEF Covers, End, Displays, Spans
  <2> QED BY <2>1
<1>3. PICK unit \in Nat \ {0} : unit = size * Part
  <2>1. size * Part \in Nat \ {0}
    BY PartAssumption
  <2> QED BY <2>1
<1>4. a * num \in Nat /\ l * num \in Nat /\ R * num \in Nat
  OBVIOUS
<1> DEFINE first == Round(a * num, den)
           long == Round(l * num, den)
           whole == Round(R * num, den)
<1>5. /\ first \in Int /\ 2 * (first * den) - 2 * (a * num) =< den /\ 2 * (a * num) - 2 * (first * den) =< den
      /\ long \in Int /\ 2 * (long * den) - 2 * (l * num) =< den
      /\ whole \in Int /\ 2 * (whole * den) - 2 * (R * num) =< den /\ 2 * (R * num) - 2 * (whole * den) =< den
  BY RoundOfProduct
<1>6. start = first /\ len = Greatest(long, 1) /\ n = Greatest(whole, 1)
  <2>1. s.lo - region.lo = a
    BY <1>1, <1>2
  <2> QED BY <1>1, <1>2, <2>1 DEF CanvasSize
<1> HIDE DEF first, long, whole
<1>7. len \in Nat /\ n \in Nat
  BY <1>5, <1>6 DEF Greatest
<1>8. /\ (2 * den * first + 2 * den - num) * unit =< 2 * den * p * n
      /\ 2 * den * p * n =< (2 * den * (first + len) - 3 * den - num) * unit
      /\ p \in 0 .. unit
  BY <1>3, <1>6
<1>9. 2 =< len
  <2>1. 2 * den * p * n \in Int
    BY <1>3, <1>7
  <2> QED BY <1>5, <1>7, <1>8, <2>1, PictureHasRoom
<1>10. len = long /\ 2 =< long
  BY <1>5, <1>6, <1>9 DEF Greatest
<1>11. n = whole
  <2>1. den * 2 =< den * long /\ den * long = long * den /\ long * den \in Int
    BY <1>5, <1>10, ProductGrows
  <2>2. num * l =< num * R /\ num * l = l * num /\ num * R = R * num
    BY <1>2, ProductGrows
  <2>3. whole * den \in Int /\ den =< 2 * (whole * den)
    <3>1. whole * den \in Int
      BY <1>5
    <3> QED BY <1>4, <1>5, <2>1, <2>2, <3>1
  <2>4. 1 =< whole
    <3> SUFFICES ASSUME whole =< 0 PROVE FALSE
      BY <1>5
    <3>1. den * whole =< den * 0 /\ den * whole = whole * den
      BY <1>5, ProductGrows
    <3> QED BY <2>3, <3>1
  <2> QED BY <1>5, <1>6, <2>4 DEF Greatest
<1> DEFINE b == a + l
           end == first + len
<1>12. b \in Nat /\ b =< R /\ a < R /\ end \in Int /\ p \in 0 .. unit
  BY <1>2, <1>5, <1>7, <1>8
<1>13. 2 * (den * end) =< 2 * (b * num) + 2 * den
  <2>1. den * end = first * den + long * den /\ first * den \in Int /\ long * den \in Int
    BY <1>5, <1>10
  <2>2. b * num = a * num + l * num
    OBVIOUS
  <2> HIDE DEF b, end
  <2> QED BY <1>4, <1>5, <2>1, <2>2
<1>14. 2 * (p * R) < (2 * b - 1) * unit
  <2>1. 2 * den * p * n =< (2 * den * end - 3 * den - num) * unit
    BY <1>8
  <2> HIDE DEF b, end
  <2> QED BY <1>5, <1>7, <1>11, <1>12, <1>13, <2>1, ShortOfTheEnd
<1>15. (2 * a - 1) * unit < 2 * (p * R)
  BY <1>5, <1>7, <1>8, <1>11, <1>12, PastTheStart
<1>16. Round(L * unit + p * R, unit) \in (L + a) .. (L + b - 1)
  <2> HIDE DEF b
  <2>1. PICK m \in Int : m = p * R
    BY <1>12
  <2>2. (2 * a - 1) * unit < 2 * m /\ 2 * m < (2 * b - 1) * unit
    BY <1>14, <1>15, <2>1
  <2>3. Round(L * unit + m, unit) \in (L + a) .. (L + b - 1)
    <3>1. b \in Nat /\ a \in Nat /\ m \in Int /\ L \in Int /\ unit \in Nat \ {0}
      BY <1>12
    <3> QED BY <2>2, <3>1, RoundsInto, Zenon
  <2> QED BY <2>1, <2>3
<1>17. ToDesktop(region, size, p) \in (L + a) .. (L + b - 1)
  <2> HIDE DEF b
  <2> QED BY <1>1, <1>3, <1>12, <1>16, ToDesktopRounds
<1> QED BY <1>2, <1>17 DEF Within, End

LEMMA CanvasInvInductive == Spec => []CanvasInv
<1>1. Init => CanvasInv
  BY DEF Init, CanvasInv, Shot
<1>2. ASSUME CanvasInv, [Next]_vars PROVE CanvasInv'
  <2>1. ASSUME UNCHANGED <<setup, phase, listed, chosen, native>> PROVE CanvasInv'
    BY <1>2, <2>1 DEF CanvasInv, Shot, Region
  <2>2. CASE List
    BY <2>2 DEF List, CanvasInv, Shot
  <2>3. CASE LookUp
    BY <2>1, <2>3 DEF LookUp
  <2>4. CASE CliFails
    BY <2>1, <2>4 DEF CliFails
  <2>5. CASE Grab
    BY <2>5 DEF Grab, CanvasInv, Region
  <2>6. CASE GrabFails
    BY <2>6 DEF GrabFails, CanvasInv, Shot
  <2>7. CASE Ask
    BY <1>2, <2>7 DEF Ask, CanvasInv, Shot, Region
  <2>8. ASSUME NEW m \in Monitors, Change(m) PROVE CanvasInv'
    BY <2>1, <2>8 DEF Change
  <2>9. CASE UNCHANGED vars
    BY <2>1, <2>9 DEF vars
  <2> QED BY <1>2, <2>2, <2>3, <2>4, <2>5, <2>6, <2>7, <2>8, <2>9 DEF Next
<1> QED BY <1>1, <1>2, PTL DEF Spec

(* A click into the picture of a display lands on that display, as long as *)
(* nothing moved since the displays were listed, but for the seam between  *)
(* two of them (capture.rs, composite; view.rs, to_desktop).               *)
THEOREM LandsAlwaysOnWhatItShows == Spec => []LandsOnWhatItShows
<1>1. ASSUME CaptureInvs, CanvasInv PROVE LandsOnWhatItShows
  <2> SUFFICES ASSUME phase = "asked", disturbed = {}, ~Overlapping, ~Foreign,
                      NEW i \in DOMAIN shows, NEW p \in 0 .. Size * Part, Inner(i, p)
               PROVE  Within(layout[shows[i]], ToDesktop(Region, Size, p))
    BY DEF LandsOnWhatItShows
  <2>1. /\ layout = listed /\ setup \in Setups /\ \A m \in DOMAIN listed : listed[m] \in Displays
        /\ chosen \in Seq(DOMAIN listed) /\ shows \in Seq(Monitors) /\ Len(shows) =< Len(chosen)
    BY <1>1 DEF CaptureInvs, LayoutInv, CaptureInv
  <2>2. /\ Size \in Nat \ {0} /\ Region \in Displays /\ chosen # << >>
        /\ UnionUpTo(chosen, listed, Len(chosen), Region)
    BY <1>1, SizeIsSome, RegionOfAShot DEF Shot
  <2>3. i \in 1 .. Len(chosen) /\ chosen[i] \in DOMAIN listed
    BY <2>1
  <2>4. shows[i] = chosen[i]
    <3>1. Excused(chosen[i]) => \E k \in {} : TRUE
      BY <1>1 DEF Excused
    <3> QED BY <1>1, <3>1 DEF CaptureInvs, ShowsWhatItSays, Excused
  <2> DEFINE s == listed[chosen[i]]
  <2>5. layout[shows[i]] = s /\ s \in Displays /\ Covers(Region, s)
    BY <2>1, <2>2, <2>3, <2>4 DEF UnionUpTo
  <2>6. CASE Len(chosen) = 1
    <3>1. Covers(s, Region)
      <4>1. Displays \subseteq Spans
        BY DEF Displays
      <4>2. Covers(s, s)
        BY <2>5 DEF Covers, Displays, Spans, End
      <4>3. \A j \in 1 .. 1 : listed[chosen[j]] = s
        BY <2>3, <2>6
      <4> HIDE DEF s
      <4> QED BY <2>2, <2>5, <2>6, <4>1, <4>2, <4>3 DEF UnionUpTo
    <3>2. p \in Int /\ Size \in Nat /\ Region \in Spans /\ Region.len > 0
      <4>1. Size * Part \in Nat
        BY <2>2, PartAssumption
      <4>2. p \in Int
        BY <4>1
      <4> QED BY <2>2, <4>2 DEF Displays, Spans
    <3>3. Within(Region, ToDesktop(Region, Size, p))
      BY <3>2, PixelStaysInItsRegion
    <3>4. ToDesktop(Region, Size, p) \in Int
      BY <3>2, PixelStaysInItsRegion
    <3>5. Within(s, ToDesktop(Region, Size, p))
      <4> HIDE DEF s
      <4> QED BY <2>2, <2>5, <3>1, <3>3, <3>4 DEF Within, Covers, Displays, Spans, End
    <3> QED BY <2>5, <3>5
  <2>7. CASE Len(chosen) # 1
    <3> DEFINE num == setup.density[1]
               den == setup.density[2]
               start == Round((s.lo - Region.lo) * num, den)
               len == CanvasSize(s.len, num, den)
    <3>1. num \in Nat \ {0} /\ den \in Nat \ {0}
      BY <2>1, CaptureAssumption
    <3>2. native = CanvasSize(Region.len, num, den)
      BY <1>1, <2>7 DEF CanvasInv, Shot
    <3>3. Tile(i) = [lo |-> start, len |-> len]
      BY <2>7 DEF Tile, Offset, Pixels
    <3>4. Tile(i).lo = start /\ End(Tile(i)) = start + len
      BY <3>3 DEF End
    <3> HIDE DEF start, len
    <3>5. /\ (2 * den * start + 2 * den - num) * (Size * Part) =< 2 * den * p * native
          /\ 2 * den * p * native =< (2 * den * (start + len) - 3 * den - num) * (Size * Part)
      BY <3>4 DEF Inner
    <3>6. start = Round((s.lo - Region.lo) * num, den) /\ len = CanvasSize(s.len, num, den)
      BY DEF start, len
    <3> HIDE DEF s, num, den
    <3>7. Within(s, ToDesktop(Region, Size, p))
      BY <2>2, <2>5, <3>1, <3>2, <3>5, <3>6, LandsWithin
    <3> QED BY <2>5, <3>7
  <2> QED BY <2>6, <2>7
<1> QED BY <1>1, CaptureInvsInductive, CanvasInvInductive, PTL
=============================================================================
