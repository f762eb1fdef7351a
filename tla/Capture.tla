------------------------------- MODULE Capture -------------------------------
(***************************************************************************)
(* A screenshot and the action that follows it, over displays that may be  *)
(* unplugged, plugged in or moved between any two calls: the displays are  *)
(* listed (src/src/desktop/local/mod.rs), each one is looked up again and  *)
(* captured, the images are put together and scaled                        *)
(* (src/src/desktop/local/capture.rs), and a mouse action lists the        *)
(* displays anew for the bounds its job carries                            *)
(* (src/src/desktop/local/input.rs).                                       *)
(***************************************************************************)
EXTENDS Geometry, Sequences, FiniteSets, Functions

CONSTANTS
  Monitors,   \* the displays there may be, in the order the system lists them
  Layouts,    \* where those plugged in at the start may be
  Spots,      \* where one may be moved to later
  Setups,     \* what else may vary, see below
  MaxChanges  \* bound: changes of the layout

(* Any display is two points wide at least.                                *)
Displays == {s \in Spans : s.len >= 2}

ASSUME CaptureAssumption ==
  /\ Monitors \subseteq Nat \ {0} /\ IsFiniteSet(Monitors) /\ MaxChanges \in Nat
  /\ \A l \in Layouts : DOMAIN l \subseteq Monitors /\ \A m \in DOMAIN l : l[m] \in Displays
  /\ Spots \subseteq Displays
  /\ \A s \in Setups : /\ s.density[1] \in Nat \ {0} /\ s.density[2] \in Nat \ {0}
                       /\ s.zoom[1] \in Nat \ {0} /\ s.zoom[2] \in Nat \ {0}
                       /\ s.max \in Nat /\ s.other \in Nat \ {0}

VARIABLES
  setup,      \* how listing and capture name a display, and the request
  layout,     \* the displays now
  changes,
  phase,      \* "idle", "capturing", "done", "asked" or "failed"
  listed,     \* the displays as they were listed
  disturbed,  \* history: those that changed since
  chosen,     \* the ones to capture
  found,      \* the capture under way: a monitor, an index, or nothing yet
  shows,      \* the displays captured so far
  native,     \* the pixels of the image before it is scaled
  bounds      \* the displays listed for the action

vars == <<setup, layout, changes, phase, listed, disturbed, chosen, found, shows, native, bounds>>

(* A display is known to xcap by its id, which is unique, or else by its   *)
(* name, which twins share; neither need be the one it was listed with     *)
(* (hyprctl counts displays and names their connectors).                   *)
Keys == {"id", "twins", "name", "point"}

NoWhere == [monitor |-> 0, index |-> 0]
Order(l) ==
  CHOOSE s \in [1 .. Cardinality(DOMAIN l) -> DOMAIN l] :
    Range(s) = DOMAIN l /\ \A i, j \in DOMAIN s : i < j => s[i] < s[j]

Init ==
  /\ setup \in Setups
  /\ layout \in Layouts
  /\ changes = 0
  /\ phase = "idle"
  /\ listed = << >> /\ disturbed = {} /\ chosen = << >>
  /\ found = NoWhere /\ shows = << >> /\ native = 0 /\ bounds = << >>

-----------------------------------------------------------------------------
(* LocalDesktop::screenshot: the displays are listed, and those asked for  *)
(* are chosen, in the async task; the rest is a blocking task.             *)
Primary == IF setup.primary \in DOMAIN layout THEN setup.primary ELSE Head(Order(layout))

List ==
  /\ phase = "idle"
  /\ listed' = layout /\ disturbed' = {}
  /\ \/ /\ DOMAIN layout # {}
        /\ chosen' \in {Order(layout), <<Primary>>} \cup {<<m>> : m \in DOMAIN layout}
        /\ phase' = "capturing"
     \/ /\ Monitors \ DOMAIN layout # {}  \* no display at all, or not the one asked for
        /\ phase' = "failed" /\ UNCHANGED chosen
  /\ UNCHANGED <<setup, layout, changes, found, shows, native, bounds>>

(* A display as xcap places it: where the listing is not xcap's own (on    *)
(* Hyprland it is hyprctl's) everything may be larger or smaller there.    *)
InXcap(s) ==
  [lo  |-> Round(s.lo * setup.zoom[1], setup.zoom[2]),
   len |-> Round(s.len * setup.zoom[1], setup.zoom[2])]

(* monitor_for: the displays that may be taken for one that was listed; at *)
(* last those xcap has at a point that is the display's in the listing.    *)
AtPoint(d)     == {m \in DOMAIN layout : Within(InXcap(layout[m]), listed[d].lo + 1)}
SameName(m, d) == IF setup.keys = "twins" THEN TRUE ELSE m = d /\ setup.keys # "point"

MonitorForByName(d) ==  \* mutant: the name is looked at first
  LET named == {m \in DOMAIN layout : SameName(m, d)}
  IN  IF named # {} THEN {CHOOSE m \in named : \A n \in named : m =< n}
      ELSE AtPoint(d)
MonitorFor(d) ==
  LET known == {m \in DOMAIN layout : m = d /\ setup.keys \in {"id", "twins"}}
      named == {m \in DOMAIN layout : SameName(m, d)}
  IN  IF known # {} THEN known
      ELSE IF named # {} THEN {CHOOSE m \in named : \A n \in named : m =< n}
      ELSE AtPoint(d)

(* screencapture_cli counts the displays instead, from the first if it     *)
(* knows none by id or name.                                               *)
IndexOf(d) ==
  LET order == Order(layout)
      at == {i \in DOMAIN order : order[i] = d}
      named == {i \in DOMAIN order : SameName(order[i], d)}
      first(s) == CHOOSE i \in s : \A j \in s : i =< j
  IN  IF at # {} THEN first(at) ELSE IF named # {} THEN first(named) ELSE 1

Current == chosen[Len(shows) + 1]
Looking == phase = "capturing" /\ found = NoWhere

LookUp ==
  /\ Looking
  /\ \/ setup.cli /\ found' = [NoWhere EXCEPT !.index = IndexOf(Current)]
     \/ ~setup.cli /\ \E m \in MonitorFor(Current) : found' = [NoWhere EXCEPT !.monitor = m]
  /\ UNCHANGED <<setup, layout, changes, phase, listed, disturbed, chosen, shows, native, bounds>>

(* screencapture fails, and xcap is tried instead.                         *)
CliFails ==
  /\ phase = "capturing" /\ found.index # 0
  /\ \E m \in MonitorFor(Current) : found' = [NoWhere EXCEPT !.monitor = m]
  /\ UNCHANGED <<setup, layout, changes, phase, listed, disturbed, chosen, shows, native, bounds>>

(* composite: the canvas and where each display goes on it.                *)
Spanned(ms, where) ==  \* the union of those displays, one after the other
  LET upTo[i \in 1 .. Len(ms)] == IF i = 1 THEN where[ms[1]] ELSE Union(upTo[i - 1], where[ms[i]])
  IN  upTo[Len(ms)]

Region == Spanned(chosen, listed)
Pixels(n) == Round(n * setup.density[1], setup.density[2])

OffsetAbsolute(s) == Greatest(Pixels(s.lo), 0)  \* mutant: u32, but not from the left of the union
Offset(s) == Pixels(s.lo - Region.lo)
Tile(i) ==
  IF Len(chosen) = 1 THEN [lo |-> 0, len |-> native]
  ELSE [lo |-> Offset(listed[chosen[i]]),
        len |-> CanvasSize(listed[chosen[i]].len, setup.density[1], setup.density[2])]

(* What is captured is the display that is found, as it is now.            *)
Target == IF found.index = 0 THEN {found.monitor} \cap DOMAIN layout
          ELSE {Order(layout)[i] : i \in {found.index} \cap DOMAIN Order(layout)}

Grab ==
  /\ phase = "capturing" /\ found # NoWhere
  /\ \E m \in Target :
       /\ shows' = Append(shows, m)
       /\ LET span == IF Len(chosen) = 1 THEN layout[m] ELSE Region
          IN  native' = CanvasSize(span.len, setup.density[1], setup.density[2])
  /\ found' = NoWhere
  /\ phase' = IF Len(shows') = Len(chosen) THEN "done" ELSE phase
  /\ UNCHANGED <<setup, layout, changes, listed, disturbed, chosen, bounds>>

(* A call of xcap fails, or finds nothing: so does the screenshot.         *)
GrabFails ==
  /\ phase = "capturing" /\ found.index = 0
  /\ phase' = "failed"
  /\ UNCHANGED <<setup, layout, changes, listed, disturbed, chosen, found, shows, native, bounds>>

(* LocalDesktop::input: the displays are listed again, for the job.        *)
Ask ==
  /\ phase = "done"
  /\ phase' = "asked" /\ bounds' = layout
  /\ UNCHANGED <<setup, layout, changes, listed, disturbed, chosen, found, shows, native>>

(* The user unplugs, plugs in or moves a display.                          *)
Change(m) ==
  /\ changes < MaxChanges /\ changes' = changes + 1
  /\ \/ layout' = [n \in DOMAIN layout \ {m} |-> layout[n]]
     \/ \E s \in Spots : layout' = [n \in DOMAIN layout \cup {m} |-> IF n = m THEN s ELSE layout[n]]
  /\ layout' # layout
  /\ disturbed' = disturbed \cup {m}
  /\ UNCHANGED <<setup, phase, listed, chosen, found, shows, native, bounds>>

Next ==
  \/ List \/ LookUp \/ CliFails \/ Grab \/ GrabFails \/ Ask
  \/ \E m \in Monitors : Change(m)

Spec == Init /\ [][Next]_vars

-----------------------------------------------------------------------------
Overlapping == \E m, n \in DOMAIN listed :
                 m # n /\ Within(listed[m], listed[n].lo)  \* a mirrored display, say
Foreign == setup.keys = "point" /\ setup.zoom # <<1, 1>>  \* by a point that means another place to xcap
Shot   == phase \in {"done", "asked"}
Size   == Scaled(native, Greatest(native, setup.other), setup.max)
Named  == -Part .. ((Size + 1) * Part)  \* what an agent may name, in units of 1/Part
Bounds == Spanned(Order(bounds), bounds)

(* Whatever an agent names in an image, fractions of a pixel and places    *)
(* outside it included, is a point of the region the image shows and never *)
(* of a neighbouring display, even when a display changed its size between *)
(* its listing and its capture (view.rs:21-23).                            *)
PixelOnItsDisplay == phase = "done" => \A p \in Named : Within(Region, ToDesktop(Region, Size, p))

(* A point read off a screenshot is one the input thread accepts while the *)
(* displays stay as they are, and on Wayland it lies in the extent         *)
(* (capture.rs, composite; input.rs, CoordMap: one union for both).        *)
AcceptedByInput ==
  phase = "asked" /\ disturbed = {} =>
    \A p \in Named :
      LET x == ToDesktop(Region, Size, p)
      IN  Inside(Bounds, x) /\ \A extent \in {1, 3, 9} : ToExtent(Bounds, extent, x) \in 0 .. extent

(* Where a window is said to be in the image is where a click lands on it: *)
(* to the pixel and back is off by half a pixel and half a point at most   *)
(* (view.rs, to_view and to_desktop).                                      *)
ThereAndBack ==
  phase = "done" =>
    \A x \in Region.lo .. (End(Region) - 1) :
      2 * Size * Distance(ToDesktop(Region, Size, ToView(Region, Size, x) * Part), x)
        =< Region.len + Size

(* A screenshot keeps to the long edge asked for, and no edge of it        *)
(* disappears (capture.rs, screenshot).                                    *)
FitsAndStays ==
  Shot =>
    /\ Size >= 1
    /\ setup.max > 0 =>
         Size =< setup.max
         /\ Scaled(setup.other, Greatest(native, setup.other), setup.max) \in 1 .. setup.max

(* What may have another display shown in its place.                       *)
Excused(d) ==
  \/ d \in disturbed
  \/ disturbed # {} /\ (setup.cli \/ setup.keys = "point")
  \/ setup.keys = "point" /\ Overlapping
  \/ Foreign

(* A display of the image is the one it is said to be, unless that display *)
(* was itself unplugged or moved since it was listed, whatever became of   *)
(* the others: twins are not mixed up, nor a display counted or named by   *)
(* another tool, as long as none of them moves.  Only a display known by   *)
(* neither id nor name may be another one with nothing moved: where        *)
(* displays overlap, or where the point it is looked up by is not in       *)
(* xcap's coordinates (capture.rs, monitor_for and screencapture_cli).     *)
ShowsWhatItSays == \A i \in DOMAIN shows : shows[i] = chosen[i] \/ Excused(chosen[i])

Inner(i, p) ==  \* p, in pixels of the image, lies in the picture of a display but for its seams
  LET t == Tile(i)
      num == setup.density[1]
      den == setup.density[2]
      at == 2 * den * p * native
      unit == Size * Part
  IN  /\ (2 * den * t.lo + 2 * den - num) * unit =< at
      /\ at =< (2 * den * End(t) - 3 * den - num) * unit

(* A click into the picture of a display lands on that display, as long as *)
(* nothing moved since the displays were listed for the screenshot and the *)
(* display was not looked up in other coordinates than it was listed.  Only *)
(* along the seam between two displays may it land on the other: to the    *)
(* nearest point is half a point, where a picture starts, where it ends    *)
(* and how long the image is are rounded each on its own, which is half a  *)
(* pixel each (capture.rs, composite; view.rs, to_desktop).                *)
LandsOnWhatItShows ==
  phase = "asked" /\ disturbed = {} /\ ~Overlapping /\ ~Foreign =>
    \A i \in DOMAIN shows, p \in 0 .. Size * Part :
      Inner(i, p) => Within(layout[shows[i]], ToDesktop(Region, Size, p))

-----------------------------------------------------------------------------
(* Why they hold: what is true between any two steps.                      *)
Alike(d) ==  \* the display is where it was when it was listed
  (d \in DOMAIN layout <=> d \in DOMAIN listed) /\ (d \in DOMAIN layout => layout[d] = listed[d])

LayoutInv ==
  /\ setup \in Setups
  /\ DOMAIN layout \subseteq Monitors /\ \A m \in DOMAIN layout : layout[m] \in Displays
  /\ DOMAIN listed \subseteq Monitors /\ \A m \in DOMAIN listed : listed[m] \in Displays
  /\ phase # "idle" =>
       (\A d \in Monitors \ disturbed : Alike(d)) /\ (disturbed = {} => layout = listed)
  /\ phase = "asked" /\ disturbed = {} => bounds = listed

(* The capture goes along the displays chosen, of which those shown so far *)
(* come first, and the image has a pixel at least once one is captured.    *)
CaptureInv ==
  /\ chosen \in Seq(DOMAIN listed) /\ shows \in Seq(Monitors)
  /\ Len(shows) =< Len(chosen)
  /\ phase = "idle" => chosen = << >>
  /\ phase = "capturing" => Len(shows) < Len(chosen)
  /\ Shot => chosen # << >> /\ native \in Nat \ {0}

(* What was found is the display looked for, or there is an excuse.        *)
FoundInv ==
  /\ phase = "idle" => found = NoWhere
  /\ phase = "capturing" /\ found.monitor # 0 /\ found.index = 0 /\ found.monitor # Current =>
       Excused(Current)
  /\ phase = "capturing" /\ found.index # 0 =>
       /\ setup.cli
       /\ disturbed = {} => found.index \in DOMAIN Order(listed) /\ Order(listed)[found.index] = Current

(* The canvas of several displays is as long as what they span.            *)
CanvasInv ==
  Shot /\ Len(chosen) # 1 =>
    native = CanvasSize(Region.len, setup.density[1], setup.density[2])

CaptureInvs == LayoutInv /\ CaptureInv /\ FoundInv /\ ShowsWhatItSays
=============================================================================
