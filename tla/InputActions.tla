---------------------------- MODULE InputActions ----------------------------
(***************************************************************************)
(* What the input thread does to the pointer and the keyboard: perform and *)
(* press_chord (src/src/desktop/local/input.rs) and the chord parser       *)
(* (src/src/keys.rs), one enigo call at a time.                            *)
(*                                                                         *)
(* An action is a script of events.  Each says what its failure does to    *)
(* the rest: "stop" is `?`, "break" leaves the moves of a drag, "note"     *)
(* keeps the error and goes on, "ignore" is `let _ =`.  A call that fails  *)
(* has not touched the desktop; moving outside the desktop is refused by   *)
(* CoordMap::check before any call is made.                                *)
(***************************************************************************)
EXTENDS Integers, Sequences, SequencesExt

CONSTANTS
  Desktop,      \* the union of the displays: its corner and its size
  Points,       \* points named in requests
  Buttons,
  Modifiers,
  ModifierOf,   \* parse_modifier, or NoModifier
  KeyOf,        \* parse_key, or NoKey
  Unsupported,  \* the keys key_for refuses on this platform
  Chords,       \* the chords asked for, each the list of its tokens
  Steps,        \* moves in a drag
  MaxScroll,    \* MAX_SCROLL_STEPS
  Scrolls,      \* scroll distances asked for
  MaxFaults,    \* bound: enigo calls that fail
  MaxActions    \* bound: actions performed

Keys       == Range(KeyOf)
NoModifier == "no modifier"
NoKey      == "no key"
Plus       == "plus"    \* KeyName::Char('+')
Blank      == ""        \* an empty token

ASSUME InputAssumption ==
  /\ Desktop \in [x : Int, y : Int, w : Nat, h : Nat]
  /\ Points \subseteq [x : Int, y : Int]
  /\ {MaxScroll, MaxFaults, MaxActions} \subseteq Nat
  /\ Steps \in Nat \ {0}
  /\ (Modifiers \cup Keys) \cap Buttons = {}

(* A chord is split at its plus signs, so it has a token at least; the     *)
(* empty one is neither a modifier nor a key.                              *)
ASSUME ChordAssumption ==
  /\ Plus \in Keys
  /\ Blank \in DOMAIN KeyOf
  /\ ModifierOf \in [DOMAIN KeyOf -> Modifiers \cup {NoModifier}]
  /\ NoModifier \notin Modifiers /\ ModifierOf[Blank] = NoModifier
  /\ Chords \subseteq Seq(DOMAIN KeyOf) \ {<< >>}

VARIABLES
  todo,     \* the events still to come
  result,   \* Ok, or the error the reply will carry
  touched,  \* an event of the action under way, or of the last, took place
  held,     \* the keys and buttons that are down
  action,   \* the action under way, or the last
  ready,    \* enigo has been made: it is made for the first job and kept
  wanted,   \* history: the buttons a `button` action left down
  lost,     \* history: what failed to be released
  jammed,   \* history: the modifiers down when pressing the next one failed
  faults, actions

vars == <<todo, result, touched, held, action, ready, wanted, lost, jammed, faults, actions>>

-----------------------------------------------------------------------------
(* keys.rs.  The tokens are the pieces between the plus signs.              *)
Refused    == [mods |-> << >>, key |-> NoKey]

PushDuplicates(mods, m) == Append(mods, m)  \* mutant: a modifier may be pushed twice
Push(mods, m) == IF Contains(mods, m) THEN mods ELSE Append(mods, m)

ChordMods(toks) ==
  LET mods[n \in 0 .. Len(toks)] ==
        IF n = 0 THEN << >> ELSE Push(mods[n - 1], ModifierOf[toks[n]])
  IN  mods[Len(toks)]

ParseChordAnyPrefix(toks) ==  \* mutant: what precedes the key is not checked
  LET last == Last(toks)
  IN  IF toks = <<Blank>> THEN Refused
      ELSE [mods |-> ChordMods(Front(toks)), key |-> IF last = Blank THEN Plus ELSE KeyOf[last]]
ParseChord(toks) ==
  LET last == Last(toks)
      mods == Front(toks)
  IN  IF toks = <<Blank>> THEN Refused
      ELSE IF toks = <<Blank, Blank>> THEN [mods |-> << >>, key |-> Plus]
      ELSE IF \E i \in DOMAIN mods : ModifierOf[mods[i]] = NoModifier THEN Refused
      ELSE [mods |-> ChordMods(mods),
            key  |-> IF last = Blank THEN Plus ELSE KeyOf[last]]

-----------------------------------------------------------------------------
(* CoordMap::check, on the closed rectangle (module Geometry).              *)
G == INSTANCE Geometry WITH Part <- 1

Span(from, length) == [lo |-> from, len |-> length]

Check(p) == IF Desktop.w = 0 \/ Desktop.h = 0 THEN "backend"
            ELSE IF /\ G!Inside(Span(Desktop.x, Desktop.w), p.x)
                    /\ G!Inside(Span(Desktop.y, Desktop.h), p.y) THEN "ok"
            ELSE "bad_request"

(* The i-th move of a drag. *)
AlongOvershoot(f, t, i) == G!Round(f * Steps + (t - f) * (i + 1), Steps)  \* mutant: off by one
Along(f, t, i) == G!Round(f * Steps + (t - f) * i, Steps)

-----------------------------------------------------------------------------
Event(op, on, fail) == [op |-> op, on |-> on, fail |-> fail]

MoveTo(p, fail) == Event("move", p, fail)

DragScriptStops(a) ==  \* mutant: a failed move ends the action
  <<MoveTo(a.from, "stop"), Event("press", a.button, "stop")>>
  \o [i \in 1 .. Steps |-> MoveTo([x |-> Along(a.from.x, a.to.x, i),
                                   y |-> Along(a.from.y, a.to.y, i)], "stop")]
  \o <<Event("release", a.button, "note")>>
DragScriptForgets(a) ==  \* mutant: the reply is the result of the moves
  <<MoveTo(a.from, "stop"), Event("press", a.button, "stop")>>
  \o [i \in 1 .. Steps |-> MoveTo([x |-> Along(a.from.x, a.to.x, i),
                                   y |-> Along(a.from.y, a.to.y, i)], "break")]
  \o <<Event("release", a.button, "ignore")>>
DragScript(a) ==
  <<MoveTo(a.from, "stop"), Event("press", a.button, "stop")>>
  \o [i \in 1 .. Steps |-> MoveTo([x |-> Along(a.from.x, a.to.x, i),
                                   y |-> Along(a.from.y, a.to.y, i)], "break")]
  \o <<Event("release", a.button, "note")>>

(* press_chord. *)
ChordScriptNoRelease(c) ==  \* mutant: a failed key ends the action
  [i \in DOMAIN c.mods |-> Event("press", c.mods[i], "stop")]
  \o <<Event("click", c.key, "stop")>>
  \o [i \in DOMAIN c.mods |-> Event("release", Reverse(c.mods)[i], "ignore")]
ChordScript(c) ==
  [i \in DOMAIN c.mods |-> Event("press", c.mods[i], "stop")]
  \o <<Event("click", c.key, "note")>>
  \o [i \in DOMAIN c.mods |-> Event("release", Reverse(c.mods)[i], "ignore")]

ScrollScript(a) ==
  (IF a.at = << >> THEN << >> ELSE <<MoveTo(a.at[1], "stop")>>)
  \o (IF a.dy = 0 THEN << >> ELSE <<Event("scroll", "vertical", "stop")>>)
  \o (IF a.dx = 0 THEN << >> ELSE <<Event("scroll", "horizontal", "stop")>>)

Script(a) ==
  CASE a.kind = "move"   -> <<MoveTo(a.at, "stop")>>
    [] a.kind = "click"  -> <<MoveTo(a.at, "stop")>>
                            \o [i \in 1 .. G!Clamp(a.count, 1, 3) |-> Event("click", a.button, "stop")]
    [] a.kind = "button" -> <<Event(IF a.down THEN "press" ELSE "release", a.button, "stop")>>
    [] a.kind = "drag"   -> DragScript(a)
    [] a.kind = "scroll" -> ScrollScript(a)
    [] a.kind = "type"   -> <<Event("text", "text", "stop")>>
    [] a.kind = "key"    -> ChordScript(ParseChord(a.chord))

(* What is refused before the first event. *)
InRange(d) == d \in (-MaxScroll) .. MaxScroll
Verdict(a) ==
  CASE a.kind = "drag" -> IF Check(a.from) # "ok" THEN Check(a.from) ELSE Check(a.to)
    [] a.kind = "scroll" /\ ~(InRange(a.dx) /\ InRange(a.dy)) -> "bad_request"
    [] a.kind = "key" /\ ParseChord(a.chord).key = NoKey -> "bad_request"
    [] a.kind = "key" /\ ParseChord(a.chord).key \in Unsupported -> "unsupported"
    [] OTHER -> "ok"

Actions ==
       [kind : {"move"}, at : Points]
  \cup [kind : {"click"}, at : Points, button : Buttons, count : {0, 2, 9}]
  \cup [kind : {"button"}, button : Buttons, down : BOOLEAN]
  \cup [kind : {"drag"}, from : Points, to : Points, button : Buttons]
  \cup [kind : {"scroll"}, at : {<< >>} \cup {<<p>> : p \in Points}, dx : Scrolls, dy : Scrolls]
  \cup [kind : {"type"}]
  \cup [kind : {"key"}, chord : Chords]

-----------------------------------------------------------------------------
Nothing == [kind |-> "none"]
Idle    == todo = << >>

(* No permission to control the desktop is found out before the first event. *)
Refusals == {"bad_request", "unsupported", "permission"}

Failures == {"stop", "break", "note", "ignore"}
Events ==
       [op : {"move"}, on : [x : Int, y : Int], fail : Failures]
  \cup [op : {"press", "release", "click"}, on : Buttons \cup Modifiers \cup Keys, fail : Failures]
  \cup [op : {"scroll", "text"}, on : {"vertical", "horizontal", "text"}, fail : Failures]

TypeOK ==
  /\ todo \in Seq(Events)
  /\ action \in Actions \cup {Nothing}
  /\ result \in {"ok", "backend"} \cup Refusals
  /\ touched \in BOOLEAN
  /\ ready \in BOOLEAN
  /\ jammed \subseteq Modifiers
  /\ held \cup lost \subseteq Buttons \cup Modifiers \cup Keys
  /\ wanted \subseteq Buttons
  /\ faults \in 0 .. MaxFaults
  /\ actions \in 0 .. MaxActions

Init ==
  /\ todo = << >>
  /\ result = "ok" /\ touched = FALSE
  /\ held = {} /\ wanted = {} /\ lost = {} /\ jammed = {}
  /\ action = Nothing /\ ready = FALSE
  /\ faults = 0 /\ actions = 0

(* input_thread takes the next job; the reply to the last one is result. *)
Take(a) ==
  /\ Idle /\ actions < MaxActions
  /\ actions' = actions + 1
  /\ action' = a
  /\ touched' = FALSE
  /\ UNCHANGED <<held, wanted, lost, jammed>>

Begin(a) ==
  /\ Take(a)
  /\ ready' = TRUE
  /\ result' = Verdict(a)
  /\ todo' = IF Verdict(a) = "ok" THEN Script(a) ELSE << >>
  /\ UNCHANGED faults

NoEnigo(a) ==
  /\ Take(a)
  /\ ~ready /\ faults < MaxFaults
  /\ faults' = faults + 1
  /\ result' \in {"permission", "backend"}
  /\ UNCHANGED <<todo, ready>>

(* One event goes through. *)
Effect(e) ==
  CASE e.op = "press" -> held \cup {e.on}
    [] e.op \in {"release", "click"} -> held \ {e.on}
    [] OTHER -> held

Allowed(e) == IF e.op = "move" THEN Check(e.on) ELSE "ok"

Perform ==
  LET e == Head(todo)
  IN  /\ ~Idle /\ Allowed(e) = "ok"
      /\ todo' = Tail(todo)
      /\ touched' = TRUE
      /\ held' = Effect(e)
      /\ wanted' = IF action.kind = "button" /\ action.down THEN wanted \cup {e.on}
                   ELSE wanted \cap Effect(e)
      /\ lost' = lost \cap Effect(e)
      /\ jammed' = jammed \cap Effect(e)
      /\ UNCHANGED <<result, action, ready, faults, actions>>

(* One event does not: enigo fails, or the point is outside the desktop. *)
Rest(e) ==
  CASE e.fail = "stop" -> << >>
    [] e.fail = "break" -> <<Last(todo)>>  \* what follows the loop: the release
    [] e.fail \in {"note", "ignore"} -> Tail(todo)

Fail ==
  LET e == Head(todo)
  IN  /\ ~Idle
      /\ IF Allowed(e) # "ok" THEN UNCHANGED faults
         ELSE faults < MaxFaults /\ faults' = faults + 1
      /\ todo' = Rest(e)
      /\ result' = IF e.fail = "ignore" \/ result # "ok" THEN result
                   ELSE IF Allowed(e) # "ok" THEN Allowed(e) ELSE "backend"
      /\ lost' = IF e.op = "release" THEN lost \cup ({e.on} \cap held) ELSE lost
      /\ jammed' = IF e.op = "press" THEN jammed \cup (held \cap Modifiers) ELSE jammed
      /\ UNCHANGED <<touched, held, action, ready, wanted, actions>>

Next == (\E a \in Actions : Begin(a) \/ NoEnigo(a)) \/ Perform \/ Fail

Spec == Init /\ [][Next]_vars

-----------------------------------------------------------------------------
(* A request that is refused as malformed, out of the desktop, not         *)
(* supported or not permitted has touched nothing, the moves along a drag  *)
(* included (docs/architecture.md: validated before they touch the         *)
(* desktop).                                                               *)
ValidatedFirst == (Idle /\ result \in Refusals) => ~touched

(* Whatever fails on the way, no button stays down but one that a `button` *)
(* action left down or whose release failed (input.rs, perform: the drag). *)
DragReleases == Idle => held \cap Buttons \subseteq wanted \cup lost

(* A key goes down with the modifiers of its chord, each pressed once, and *)
(* if nothing has failed with no other (input.rs, press_chord; keys.rs,    *)
(* parse_chord).                                                           *)
Distinct(s) == \A i, j \in DOMAIN s : s[i] = s[j] => i = j

KeyWithItsModifiers ==
  (~Idle /\ action.kind = "key" /\ Head(todo).op = "click") =>
    LET c == ParseChord(action.chord)
    IN  /\ Range(c.mods) = {ModifierOf[t] : t \in Range(Front(action.chord))} \ {NoModifier}
        /\ Distinct(c.mods)
        /\ Range(c.mods) \subseteq held
        /\ faults = 0 => held \cap Modifiers = Range(c.mods)

(* Once nothing is under way no key is down, though the key itself failed,  *)
(* but for a release that failed or a modifier that could not be pressed   *)
(* after others (input.rs, press_chord).                                   *)
NoKeyStaysDown == Idle => held \ Buttons \subseteq lost \cup jammed

(* An action whose reply is Ok did all of it: whatever failed, apart from  *)
(* the release of a modifier, was reported (input.rs, perform).            *)
OkMeansAll ==
  [][Fail /\ ~(action.kind = "key" /\ Head(todo).op = "release") => result' # "ok"]_vars

-----------------------------------------------------------------------------
(* Why they hold: what is true between any two calls.                      *)
Done == Len(Script(action)) - Len(todo)  \* the events behind us, those left out included

(* What is left to do is the end of the script of an action that was not   *)
(* refused, and before its first event nothing is touched.                 *)
LeftOfScript ==
  /\ result \in Refusals => Idle /\ ~touched
  /\ ~Idle =>
       /\ action \in Actions /\ Verdict(action) = "ok"
       /\ Len(todo) =< Len(Script(action))
       /\ \A i \in 1 .. Len(todo) : todo[i] = Script(action)[i + Done]
       /\ Done = 0 => ~touched

(* A button that is down without having been asked to stay down is that of *)
(* a drag past its press: whatever fails from here on, its release is      *)
(* still to come.                                                          *)
Dragged == IF ~Idle /\ action.kind = "drag" /\ Head(todo).fail # "stop" THEN {action.button} ELSE {}
DragInv == held \cap Buttons \subseteq wanted \cup lost \cup Dragged

(* A key that is down is a modifier whose release is still to come, failed *)
(* or was given up.                                                        *)
ToRelease == {todo[i].on : i \in {j \in 1 .. Len(todo) : todo[j].op = "release"}}
KeyInv ==
  /\ held \ Buttons \subseteq Modifiers
  /\ held \ Buttons \subseteq lost \cup jammed \cup ToRelease

(* Up to its key, a chord holds the modifiers it has pressed.              *)
Pressed == {ParseChord(action.chord).mods[i] : i \in 1 .. Done}
ChordInv ==
  /\ faults = 0 => lost = {} /\ jammed = {}
  /\ (~Idle /\ action.kind = "key" /\ Head(todo).op \in {"press", "click"}) =>
       /\ Pressed \subseteq held
       /\ faults = 0 => held \cap Modifiers = Pressed

(* Whatever fails, the modifiers of a chord are released again, unless     *)
(* releasing them fails (input.rs, press_chord: Always release).           *)
ChordReleases == Idle => held \cap Modifiers \subseteq lost
=============================================================================
