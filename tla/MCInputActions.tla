--------------------------- MODULE MCInputActions ---------------------------
(***************************************************************************)
(* InputActions for TLC: two displays of which one lies left of the        *)
(* origin, points on the closed border, inside and outside, and chords     *)
(* with repeated, unknown and empty tokens.                                *)
(***************************************************************************)
EXTENDS InputActions

MCDesktop == [x |-> -7, y |-> 0, w |-> 9, h |-> 4]
MCPoints  == {[x |-> -7, y |-> 4], [x |-> 2, y |-> 0], [x |-> 3, y |-> 0]}
MCButtons == {"left", "right"}

MCModifiers == {"control", "shift"}
Tokens      == {"ctrl", "control", "shift", "a", "plus", "f24", "foo", ""}
MCModifierOf == [t \in Tokens |-> CASE t \in {"ctrl", "control"} -> "control"
                                    [] t = "shift" -> "shift"
                                    [] OTHER -> "no modifier"]
MCKeyOf == [t \in Tokens |->
              CASE t \in {"ctrl", "control"} -> "control" [] t = "shift" -> "shift"
                [] t \in {"foo", ""} -> "no key" [] OTHER -> t]
MCUnsupported == {"f24"}

MCChords == {<<"">>, <<"", "">>, <<"ctrl", "">>, <<"a">>, <<"ctrl", "foo">>, <<"foo", "a">>,
             <<"ctrl", "f24">>, <<"ctrl", "shift", "a">>, <<"ctrl", "control", "shift", "ctrl">>,
             <<"ctrl", "", "">>, <<"shift", "shift">>}
MCScrolls == {-4, 0, 3}
=============================================================================
