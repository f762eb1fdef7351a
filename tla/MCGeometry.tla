----------------------------- MODULE MCGeometry -----------------------------
(***************************************************************************)
(* Capture over small desktops: two displays that touch, overlap or leave  *)
(* a gap, on both sides of the origin, or one of them alone, at five       *)
(* densities, with and without a limit on the size of the screenshot, with *)
(* xcap's coordinates being the listing's or not, and displays changing at *)
(* any moment.                                                             *)
(***************************************************************************)
EXTENDS Capture

CONSTANT Reach  \* how far a display may lie from the origin

At(x, n) == [lo |-> x, len |-> n]

TwoMonitors == {1, 2}
Firsts  == {At(x, n) : x \in {-Reach, 0}, n \in {2, 5}}
Seconds == {At(x, n) : x \in -Reach .. Reach, n \in {2, 7}}
Ends    == {At(-Reach, 2), At(Reach, 5)}

Desktops == {<<s>> : s \in Firsts} \cup {<<s, t>> : s \in Firsts, t \in Seconds}
            \cup {[m \in {2} |-> t] : t \in Seconds}

Densities == {<<1, 2>>, <<5, 4>>, <<1, 1>>, <<3, 2>>, <<2, 1>>}

Shape(keys, cli, primary, density, max, other) ==
  [keys |-> keys, cli |-> cli, primary |-> primary, density |-> density, max |-> max, other |-> other,
   zoom |-> <<1, 1>>]

(* How displays are told apart with one request, and every request with    *)
(* the displays told apart by their ids.                                   *)
AllSetups ==
  {Shape(k, FALSE, 2, <<3, 2>>, 4, 7) : k \in Keys}
  \cup {[Shape("point", FALSE, 2, <<3, 2>>, 4, 7) EXCEPT !.zoom = <<3, 2>>]}
  \cup {Shape("twins", TRUE, 2, <<3, 2>>, 4, 7)}
  \cup {Shape("id", FALSE, 1, d, max, other) : d \in Densities, max \in {0, 1, 4}, other \in {1, 7}}
=============================================================================
