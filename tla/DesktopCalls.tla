---------------------------- MODULE DesktopCalls ----------------------------
(***************************************************************************)
(* What the Desktop trait promises whoever calls it, wherever the desktop  *)
(* is (src/src/desktop/mod.rs): a call takes effect at most once; "ok"     *)
(* means that it has, a refusal that it has not and never will, and any    *)
(* other error means nothing: the effect may have taken place, may yet, or *)
(* may never.                                                              *)
(***************************************************************************)
EXTENDS Naturals

CONSTANT Requests

VARIABLES
  told,    \* what the caller knows: "pending", "ok", "refused" or "unknown"
  effects  \* how often the call took effect

vars == <<told, effects>>

Init ==
  /\ told = [c \in Requests |-> "pending"]
  /\ effects = [c \in Requests |-> 0]

TakeEffect(c) ==
  /\ effects[c] = 0 /\ told[c] \in {"pending", "unknown"}
  /\ effects' = [effects EXCEPT ![c] = 1]
  /\ UNCHANGED told

Tell(c) ==
  /\ told[c] = "pending"
  /\ \E v \in {"unknown"} \cup IF effects[c] = 1 THEN {"ok"} ELSE {"refused"} :
       told' = [told EXCEPT ![c] = v]
  /\ UNCHANGED effects

(* The daemon ends, and every call still open with it. *)
TellAll ==
  /\ told' \in [Requests -> {"pending", "ok", "refused", "unknown"}]
  /\ \A c \in Requests : told'[c] # told[c] => told[c] = "pending" /\ told'[c] = "unknown"
  /\ UNCHANGED effects

Next == TellAll \/ \E c \in Requests : TakeEffect(c) \/ Tell(c)

Spec == Init /\ [][Next]_vars
=============================================================================
