----------------------------- MODULE AtomicTools -----------------------------
(***************************************************************************)
(* A session with the tools of the MCP server as an agent should be able   *)
(* to think of it: one tool at a time.  An action means the image that is  *)
(* current when it takes place; a reply with an image makes that image the *)
(* current one, and it shows everything done so far, the action it answers *)
(* last.  A call that is answered with an error may have taken place, or   *)
(* may do so later, meaning what it meant.                                 *)
(***************************************************************************)
EXTENDS Naturals, Sequences

CONSTANTS Calls, Views

VARIABLES
  acts,   \* the calls made that are actions
  view,   \* the current image: a sequence of at most one
  deeds,  \* the actions that took place, each with the images it meant
  owed,   \* those that may take place later
  told    \* the reply to each call: a sequence of at most one

vars == <<acts, view, deeds, owed, told>>

Open(c) == told[c] = << >>
Did(c)  == \E i \in DOMAIN deeds : deeds[i].call = c
Failed(c) == ~Open(c) /\ ~told[c][1].ok

Meant == SUBSET {view[i] : i \in DOMAIN view}
Deed(c, by) == [call |-> c, by |-> by]

Init ==
  /\ acts = {} /\ owed = {}
  /\ view = << >> /\ deeds = << >>
  /\ told = [c \in Calls |-> << >>]

Make(c) == acts' = acts \cup {c} /\ UNCHANGED <<view, deeds, owed, told>>

(* A first image, which nobody sees, for an action that needs one. *)
LookAround ==
  /\ view = << >> /\ view' \in {<<v>> : v \in Views}
  /\ UNCHANGED <<acts, deeds, owed, told>>

Do(c) ==
  /\ c \in acts /\ Open(c) /\ ~Did(c)
  /\ \E by \in Meant : deeds' = Append(deeds, Deed(c, by))
  /\ UNCHANGED <<acts, view, owed, told>>

Tell(c, r) == Open(c) /\ told' = [told EXCEPT ![c] = <<r>>] /\ UNCHANGED acts

(* Everything after the action itself was reported as failed. *)
LastDeed(c) == \E i \in DOMAIN deeds :
  deeds[i].call = c /\ \A j \in i + 1 .. Len(deeds) : Failed(deeds[j].call)

Succeed(c) ==
  /\ c \in acts => LastDeed(c)
  /\ \/ Tell(c, [ok |-> TRUE, image |-> << >>, shows |-> 0]) /\ UNCHANGED view
     \/ \E v \in Views : /\ Tell(c, [ok |-> TRUE, image |-> <<v>>, shows |-> Len(deeds)])
                         /\ view' = <<v>>
  /\ UNCHANGED <<deeds, owed>>

Fail(c) ==
  /\ Tell(c, [ok |-> FALSE, image |-> << >>, shows |-> 0])
  /\ \/ UNCHANGED <<deeds, owed>>
     \/ /\ c \in acts /\ ~Did(c)
        /\ \E by \in Meant :
             \/ deeds' = Append(deeds, Deed(c, by)) /\ UNCHANGED owed
             \/ owed' = owed \cup {Deed(c, by)} /\ UNCHANGED deeds
  /\ UNCHANGED view

DoLate ==
  /\ \E d \in owed : owed' = owed \ {d} /\ deeds' = Append(deeds, d)
  /\ UNCHANGED <<acts, view, told>>

Next ==
  \/ LookAround \/ DoLate
  \/ \E c \in Calls : Make(c) \/ Do(c) \/ Succeed(c) \/ Fail(c)

Spec == Init /\ [][Next]_vars
=============================================================================
