-------------------------------- MODULE Mcp --------------------------------
(***************************************************************************)
(* The MCP server between an agent and a desktop: the tools of RdcServer   *)
(* (src/src/mcp.rs), the lock they take one after another and the view     *)
(* that turns the agent's pixels into desktop points.                      *)
(*                                                                         *)
(* Each tool call is a task of its own, so calls that are outstanding      *)
(* together reach the lock in any order; tokio's mutex then serves them in *)
(* that order.  A reply is sent after the lock is released.                *)
(*                                                                         *)
(* A view is known by what was asked for, a display or all of them and the *)
(* longest edge of the image, and by the displays, their places and sizes, *)
(* when it was taken: the region and the size of an image follow from      *)
(* these, so two views map a pixel to the same point if they agree on all. *)
(***************************************************************************)
EXTENDS Naturals, Sequences, FiniteSets

CONSTANTS
  Calls,        \* the tool calls; each is made once
  Targets,      \* what a screenshot may be of: "all", or one display
  Sizes,        \* the longest edges that may be asked for
  MaxEdge,      \* the one taken when none is given
  MaxAhead,     \* bound: the calls an agent has outstanding at a time
  MaxLayouts    \* bound: how often the displays are rearranged

ASSUME McpAssumption ==
  "all" \in Targets /\ MaxEdge \in Sizes /\ IsFiniteSet(Calls) /\ MaxAhead \in Nat \ {0} /\ MaxLayouts \in Nat

VARIABLES
  ahead,   \* the agent: how many calls it makes without waiting for a reply
  layout,  \* how the displays are arranged
  view,    \* RdcServer.view: a sequence of at most one
  ops,     \* RdcServer.ops: who waits for the lock; the head holds it
  stage,   \* where each call is
  call,    \* what it asks for
  basis,   \* the image the agent had in front of it when it made the call
  used,    \* the views the call has used
  reply,   \* what its handler returned
  seen,    \* the image the agent has in front of it
  owed,    \* actions reported as failed that may still take place
  done     \* history: the calls whose action took place, in order

vars == <<ahead, layout, view, ops, stage, call, basis, used, reply, seen, owed, done>>

-----------------------------------------------------------------------------
(* The tools.  point: mouse_move, click, scroll at a point.  blind: type,  *)
(* key, focus, scroll without one.  other: displays and the clipboard.     *)
Acting  == {"point", "drag", "blind"}
Reading == {"screenshot", "windows", "other"}
Tools   == [kind : Acting, then : BOOLEAN, target : {"all"}, max : {MaxEdge}]
      \cup [kind : {"screenshot"}, then : {TRUE}, target : Targets, max : Sizes]
      \cup [kind : {"windows", "other"}, then : {FALSE}, target : {"all"}, max : {MaxEdge}]
NotCalled == [kind |-> "none", then |-> FALSE, target |-> "all", max |-> MaxEdge]

Views   == [target : Targets, max : Sizes, layout : 0 .. MaxLayouts]
Maybe(S) == {<< >>} \cup {<<x>> : x \in S}
Replies == [ok : BOOLEAN, image : Maybe(Views), shows : Nat]
Error   == [ok |-> FALSE, image |-> << >>, shows |-> 0]
Text    == [ok |-> TRUE, image |-> << >>, shows |-> 0]

NeededThird(kind) ==  \* mutant: the start of a drag is mapped again
  IF kind = "drag" THEN 3 ELSE IF kind = "point" THEN 1 ELSE 0
Needed(kind) == IF kind = "drag" THEN 2 ELSE IF kind = "point" THEN 1 ELSE 0

TypeOK ==
  /\ ahead \in 1 .. MaxAhead
  /\ layout \in 0 .. MaxLayouts
  /\ view \in Maybe(Views)
  /\ ops \in Seq(Calls)
  /\ stage \in [Calls -> {"unsent", "sent", "queued", "acted", "answered", "delivered"}]
  /\ call \in [Calls -> Tools \cup {NotCalled}]
  /\ basis \in [Calls -> Maybe(Views)]
  /\ used \in [Calls -> Maybe(Views) \cup (Views \X Views)]
  /\ reply \in [Calls -> Replies]
  /\ seen \in Maybe(Views)
  /\ owed \subseteq Calls
  /\ done \in Seq(Calls)

Init ==
  /\ ahead \in 1 .. MaxAhead
  /\ layout = 0
  /\ view = << >> /\ ops = << >> /\ seen = << >> /\ done = << >>
  /\ stage = [c \in Calls |-> "unsent"]
  /\ call = [c \in Calls |-> NotCalled]
  /\ basis = [c \in Calls |-> << >>]
  /\ used = [c \in Calls |-> << >>]
  /\ reply = [c \in Calls |-> Error]
  /\ owed = {}

-----------------------------------------------------------------------------
(* The agent makes a call while looking at the last image it received.      *)
Outstanding == {c \in Calls : stage[c] \notin {"unsent", "delivered"}}

Send(c, tool) ==
  /\ stage[c] = "unsent"
  /\ Cardinality(Outstanding) < ahead
  /\ stage' = [stage EXCEPT ![c] = "sent"]
  /\ call' = [call EXCEPT ![c] = tool]
  /\ basis' = [basis EXCEPT ![c] = seen]
  /\ UNCHANGED <<ahead, layout, view, ops, used, reply, seen, owed, done>>

(* `let _op = self.ops.lock().await`. *)
Poll(c) ==
  /\ stage[c] = "sent"
  /\ stage' = [stage EXCEPT ![c] = "queued"]
  /\ ops' = Append(ops, c)
  /\ UNCHANGED <<ahead, layout, view, call, basis, used, reply, seen, owed, done>>

HoldsWaiting(c) == \E i \in DOMAIN ops : ops[i] = c  \* mutant: no lock
Holds(c) == ops # << >> /\ Head(ops) = c

At(c, s, kinds) == Holds(c) /\ stage[c] = s /\ call[c].kind \in kinds

(* The handler returns, and with it the guard of the lock it holds is      *)
(* dropped: the next in the queue has it.                                   *)
Answer(c, r) ==
  /\ stage' = [stage EXCEPT ![c] = "answered"]
  /\ reply' = [reply EXCEPT ![c] = r]
  /\ ops' = Tail(ops)

-----------------------------------------------------------------------------
(* take: a screenshot, which becomes the view. *)
Shot(target, max) == [target |-> target, max |-> max, layout |-> layout]
Image(v)     == [ok |-> TRUE, image |-> <<v>>, shows |-> Len(done)]

StoredFirst(v) == IF view = << >> THEN <<v>> ELSE view  \* mutant: only the first is kept
Stored(v) == <<v>>

TakeAndAnswer(c, target, max) ==
  /\ view' = Stored(Shot(target, max))
  /\ Answer(c, Image(Shot(target, max)))

(* view and to_desktop: with no view yet a screenshot is taken that nobody  *)
(* gets to see.                                                             *)
Mapping(c) == At(c, "queued", Acting) /\ Len(used[c]) < Needed(call[c].kind)

Look(c) ==
  LET v == IF view = << >> THEN Shot("all", MaxEdge) ELSE Head(view)
  IN  /\ Mapping(c)
      /\ used' = [used EXCEPT ![c] = Append(@, v)]
      /\ view' = <<v>>
      /\ UNCHANGED <<ahead, layout, ops, stage, call, basis, reply, seen, owed, done>>

LookFails(c) ==
  /\ Mapping(c) /\ view = << >>
  /\ Answer(c, Error)
  /\ UNCHANGED <<ahead, layout, view, call, basis, used, seen, owed, done>>

(* The points are mapped: a parameter is refused, or the action is asked   *)
(* of the desktop and succeeds, or fails: then it has taken place or not,  *)
(* or will when whoever performs it gets to it.                            *)
Mapped(c) == At(c, "queued", Acting) /\ Len(used[c]) = Needed(call[c].kind)

Refuse(c) ==
  /\ Mapped(c) \/ At(c, "queued", {"screenshot"})
  /\ Answer(c, Error)
  /\ UNCHANGED <<ahead, layout, view, call, basis, used, seen, owed, done>>

Act(c) ==
  /\ Mapped(c)
  /\ stage' = [stage EXCEPT ![c] = "acted"]
  /\ done' = Append(done, c)
  /\ UNCHANGED <<ahead, layout, view, ops, call, basis, used, reply, seen, owed>>

ActFails(c) ==
  /\ Mapped(c)
  /\ Answer(c, Error)
  /\ \/ owed' = owed \cup {c} /\ UNCHANGED done
     \/ done' = Append(done, c) /\ UNCHANGED owed
  /\ UNCHANGED <<ahead, layout, view, call, basis, used, seen>>

Late(c) ==
  /\ c \in owed
  /\ owed' = owed \ {c}
  /\ done' = Append(done, c)
  /\ UNCHANGED <<ahead, layout, view, ops, stage, call, basis, used, reply, seen>>

(* after. *)
After(c) ==
  /\ At(c, "acted", Acting)
  /\ \/ ~call[c].then /\ Answer(c, Text) /\ UNCHANGED view
     \/ call[c].then /\ TakeAndAnswer(c, "all", MaxEdge)
     \/ call[c].then /\ Answer(c, Error) /\ UNCHANGED view
  /\ UNCHANGED <<ahead, layout, call, basis, used, seen, owed, done>>

-----------------------------------------------------------------------------
(* The tools that read. *)
Screenshot(c) ==
  /\ At(c, "queued", {"screenshot"})
  /\ TakeAndAnswer(c, call[c].target, call[c].max)
  /\ UNCHANGED <<ahead, layout, call, basis, used, seen, owed, done>>

(* windows: their place in the image, if there is a view. *)
Windows(c) ==
  /\ At(c, "queued", {"windows"})
  /\ used' = [used EXCEPT ![c] = view]
  /\ Answer(c, Text)
  /\ UNCHANGED <<ahead, layout, view, call, basis, seen, owed, done>>

Other(c) ==
  /\ At(c, "queued", {"other"})
  /\ Answer(c, Text)
  /\ UNCHANGED <<ahead, layout, view, call, basis, used, seen, owed, done>>

ReadFails(c) ==
  /\ At(c, "queued", Reading)
  /\ Answer(c, Error)
  /\ UNCHANGED <<ahead, layout, view, call, basis, used, seen, owed, done>>

-----------------------------------------------------------------------------
(* The reply reaches the agent, which looks at the image in it. *)
Deliver(c) ==
  /\ stage[c] = "answered"
  /\ stage' = [stage EXCEPT ![c] = "delivered"]
  /\ seen' = IF reply[c].image = << >> THEN seen ELSE reply[c].image
  /\ UNCHANGED <<ahead, layout, view, ops, call, basis, used, reply, owed, done>>

Rearrange ==
  /\ layout < MaxLayouts
  /\ layout' = layout + 1
  /\ UNCHANGED <<ahead, view, ops, stage, call, basis, used, reply, seen, owed, done>>

Step(c) ==
  \/ Look(c) \/ LookFails(c) \/ Refuse(c) \/ Act(c) \/ ActFails(c) \/ After(c)
  \/ Screenshot(c) \/ Windows(c) \/ Other(c) \/ ReadFails(c)

Next ==
  \/ \E c \in Calls :
       \/ \E tool \in Tools : Send(c, tool)
       \/ Poll(c) \/ Late(c) \/ Deliver(c)
       \/ Look(c) \/ LookFails(c) \/ Refuse(c) \/ Act(c) \/ ActFails(c) \/ After(c)
       \/ Screenshot(c) \/ Windows(c) \/ Other(c) \/ ReadFails(c)
  \/ Rearrange

Spec == Init /\ [][Next]_vars

-----------------------------------------------------------------------------
(* For an agent that waits for each reply, coordinates are pixels in the   *)
(* image it has in front of it, if it has any, and so are the places of    *)
(* windows: a call that fails after taking a screenshot, or is refused,    *)
(* never changes what the next one means (mcp.rs:3).                       *)
PixelsOfTheImageSeen ==
  ahead = 1 => \A c \in Calls : \A i \in DOMAIN used[c] :
    basis[c] # << >> => used[c][i] = Head(basis[c])

(* Both ends of a drag are pixels of one image, however many calls are     *)
(* outstanding and whatever becomes of the displays (mcp.rs, drag).        *)
DragInOneImage ==
  \A c \in Calls : \A i, j \in DOMAIN used[c] : used[c][i] = used[c][j]

(* The session the agent sees is that of AtomicTools: although a call      *)
(* takes several steps, each of which may fail, and calls overlap, every   *)
(* one is as if it had been made alone (mcp.rs, ops).  So an image that is *)
(* returned with an action shows the desktop after that action and after   *)
(* no later one that was reported as done (mcp.rs, after: so you can       *)
(* verify the result).                                                     *)
MeantBy(c) == {used[c][i] : i \in DOMAIN used[c]}

Alone == INSTANCE AtomicTools WITH
  acts  <- {c \in Calls : call[c].kind \in Acting},
  deeds <- [i \in DOMAIN done |-> [call |-> done[i], by |-> MeantBy(done[i])]],
  owed  <- {[call |-> c, by |-> MeantBy(c)] : c \in owed},
  told  <- [c \in Calls |-> IF stage[c] \in {"answered", "delivered"} THEN <<reply[c]>> ELSE << >>]

AsIfAlone == Alone!Spec

-----------------------------------------------------------------------------
(* A call that has asked for the lock and has not been answered.           *)
Waits(c) == stage[c] \in {"queued", "acted"}

(* Who waits for the lock or holds it is in the queue once (mcp.rs, ops).  *)
QueueWaits ==
  /\ \A i, j \in DOMAIN ops : ops[i] = ops[j] => i = j
  /\ \A c \in Calls : Waits(c) <=> \E i \in DOMAIN ops : ops[i] = c

(* Who waits has named a tool, and a tool never uses more pixels than it   *)
(* was called with.                                                        *)
Asked ==
  \A c \in Calls :
    /\ stage[c] = "unsent" \/ call[c] \in Tools
    /\ stage[c] = "acted" => call[c].kind \in Acting
    /\ stage[c] = "queued" /\ call[c].kind \in Acting => Len(used[c]) =< Needed(call[c].kind)

(* The guards of the steps of the call that holds the lock.                *)
HasStep(c) ==
  Mapping(c) \/ Mapped(c) \/ At(c, "acted", Acting) \/ At(c, "queued", Reading)

(* Whoever waits for the lock, the call that holds it has a step left, so  *)
(* nobody waits for a call that has returned, and no call waits for itself *)
(* (mcp.rs: the lock is taken once, at the start of each tool).            *)
LockServes == \A c \in Calls : Waits(c) => HasStep(Head(ops))

(* The most steps before its answer of a call that holds the lock, and of  *)
(* the call at place i: at most four of each call in front, which are two  *)
(* looks, the action and the screenshot after it.                          *)
Left(c) ==
  IF stage[c] = "queued" /\ call[c].kind \in Acting
  THEN Needed(call[c].kind) - Len(used[c]) + 2 ELSE 1

StepsAhead(i) == 4 * (i - 1) + Left(Head(ops))

Nearer(i) ==
  \/ stage'[ops[i]] = "answered"
  \/ \E j \in DOMAIN ops' :
       /\ ops'[j] = ops[i]
       /\ StepsAhead(j)' =< StepsAhead(i)
       /\ (\E c \in Calls : Step(c)) => StepsAhead(j)' < StepsAhead(i)

(* Each step of the holder brings everyone in the queue nearer to its      *)
(* answer, and no other step takes one of them further away (mcp.rs, ops:  *)
(* the lock serves in the order of asking).  Whether the holder takes its  *)
(* step is the desktop's affair: input has no time limit.                  *)
ServedInTurn == [][\A i \in DOMAIN ops : Nearer(i)]_vars
=============================================================================
