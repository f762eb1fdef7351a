----------------------------- MODULE McpProofs -----------------------------
(***************************************************************************)
(* Proofs about Mcp, for any finite set of calls, any displays and sizes   *)
(* of image that may be asked for, any number of calls outstanding and any *)
(* number of rearrangements: both ends of a drag are                       *)
(* pixels of one image, an agent that waits for its replies means pixels   *)
(* of the image it sees, the whole implements AtomicTools, and whoever     *)
(* waits for the lock waits for a call that has a step left.               *)
(***************************************************************************)
EXTENDS Mcp, FiniteSetTheorems, SequenceTheorems, TLAPS

Stages == {"unsent", "sent", "queued", "acted", "answered", "delivered"}
UsedViews == Maybe(Views) \cup (Views \X Views)

-----------------------------------------------------------------------------
(* Sequences of at most one element, and of at most two.                   *)
LEMMA MaybeHead ==
  ASSUME NEW S, NEW s \in Maybe(S), s # << >>
  PROVE  s = <<Head(s)>> /\ Head(s) \in S /\ s[1] = Head(s)
BY DEF Maybe

LEMMA MaybeOne ==
  ASSUME NEW S, NEW x \in S
  PROVE  <<x>> \in Maybe(S) /\ << >> \in Maybe(S) /\ <<x>> # << >>
BY DEF Maybe

LEMMA AppendShort ==
  ASSUME NEW S, NEW x \in S, NEW v \in S
  PROVE  Append(<< >>, v) = <<v>> /\ Append(<<x>>, v) = <<x, v>>
<1>1. << >> \in Seq(S) /\ <<x>> \in Seq(S) /\ <<v>> \in Seq(S) /\ <<x, v>> \in Seq(S)
  OBVIOUS
<1>2. Append(<< >>, v) = <<v>>
  BY <1>1, AppendProperties, SeqEqual
<1>3. Append(<<x>>, v) = <<x, v>>
  <2>1. Append(<<x>>, v) \in Seq(S) /\ Len(Append(<<x>>, v)) = 2
    BY <1>1, AppendProperties
  <2>2. Append(<<x>>, v)[1] = x /\ Append(<<x>>, v)[2] = v
    BY <1>1, AppendProperties
  <2>3. Len(<<x, v>>) = 2 /\ <<x, v>>[1] = x /\ <<x, v>>[2] = v
    OBVIOUS
  <2>4. \A i \in 1 .. 2 : Append(<<x>>, v)[i] = <<x, v>>[i]
    BY <2>2, <2>3
  <2> HIDE <2>2
  <2> QED
    BY <1>1, <2>1, <2>3, <2>4, SeqEqual
<1> QED
  BY <1>2, <1>3

LEMMA UsedForms ==
  ASSUME NEW u \in UsedViews
  PROVE  \/ u = << >>
         \/ \E x \in Views : u = <<x>>
         \/ \E x, y \in Views : u = <<x, y>>
BY DEF UsedViews, Maybe

LEMMA Extended ==
  ASSUME NEW u \in UsedViews, Len(u) < 2, NEW v \in Views
  PROVE  /\ Append(u, v) \in UsedViews
         /\ u = << >> => Append(u, v) = <<v>>
         /\ u # << >> => u = <<u[1]>> /\ Append(u, v) = <<u[1], v>>
<1>1. CASE u = << >>
  BY <1>1, MaybeOne, AppendShort DEF UsedViews
<1>2. CASE \E x \in Views : u = <<x>>
  <2>1. PICK x \in Views : u = <<x>>
    BY <1>2
  <2>2. Append(u, v) = <<x, v>> /\ u[1] = x /\ u # << >>
    BY <2>1, AppendShort
  <2>3. <<x, v>> \in UsedViews
    BY <2>1 DEF UsedViews
  <2> QED
    BY <2>1, <2>2, <2>3
<1>3. ~ \E x, y \in Views : u = <<x, y>>
  OBVIOUS
<1> QED
  BY <1>1, <1>2, <1>3, UsedForms

(* What was used at i, for either place.                                   *)
LEMMA UsedAt ==
  ASSUME NEW u \in UsedViews, NEW i \in DOMAIN u
  PROVE  /\ u[i] \in Views
         /\ i = 1 \/ i = 2
         /\ i = 2 => u = <<u[1], u[2]>>
         /\ Len(u) < 2 => i = 1
<1>1. CASE u = << >>
  BY <1>1
<1>2. CASE \E x \in Views : u = <<x>>
  BY <1>2
<1>3. CASE \E x, y \in Views : u = <<x, y>>
  BY <1>3
<1> QED
  BY <1>1, <1>2, <1>3, UsedForms

LEMMA ReplyTypes ==
  /\ Error \in Replies /\ Text \in Replies
  /\ Error.image = << >> /\ Text.image = << >>
  /\ \A v \in Views : TypeOK => Image(v) \in Replies /\ Image(v).image = <<v>>
<1>1. << >> \in Maybe(Views)
  BY DEF Maybe
<1>2. \A v \in Views : <<v>> \in Maybe(Views)
  BY MaybeOne
<1>3. TypeOK => Len(done) \in Nat
  BY LenProperties DEF TypeOK
<1> QED
  BY <1>1, <1>2, <1>3 DEF Error, Text, Image, Replies

LEMMA ShotType ==
  ASSUME TypeOK, NEW target \in Targets, NEW max \in Sizes
  PROVE  Shot(target, max) \in Views
BY DEF TypeOK, Shot, Views

LEMMA CallType ==
  ASSUME TypeOK, NEW c \in Calls
  PROVE  /\ call[c].target \in Targets /\ call[c].max \in Sizes
         /\ Needed(call[c].kind) \in 0 .. 2
<1>1. call[c] \in Tools \cup {NotCalled}
  BY DEF TypeOK
<1>2. call[c].target \in Targets /\ call[c].max \in Sizes
  <2>1. CASE call[c] \in Tools
    BY <2>1, McpAssumption DEF Tools
  <2>2. CASE call[c] = NotCalled
    BY <2>2, McpAssumption DEF NotCalled
  <2> QED
    BY <1>1, <2>1, <2>2
<1> QED
  BY <1>2 DEF Needed

-----------------------------------------------------------------------------
(* The type invariant: what an answer does to the lock and the stages.     *)
LEMMA TypeOfAnswer ==
  ASSUME TypeOK, NEW c \in Calls, NEW r \in Replies, ops # << >>, Answer(c, r)
  PROVE  /\ stage' \in [Calls -> Stages] /\ reply' \in [Calls -> Replies]
         /\ ops' \in Seq(Calls) /\ ops' = Tail(ops)
<1>1. Tail(ops) \in Seq(Calls)
  BY HeadTailProperties DEF TypeOK
<1> QED
  BY <1>1 DEF TypeOK, Answer, Stages

LEMMA TypeStart == Init => TypeOK
<1> SUFFICES ASSUME Init PROVE TypeOK
  OBVIOUS
<1> USE McpAssumption
<1>1. layout \in 0 .. MaxLayouts
  BY DEF Init
<1>2. view \in Maybe(Views) /\ seen \in Maybe(Views) /\ << >> \in Maybe(Views)
  BY DEF Init, Maybe
<1>3. ops \in Seq(Calls) /\ done \in Seq(Calls)
  BY DEF Init
<1>4. basis \in [Calls -> Maybe(Views)] /\ used \in [Calls -> UsedViews]
  BY <1>2 DEF Init, UsedViews
<1>5. reply \in [Calls -> Replies]
  BY ReplyTypes DEF Init
<1> QED
  BY <1>1, <1>2, <1>3, <1>4, <1>5 DEF Init, TypeOK, UsedViews

LEMMA TypeStep == TypeOK /\ [Next]_vars => TypeOK'
<1> SUFFICES ASSUME TypeOK, [Next]_vars PROVE TypeOK'
  OBVIOUS
<1> USE McpAssumption
<1>0. /\ layout \in 0 .. MaxLayouts /\ view \in Maybe(Views) /\ seen \in Maybe(Views)
      /\ Error \in Replies /\ Text \in Replies
      /\ used \in [Calls -> UsedViews] /\ stage \in [Calls -> Stages]
  BY ReplyTypes DEF TypeOK, UsedViews, Stages
<1>1. ASSUME NEW c \in Calls, NEW tool \in Tools, Send(c, tool) PROVE TypeOK'
  BY <1>1 DEF Send, TypeOK
<1>2. ASSUME NEW c \in Calls, Poll(c) PROVE TypeOK'
  <2>1. ops' \in Seq(Calls)
    BY <1>2, AppendProperties DEF Poll, TypeOK
  <2> QED
    BY <1>2, <2>1 DEF Poll, TypeOK
<1>3. ASSUME NEW c \in Calls, Late(c) PROVE TypeOK'
  <2>1. done' \in Seq(Calls)
    BY <1>3, AppendProperties DEF Late, TypeOK
  <2> QED
    BY <1>3, <2>1 DEF Late, TypeOK
<1>4. ASSUME NEW c \in Calls, Deliver(c) PROVE TypeOK'
  <2>1. seen' \in Maybe(Views)
    BY <1>4 DEF Deliver, TypeOK, Replies
  <2> QED
    BY <1>4, <2>1 DEF Deliver, TypeOK
<1>5. ASSUME NEW c \in Calls, Look(c) PROVE TypeOK'
  <2> DEFINE v == IF view = << >> THEN Shot("all", MaxEdge) ELSE Head(view)
  <2>1. v \in Views
    BY <1>0, ShotType, MaybeHead, McpAssumption
  <2>2. used[c] \in UsedViews /\ Len(used[c]) < 2
    BY <1>0, <1>5, CallType, UsedForms DEF Look, Mapping, Needed
  <2>3. Append(used[c], v) \in UsedViews
    BY <2>1, <2>2, Extended
  <2>4. used' = [used EXCEPT ![c] = Append(used[c], v)] /\ view' = <<v>>
    BY <1>5 DEF Look
  <2>5. used' \in [Calls -> UsedViews] /\ view' \in Maybe(Views)
    BY <1>0, <2>1, <2>3, <2>4, MaybeOne
  <2> QED
    BY <1>5, <2>5 DEF Look, TypeOK, UsedViews
<1>6. ASSUME NEW c \in Calls, LookFails(c) PROVE TypeOK'
  BY <1>0, <1>6, TypeOfAnswer DEF LookFails, Mapping, At, Holds, TypeOK, Stages
<1>7. ASSUME NEW c \in Calls, Refuse(c) PROVE TypeOK'
  BY <1>0, <1>7, TypeOfAnswer DEF Refuse, Mapped, At, Holds, TypeOK, Stages
<1>8. ASSUME NEW c \in Calls, Act(c) PROVE TypeOK'
  <2>1. done' \in Seq(Calls)
    BY <1>8, AppendProperties DEF Act, TypeOK
  <2> QED
    BY <1>8, <2>1 DEF Act, TypeOK
<1>9. ASSUME NEW c \in Calls, ActFails(c) PROVE TypeOK'
  <2>1. done' \in Seq(Calls) /\ owed' \subseteq Calls
    <3>1. Append(done, c) \in Seq(Calls)
      BY AppendProperties DEF TypeOK
    <3> QED
      BY <1>9, <3>1 DEF ActFails, TypeOK
  <2> QED
    BY <1>0, <1>9, <2>1, TypeOfAnswer DEF ActFails, Mapped, At, Holds, TypeOK, Stages
<1>10. ASSUME NEW c \in Calls, NEW target \in Targets, NEW max \in Sizes, ops # << >>,
              TakeAndAnswer(c, target, max),
              UNCHANGED <<ahead, layout, call, basis, used, seen, owed, done>>
       PROVE  TypeOK'
  <2>1. Shot(target, max) \in Views /\ Image(Shot(target, max)) \in Replies
    BY ShotType, ReplyTypes
  <2>2. view' \in Maybe(Views)
    BY <1>10, <2>1, MaybeOne DEF TakeAndAnswer, Stored
  <2>3. Answer(c, Image(Shot(target, max)))
    BY <1>10 DEF TakeAndAnswer
  <2> QED
    BY <1>10, <2>1, <2>2, <2>3, TypeOfAnswer DEF TypeOK, Stages
<1>11. ASSUME NEW c \in Calls, After(c) PROVE TypeOK'
  <2>1. ops # << >>
    BY <1>11 DEF After, At, Holds
  <2>2. CASE (Answer(c, Text) \/ Answer(c, Error)) /\ UNCHANGED view
    BY <1>0, <1>11, <2>1, <2>2, TypeOfAnswer DEF After, TypeOK, Stages
  <2>3. CASE TakeAndAnswer(c, "all", MaxEdge)
    BY <1>10, <1>11, <2>1, <2>3, McpAssumption DEF After
  <2> QED
    BY <1>11, <2>2, <2>3 DEF After
<1>12. ASSUME NEW c \in Calls, Screenshot(c) PROVE TypeOK'
  BY <1>10, <1>12, CallType DEF Screenshot, At, Holds
<1>13. ASSUME NEW c \in Calls, Windows(c) PROVE TypeOK'
  <2>1. used' \in [Calls -> UsedViews]
    BY <1>0, <1>13 DEF Windows, UsedViews
  <2> QED
    BY <1>0, <1>13, <2>1, TypeOfAnswer DEF Windows, At, Holds, TypeOK, Stages, UsedViews
<1>14. ASSUME NEW c \in Calls, Other(c) PROVE TypeOK'
  BY <1>0, <1>14, TypeOfAnswer DEF Other, At, Holds, TypeOK, Stages
<1>15. ASSUME NEW c \in Calls, ReadFails(c) PROVE TypeOK'
  BY <1>0, <1>15, TypeOfAnswer DEF ReadFails, At, Holds, TypeOK, Stages
<1>16. CASE Rearrange
  BY <1>16 DEF Rearrange, TypeOK
<1>17. CASE UNCHANGED vars
  BY <1>17 DEF vars, TypeOK
<1> QED
  BY <1>1, <1>2, <1>3, <1>4, <1>5, <1>6, <1>7, <1>8, <1>9, <1>11, <1>12, <1>13, <1>14, <1>15,
     <1>16, <1>17 DEF Next

-----------------------------------------------------------------------------
(* A call that has mapped its first point and has not acted holds the      *)
(* lock, so nobody replaces the view it mapped the point with.             *)
MidCall(c) == stage[c] = "queued" /\ used[c] # << >>
NotYet  == \A c \in Calls : stage[c] \in {"unsent", "sent"} => used[c] = << >>
OneView == \A c \in Calls : MidCall(c) => Holds(c) /\ view = <<used[c][1]>>

DragInv == TypeOK /\ NotYet /\ OneView /\ DragInOneImage

(* Once the holder of the lock acts or answers, no call is in between.     *)
LEMMA HolderMovesOn ==
  ASSUME DragInv, NEW c \in Calls, Holds(c), NEW s \in {"acted", "answered"},
         stage' = [stage EXCEPT ![c] = s], used' = used
  PROVE  NotYet' /\ OneView' /\ DragInOneImage'
<1>1. stage'[c] = s /\ \A d \in Calls : d # c => stage'[d] = stage[d]
  BY DEF DragInv, TypeOK
<1>2. \A d \in Calls : d # c => ~MidCall(d)
  BY DEF DragInv, OneView, Holds
<1>3. \A d \in Calls : ~MidCall(d)'
  BY <1>1, <1>2 DEF MidCall
<1>4. NotYet'
  BY <1>1 DEF DragInv, NotYet
<1> QED
  BY <1>3, <1>4 DEF OneView, DragInv, DragInOneImage

(* The lock is held on to while others queue up.                           *)
LEMMA StillHeld ==
  ASSUME TypeOK, NEW c \in Calls, NEW d \in Calls, Holds(d), ops' = Append(ops, c)
  PROVE  Holds(d)'
<1>1. Head(ops') = Head(ops) /\ ops' # << >>
  BY HeadTailAppend, AppendProperties DEF TypeOK, Holds
<1> QED
  BY <1>1 DEF Holds

LEMMA DragStart == Init => DragInv
<1> SUFFICES ASSUME Init PROVE DragInv
  OBVIOUS
<1>1. TypeOK
  BY TypeStart
<1>2. \A c \in Calls : used[c] = << >> /\ DOMAIN used[c] = {}
  BY DEF Init
<1> QED
  BY <1>1, <1>2 DEF DragInv, NotYet, OneView, MidCall, DragInOneImage

LEMMA DragStep == DragInv /\ [Next]_vars => DragInv'
<1> SUFFICES ASSUME DragInv, [Next]_vars PROVE NotYet' /\ OneView' /\ DragInOneImage'
  BY TypeStep DEF DragInv
<1>0. /\ TypeOK /\ NotYet /\ OneView /\ DragInOneImage
      /\ used \in [Calls -> UsedViews] /\ stage \in [Calls -> Stages] /\ view \in Maybe(Views)
  BY DEF DragInv, TypeOK, UsedViews, Stages
<1>1. ASSUME NEW c \in Calls, NEW tool \in Tools, Send(c, tool)
      PROVE  NotYet' /\ OneView' /\ DragInOneImage'
  BY <1>0, <1>1 DEF Send, NotYet, OneView, MidCall, Holds, DragInOneImage
<1>2. ASSUME NEW c \in Calls, Poll(c) PROVE NotYet' /\ OneView' /\ DragInOneImage'
  <2>1. NotYet' /\ DragInOneImage'
    BY <1>0, <1>2 DEF Poll, NotYet, DragInOneImage
  <2>2. ~MidCall(c)'
    BY <1>0, <1>2 DEF Poll, MidCall, NotYet
  <2>3. \A d \in Calls : d # c /\ MidCall(d)' => MidCall(d)
    BY <1>0, <1>2 DEF Poll, MidCall
  <2>4. \A d \in Calls : Holds(d) => Holds(d)'
    BY <1>0, <1>2, StillHeld DEF Poll
  <2>5. OneView'
    BY <1>0, <1>2, <2>2, <2>3, <2>4 DEF Poll, OneView
  <2> QED
    BY <2>1, <2>5
<1>3. ASSUME NEW c \in Calls, Late(c) PROVE NotYet' /\ OneView' /\ DragInOneImage'
  BY <1>0, <1>3 DEF Late, NotYet, OneView, MidCall, Holds, DragInOneImage
<1>4. ASSUME NEW c \in Calls, Deliver(c) PROVE NotYet' /\ OneView' /\ DragInOneImage'
  BY <1>0, <1>4 DEF Deliver, NotYet, OneView, MidCall, Holds, DragInOneImage
<1>5. ASSUME NEW c \in Calls, Look(c) PROVE NotYet' /\ OneView' /\ DragInOneImage'
  <2> DEFINE v == IF view = << >> THEN Shot("all", MaxEdge) ELSE Head(view)
             u == Append(used[c], v)
  <2>1. /\ Holds(c) /\ stage[c] = "queued" /\ v \in Views
        /\ used' = [used EXCEPT ![c] = u] /\ view' = <<v>> /\ UNCHANGED <<ops, stage>>
    BY <1>0, <1>5, ShotType, MaybeHead, McpAssumption DEF Look, Mapping, At
  <2>2. used[c] \in UsedViews /\ Len(used[c]) < 2
    BY <1>0, <1>5, CallType, UsedForms DEF Look, Mapping, Needed
  <2>3. used[c] # << >> => used[c][1] = v
    BY <1>0, <2>1 DEF OneView, MidCall
  <2>4. u = <<v>> \/ u = <<v, v>>
    BY <2>1, <2>2, <2>3, Extended
  <2> HIDE DEF v, u
  <2>5. used'[c] = u /\ \A d \in Calls : d # c => used'[d] = used[d]
    BY <1>0, <2>1
  <2>6. u[1] = v /\ \A i, j \in DOMAIN u : u[i] = u[j]
    BY <2>4
  <2>7. \A d \in Calls : d # c => ~MidCall(d)
    BY <1>0, <2>1 DEF OneView, Holds
  <2>8. \A d \in Calls : d # c => ~MidCall(d)'
    BY <2>1, <2>5, <2>7 DEF MidCall
  <2>9. OneView'
    BY <2>1, <2>5, <2>6, <2>8 DEF OneView, Holds
  <2> QED
    BY <1>0, <2>1, <2>5, <2>6, <2>9 DEF NotYet, DragInOneImage
<1>6. ASSUME NEW c \in Calls, NEW r, Holds(c), Answer(c, r), UNCHANGED used
      PROVE  NotYet' /\ OneView' /\ DragInOneImage'
  BY <1>6, HolderMovesOn DEF Answer
<1>7. ASSUME NEW c \in Calls, LookFails(c) \/ Refuse(c) \/ ActFails(c) \/ Other(c) \/ ReadFails(c)
      PROVE  NotYet' /\ OneView' /\ DragInOneImage'
  BY <1>6, <1>7 DEF LookFails, Refuse, ActFails, Other, ReadFails, Mapping, Mapped, At
<1>8. ASSUME NEW c \in Calls, Act(c) PROVE NotYet' /\ OneView' /\ DragInOneImage'
  BY <1>8, HolderMovesOn DEF Act, Mapped, At
<1>9. ASSUME NEW c \in Calls, After(c) \/ Screenshot(c)
      PROVE  NotYet' /\ OneView' /\ DragInOneImage'
  BY <1>6, <1>9 DEF After, Screenshot, TakeAndAnswer, At
<1>10. ASSUME NEW c \in Calls, Windows(c) PROVE NotYet' /\ OneView' /\ DragInOneImage'
  <2>1. /\ Holds(c) /\ stage' = [stage EXCEPT ![c] = "answered"]
        /\ used' = [used EXCEPT ![c] = view]
    BY <1>10 DEF Windows, At, Answer
  <2>2. \A d \in Calls : d # c => used'[d] = used[d] /\ stage'[d] = stage[d] /\ ~MidCall(d)
    BY <1>0, <2>1 DEF OneView, Holds
  <2>3. used'[c] = view /\ stage'[c] = "answered"
    BY <1>0, <2>1
  <2>4. \A d \in Calls : ~MidCall(d)'
    BY <2>2, <2>3 DEF MidCall
  <2>5. \A i, j \in DOMAIN view : view[i] = view[j]
    BY <1>0 DEF Maybe
  <2> QED
    BY <1>0, <2>2, <2>3, <2>4, <2>5 DEF NotYet, OneView, DragInOneImage
<1>11. CASE Rearrange
  BY <1>0, <1>11 DEF Rearrange, NotYet, OneView, MidCall, Holds, DragInOneImage
<1>12. CASE UNCHANGED vars
  BY <1>0, <1>12 DEF vars, NotYet, OneView, MidCall, Holds, DragInOneImage
<1> QED
  BY <1>1, <1>2, <1>3, <1>4, <1>5, <1>7, <1>8, <1>9, <1>10, <1>11, <1>12 DEF Next

-----------------------------------------------------------------------------
(* An agent that waits for its replies has at most one call outstanding,   *)
(* made with the image it still has in front of it; the view is that image *)
(* or, once the call is answered, the one on its way.                      *)
Coming(c) == IF stage[c] = "answered" /\ reply[c].image # << >> THEN reply[c].image ELSE seen

OneAtATime   == \A c, d \in Outstanding : c = d
MadeSeeing   == \A c \in Outstanding : stage[c] # "answered" => basis[c] = seen
ViewIsComing == \A c \in Outstanding : Coming(c) # << >> => view = Coming(c)
ViewIsSeen   == Outstanding = {} /\ seen # << >> => view = seen
UsedAsSeen   == \A c \in Calls : \A i \in DOMAIN used[c] :
                  basis[c] # << >> => used[c][i] = Head(basis[c])

InSight == OneAtATime /\ MadeSeeing /\ ViewIsComing /\ ViewIsSeen /\ UsedAsSeen

McpInv == DragInv /\ (ahead = 1 => InSight)

(* With one call outstanding, no other call is at any stage in between.    *)
LEMMA NoneElse ==
  ASSUME TypeOK, OneAtATime, NEW c \in Outstanding, NEW d \in Calls, d # c
  PROVE  stage[d] \in {"unsent", "delivered"}
BY DEF OneAtATime, Outstanding

LEMMA NoneOutstanding ==
  ASSUME TypeOK, Cardinality(Outstanding) < 1
  PROVE  Outstanding = {}
<1>1. IsFiniteSet(Outstanding)
  BY McpAssumption, FS_Subset DEF Outstanding
<1>2. Cardinality(Outstanding) \in Nat
  BY <1>1, FS_CardinalityType
<1> QED
  BY <1>1, <1>2, FS_EmptySet

(* What a call that is served may do: it stays outstanding, replaces the   *)
(* view only by the image it answers with, or where there was none, and    *)
(* uses the view.                                                          *)
LEMMA Served ==
  ASSUME TypeOK, InSight, NEW c \in Calls, stage[c] \in {"queued", "acted"},
         stage'[c] \in {"queued", "acted", "answered"},
         \A d \in Calls : d # c => stage'[d] = stage[d] /\ used'[d] = used[d],
         UNCHANGED <<basis, seen>>,
         Coming(c)' # << >> => view' = Coming(c)',
         seen # << >> => \A i \in DOMAIN used'[c] :
                           \/ i \in DOMAIN used[c] /\ used'[c][i] = used[c][i]
                           \/ used'[c][i] = Head(view)
  PROVE  InSight'
<1>1. c \in Outstanding /\ Outstanding = {c} /\ Outstanding' = {c}
  BY NoneElse DEF InSight, OneAtATime, Outstanding
<1>2. OneAtATime' /\ ViewIsComing' /\ ViewIsSeen'
  BY <1>1 DEF OneAtATime, ViewIsComing, ViewIsSeen
<1>3. basis[c] = seen /\ (seen # << >> => view = seen)
  BY <1>1 DEF InSight, MadeSeeing, ViewIsComing, Coming
<1>4. MadeSeeing'
  BY <1>1, <1>3 DEF MadeSeeing
<1>5. UsedAsSeen'
  <2> SUFFICES ASSUME NEW d \in Calls, NEW i \in DOMAIN used'[d], basis[d] # << >>
               PROVE  used'[d][i] = Head(basis[d])
    BY DEF UsedAsSeen
  <2>1. CASE d # c
    BY <2>1 DEF InSight, UsedAsSeen
  <2>2. CASE d = c
    BY <1>3, <2>2 DEF InSight, UsedAsSeen
  <2> QED
    BY <2>1, <2>2
<1> QED
  BY <1>2, <1>4, <1>5 DEF InSight

LEMMA SightStart == Init => InSight
<1> SUFFICES ASSUME Init PROVE InSight
  OBVIOUS
<1>1. Outstanding = {} /\ view = seen
  BY DEF Init, Outstanding
<1>2. \A c \in Calls : basis[c] = << >>
  BY DEF Init
<1> QED
  BY <1>1, <1>2 DEF InSight, OneAtATime, MadeSeeing, ViewIsComing, ViewIsSeen, UsedAsSeen

LEMMA SightStep == McpInv /\ [Next]_vars /\ ahead = 1 => InSight'
<1> SUFFICES ASSUME McpInv, [Next]_vars, ahead = 1 PROVE InSight'
  OBVIOUS
<1> USE McpAssumption
<1>0. /\ TypeOK /\ NotYet /\ OneView /\ InSight
      /\ used \in [Calls -> UsedViews] /\ stage \in [Calls -> Stages] /\ view \in Maybe(Views)
      /\ reply \in [Calls -> Replies]
  BY DEF McpInv, DragInv, TypeOK, UsedViews, Stages
<1>1. ASSUME NEW c \in Calls, NEW tool \in Tools, Send(c, tool) PROVE InSight'
  <2>1. /\ stage[c] = "unsent" /\ Cardinality(Outstanding) < 1
        /\ stage' = [stage EXCEPT ![c] = "sent"] /\ basis' = [basis EXCEPT ![c] = seen]
        /\ UNCHANGED <<view, used, reply, seen>>
    BY <1>1 DEF Send
  <2>2. Outstanding = {}
    BY <1>0, <2>1, NoneOutstanding
  <2>3. Outstanding' = {c}
    BY <1>0, <2>1, <2>2 DEF Outstanding
  <2>4. basis'[c] = seen /\ stage'[c] = "sent" /\ (seen # << >> => view = seen)
    BY <1>0, <2>1, <2>2 DEF InSight, ViewIsSeen, TypeOK
  <2>5. DOMAIN used[c] = {} /\ \A d \in Calls : d # c => basis'[d] = basis[d]
    BY <1>0, <2>1 DEF NotYet, TypeOK
  <2>6. UsedAsSeen'
    BY <1>0, <2>1, <2>5 DEF InSight, UsedAsSeen
  <2> QED
    BY <2>1, <2>3, <2>4, <2>6
    DEF InSight, OneAtATime, MadeSeeing, ViewIsComing, ViewIsSeen, Coming
<1>2. ASSUME NEW c \in Calls, Poll(c) PROVE InSight'
  <2>1. /\ stage[c] = "sent" /\ stage' = [stage EXCEPT ![c] = "queued"]
        /\ UNCHANGED <<view, basis, used, reply, seen>>
    BY <1>2 DEF Poll
  <2>2. Outstanding' = Outstanding /\ c \in Outstanding
    BY <1>0, <2>1 DEF Outstanding
  <2>3. \A d \in Calls : (stage'[d] = "answered" <=> stage[d] = "answered")
    BY <1>0, <2>1
  <2> QED
    BY <1>0, <2>1, <2>2, <2>3
    DEF InSight, OneAtATime, MadeSeeing, ViewIsComing, ViewIsSeen, UsedAsSeen, Coming, Outstanding
<1>3. ASSUME UNCHANGED <<view, stage, basis, used, reply, seen>> PROVE InSight'
  BY <1>0, <1>3
  DEF InSight, OneAtATime, MadeSeeing, ViewIsComing, ViewIsSeen, UsedAsSeen, Coming, Outstanding
<1>4. ASSUME NEW c \in Calls, Deliver(c) PROVE InSight'
  <2>1. /\ stage[c] = "answered" /\ stage' = [stage EXCEPT ![c] = "delivered"]
        /\ seen' = Coming(c) /\ UNCHANGED <<view, basis, used, reply>>
    BY <1>4 DEF Deliver, Coming
  <2>2. c \in Outstanding /\ Outstanding = {c}
    BY <1>0, <2>1 DEF Outstanding, InSight, OneAtATime
  <2>3. Outstanding' = {}
    BY <1>0, <2>1, <2>2 DEF Outstanding
  <2>4. seen' # << >> => view' = seen'
    BY <1>0, <2>1, <2>2 DEF InSight, ViewIsComing
  <2> QED
    BY <1>0, <2>1, <2>3, <2>4
    DEF InSight, OneAtATime, MadeSeeing, ViewIsComing, ViewIsSeen, UsedAsSeen
<1>5. ASSUME NEW c \in Calls, Look(c) PROVE InSight'
  <2> DEFINE v == IF view = << >> THEN Shot("all", MaxEdge) ELSE Head(view)
             u == Append(used[c], v)
  <2>1. /\ stage[c] = "queued" /\ v \in Views /\ used' = [used EXCEPT ![c] = u]
        /\ view' = <<v>> /\ UNCHANGED <<stage, basis, reply, seen>>
    BY <1>0, <1>5, ShotType, MaybeHead, McpAssumption DEF Look, Mapping, At
  <2>2. used[c] \in UsedViews /\ Len(used[c]) < 2
    BY <1>0, <1>5, CallType, UsedForms DEF Look, Mapping, Needed
  <2>3. used'[c] = u /\ \A d \in Calls : d # c => used'[d] = used[d]
    BY <1>0, <2>1
  <2>4. seen # << >> => view = seen
    BY <1>0, <2>1 DEF InSight, ViewIsComing, Coming, Outstanding
  <2>5. seen # << >> => v = Head(view) /\ view' = view
    BY <1>0, <2>1, <2>4, MaybeHead
  <2>6. u = <<v>> \/ (used[c] = <<used[c][1]>> /\ u = <<used[c][1], v>>)
    BY <2>1, <2>2, Extended
  <2> HIDE DEF u, v
  <2>7. \A i \in DOMAIN u : (i \in DOMAIN used[c] /\ u[i] = used[c][i]) \/ u[i] = v
    BY <2>6
  <2>8. Coming(c)' = seen
    BY <2>1 DEF Coming
  <2> QED
    BY <1>0, <2>1, <2>3, <2>4, <2>5, <2>7, <2>8, Served
<1>6. ASSUME NEW c \in Calls, NEW r \in Replies, stage[c] \in {"queued", "acted"}, Answer(c, r),
             UNCHANGED <<basis, used, seen>>,
             IF r.image = << >> THEN view' = view ELSE view' = r.image
      PROVE  InSight'
  <2>1. stage'[c] = "answered" /\ reply'[c] = r /\ \A d \in Calls : d # c => stage'[d] = stage[d]
    BY <1>0, <1>6 DEF Answer
  <2>2. Coming(c)' # << >> => view' = Coming(c)'
    BY <1>0, <1>6, <2>1 DEF Coming, InSight, ViewIsComing, Outstanding
  <2> QED
    BY <1>0, <1>6, <2>1, <2>2, Served
<1>7. ASSUME NEW c \in Calls, LookFails(c) \/ Refuse(c) \/ ActFails(c) \/ Other(c) \/ ReadFails(c)
      PROVE  InSight'
  BY <1>6, <1>7, ReplyTypes DEF LookFails, Refuse, ActFails, Other, ReadFails, Mapping, Mapped, At
<1>8. ASSUME NEW c \in Calls, Act(c) PROVE InSight'
  <2>1. /\ stage[c] = "queued" /\ stage' = [stage EXCEPT ![c] = "acted"]
        /\ UNCHANGED <<view, basis, used, reply, seen>>
    BY <1>8 DEF Act, Mapped, At
  <2>2. stage'[c] = "acted" /\ \A d \in Calls : d # c => stage'[d] = stage[d]
    BY <1>0, <2>1
  <2>3. Coming(c)' # << >> => view' = Coming(c)'
    BY <1>0, <2>1, <2>2 DEF Coming, InSight, ViewIsComing, Outstanding
  <2> QED
    BY <1>0, <2>1, <2>2, <2>3, Served
<1>9. ASSUME NEW c \in Calls, NEW target \in Targets, NEW max \in Sizes, stage[c] \in {"queued", "acted"},
             TakeAndAnswer(c, target, max), UNCHANGED <<basis, used, seen>>
      PROVE  InSight'
  <2>1. Shot(target, max) \in Views
    BY <1>0, ShotType
  <2>2. Image(Shot(target, max)) \in Replies /\ Image(Shot(target, max)).image = <<Shot(target, max)>>
    BY <1>0, <2>1, ReplyTypes
  <2>3. view' = <<Shot(target, max)>> /\ Answer(c, Image(Shot(target, max)))
    BY <1>9 DEF TakeAndAnswer, Stored
  <2> QED
    BY <1>6, <1>9, <2>2, <2>3
<1>10. ASSUME NEW c \in Calls, After(c) PROVE InSight'
  BY <1>6, <1>9, <1>10, ReplyTypes, McpAssumption DEF After, At
<1>11. ASSUME NEW c \in Calls, Screenshot(c) PROVE InSight'
  BY <1>0, <1>9, <1>11, CallType DEF Screenshot, At
<1>12. ASSUME NEW c \in Calls, Windows(c) PROVE InSight'
  <2>1. /\ stage[c] = "queued" /\ used' = [used EXCEPT ![c] = view] /\ Answer(c, Text)
        /\ UNCHANGED <<view, basis, seen>>
    BY <1>12 DEF Windows, At
  <2>2. /\ stage'[c] = "answered" /\ reply'[c] = Text /\ used'[c] = view
        /\ \A d \in Calls : d # c => stage'[d] = stage[d] /\ used'[d] = used[d]
    BY <1>0, <2>1 DEF Answer
  <2>3. Coming(c)' # << >> => view' = Coming(c)'
    BY <1>0, <2>1, <2>2, ReplyTypes DEF Coming, InSight, ViewIsComing, Outstanding
  <2>4. \A i \in DOMAIN view : view[i] = Head(view)
    BY <1>0 DEF Maybe
  <2> QED
    BY <1>0, <2>1, <2>2, <2>3, <2>4, Served
<1>13. ASSUME NEW c \in Calls, Late(c) PROVE InSight'
  BY <1>3, <1>13 DEF Late
<1>14. CASE Rearrange
  BY <1>3, <1>14 DEF Rearrange
<1>15. CASE UNCHANGED vars
  BY <1>3, <1>15 DEF vars
<1> QED
  BY <1>1, <1>2, <1>4, <1>5, <1>7, <1>8, <1>10, <1>11, <1>12, <1>13, <1>14, <1>15 DEF Next

LEMMA Patience == TypeOK /\ [Next]_vars => ahead' = ahead
BY DEF Next, vars, Send, Poll, Late, Deliver, Look, LookFails, Refuse, Act, ActFails, After,
       Screenshot, Windows, Other, ReadFails, Rearrange

-----------------------------------------------------------------------------
(* The inductive invariant of the tools, the lock and the view (mcp.rs).   *)
THEOREM McpHolds == Spec => []McpInv
<1>1. Init => McpInv
  BY DragStart, SightStart DEF McpInv
<1>2. McpInv /\ [Next]_vars => McpInv'
  BY DragStep, SightStep, Patience DEF McpInv, DragInv
<1> QED
  BY <1>1, <1>2, PTL DEF Spec

(* The state has its type.                                                 *)
THEOREM McpTypeCorrect == Spec => []TypeOK
<1>1. McpInv => TypeOK
  BY DEF McpInv, DragInv
<1> QED
  BY <1>1, McpHolds, PTL

(* Both ends of a drag are pixels of one image, whatever other calls and   *)
(* the displays do in between (mcp.rs, drag).                              *)
THEOREM DragAlwaysInOneImage == Spec => []DragInOneImage
<1>1. McpInv => DragInOneImage
  BY DEF McpInv, DragInv
<1> QED
  BY <1>1, McpHolds, PTL

(* An agent that waits for its replies means pixels of the image it sees,  *)
(* also after calls that failed or were refused (mcp.rs:3).                *)
THEOREM AlwaysPixelsOfTheImageSeen == Spec => []PixelsOfTheImageSeen
<1>1. McpInv => PixelsOfTheImageSeen
  BY DEF McpInv, InSight, UsedAsSeen, PixelsOfTheImageSeen
<1> QED
  BY <1>1, McpHolds, PTL

-----------------------------------------------------------------------------
(* The refinement: what AtomicTools sees of a state of Mcp.                *)
Acts  == {c \in Calls : call[c].kind \in Acting}
DeedOf(c) == [call |-> c, by |-> MeantBy(c)]
Deeds == [i \in DOMAIN done |-> [call |-> done[i], by |-> MeantBy(done[i])]]
Owed  == {[call |-> c, by |-> MeantBy(c)] : c \in owed}
Told  == [c \in Calls |-> IF stage[c] \in {"answered", "delivered"} THEN <<reply[c]>> ELSE << >>]

(* A call that has acted holds the lock until it answers, so only late     *)
(* actions of calls that failed can come after its own.                    *)
FailedCall(c) == stage[c] \in {"answered", "delivered"} /\ ~reply[c].ok
Unasked    == \A c \in Calls : stage[c] = "unsent" => call[c] = NotCalled
ActedHolds == \A c \in Calls : stage[c] = "acted" => Holds(c)
DoneCalls  == \A i \in DOMAIN done : stage[done[i]] \in {"acted", "answered", "delivered"}
OwedFailed == \A c \in owed : FailedCall(c)
ActedLast  == \A c \in Calls : stage[c] = "acted" =>
                \E i \in DOMAIN done :
                  done[i] = c /\ \A j \in i + 1 .. Len(done) : FailedCall(done[j])

AloneInv == Unasked /\ ActedHolds /\ DoneCalls /\ OwedFailed /\ ActedLast

LEMMA Appended ==
  ASSUME TypeOK, NEW c \in Calls, done' = Append(done, c)
  PROVE  /\ Len(done) \in Nat /\ DOMAIN done = 1 .. Len(done)
         /\ Len(done') = Len(done) + 1 /\ DOMAIN done' = 1 .. Len(done) + 1
         /\ \A i \in 1 .. Len(done) : done'[i] = done[i] /\ done[i] \in Calls
         /\ done'[Len(done) + 1] = c
<1>1. done \in Seq(Calls) /\ done' \in Seq(Calls)
  BY AppendProperties DEF TypeOK
<1>2. Len(done') = Len(done) + 1 /\ done'[Len(done) + 1] = c
  BY <1>1, AppendProperties
<1>3. \A i \in 1 .. Len(done) : done'[i] = done[i]
  BY <1>1, AppendProperties
<1> QED
  BY <1>1, <1>2, <1>3, LenProperties, ElementOfSeq

(* An action of c comes last: nothing is said of the calls that acted      *)
(* unless c is one that failed.                                            *)
LEMMA ActionAdded ==
  ASSUME TypeOK, AloneInv, NEW c \in Calls, done' = Append(done, c),
         \A i \in DOMAIN done : stage'[done[i]] \in {"acted", "answered", "delivered"},
         \A d \in Calls : FailedCall(d) => FailedCall(d)',
         \A d \in Calls : stage'[d] = "acted" => d = c \/ (stage[d] = "acted" /\ FailedCall(c)'),
         stage'[c] \in {"acted", "answered", "delivered"}
  PROVE  DoneCalls' /\ ActedLast'
<1>1. DoneCalls'
  BY Appended DEF DoneCalls
<1>2. ASSUME NEW d \in Calls, stage'[d] = "acted"
      PROVE  \E i \in DOMAIN done' :
               done'[i] = d /\ \A j \in i + 1 .. Len(done') : FailedCall(done[j])'
  <2>1. CASE d = c
    BY <2>1, Appended
  <2>2. CASE stage[d] = "acted" /\ FailedCall(c)'
    <3>1. PICK i \in DOMAIN done :
            done[i] = d /\ \A j \in i + 1 .. Len(done) : FailedCall(done[j])
      BY <2>2 DEF AloneInv, ActedLast
    <3>2. i \in DOMAIN done' /\ done'[i] = d
      BY <3>1, Appended
    <3>3. ASSUME NEW j \in i + 1 .. Len(done') PROVE FailedCall(done[j])'
      <4>1. j = Len(done) + 1 \/ j \in i + 1 .. Len(done)
        BY <3>3, <3>1, Appended
      <4>2. j \in i + 1 .. Len(done) => j \in 1 .. Len(done)
        BY <3>1, Appended
      <4>3. CASE j = Len(done) + 1
        BY <2>2, <4>3, Appended
      <4>4. CASE j \in i + 1 .. Len(done)
        <5>1. done'[j] = done[j] /\ done[j] \in Calls
          BY <4>2, <4>4, Appended
        <5> QED
          BY <3>1, <4>4, <5>1
      <4> QED
        BY <4>1, <4>3, <4>4
    <3> QED
      BY <3>2, <3>3
  <2> QED
    BY <1>2, <2>1, <2>2
<1> QED
  BY <1>1, <1>2 DEF ActedLast

(* A step between two stages neither of which is an answer or an action.   *)
LEMMA NothingDone ==
  ASSUME TypeOK, AloneInv, UNCHANGED <<done, owed, reply>>, Unasked',
         \A d \in Calls : /\ stage'[d] = "acted" <=> stage[d] = "acted"
                          /\ stage'[d] \in {"answered", "delivered"}
                               <=> stage[d] \in {"answered", "delivered"}
                          /\ Holds(d) => Holds(d)'
  PROVE  AloneInv'
<1>1. \A d \in Calls : FailedCall(d)' <=> FailedCall(d)
  BY DEF FailedCall
<1>2. ActedHolds' /\ OwedFailed'
  BY <1>1 DEF AloneInv, ActedHolds, OwedFailed, TypeOK
<1>3. \A i \in DOMAIN done : done[i] \in Calls
  BY ElementOfSeq, LenProperties DEF TypeOK
<1>4. DoneCalls'
  BY <1>3 DEF AloneInv, DoneCalls
<1>5. ActedLast'
  <2>1. ASSUME NEW d \in Calls, stage'[d] = "acted"
        PROVE  \E i \in DOMAIN done :
                 done[i] = d /\ \A j \in i + 1 .. Len(done) : FailedCall(done[j])'
    <3>1. PICK i \in DOMAIN done :
            done[i] = d /\ \A j \in i + 1 .. Len(done) : FailedCall(done[j])
      BY <2>1 DEF AloneInv, ActedLast
    <3>2. \A j \in i + 1 .. Len(done) : j \in DOMAIN done
      BY LenProperties DEF TypeOK
    <3> QED
      BY <1>1, <1>3, <3>1, <3>2
  <2> QED
    BY <2>1 DEF ActedLast
<1> QED
  BY <1>2, <1>4, <1>5 DEF AloneInv

(* An answer, with or without the action it reports as failed.             *)
LEMMA AnswerDone ==
  ASSUME TypeOK, AloneInv, NEW c \in Calls, NEW r \in Replies, Holds(c),
         stage[c] \in {"queued", "acted"}, Answer(c, r), UNCHANGED call,
         \/ UNCHANGED done
         \/ done' = Append(done, c) /\ ~r.ok,
         owed' = owed \/ (owed' = owed \cup {c} /\ ~r.ok)
  PROVE  AloneInv'
<1>1. /\ stage'[c] = "answered" /\ reply'[c] = r
      /\ \A d \in Calls : d # c => stage'[d] = stage[d] /\ reply'[d] = reply[d]
  BY DEF Answer, TypeOK
<1>2. \A d \in Calls : FailedCall(d) => d # c /\ FailedCall(d)'
  BY <1>1 DEF FailedCall
<1>3. ~r.ok => FailedCall(c)'
  BY <1>1 DEF FailedCall
<1>4. \A d \in Calls : stage'[d] # "acted"
  BY <1>1 DEF AloneInv, ActedHolds, Holds
<1>5. \A i \in DOMAIN done : done[i] \in Calls
  BY ElementOfSeq, LenProperties DEF TypeOK
<1>6. \A i \in DOMAIN done : stage'[done[i]] \in {"acted", "answered", "delivered"}
  BY <1>1, <1>5 DEF AloneInv, DoneCalls
<1>7. DoneCalls' /\ ActedLast'
  <2>1. CASE UNCHANGED done
    BY <1>4, <1>6, <2>1 DEF DoneCalls, ActedLast
  <2>2. CASE done' = Append(done, c)
    BY <1>1, <1>2, <1>4, <1>6, <2>2, ActionAdded
  <2> QED
    BY <2>1, <2>2
<1>8. OwedFailed'
  <2>1. \A d \in owed : d \in Calls /\ FailedCall(d)
    BY DEF AloneInv, OwedFailed, TypeOK
  <2> QED
    BY <1>2, <1>3, <2>1 DEF OwedFailed
<1>9. Unasked' /\ ActedHolds'
  BY <1>1, <1>4 DEF AloneInv, Unasked, ActedHolds
<1> QED
  BY <1>7, <1>8, <1>9 DEF AloneInv

LEMMA AloneStart == Init => AloneInv
<1> SUFFICES ASSUME Init PROVE AloneInv
  OBVIOUS
<1>1. DOMAIN done = {} /\ owed = {} /\ \A c \in Calls : stage[c] = "unsent" /\ call[c] = NotCalled
  BY DEF Init
<1> QED
  BY <1>1 DEF AloneInv, Unasked, ActedHolds, DoneCalls, OwedFailed, ActedLast

LEMMA AloneStep == TypeOK /\ AloneInv /\ [Next]_vars => AloneInv'
<1> SUFFICES ASSUME TypeOK, AloneInv, [Next]_vars PROVE AloneInv'
  OBVIOUS
<1>0. stage \in [Calls -> Stages] /\ call \in [Calls -> Tools \cup {NotCalled}]
  BY DEF TypeOK, Stages
<1>1. ASSUME NEW c \in Calls, NEW tool \in Tools, Send(c, tool) PROVE AloneInv'
  <2>1. Unasked'
    BY <1>0, <1>1 DEF Send, AloneInv, Unasked
  <2> QED
    BY <1>0, <1>1, <2>1, NothingDone DEF Send, Holds
<1>2. ASSUME NEW c \in Calls, Poll(c) PROVE AloneInv'
  <2>1. \A d \in Calls : Holds(d) => Holds(d)'
    BY <1>2, StillHeld DEF Poll
  <2>2. Unasked'
    BY <1>0, <1>2 DEF Poll, AloneInv, Unasked
  <2> QED
    BY <1>0, <1>2, <2>1, <2>2, NothingDone DEF Poll
<1>3. ASSUME NEW c \in Calls, Deliver(c) PROVE AloneInv'
  <2>1. Unasked'
    BY <1>0, <1>3 DEF Deliver, AloneInv, Unasked
  <2> QED
    BY <1>0, <1>3, <2>1, NothingDone DEF Deliver, Holds
<1>4. ASSUME UNCHANGED <<stage, call, ops, done, owed, reply>> PROVE AloneInv'
  <2>1. Unasked'
    BY <1>4 DEF AloneInv, Unasked
  <2> QED
    BY <1>4, <2>1, NothingDone DEF Holds
<1>5. ASSUME NEW c \in Calls, Late(c) PROVE AloneInv'
  <2>1. done' = Append(done, c) /\ c \in owed /\ FailedCall(c)
        /\ UNCHANGED <<stage, call, ops, reply>> /\ owed' = owed \ {c}
    BY <1>5 DEF Late, AloneInv, OwedFailed
  <2>2. \A d : FailedCall(d)' <=> FailedCall(d)
    BY <2>1 DEF FailedCall
  <2>3. DoneCalls' /\ ActedLast'
    <3>1. \A i \in DOMAIN done : stage'[done[i]] \in {"acted", "answered", "delivered"}
      BY <2>1 DEF AloneInv, DoneCalls
    <3>2. stage'[c] \in {"acted", "answered", "delivered"}
      BY <2>1 DEF FailedCall
    <3> QED
      BY <2>1, <2>2, <3>1, <3>2, ActionAdded
  <2> QED
    BY <2>1, <2>2, <2>3 DEF AloneInv, Unasked, ActedHolds, OwedFailed, Holds
<1>6. ASSUME NEW c \in Calls, Act(c) PROVE AloneInv'
  <2>1. /\ done' = Append(done, c) /\ Holds(c) /\ stage[c] = "queued"
        /\ stage' = [stage EXCEPT ![c] = "acted"] /\ UNCHANGED <<call, ops, reply, owed>>
    BY <1>6 DEF Act, Mapped, At
  <2>2. stage'[c] = "acted" /\ \A d \in Calls : d # c => stage'[d] = stage[d]
    BY <1>0, <2>1
  <2>3. \A d \in Calls : FailedCall(d) => FailedCall(d)'
    BY <2>1, <2>2 DEF FailedCall
  <2>4. \A d \in Calls : stage'[d] = "acted" => d = c
    BY <2>1, <2>2 DEF AloneInv, ActedHolds, Holds
  <2>5. \A i \in DOMAIN done : stage'[done[i]] \in {"acted", "answered", "delivered"}
    <3>1. \A i \in DOMAIN done : done[i] \in Calls
      BY ElementOfSeq, LenProperties DEF TypeOK
    <3> QED
      BY <2>2, <3>1 DEF AloneInv, DoneCalls
  <2>6. DoneCalls' /\ ActedLast'
    BY <2>1, <2>2, <2>3, <2>4, <2>5, ActionAdded
  <2>7. Unasked' /\ ActedHolds' /\ OwedFailed'
    BY <2>1, <2>2, <2>3, <2>4 DEF AloneInv, Unasked, ActedHolds, OwedFailed, Holds, TypeOK
  <2> QED
    BY <2>6, <2>7 DEF AloneInv
<1>7. ASSUME NEW c \in Calls, NEW r \in Replies, Holds(c), stage[c] \in {"queued", "acted"},
             Answer(c, r), UNCHANGED <<call, done, owed>>
      PROVE  AloneInv'
  BY <1>7, AnswerDone
<1>8. ASSUME NEW c \in Calls,
             LookFails(c) \/ Refuse(c) \/ Other(c) \/ ReadFails(c) \/ Windows(c)
      PROVE  AloneInv'
  BY <1>7, <1>8, ReplyTypes
  DEF LookFails, Refuse, Other, ReadFails, Windows, Mapping, Mapped, At
<1>9. ASSUME NEW c \in Calls, ActFails(c) PROVE AloneInv'
  <2>1. /\ Holds(c) /\ stage[c] = "queued" /\ Answer(c, Error) /\ UNCHANGED call
        /\ \/ owed' = owed \cup {c} /\ UNCHANGED done
           \/ done' = Append(done, c) /\ UNCHANGED owed
    BY <1>9 DEF ActFails, Mapped, At
  <2>2. Error \in Replies /\ ~Error.ok
    BY ReplyTypes DEF Error
  <2>3. CASE owed' = owed \cup {c} /\ UNCHANGED done
    BY <2>1, <2>2, <2>3, AnswerDone
  <2>4. CASE done' = Append(done, c) /\ UNCHANGED owed
    BY <2>1, <2>2, <2>4, AnswerDone
  <2> QED
    BY <2>1, <2>3, <2>4
<1>10. ASSUME NEW c \in Calls, NEW target \in Targets, NEW max \in Sizes, Holds(c), stage[c] \in {"queued", "acted"},
              TakeAndAnswer(c, target, max), UNCHANGED <<call, owed, done>>
       PROVE  AloneInv'
  <2>1. Shot(target, max) \in Views
    BY ShotType
  <2>2. Image(Shot(target, max)) \in Replies
    BY <2>1, ReplyTypes
  <2> QED
    BY <1>7, <1>10, <2>2 DEF TakeAndAnswer
<1>11. ASSUME NEW c \in Calls, After(c) PROVE AloneInv'
  <2>1. CASE Answer(c, Text) \/ Answer(c, Error)
    BY <1>7, <1>11, <2>1, ReplyTypes DEF After, At
  <2>2. CASE TakeAndAnswer(c, "all", MaxEdge)
    BY <1>10, <1>11, <2>2, McpAssumption DEF After, At
  <2> QED
    BY <1>11, <2>1, <2>2 DEF After
<1>12. ASSUME NEW c \in Calls, Screenshot(c) PROVE AloneInv'
  BY <1>10, <1>12, CallType DEF Screenshot, At
<1>13. ASSUME NEW c \in Calls, Look(c) PROVE AloneInv'
  BY <1>4, <1>13 DEF Look
<1>14. CASE Rearrange
  BY <1>4, <1>14 DEF Rearrange
<1>15. CASE UNCHANGED vars
  BY <1>4, <1>15 DEF vars
<1> QED
  BY <1>1, <1>2, <1>3, <1>5, <1>6, <1>8, <1>11, <1>12, <1>13, <1>14, <1>15, <1>9 DEF Next

-----------------------------------------------------------------------------
(* What an action meant does not change once it is done or owed: only a    *)
(* call that is being served uses views.                                   *)
LEMMA MeantIsViews ==
  ASSUME TypeOK, NEW c \in Calls
  PROVE  MeantBy(c) \in SUBSET Views
<1>1. used[c] \in UsedViews
  BY DEF TypeOK, UsedViews
<1> QED
  BY <1>1, UsedAt DEF MeantBy

Settled(c) == stage[c] \in {"acted", "answered", "delivered"}
Fixed == \A c \in Calls : Settled(c) => MeantBy(c)' = MeantBy(c)

LEMMA OwedKept ==
  ASSUME TypeOK, AloneInv, Fixed, UNCHANGED owed
  PROVE  Owed' = Owed
<1>1. \A c \in owed : c \in Calls /\ Settled(c)
  BY DEF AloneInv, OwedFailed, FailedCall, Settled, TypeOK
<1>2. \A c \in owed : MeantBy(c)' = MeantBy(c)
  BY <1>1 DEF Fixed
<1> QED
  BY <1>2 DEF Owed

LEMMA DeedsKept ==
  ASSUME TypeOK, AloneInv, Fixed, UNCHANGED done
  PROVE  Deeds' = Deeds
<1>1. \A i \in DOMAIN done : done[i] \in Calls /\ Settled(done[i])
  BY ElementOfSeq, LenProperties DEF AloneInv, DoneCalls, Settled, TypeOK
<1>2. \A i \in DOMAIN done : \A d \in Calls : d = done[i] => MeantBy(d)' = MeantBy(d)
  BY <1>1 DEF Fixed
<1> DEFINE was(d) == [call |-> d, by |-> MeantBy(d)]
<1>3. \A d \in Calls : Settled(d) => was(d)' = was(d)
  BY DEF Fixed
<1>4. \A i \in DOMAIN done : was(done[i])' = was(done[i])
  BY <1>1, <1>3
<1> QED
  BY <1>4 DEF Deeds

LEMMA DeedsType ==
  ASSUME TypeOK
  PROVE  /\ Deeds \in Seq([call : Calls, by : SUBSET Views])
         /\ Len(Deeds) = Len(done) /\ DOMAIN Deeds = 1 .. Len(done) /\ Len(done) \in Nat
         /\ \A i \in 1 .. Len(done) : done[i] \in Calls /\ Deeds[i] = DeedOf(done[i])
<1>1. /\ DOMAIN done = 1 .. Len(done) /\ Len(done) \in Nat
      /\ \A i \in 1 .. Len(done) : done[i] \in Calls
  BY ElementOfSeq, LenProperties DEF TypeOK
<1>2. \A i \in 1 .. Len(done) : DeedOf(done[i]) \in [call : Calls, by : SUBSET Views]
  BY <1>1, MeantIsViews DEF DeedOf
<1>3. Deeds = [i \in 1 .. Len(done) |-> DeedOf(done[i])]
  BY <1>1 DEF Deeds, DeedOf
<1> QED
  BY <1>1, <1>2, <1>3

LEMMA SequenceAsFunction ==
  ASSUME NEW S, NEW s \in Seq(S)
  PROVE  s = [i \in 1 .. Len(s) |-> s[i]]
OBVIOUS

LEMMA DeedAdded ==
  ASSUME TypeOK, TypeOK', AloneInv, Fixed, NEW c \in Calls, MeantBy(c)' = MeantBy(c),
         done' = Append(done, c)
  PROVE  Deeds' = Append(Deeds, DeedOf(c))
<1> DEFINE S == [call : Calls, by : SUBSET Views]
           new == Append(Deeds, DeedOf(c))
<1>1. DeedOf(c) \in S /\ DeedOf(c)' = DeedOf(c)
  BY MeantIsViews DEF DeedOf
<1>2. new \in Seq(S) /\ Len(new) = Len(done) + 1
  BY <1>1, DeedsType, AppendProperties
<1>3. /\ \A i \in 1 .. Len(done) : new[i] = DeedOf(done[i])
      /\ new[Len(done) + 1] = DeedOf(c)
  <2> HIDE DEF S
  <2>1. Deeds \in Seq(S)
    BY DeedsType DEF S
  <2>2. /\ \A i \in 1 .. Len(Deeds) : new[i] = Deeds[i]
        /\ new[Len(Deeds) + 1] = DeedOf(c)
    BY <1>1, <2>1, AppendProperties
  <2> QED
    BY <2>2, DeedsType
<1>4. \A d \in Calls : Settled(d) => DeedOf(d)' = DeedOf(d)
  BY DEF Fixed, DeedOf
<1>5. \A i \in 1 .. Len(done) : done[i] \in Calls /\ Settled(done[i]) /\ done'[i] = done[i]
  BY Appended DEF AloneInv, DoneCalls, Settled
<1>6. \A i \in 1 .. Len(done) + 1 : DeedOf(done[i])' = new[i]
  <2>1. ASSUME NEW i \in 1 .. Len(done) PROVE DeedOf(done[i])' = new[i]
    <3>1. DeedOf(done[i])' = DeedOf(done[i])
      BY <1>4, <1>5 DEF DeedOf, MeantBy
    <3> QED
      BY <1>3, <3>1
  <2>2. ASSUME NEW i, i = Len(done) + 1 PROVE DeedOf(done[i])' = new[i]
    <3>1. done'[i] = c
      BY <2>2, Appended
    <3>2. DeedOf(done[i])' = DeedOf(c)
      BY <1>1, <3>1 DEF DeedOf, MeantBy
    <3> QED
      BY <1>3, <2>2, <3>2
  <2>3. \A i \in 1 .. Len(done) + 1 : i \in 1 .. Len(done) \/ i = Len(done) + 1
    BY Appended
  <2> QED
    BY <2>1, <2>2, <2>3
<1>7. Deeds' = [i \in 1 .. Len(done) + 1 |-> new[i]]
  <2>1. DOMAIN done' = 1 .. Len(done) + 1
    BY Appended
  <2>2. Deeds' = [i \in DOMAIN done' |-> DeedOf(done[i])']
    BY DEF Deeds, DeedOf
  <2> HIDE DEF new
  <2> QED
    BY <1>6, <2>1, <2>2
<1>8. new = [i \in 1 .. Len(new) |-> new[i]]
  <2> HIDE DEF new, S
  <2> QED
    BY <1>2, SequenceAsFunction
<1> QED
  BY <1>2, <1>7, <1>8

-----------------------------------------------------------------------------
(* The steps of AtomicTools in terms of what it sees.                      *)
Sight == <<Acts, view, Deeds, Owed, Told>>

LEMMA UnseenStep == Sight' = Sight => UNCHANGED Alone!vars
BY DEF Alone!vars, Sight, Acts, Deeds, Owed, Told

Tells(c, r) ==
  /\ Told[c] = << >> /\ Told' = [Told EXCEPT ![c] = <<r>>]
  /\ Acts' = Acts

LEMMA TellsTells ==
  ASSUME NEW c \in Calls, NEW r, Tells(c, r)
  PROVE  Alone!Tell(c, r)
BY DEF Tells, Alone!Tell, Alone!Open, Told, Acts

LEMMA DoesDo ==
  ASSUME TypeOK, AloneInv, NEW c \in Calls, c \in Acts, stage[c] = "queued",
         MeantBy(c) \in SUBSET {view[i] : i \in DOMAIN view},
         Deeds' = Append(Deeds, DeedOf(c)), UNCHANGED <<Acts, view, Owed, Told>>
  PROVE  Alone!Do(c)
<1>1. ~Alone!Did(c)
  BY DeedsType DEF Alone!Did, AloneInv, DoneCalls, Deeds
<1>2. Alone!Open(c)
  BY DEF Alone!Open
<1> QED
  BY <1>1, <1>2 DEF Alone!Do, Alone!Meant, Alone!Deed, Acts, Deeds, Owed, Told, DeedOf

LEMMA FailsFail ==
  ASSUME TypeOK, AloneInv, NEW c \in Calls, Tells(c, Error), view' = view,
         \/ Deeds' = Deeds /\ Owed' = Owed
         \/ /\ c \in Acts /\ stage[c] = "queued"
            /\ MeantBy(c) \in SUBSET {view[i] : i \in DOMAIN view}
            /\ \/ Deeds' = Append(Deeds, DeedOf(c)) /\ Owed' = Owed
               \/ Owed' = Owed \cup {DeedOf(c)} /\ Deeds' = Deeds
  PROVE  Alone!Fail(c)
<1>1. Alone!Tell(c, [ok |-> FALSE, image |-> << >>, shows |-> 0])
  BY TellsTells DEF Error
<1>2. stage[c] = "queued" => ~Alone!Did(c)
  BY DeedsType DEF Alone!Did, AloneInv, DoneCalls, Deeds
<1>3. CASE Deeds' = Deeds /\ Owed' = Owed
  BY <1>1, <1>3 DEF Alone!Fail, Deeds, Owed
<1>4. CASE /\ c \in Acts /\ stage[c] = "queued"
           /\ MeantBy(c) \in SUBSET {view[i] : i \in DOMAIN view}
           /\ \/ Deeds' = Append(Deeds, DeedOf(c)) /\ Owed' = Owed
              \/ Owed' = Owed \cup {DeedOf(c)} /\ Deeds' = Deeds
  BY <1>1, <1>2, <1>4 DEF Alone!Fail, Alone!Meant, Alone!Deed, Acts, Deeds, Owed, DeedOf
<1> QED
  BY <1>3, <1>4

LEMMA SucceedsSucceed ==
  ASSUME TypeOK, AloneInv, NEW c \in Calls, c \in Acts => stage[c] = "acted",
         \/ Tells(c, Text) /\ view' = view
         \/ \E v \in Views : Tells(c, Image(v)) /\ view' = <<v>>,
         Deeds' = Deeds, Owed' = Owed
  PROVE  Alone!Succeed(c)
<1>1. c \in Acts => Alone!LastDeed(c)
  <2> SUFFICES ASSUME stage[c] = "acted" PROVE Alone!LastDeed(c)
    OBVIOUS
  <2>1. PICK i \in DOMAIN done :
          done[i] = c /\ \A j \in i + 1 .. Len(done) : FailedCall(done[j])
    BY DEF AloneInv, ActedLast
  <2>2. i \in DOMAIN Deeds /\ Deeds[i].call = c
    BY <2>1, DeedsType DEF Deeds
  <2>3. ASSUME NEW j \in i + 1 .. Len(Deeds) PROVE Alone!Failed(Deeds[j].call)
    <3>1. j \in i + 1 .. Len(done) /\ j \in 1 .. Len(done)
      BY <2>1, DeedsType, LenProperties DEF TypeOK
    <3>2. FailedCall(done[j]) /\ Deeds[j].call = done[j] /\ done[j] \in Calls
      BY <2>1, <3>1, DeedsType DEF DeedOf
    <3>3. Alone!Failed(done[j])
      BY <3>2 DEF FailedCall, Alone!Failed, Alone!Open
    <3> QED
      BY <3>2, <3>3
  <2> QED
    BY <2>2, <2>3 DEF Alone!LastDeed, Deeds
<1>2. CASE Tells(c, Text) /\ view' = view
  <2>1. Alone!Tell(c, [ok |-> TRUE, image |-> << >>, shows |-> 0])
    BY <1>2, TellsTells DEF Text
  <2> QED
    BY <1>1, <1>2, <2>1 DEF Alone!Succeed, Acts, Deeds, Owed
<1>3. CASE \E v \in Views : Tells(c, Image(v)) /\ view' = <<v>>
  <2>1. PICK v \in Views : Tells(c, Image(v)) /\ view' = <<v>>
    BY <1>3
  <2>2. Image(v) = [ok |-> TRUE, image |-> <<v>>, shows |-> Len(Deeds)]
    BY DeedsType DEF Image
  <2>3. Alone!Tell(c, [ok |-> TRUE, image |-> <<v>>, shows |-> Len(Deeds)])
    <3>1. Alone!Tell(c, Image(v))
      BY <2>1 DEF Tells, Alone!Tell, Alone!Open, Told, Acts
    <3> QED
      BY <2>2, <3>1 DEF Alone!Tell
  <2> QED
    BY <1>1, <2>1, <2>3 DEF Alone!Succeed, Acts, Deeds, Owed
<1> QED
  BY <1>2, <1>3

-----------------------------------------------------------------------------
(* The steps of Mcp in the same terms.                                     *)
LEMMA ActsKept == UNCHANGED call => Acts' = Acts
BY DEF Acts

LEMMA ToldKept ==
  ASSUME UNCHANGED reply,
         \A d \in Calls : stage'[d] \in {"answered", "delivered"} <=> stage[d] \in {"answered", "delivered"}
  PROVE  Told' = Told
BY DEF Told

LEMMA AllFixed == UNCHANGED used => Fixed
BY DEF Fixed, MeantBy

LEMMA AnswerTells ==
  ASSUME TypeOK, NEW c \in Calls, NEW r, stage[c] \in {"queued", "acted"}, Answer(c, r),
         UNCHANGED call
  PROVE  Tells(c, r)
<1>1. Told[c] = << >>
  BY DEF Told
<1>2. /\ stage'[c] = "answered" /\ reply'[c] = r
      /\ \A d \in Calls : d # c => stage'[d] = stage[d] /\ reply'[d] = reply[d]
  BY DEF Answer, TypeOK
<1>3. Told' = [Told EXCEPT ![c] = <<r>>]
  BY <1>2 DEF Told
<1> QED
  BY <1>1, <1>3, ActsKept DEF Tells

LEMMA MappedMeansTheView ==
  ASSUME DragInv, NEW c \in Calls, Mapped(c)
  PROVE  MeantBy(c) \in SUBSET {view[i] : i \in DOMAIN view}
<1>1. stage[c] = "queued" /\ used[c] \in UsedViews
  BY DEF Mapped, At, DragInv, TypeOK, UsedViews
<1>2. CASE used[c] = << >>
  BY <1>2 DEF MeantBy
<1>3. CASE used[c] # << >>
  <2>1. view = <<used[c][1]>>
    BY <1>1, <1>3 DEF DragInv, OneView, MidCall
  <2>2. 1 \in DOMAIN used[c]
    BY <1>1, <1>3, UsedForms
  <2>3. \A i \in DOMAIN used[c] : used[c][i] = used[c][1]
    BY <2>2 DEF DragInv, DragInOneImage
  <2>4. 1 \in DOMAIN view /\ view[1] = used[c][1]
    BY <2>1
  <2> QED
    BY <2>3, <2>4 DEF MeantBy
<1> QED
  BY <1>2, <1>3

(* Every step of Mcp is a step of AtomicTools or one it does not see.      *)
LEMMA AloneSteps ==
  ASSUME DragInv, DragInv', AloneInv, [Next]_vars
  PROVE  [Alone!Next]_(Alone!vars)
<1> SUFFICES Alone!Next \/ Sight' = Sight
  BY UnseenStep
<1>0. /\ TypeOK /\ TypeOK' /\ stage \in [Calls -> Stages] /\ view \in Maybe(Views)
      /\ call \in [Calls -> Tools \cup {NotCalled}] /\ used \in [Calls -> UsedViews]
  BY DEF DragInv, TypeOK, Stages, UsedViews
<1>1. ASSUME NEW c \in Calls, NEW tool \in Tools, Send(c, tool) PROVE Alone!Next \/ Sight' = Sight
  <2>1. /\ stage[c] = "unsent" /\ stage' = [stage EXCEPT ![c] = "sent"]
        /\ call' = [call EXCEPT ![c] = tool] /\ UNCHANGED <<view, used, reply, owed, done>>
    BY <1>1 DEF Send
  <2>2. Deeds' = Deeds /\ Owed' = Owed /\ Told' = Told
    BY <1>0, <2>1, AllFixed, DeedsKept, OwedKept, ToldKept
  <2>3. call[c].kind \notin Acting
    BY <2>1 DEF AloneInv, Unasked, NotCalled, Acting
  <2>4. Acts' = IF tool.kind \in Acting THEN Acts \cup {c} ELSE Acts
    BY <1>0, <2>1, <2>3 DEF Acts
  <2>5. CASE tool.kind \in Acting
    BY <2>1, <2>2, <2>4, <2>5 DEF Alone!Next, Alone!Make, Acts, Deeds, Owed, Told
  <2>6. CASE tool.kind \notin Acting
    BY <2>1, <2>2, <2>4, <2>6 DEF Sight
  <2> QED
    BY <2>5, <2>6
<1>2. ASSUME NEW c \in Calls, Poll(c) \/ Deliver(c) PROVE Sight' = Sight
  <2>1. UNCHANGED <<view, call, used, reply, owed, done>>
    BY <1>2 DEF Poll, Deliver
  <2>2. \A d \in Calls : stage'[d] \in {"answered", "delivered"} <=> stage[d] \in {"answered", "delivered"}
    BY <1>0, <1>2 DEF Poll, Deliver
  <2> QED
    BY <1>0, <2>1, <2>2, AllFixed, DeedsKept, OwedKept, ToldKept, ActsKept DEF Sight
<1>3. ASSUME UNCHANGED <<view, call, stage, used, reply, owed, done>> PROVE Sight' = Sight
  BY <1>0, <1>3, AllFixed, DeedsKept, OwedKept, ToldKept, ActsKept DEF Sight
<1>4. ASSUME NEW c \in Calls, Late(c) PROVE Alone!Next
  <2>1. /\ c \in owed /\ owed' = owed \ {c} /\ done' = Append(done, c)
        /\ UNCHANGED <<view, call, stage, used, reply>>
    BY <1>4 DEF Late
  <2>2. DeedOf(c) \in Owed
    BY <2>1 DEF Owed, DeedOf
  <2>3. Owed' = Owed \ {DeedOf(c)}
    BY <2>1 DEF Owed, DeedOf, MeantBy
  <2>4. Deeds' = Append(Deeds, DeedOf(c))
    BY <1>0, <2>1, AllFixed, DeedAdded DEF Fixed, MeantBy
  <2> QED
    BY <2>1, <2>2, <2>3, <2>4, ActsKept, ToldKept
    DEF Alone!Next, Alone!DoLate, Acts, Deeds, Owed, Told
<1>5. ASSUME NEW c \in Calls, Look(c) PROVE Alone!Next \/ Sight' = Sight
  <2> DEFINE v == IF view = << >> THEN Shot("all", MaxEdge) ELSE Head(view)
  <2>1. /\ stage[c] = "queued" /\ v \in Views /\ view' = <<v>>
        /\ \A d \in Calls : d # c => used'[d] = used[d]
        /\ UNCHANGED <<call, stage, reply, owed, done>>
    BY <1>0, <1>5, ShotType, MaybeHead, McpAssumption DEF Look, Mapping, At
  <2>2. Fixed
    BY <2>1 DEF Fixed, Settled, MeantBy
  <2>3. Deeds' = Deeds /\ Owed' = Owed /\ Told' = Told /\ Acts' = Acts
    BY <1>0, <2>1, <2>2, DeedsKept, OwedKept, ToldKept, ActsKept
  <2>4. CASE view = << >>
    BY <2>1, <2>3, <2>4 DEF Alone!Next, Alone!LookAround, Acts, Deeds, Owed, Told
  <2>5. CASE view # << >>
    BY <1>0, <2>1, <2>3, <2>5, MaybeHead DEF Sight
  <2> QED
    BY <2>4, <2>5
<1>6. ASSUME NEW c \in Calls, Act(c) PROVE Alone!Next
  <2>1. /\ stage[c] = "queued" /\ c \in Acts /\ done' = Append(done, c)
        /\ stage' = [stage EXCEPT ![c] = "acted"] /\ UNCHANGED <<view, call, used, reply, owed>>
    BY <1>6 DEF Act, Mapped, At, Acts
  <2>2. MeantBy(c) \in SUBSET {view[i] : i \in DOMAIN view}
    BY <1>6, MappedMeansTheView DEF Act
  <2>3. Deeds' = Append(Deeds, DeedOf(c))
    BY <1>0, <2>1, AllFixed, DeedAdded DEF MeantBy
  <2>4. Told' = Told /\ Acts' = Acts /\ Owed' = Owed
    BY <1>0, <2>1, AllFixed, OwedKept, ToldKept, ActsKept
  <2>5. Alone!Do(c)
    BY <1>0, <2>1, <2>2, <2>3, <2>4, DoesDo
  <2> QED
    BY <2>5 DEF Alone!Next
<1>7. ASSUME NEW c \in Calls, LookFails(c) \/ Refuse(c) \/ ReadFails(c) PROVE Alone!Next
  <2>1. /\ stage[c] = "queued" /\ Answer(c, Error) /\ UNCHANGED <<view, call, used, owed, done>>
    BY <1>7 DEF LookFails, Refuse, ReadFails, Mapping, Mapped, At
  <2>2. Tells(c, Error) /\ Deeds' = Deeds /\ Owed' = Owed
    BY <1>0, <2>1, AnswerTells, AllFixed, DeedsKept, OwedKept
  <2> QED
    BY <1>0, <2>1, <2>2, FailsFail DEF Alone!Next
<1>8. ASSUME NEW c \in Calls, ActFails(c) PROVE Alone!Next
  <2>1. /\ stage[c] = "queued" /\ c \in Acts /\ Answer(c, Error) /\ UNCHANGED <<view, call, used>>
        /\ \/ owed' = owed \cup {c} /\ UNCHANGED done
           \/ done' = Append(done, c) /\ UNCHANGED owed
    BY <1>8 DEF ActFails, Mapped, At, Acts
  <2>2. Tells(c, Error) /\ Fixed
    BY <1>0, <2>1, AnswerTells, AllFixed
  <2>3. MeantBy(c) \in SUBSET {view[i] : i \in DOMAIN view}
    BY <1>8, MappedMeansTheView DEF ActFails
  <2>4. CASE owed' = owed \cup {c} /\ UNCHANGED done
    <3>1. Owed' = Owed \cup {DeedOf(c)}
      BY <2>1, <2>4 DEF Owed, DeedOf, MeantBy
    <3>2. Deeds' = Deeds
      BY <1>0, <2>2, <2>4, DeedsKept
    <3> QED
      BY <1>0, <2>1, <2>2, <2>3, <3>1, <3>2, FailsFail DEF Alone!Next
  <2>5. CASE done' = Append(done, c) /\ UNCHANGED owed
    <3>1. Deeds' = Append(Deeds, DeedOf(c))
      BY <1>0, <2>1, <2>2, <2>5, DeedAdded DEF MeantBy
    <3>2. Owed' = Owed
      BY <1>0, <2>2, <2>5, OwedKept
    <3> QED
      BY <1>0, <2>1, <2>2, <2>3, <3>1, <3>2, FailsFail DEF Alone!Next
  <2> QED
    BY <2>1, <2>4, <2>5
<1>9. ASSUME NEW c \in Calls, NEW target \in Targets, NEW max \in Sizes, c \in Acts => stage[c] = "acted",
             stage[c] \in {"queued", "acted"}, TakeAndAnswer(c, target, max),
             UNCHANGED <<call, used, owed, done>>
      PROVE  Alone!Next
  <2>1. Shot(target, max) \in Views
    BY <1>0, ShotType
  <2>2. Tells(c, Image(Shot(target, max))) /\ view' = <<Shot(target, max)>>
    BY <1>0, <1>9, AnswerTells DEF TakeAndAnswer, Stored
  <2>3. Deeds' = Deeds /\ Owed' = Owed
    BY <1>0, <1>9, AllFixed, DeedsKept, OwedKept
  <2> QED
    BY <1>0, <1>9, <2>1, <2>2, <2>3, SucceedsSucceed DEF Alone!Next
<1>10. ASSUME NEW c \in Calls, After(c) PROVE Alone!Next
  <2>1. /\ stage[c] = "acted" /\ UNCHANGED <<call, used, owed, done>>
        /\ Deeds' = Deeds /\ Owed' = Owed
    BY <1>0, <1>10, AllFixed, DeedsKept, OwedKept DEF After, At
  <2>2. CASE Answer(c, Text) /\ UNCHANGED view
    BY <1>0, <2>1, <2>2, AnswerTells, SucceedsSucceed DEF Alone!Next
  <2>3. CASE TakeAndAnswer(c, "all", MaxEdge)
    BY <1>9, <2>1, <2>3, McpAssumption
  <2>4. CASE Answer(c, Error) /\ UNCHANGED view
    BY <1>0, <2>1, <2>4, AnswerTells, FailsFail DEF Alone!Next
  <2> QED
    BY <1>10, <2>2, <2>3, <2>4 DEF After
<1>11. ASSUME NEW c \in Calls, Screenshot(c) PROVE Alone!Next
  <2>1. stage[c] = "queued" /\ c \notin Acts
    BY <1>11 DEF Screenshot, At, Acts, Acting
  <2> QED
    BY <1>0, <1>9, <1>11, <2>1, CallType DEF Screenshot
<1>12. ASSUME NEW c \in Calls, Windows(c) \/ Other(c) PROVE Alone!Next
  <2>1. stage[c] = "queued" /\ c \notin Acts /\ Answer(c, Text) /\ UNCHANGED <<view, call, owed, done>>
    BY <1>12 DEF Windows, Other, At, Acts, Acting
  <2>2. \A d \in Calls : d # c => used'[d] = used[d]
    BY <1>0, <1>12 DEF Windows, Other
  <2>3. Fixed
    BY <2>1, <2>2 DEF Fixed, Settled, MeantBy
  <2> QED
    BY <1>0, <2>1, <2>3, DeedsKept, OwedKept, AnswerTells, SucceedsSucceed DEF Alone!Next
<1>13. CASE Rearrange
  BY <1>3, <1>13 DEF Rearrange
<1>14. CASE UNCHANGED vars
  BY <1>3, <1>14 DEF vars
<1> QED
  BY <1>1, <1>2, <1>4, <1>5, <1>6, <1>7, <1>8, <1>10, <1>11, <1>12, <1>13, <1>14 DEF Next

LEMMA AloneInit == Init => Alone!Init
<1> SUFFICES ASSUME Init PROVE Alone!Init
  OBVIOUS
<1>1. Acts = {} /\ Owed = {}
  BY DEF Init, Acts, Owed, NotCalled, Acting
<1>2. Deeds = << >>
  BY DEF Init, Deeds
<1>3. Told = [c \in Calls |-> << >>]
  BY DEF Init, Told
<1> QED
  BY <1>1, <1>2, <1>3 DEF Init, Alone!Init, Acts, Deeds, Owed, Told

(* Mcp implements AtomicTools: overlapping calls of several steps, each of *)
(* which may fail, are as if each had been made alone (mcp.rs, ops).       *)
THEOREM ToolsAreAtomic == Spec => AsIfAlone
<1>1. Spec => []DragInv
  BY DragStart, DragStep, PTL DEF Spec
<1>2. Spec => []AloneInv
  <2>1. DragInv => TypeOK
    BY DEF DragInv
  <2> QED
    BY <1>1, <2>1, AloneStart, AloneStep, PTL DEF Spec
<1>3. DragInv /\ DragInv' /\ AloneInv /\ [Next]_vars => [Alone!Next]_(Alone!vars)
  BY AloneSteps
<1> QED
  BY <1>1, <1>2, <1>3, AloneInit, PTL DEF Spec, AsIfAlone, Alone!Spec

-----------------------------------------------------------------------------
(* The lock is passed on: what becomes of the queue in the steps of the    *)
(* call that holds it, and in all others.                                  *)
Answers(c) ==
  /\ Holds(c) /\ Waits(c)
  /\ stage' = [stage EXCEPT ![c] = "answered"]
  /\ ops' = Tail(ops)
  /\ UNCHANGED call
  /\ \A d \in Calls : d # c => used'[d] = used[d]

Looks(c) ==
  /\ Mapping(c)
  /\ Len(used'[c]) = Len(used[c]) + 1
  /\ UNCHANGED <<ops, stage, call>>
  /\ \A d \in Calls : d # c => used'[d] = used[d]

Performs(c) ==
  /\ Mapped(c)
  /\ stage' = [stage EXCEPT ![c] = "acted"]
  /\ UNCHANGED <<ops, call, used>>

Enters(c) ==
  /\ stage[c] = "sent"
  /\ stage' = [stage EXCEPT ![c] = "queued"]
  /\ ops' = Append(ops, c)
  /\ UNCHANGED <<call, used>>

Beside ==
  /\ UNCHANGED <<ops, used>>
  /\ \A c \in Calls : \/ stage'[c] = stage[c] /\ call'[c] = call[c]
                      \/ stage[c] = "unsent" /\ stage'[c] = "sent" /\ call'[c] \in Tools
                      \/ stage[c] = "answered" /\ stage'[c] = "delivered" /\ call'[c] = call[c]

LEMMA UsedLengths ==
  ASSUME TypeOK, NEW c \in Calls
  PROVE  used[c] \in Seq(Views) /\ Len(used[c]) \in 0 .. 2
<1>1. used[c] \in UsedViews
  BY DEF TypeOK, UsedViews
<1>2. CASE used[c] = << >>
  BY <1>2
<1>3. ASSUME NEW x \in Views, used[c] = <<x>> PROVE used[c] \in Seq(Views) /\ Len(used[c]) \in 0 .. 2
  <2>1. <<x>> \in Seq(Views) /\ Len(<<x>>) = 1
    OBVIOUS
  <2> QED BY <1>3, <2>1
<1>4. ASSUME NEW x \in Views, NEW y \in Views, used[c] = <<x, y>>
      PROVE  used[c] \in Seq(Views) /\ Len(used[c]) \in 0 .. 2
  <2>1. <<x, y>> \in Seq(Views) /\ Len(<<x, y>>) = 2
    OBVIOUS
  <2> QED BY <1>4, <2>1
<1> QED
  BY <1>1, <1>2, <1>3, <1>4, UsedForms

LEMMA QueueFacts ==
  ASSUME TypeOK
  PROVE  /\ Len(ops) \in Nat /\ DOMAIN ops = 1 .. Len(ops)
         /\ \A i \in DOMAIN ops : ops[i] \in Calls
         /\ ops # << >> => Head(ops) = ops[1] /\ 1 \in DOMAIN ops /\ Head(ops) \in Calls
<1>1. ops \in Seq(Calls)
  BY DEF TypeOK
<1> QED
  BY <1>1, LenProperties, ElementOfSeq, EmptySeq

LEMMA HolderSteps ==
  ASSUME TypeOK, NEW c \in Calls, Step(c)
  PROVE  Answers(c) \/ Looks(c) \/ Performs(c)
<1>1. CASE Look(c)
  <2>1. PICK v : used' = [used EXCEPT ![c] = Append(used[c], v)] /\ v \in Views
    BY <1>1, ShotType, MaybeHead, McpAssumption DEF Look, TypeOK
  <2>2. Len(Append(used[c], v)) = Len(used[c]) + 1
    BY <2>1, UsedLengths, AppendProperties
  <2>3. used'[c] = Append(used[c], v) /\ \A d \in Calls : d # c => used'[d] = used[d]
    BY <2>1 DEF TypeOK
  <2> QED BY <1>1, <2>2, <2>3 DEF Look, Looks
<1>2. CASE Act(c)
  BY <1>2 DEF Act, Performs
<1>3. CASE LookFails(c) \/ Refuse(c) \/ ActFails(c) \/ Other(c) \/ ReadFails(c)
  BY <1>3 DEF LookFails, Refuse, ActFails, Other, ReadFails, Mapping, Mapped, At, Answer,
              Answers, Waits
<1>4. CASE After(c) \/ Screenshot(c)
  BY <1>4 DEF After, Screenshot, TakeAndAnswer, At, Answer, Answers, Waits
<1>5. CASE Windows(c)
  <2>1. \A d \in Calls : d # c => used'[d] = used[d]
    BY <1>5 DEF Windows, TypeOK
  <2> QED BY <1>5, <2>1 DEF Windows, At, Answer, Answers, Waits
<1> QED
  BY <1>1, <1>2, <1>3, <1>4, <1>5 DEF Step

LEMMA OtherSteps ==
  ASSUME TypeOK, [Next]_vars, ~\E c \in Calls : Step(c)
  PROVE  Beside \/ \E c \in Calls : Enters(c)
<1>1. ASSUME NEW c \in Calls, NEW tool \in Tools, Send(c, tool) PROVE Beside
  BY <1>1 DEF Send, Beside, TypeOK
<1>2. ASSUME NEW c \in Calls, Poll(c) PROVE Enters(c)
  BY <1>2 DEF Poll, Enters
<1>3. ASSUME NEW c \in Calls, Deliver(c) PROVE Beside
  BY <1>3 DEF Deliver, Beside, TypeOK
<1>4. ASSUME UNCHANGED <<ops, used, stage, call>> PROVE Beside
  BY <1>4 DEF Beside
<1>5. ASSUME NEW c \in Calls, Late(c) PROVE Beside
  BY <1>4, <1>5 DEF Late
<1>6. Rearrange => Beside
  BY <1>4 DEF Rearrange
<1>7. UNCHANGED vars => Beside
  BY <1>4 DEF vars
<1> QED
  BY <1>1, <1>2, <1>3, <1>5, <1>6, <1>7 DEF Next, Step

(* Who waits is in the queue, once.                                        *)
LEMMA QueueKept ==
  ASSUME TypeOK, TypeOK', QueueWaits, UNCHANGED ops, \A c \in Calls : Waits(c)' <=> Waits(c)
  PROVE  QueueWaits'
BY DEF QueueWaits

LEMMA QueueShorter ==
  ASSUME TypeOK, QueueWaits, NEW c \in Calls, Answers(c)
  PROVE  /\ DOMAIN ops' = 1 .. Len(ops) - 1
         /\ \A i \in DOMAIN ops' : i + 1 \in DOMAIN ops /\ ops'[i] = ops[i + 1]
         /\ \A d \in Calls : Waits(d)' <=> Waits(d) /\ d # c
         /\ QueueWaits'
<1>1. /\ ops \in Seq(Calls) /\ ops # << >> /\ ops' = Tail(ops) /\ ops[1] = c
      /\ DOMAIN ops = 1 .. Len(ops) /\ Len(ops) \in Nat /\ 1 \in DOMAIN ops
  BY QueueFacts DEF Answers, Holds, TypeOK
<1>2. ops' \in Seq(Calls) /\ Len(ops') = Len(ops) - 1 /\ \A i \in 1 .. Len(ops) - 1 : ops'[i] = ops[i + 1]
  BY <1>1, HeadTailProperties
<1>3. DOMAIN ops' = 1 .. Len(ops) - 1
  BY <1>2, LenProperties
<1>4. \A i \in DOMAIN ops' : i + 1 \in DOMAIN ops /\ ops'[i] = ops[i + 1]
  BY <1>1, <1>2, <1>3
<1>5. \A d \in Calls : Waits(d)' <=> Waits(d) /\ d # c
  BY DEF Answers, Waits, TypeOK
<1>6. \A i, j \in DOMAIN ops' : ops'[i] = ops'[j] => i = j
  <2> SUFFICES ASSUME NEW i \in DOMAIN ops', NEW j \in DOMAIN ops', ops'[i] = ops'[j] PROVE i = j
    OBVIOUS
  <2>1. i + 1 = j + 1
    BY <1>4 DEF QueueWaits
  <2> QED BY <1>1, <1>3, <2>1
<1>7. ASSUME NEW d \in Calls, NEW i \in DOMAIN ops', ops'[i] = d PROVE Waits(d)'
  <2>1. i + 1 \in DOMAIN ops /\ ops[i + 1] = d /\ i + 1 # 1
    BY <1>1, <1>3, <1>4, <1>7
  <2>2. d # c /\ Waits(d)
    BY <1>1, <2>1 DEF QueueWaits
  <2> QED BY <1>5, <2>2
<1>8. ASSUME NEW d \in Calls, Waits(d)' PROVE \E i \in DOMAIN ops' : ops'[i] = d
  <2>1. PICK j \in DOMAIN ops : ops[j] = d
    BY <1>5, <1>8 DEF QueueWaits
  <2>2. j # 1
    BY <1>1, <1>5, <1>8, <2>1
  <2>3. j - 1 \in DOMAIN ops' /\ (j - 1) + 1 = j
    BY <1>1, <1>3, <2>2
  <2> QED BY <1>4, <2>1, <2>3
<1> QED BY <1>3, <1>4, <1>5, <1>6, <1>7, <1>8 DEF QueueWaits

LEMMA QueueLonger ==
  ASSUME TypeOK, QueueWaits, NEW c \in Calls, Enters(c)
  PROVE  /\ DOMAIN ops \subseteq DOMAIN ops' /\ \A i \in DOMAIN ops : ops'[i] = ops[i]
         /\ \A d \in Calls : Waits(d)' <=> Waits(d) \/ d = c
         /\ QueueWaits'
<1>1. ops \in Seq(Calls) /\ ops' = Append(ops, c) /\ DOMAIN ops = 1 .. Len(ops) /\ Len(ops) \in Nat
  BY QueueFacts DEF Enters, TypeOK
<1>2. /\ ops' \in Seq(Calls) /\ Len(ops') = Len(ops) + 1 /\ ops'[Len(ops) + 1] = c
      /\ \A i \in 1 .. Len(ops) : ops'[i] = ops[i]
  BY <1>1, AppendProperties
<1>3. DOMAIN ops' = 1 .. Len(ops) + 1
  BY <1>2, LenProperties
<1>4. \A d \in Calls : Waits(d)' <=> Waits(d) \/ d = c
  BY DEF Enters, Waits, TypeOK
<1>5. \A i \in DOMAIN ops : ops'[i] = ops[i] /\ ops[i] # c
  BY <1>1, <1>2 DEF QueueWaits, Enters, Waits
<1>6. \A i \in DOMAIN ops' : i \in DOMAIN ops \/ (i = Len(ops) + 1 /\ ops'[i] = c)
  BY <1>1, <1>2, <1>3
<1>7. \A i, j \in DOMAIN ops' : ops'[i] = ops'[j] => i = j
  BY <1>5, <1>6 DEF QueueWaits
<1>8. \A d \in Calls : Waits(d)' <=> \E i \in DOMAIN ops' : ops'[i] = d
  <2>1. ASSUME NEW d \in Calls, NEW i \in DOMAIN ops', ops'[i] = d PROVE Waits(d)'
    BY <1>4, <1>5, <1>6, <2>1 DEF QueueWaits
  <2>2. ASSUME NEW d \in Calls, Waits(d)' PROVE \E i \in DOMAIN ops' : ops'[i] = d
    <3>1. CASE d = c
      BY <1>1, <1>2, <1>3, <3>1
    <3>2. CASE Waits(d)
      <4>1. PICK j \in DOMAIN ops : ops[j] = d
        BY <3>2 DEF QueueWaits
      <4> QED BY <1>1, <1>3, <1>5, <4>1
    <3> QED BY <1>4, <2>2, <3>1, <3>2
  <2> QED BY <2>1, <2>2
<1> QED BY <1>1, <1>3, <1>4, <1>5, <1>7, <1>8 DEF QueueWaits

LEMMA AskedStep ==
  ASSUME DragInv, Asked, [Next]_vars
  PROVE  Asked'
<1>1. TypeOK /\ NotYet /\ stage \in [Calls -> Stages] /\ call \in [Calls -> Tools \cup {NotCalled}]
  BY DEF DragInv, TypeOK, Stages
<1>2. ASSUME NEW c \in Calls, Answers(c) PROVE Asked'
  BY <1>1, <1>2 DEF Answers, Waits, Asked
<1>3. ASSUME NEW c \in Calls, Looks(c) PROVE Asked'
  <2>1. Len(used'[c]) =< Needed(call[c].kind)
    <3>1. Len(used[c]) \in 0 .. 2 /\ Needed(call[c].kind) \in 0 .. 2
      BY <1>1, UsedLengths, CallType
    <3> QED BY <1>3, <3>1 DEF Looks, Mapping
  <2> QED BY <1>3, <2>1 DEF Looks, Asked
<1>4. ASSUME NEW c \in Calls, Performs(c) PROVE Asked'
  BY <1>1, <1>4 DEF Performs, Mapped, At, Asked
<1>5. ASSUME NEW c \in Calls, Enters(c) PROVE Asked'
  <2>1. Len(used[c]) = 0 /\ Needed(call[c].kind) \in 0 .. 2
    <3>1. used[c] = << >> /\ Len(<< >>) = 0
      BY <1>1, <1>5, EmptySeq DEF Enters, NotYet
    <3> QED BY <1>1, <3>1, CallType
  <2>2. stage'[c] = "queued" /\ \A d \in Calls : d # c => stage'[d] = stage[d]
    BY <1>1, <1>5 DEF Enters
  <2>3. call[c] \in Tools
    BY <1>5 DEF Enters, Asked
  <2>4. Len(used[c]) =< Needed(call[c].kind)
    BY <2>1
  <2>5. call' = call /\ used' = used
    BY <1>5 DEF Enters
  <2> QED BY <2>2, <2>3, <2>4, <2>5 DEF Asked
<1>6. Beside => Asked'
  BY <1>1 DEF Beside, Asked
<1> QED
  BY <1>1, <1>2, <1>3, <1>4, <1>5, <1>6, HolderSteps, OtherSteps

ServeInv == DragInv /\ QueueWaits /\ Asked

LEMMA ServeStart == Init => ServeInv
<1> SUFFICES ASSUME Init PROVE QueueWaits /\ Asked
  BY DragStart DEF ServeInv
<1>1. DOMAIN ops = {} /\ \A c \in Calls : stage[c] = "unsent"
  BY DEF Init
<1> QED BY <1>1 DEF QueueWaits, Asked, Waits

LEMMA ServeStep ==
  ASSUME ServeInv, [Next]_vars
  PROVE  ServeInv'
<1>1. TypeOK /\ QueueWaits
  BY DEF ServeInv, DragInv
<1>2. DragInv' /\ Asked'
  BY DragStep, AskedStep DEF ServeInv
<1>3. TypeOK'
  BY <1>2 DEF DragInv
<1>4. ASSUME NEW c \in Calls, Answers(c) PROVE QueueWaits'
  BY <1>1, <1>4, QueueShorter
<1>5. ASSUME NEW c \in Calls, Looks(c) PROVE QueueWaits'
  BY <1>1, <1>5 DEF Looks, QueueWaits, Waits
<1>6. ASSUME NEW c \in Calls, Performs(c) PROVE QueueWaits'
  <2>1. \A d \in Calls : Waits(d)' <=> Waits(d)
    BY <1>1, <1>6 DEF Performs, Mapped, At, Waits, TypeOK
  <2> QED BY <1>1, <1>3, <1>6, <2>1, QueueKept DEF Performs
<1>7. ASSUME NEW c \in Calls, Enters(c) PROVE QueueWaits'
  BY <1>1, <1>7, QueueLonger
<1>8. ASSUME Beside PROVE QueueWaits'
  <2>1. \A d \in Calls : Waits(d)' <=> Waits(d)
    BY <1>8 DEF Beside, Waits
  <2> QED BY <1>1, <1>3, <1>8, <2>1, QueueKept DEF Beside
<1>9. QueueWaits'
  BY <1>1, <1>4, <1>5, <1>6, <1>7, <1>8, HolderSteps, OtherSteps
<1> QED BY <1>2, <1>9 DEF ServeInv

(* The queue of the lock is the calls that wait, each once, and each of    *)
(* them has named a tool and used no more pixels than it needs.            *)
THEOREM ServeHolds == Spec => []ServeInv
<1>1. ServeInv /\ [Next]_vars => ServeInv'
  BY ServeStep
<1> QED BY <1>1, ServeStart, PTL DEF Spec

LEMMA HeadWaits ==
  ASSUME ServeInv, ops # << >>
  PROVE  /\ Head(ops) \in Calls /\ Waits(Head(ops)) /\ Holds(Head(ops))
         /\ Head(ops) = ops[1] /\ 1 \in DOMAIN ops
<1>1. TypeOK /\ QueueWaits
  BY DEF ServeInv, DragInv
<1> QED BY <1>1, QueueFacts DEF QueueWaits, Holds

(* Whoever waits for the lock, the call that holds it has a step left: it  *)
(* has asked, has not returned and waits for nobody (mcp.rs: the lock is   *)
(* taken once, at the start of each tool).                                 *)
THEOREM LockAlwaysServes == Spec => []LockServes
<1>1. ServeInv => LockServes
  <2> SUFFICES ASSUME ServeInv, NEW c \in Calls, Waits(c) PROVE HasStep(Head(ops))
    BY DEF LockServes
  <2>1. TypeOK /\ QueueWaits /\ Asked
    BY DEF ServeInv, DragInv
  <2>2. ops # << >>
    <3>1. PICK i \in DOMAIN ops : ops[i] = c
      BY <2>1 DEF QueueWaits
    <3>2. DOMAIN << >> = {}
      OBVIOUS
    <3> QED BY <3>1, <3>2
  <2>3. PICK h \in Calls : h = Head(ops) /\ Waits(h) /\ Holds(h)
    BY <2>2, HeadWaits
  <2>4. CASE stage[h] = "acted"
    BY <2>1, <2>3, <2>4 DEF Asked, HasStep, At
  <2>5. CASE stage[h] = "queued" /\ call[h].kind \in Acting
    <3>1. Len(used[h]) \in 0 .. 2 /\ Needed(call[h].kind) \in 0 .. 2
      BY <2>1, UsedLengths, CallType
    <3>2. Len(used[h]) =< Needed(call[h].kind)
      BY <2>1, <2>5 DEF Asked
    <3>3. Len(used[h]) < Needed(call[h].kind) \/ Len(used[h]) = Needed(call[h].kind)
      BY <3>1, <3>2
    <3> QED BY <2>3, <2>5, <3>3 DEF HasStep, At, Mapping, Mapped
  <2>6. CASE stage[h] = "queued" /\ call[h].kind \notin Acting
    <3>1. call[h].kind \in Reading
      BY <2>1, <2>6 DEF Asked, Tools, Reading
    <3> QED BY <2>3, <2>6, <3>1 DEF HasStep, At
  <2> QED BY <2>3, <2>4, <2>5, <2>6 DEF Waits
<1> QED BY <1>1, ServeHolds, PTL

LEMMA LeftBound ==
  ASSUME ServeInv, NEW c \in Calls, Waits(c)
  PROVE  /\ Left(c) \in 1 .. 4
         /\ Needed(call[c].kind) \in Nat /\ Len(used[c]) \in Nat
<1>1. TypeOK /\ Asked
  BY DEF ServeInv, DragInv
<1>2. Len(used[c]) \in 0 .. 2 /\ Needed(call[c].kind) \in 0 .. 2
  BY <1>1, UsedLengths, CallType
<1>3. stage[c] = "queued" /\ call[c].kind \in Acting => Len(used[c]) =< Needed(call[c].kind)
  BY <1>1 DEF Asked
<1> DEFINE m == Needed(call[c].kind)
           k == Len(used[c])
<1> HIDE DEF m, k
<1>4. Left(c) = IF stage[c] = "queued" /\ call[c].kind \in Acting THEN m - k + 2 ELSE 1
  BY DEF Left, m, k
<1>5. m \in 0 .. 2 /\ k \in 0 .. 2 /\ (stage[c] = "queued" /\ call[c].kind \in Acting => k =< m)
  BY <1>2, <1>3 DEF m, k
<1>6. Left(c) \in 1 .. 4
  BY <1>4, <1>5
<1> QED BY <1>2, <1>6

(* With each step of the call that holds the lock, and with no other step  *)
(* a call comes further away from it, every call that waits has fewer      *)
(* steps in front of it, until it is answered (mcp.rs, ops).               *)
LEMMA EveryStepNearer ==
  ASSUME ServeInv, [Next]_vars, NEW i \in DOMAIN ops
  PROVE  Nearer(i)
<1>1. TypeOK /\ QueueWaits /\ Asked
  BY DEF ServeInv, DragInv
<1>2. DOMAIN ops = 1 .. Len(ops) /\ Len(ops) \in Nat /\ i \in Nat /\ ops # << >>
  <2>1. DOMAIN << >> = {}
    OBVIOUS
  <2> QED BY <1>1, <2>1, QueueFacts
<1>3. PICK h \in Calls : h = Head(ops) /\ Waits(h) /\ Holds(h) /\ h = ops[1]
  BY <1>2, HeadWaits
<1>4. Left(h) \in 1 .. 4 /\ StepsAhead(i) = 4 * (i - 1) + Left(h)
  BY <1>3, LeftBound DEF StepsAhead
<1>5. ASSUME NEW c \in Calls, Answers(c) PROVE Nearer(i)
  <2>1. c = h
    BY <1>3, <1>5 DEF Answers, Holds
  <2>2. CASE i = 1
    BY <1>1, <1>3, <1>5, <2>1, <2>2 DEF Answers, Nearer, TypeOK
  <2>3. CASE i # 1
    <3>1. PICK j \in DOMAIN ops' : /\ j = i - 1 /\ j \in Nat /\ ops'[j] = ops[i]
                                   /\ 2 \in DOMAIN ops /\ ops'[1] = ops[2]
      <4>1. /\ DOMAIN ops' = 1 .. Len(ops) - 1
            /\ \A k \in DOMAIN ops' : k + 1 \in DOMAIN ops /\ ops'[k] = ops[k + 1]
        BY <1>1, <1>5, QueueShorter
      <4>2. i - 1 \in DOMAIN ops' /\ (i - 1) + 1 = i /\ 1 \in DOMAIN ops' /\ 1 + 1 = 2 /\ 2 \in DOMAIN ops
        BY <1>2, <2>3, <4>1
      <4> QED BY <4>1, <4>2
    <3>2. PICK g \in Calls : g = ops[2] /\ g # c /\ Waits(g)
      <4>1. ops[2] \in Calls /\ ops[2] # ops[1]
        BY <1>1, <1>2, <3>1, QueueFacts DEF QueueWaits
      <4> QED BY <1>1, <1>3, <2>1, <3>1, <4>1 DEF QueueWaits
    <3>3. Head(ops') = g
      <4>1. ops \in Seq(Calls) /\ ops' = Tail(ops)
        BY <1>1, <1>5 DEF TypeOK, Answers
      <4>2. ops' \in Seq(Calls)
        BY <1>2, <4>1, HeadTailProperties
      <4>3. ops' # << >>
        <5>1. DOMAIN << >> = {}
          OBVIOUS
        <5> QED BY <3>1, <5>1
      <4>4. Head(ops') = ops'[1]
        BY <4>2, <4>3
      <4> QED BY <3>1, <3>2, <4>4
    <3>4. stage'[g] = stage[g] /\ call'[g] = call[g] /\ used'[g] = used[g]
      BY <1>1, <1>5, <3>2 DEF Answers, TypeOK
    <3>5. Left(g)' = Left(g) /\ Left(g) \in 1 .. 4
      BY <3>2, <3>4, LeftBound DEF Left
    <3>6. StepsAhead(j)' = 4 * (j - 1) + Left(g)
      BY <3>3, <3>5 DEF StepsAhead
    <3>7. StepsAhead(j)' < StepsAhead(i) /\ StepsAhead(j)' =< StepsAhead(i)
      BY <1>2, <1>4, <3>1, <3>5, <3>6
    <3> QED BY <3>1, <3>7 DEF Nearer
  <2> QED BY <2>2, <2>3
<1>6. ASSUME ops' = ops, Left(h)' \in Nat, Left(h)' < Left(h) PROVE Nearer(i)
  <2>1. StepsAhead(i)' = 4 * (i - 1) + Left(h)'
    BY <1>3, <1>6 DEF StepsAhead
  <2>2. StepsAhead(i)' < StepsAhead(i) /\ StepsAhead(i)' =< StepsAhead(i)
    BY <1>2, <1>4, <1>6, <2>1
  <2> QED BY <1>6, <2>2 DEF Nearer
<1>7. ASSUME NEW c \in Calls, Looks(c) PROVE Nearer(i)
  <2>1. c = h /\ stage[h] = "queued" /\ call[h].kind \in Acting
    BY <1>3, <1>7 DEF Looks, Mapping, At, Holds
  <2>2. Len(used'[h]) = Len(used[h]) + 1 /\ stage'[h] = stage[h] /\ call'[h] = call[h]
    BY <1>7, <2>1 DEF Looks
  <2>3. Len(used[h]) \in 0 .. 2 /\ Needed(call[h].kind) \in 0 .. 2 /\ Len(used[h]) < Needed(call[h].kind)
    BY <1>1, <1>7, <2>1, UsedLengths, CallType DEF Looks, Mapping
  <2>4. /\ Left(h) = Needed(call[h].kind) - Len(used[h]) + 2
        /\ Left(h)' = Needed(call[h].kind) - (Len(used[h]) + 1) + 2
    BY <2>1, <2>2 DEF Left
  <2>5. Left(h)' \in Nat /\ Left(h)' < Left(h)
    BY <2>3, <2>4
  <2> QED BY <1>6, <1>7, <2>5 DEF Looks
<1>8. ASSUME NEW c \in Calls, Performs(c) PROVE Nearer(i)
  <2>1. /\ c = h /\ stage[h] = "queued" /\ call[h].kind \in Acting
        /\ Len(used[h]) = Needed(call[h].kind)
    BY <1>3, <1>8 DEF Performs, Mapped, At, Holds
  <2>2. Needed(call[h].kind) \in 0 .. 2 /\ stage'[h] = "acted"
    BY <1>1, <1>8, <2>1, CallType DEF Performs, TypeOK
  <2>3. Left(h) = Needed(call[h].kind) - Needed(call[h].kind) + 2 /\ Left(h)' = 1
    BY <2>1, <2>2 DEF Left
  <2>4. Left(h)' \in Nat /\ Left(h)' < Left(h)
    BY <2>2, <2>3
  <2> QED BY <1>6, <1>8, <2>4 DEF Performs
<1>9. ASSUME ~\E c \in Calls : Step(c), i \in DOMAIN ops', ops'[i] = ops[i], Head(ops') = h,
             Left(h)' = Left(h)
      PROVE  Nearer(i)
  <2>1. StepsAhead(i)' = StepsAhead(i)
    BY <1>4, <1>9 DEF StepsAhead
  <2>2. StepsAhead(i)' =< StepsAhead(i)
    BY <1>2, <1>4, <2>1
  <2> QED BY <1>9, <2>2 DEF Nearer
<1>10. ASSUME ~\E c \in Calls : Step(c), Beside PROVE Nearer(i)
  <2>1. stage'[h] = stage[h] /\ call'[h] = call[h] /\ used' = used /\ ops' = ops
    BY <1>3, <1>10 DEF Beside, Waits
  <2>2. Left(h)' = Left(h)
    BY <2>1 DEF Left
  <2> QED BY <1>3, <1>9, <1>10, <2>1, <2>2
<1>11. ASSUME ~\E c \in Calls : Step(c), NEW c \in Calls, Enters(c) PROVE Nearer(i)
  <2>1. c # h
    BY <1>3, <1>11 DEF Enters, Waits
  <2>2. stage'[h] = stage[h] /\ call'[h] = call[h] /\ used' = used
    BY <1>1, <1>11, <2>1 DEF Enters, TypeOK
  <2>3. Left(h)' = Left(h)
    BY <2>2 DEF Left
  <2>4. i \in DOMAIN ops' /\ ops'[i] = ops[i]
    BY <1>1, <1>11, QueueLonger
  <2>5. Head(ops') = h
    BY <1>1, <1>2, <1>3, <1>11, HeadTailAppend DEF Enters, TypeOK
  <2> QED BY <1>9, <1>11, <2>3, <2>4, <2>5
<1> QED
  BY <1>1, <1>5, <1>7, <1>8, <1>10, <1>11, HolderSteps, OtherSteps

(* Every step of the call that holds the lock brings all that wait nearer  *)
(* to their answer, and no other step takes one of them further away: at   *)
(* most four steps for each call in front (mcp.rs, ops).                   *)
THEOREM AlwaysServedInTurn == Spec => ServedInTurn
<1>1. ServeInv /\ [Next]_vars => [\A i \in DOMAIN ops : Nearer(i)]_vars
  BY EveryStepNearer
<1> QED BY <1>1, ServeHolds, PTL DEF Spec, ServedInTurn
=============================================================================
