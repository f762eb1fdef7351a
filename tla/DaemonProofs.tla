---------------------------- MODULE DaemonProofs ----------------------------
(***************************************************************************)
(* Proofs about Daemon and Client, for every set of requests, callers and  *)
(* calls, every allowlist and any number of starts and panics: what is     *)
(* done to the desktop is authorized; a request leaves the one line that   *)
(* tells what its caller was told; input takes place in order and never    *)
(* after its answer; and the daemon behind its HTTP interface keeps the    *)
(* promise of the Desktop trait (DesktopCalls).                            *)
(***************************************************************************)
EXTENDS Client, TLAPS, FiniteSetTheorems, SequenceTheorems

Kinds == {None, "read", "list", "focus"}
ReplyValues == {None, "ok"} \cup Errors
Stages == {"new"} \cup Open \cup Closed

(* Getting past the gate: the capability a handler asks for covers its call. *)
LEMMA ClearedMay ==
  ASSUME NEW r \in Reqs, Cleared(r), req[r].ours
  PROVE  MayHaveIt(r)
<1>1. Needs(req[r].call) \in Caps /\ req[r].call \in Covered(Needs(req[r].call))
  BY DEF Cleared, Needs, Covered, Gated, ToRead, ToInput, ToFocus, ToClip, Caps
<1> QED
  BY <1>1 DEF Cleared, MayHaveIt

LEMMA MayStays ==
  ASSUME NEW r \in Reqs, MayHaveIt(r), req'[r] = req[r]
  PROVE  MayHaveIt(r)'
BY DEF MayHaveIt

LEMMA AnswerType ==
  /\ \A res \in {"ok"} \cup Errors :
       AnswerOf(res) \in Answers /\ AnswerOf(res).status \notin {403, 421}
  /\ \A e \in Refused : ErrorAnswer(e) \in Answers /\ ErrorAnswer(e).status = 403
  /\ Misdirected \in Answers /\ Misdirected.status = 421
  /\ \A call \in Ungated : UngatedAnswers(call) \subseteq Answers
BY DEF AnswerOf, ErrorAnswer, Misdirected, UngatedAnswers, Plain, Answers, Codes, None,
       Errors, Refused, StatusOf, Status, Ungated

(* What closing a request and recording it does to the three variables.    *)
LEMMA CloseType ==
  ASSUME TypeOK, NEW r \in Reqs, NEW a \in Answers, Close(r, a)
  PROVE  /\ stage' \in [Reqs -> Stages] /\ answer' \in [Reqs -> Answers \cup {Unanswered}]
         /\ stage'[r] = "answered" /\ answer'[r] = a
         /\ \A q \in Reqs \ {r} : stage'[q] = stage[q] /\ answer'[q] = answer[q]
BY DEF TypeOK, Close, Stages, Closed

LEMMA RecordType ==
  ASSUME TypeOK, NEW r \in Reqs, NEW outcome \in {"ok", "denied", "error"},
         NEW status \in Status, Record(r, outcome, status)
  PROVE  /\ lines' \in [Reqs -> Seq(Lines)]
         /\ lines'[r] = Append(lines[r], [outcome |-> outcome, status |-> status])
         /\ \A q \in Reqs \ {r} : lines'[q] = lines[q]
<1>1. lines[r] \in Seq(Lines) /\ [outcome |-> outcome, status |-> status] \in Lines
  BY DEF TypeOK, Lines
<1>2. Append(lines[r], [outcome |-> outcome, status |-> status]) \in Seq(Lines)
  BY <1>1
<1> QED
  BY <1>2 DEF TypeOK, Record

(* Every answer to a request has the same shape: it is closed, and the     *)
(* line, if there is one, has the status of the answer.                    *)
Tells(r, outcome, a) == Close(r, a) /\ Record(r, outcome, a.status)

LEMMA RefusalTells ==
  ASSUME NEW r \in Reqs, WhoisFails(r) \/ Unlisted(r) \/ Forbidden(r)
  PROVE  \E outcome \in {"denied", "error"}, a \in Answers :
            (outcome = "denied" <=> a.status \in {403, 421}) /\ Tells(r, outcome, a)
<1>1. ASSUME NEW e \in Refused, Close(r, ErrorAnswer(e)), Record(r, "denied", 403)
      PROVE  Tells(r, "denied", ErrorAnswer(e))
  BY <1>1, AnswerType DEF Tells
<1>2. ASSUME Close(r, ErrorAnswer("backend")), Record(r, "error", 500)
      PROVE  Tells(r, "error", ErrorAnswer("backend"))
  BY <1>2 DEF Tells, ErrorAnswer, StatusOf, Refused
<1>3. ErrorAnswer("backend") \in Answers /\ ErrorAnswer("backend").status = 500
  BY AnswerType DEF AnswerOf, Errors, ErrorAnswer, StatusOf, Refused
<1> QED
  BY <1>1, <1>2, <1>3, AnswerType DEF WhoisFails, Unlisted, Forbidden, Refused

LEMMA FinishTells ==
  ASSUME NEW r \in Reqs, NEW res \in {"ok"} \cup Errors, Finish(r, res)
  PROVE  \E outcome \in {"ok", "error"}, a \in Answers :
            a.status \notin {403, 421} /\ Tells(r, outcome, a)
<1>1. AnswerOf(res) \in Answers /\ AnswerOf(res).status \notin {403, 421}
  BY AnswerType
<1> QED
  BY <1>1 DEF Finish, Tells

-----------------------------------------------------------------------------
LEMMA InitEntitled == Init => EntitledInv
<1> SUFFICES ASSUME Init PROVE EntitledInv
  OBVIOUS
<1>1. TypeOK
  BY DaemonAssumption DEF Init, TypeOK, Threads, Open, Closed, Unasked, None
<1>2. Entitled
  BY DEF Init, Entitled, EffectsAuthorised, Threads, None
<1> QED
  BY <1>1, <1>2 DEF EntitledInv

(* The steps that answer a request: nothing moves but the request's stage,  *)
(* its answer and its lines.                                                *)
LEMMA AnswerEntitled ==
  ASSUME EntitledInv, NEW r \in Reqs, stage[r] # "new",
         NEW outcome \in {"ok", "denied", "error"}, NEW a \in Answers,
         Close(r, a), Record(r, outcome, a.status) \/ UNCHANGED lines,
         UNCHANGED <<Process, req, task, reply, Jobs>>
  PROVE  EntitledInv'
<1>1. TypeOK /\ Entitled
  BY DEF EntitledInv
<1>2. lines' \in [Reqs -> Seq(Lines)]
  <2>1. a.status \in Status
    BY DEF Answers
  <2> QED
    BY <1>1, <2>1, RecordType DEF TypeOK
<1>3. /\ stage' \in [Reqs -> Stages] /\ answer' \in [Reqs -> Answers \cup {Unanswered}]
      /\ stage'[r] = "answered"
      /\ \A q \in Reqs \ {r} : stage'[q] = stage[q]
  BY <1>1, CloseType
<1>4. TypeOK'
  BY <1>1, <1>2, <1>3 DEF TypeOK, Process, Jobs, Stages
<1>5. \A q \in Reqs : MayHaveIt(q) => MayHaveIt(q)'
  BY MayStays DEF Process
<1>6. Entitled'
  BY <1>1, <1>3, <1>5 DEF Entitled, EffectsAuthorised, MayHaveIt, Jobs, TypeOK
<1> QED
  BY <1>4, <1>6 DEF EntitledInv

LEMMA FinishEntitled ==
  ASSUME EntitledInv, NEW r \in Reqs, stage[r] # "new", NEW res \in {"ok"} \cup Errors,
         Finish(r, res), UNCHANGED <<Process, req, task, reply, Jobs>>
  PROVE  EntitledInv'
<1>1. PICK outcome \in {"ok", "error"}, a \in Answers : Tells(r, outcome, a)
  BY FinishTells
<1> QED
  BY <1>1, AnswerEntitled DEF Tells

LEMMA ReplyType ==
  ASSUME TypeOK, NEW rs, NEW res \in {"ok"} \cup Errors, Replies(rs, res)
  PROVE  reply' \in [Reqs -> ReplyValues]
BY DEF TypeOK, Replies, ReplyValues

(* What is queued, under way or done stays entitled while it stays.        *)
JobsEntitled ==
  /\ \A t \in Threads :
       /\ \A i \in DOMAIN queue[t] : MayHaveIt(queue[t][i])
       /\ \A i \in DOMAIN busy[t] : MayHaveIt(busy[t][i])
  /\ \A i \in DOMAIN performed : MayHaveIt(performed[i])

LEMMA JobsStay ==
  ASSUME TypeOK, JobsEntitled, UNCHANGED Jobs,
         \A q \in Reqs : MayHaveIt(q) => MayHaveIt(q)'
  PROVE  JobsEntitled'
<1>1. /\ \A t \in Threads : /\ \A i \in DOMAIN queue[t] : queue[t][i] \in Reqs
                           /\ \A i \in DOMAIN busy[t] : busy[t][i] \in Reqs
      /\ \A i \in DOMAIN performed : performed[i] \in Reqs
  BY DEF TypeOK
<1>2. queue' = queue /\ busy' = busy /\ performed' = performed
  BY DEF Jobs
<1>3. ASSUME NEW t \in Threads, NEW i \in DOMAIN queue'[t] PROVE MayHaveIt(queue[t][i])'
  <2>1. queue[t][i] \in Reqs /\ MayHaveIt(queue[t][i])
    BY <1>1, <1>2, <1>3 DEF JobsEntitled
  <2> QED
    BY <1>2, <2>1 DEF MayHaveIt
<1>4. ASSUME NEW t \in Threads, NEW i \in DOMAIN busy'[t] PROVE MayHaveIt(busy[t][i])'
  <2>1. busy[t][i] \in Reqs /\ MayHaveIt(busy[t][i])
    BY <1>1, <1>2, <1>4 DEF JobsEntitled
  <2> QED
    BY <1>2, <2>1 DEF MayHaveIt
<1>5. ASSUME NEW i \in DOMAIN performed' PROVE MayHaveIt(performed[i])'
  <2>1. performed[i] \in Reqs /\ MayHaveIt(performed[i])
    BY <1>1, <1>2, <1>5 DEF JobsEntitled
  <2> QED
    BY <1>2, <2>1 DEF MayHaveIt
<1> QED
  BY <1>3, <1>4, <1>5 DEF JobsEntitled

LEMMA NextEntitled == EntitledInv /\ [Next]_vars => EntitledInv'
<1> SUFFICES ASSUME EntitledInv, [Next]_vars PROVE EntitledInv'
  OBVIOUS
<1>1. TypeOK /\ Entitled
  BY DEF EntitledInv
<1>2. CASE Start
  <2>1. TypeOK'
    BY <1>1, <1>2, DaemonAssumption DEF Start, TypeOK
  <2>2. \A q \in Reqs : MayHaveIt(q)' <=> MayHaveIt(q)
    BY <1>2 DEF Start, MayHaveIt
  <2>3. Entitled'
    BY <1>1, <1>2, <2>2 DEF Start, Entitled, EffectsAuthorised, TypeOK, MayHaveIt
  <2> QED
    BY <2>1, <2>3 DEF EntitledInv
<1>3. CASE Interrupt
  <2>1. TypeOK'
    BY <1>1, <1>3 DEF Interrupt, TypeOK, Jobs
  <2>2. Entitled'
    BY <1>1, <1>3 DEF Interrupt, Entitled, EffectsAuthorised, TypeOK, MayHaveIt, Jobs
  <2> QED
    BY <2>1, <2>2 DEF EntitledInv
<1>4. CASE End
  <2>1. TypeOK'
    <3>1. stage' \in [Reqs -> Stages]
      BY <1>1, <1>4 DEF End, TypeOK, Stages, Closed
    <3> QED
      BY <1>1, <1>4, <3>1 DEF End, TypeOK, Stages
  <2>2. Entitled'
    <3>1. \A q \in Reqs : (stage'[q] = "new" <=> stage[q] = "new") /\ stage'[q] \notin Open
      BY <1>1, <1>4 DEF End, TypeOK, Open, Closed
    <3>2. \A q \in Reqs : task'[q] = None
      BY <1>4 DEF End
    <3>3. \A t \in Threads : queue'[t] = << >> /\ busy'[t] = << >>
      BY <1>4 DEF End
    <3> QED
      BY <1>1, <1>4, <3>1, <3>2, <3>3
      DEF End, Entitled, EffectsAuthorised, MayHaveIt, Open, TypeOK
  <2> QED
    BY <2>1, <2>2 DEF EntitledInv
<1>5. ASSUME NEW r \in Reqs, NEW call \in Calls, NEW from \in Callers, NEW ours \in BOOLEAN,
             Arrive(r, call, from, ours)
      PROVE  EntitledInv'
  <2>1. /\ req' \in [Reqs -> Asked \cup {Unasked}]
        /\ req'[r] \in Asked /\ req'[r].ours = ours
        /\ \A q \in Reqs \ {r} : req'[q] = req[q]
    BY <1>1, <1>5 DEF Arrive, TypeOK, Asked
  <2>2. /\ stage' \in [Reqs -> Stages] /\ stage'[r] \in {"whois", "answered"}
        /\ stage'[r] = "whois" => ours
        /\ \A q \in Reqs \ {r} : stage'[q] = stage[q]
        /\ answer' \in [Reqs -> Answers \cup {Unanswered}] /\ lines' \in [Reqs -> Seq(Lines)]
    <3>1. CASE Close(r, Misdirected) /\ Record(r, "denied", 421)
      <4>1. Misdirected \in Answers /\ 421 \in Status
        BY AnswerType DEF Status
      <4>2. lines' \in [Reqs -> Seq(Lines)]
        BY <1>1, <3>1, <4>1, RecordType
      <4>3. /\ stage' \in [Reqs -> Stages] /\ answer' \in [Reqs -> Answers \cup {Unanswered}]
            /\ stage'[r] = "answered"
            /\ \A q \in Reqs \ {r} : stage'[q] = stage[q]
        BY <1>1, <3>1, <4>1, CloseType
      <4> QED
        BY <4>2, <4>3
    <3>2. CASE ours /\ stage' = [stage EXCEPT ![r] = "whois"] /\ UNCHANGED <<answer, lines>>
      BY <1>1, <3>2 DEF TypeOK, Stages, Open
    <3> QED
      BY <1>5, <3>1, <3>2 DEF Arrive, Addressed
  <2>3. TypeOK'
    BY <1>1, <1>5, <2>1, <2>2 DEF Arrive, TypeOK, Process, Jobs, Stages
  <2>4. ~MayHaveIt(r)
    BY <1>1, <1>5 DEF Arrive, Entitled, MayHaveIt, Unasked
  <2>5. \A q \in Reqs : MayHaveIt(q) => MayHaveIt(q)'
    BY <2>1, <2>4, MayStays
  <2>6. \A q \in Reqs : IF stage'[q] = "new" THEN req'[q] = Unasked ELSE req'[q] \in Asked
    BY <1>1, <2>1, <2>2 DEF Entitled
  <2>7. \A q \in Reqs : stage'[q] = "whois" => req'[q].ours
    BY <1>1, <2>1, <2>2 DEF Entitled
  <2>8. \A q \in Reqs : stage'[q] = "listing" \/ task'[q] # None => MayHaveIt(q)'
    BY <1>1, <1>5, <2>2, <2>5 DEF Entitled, Arrive
  <2>9. JobsEntitled'
    BY <1>1, <1>5, <2>5, JobsStay DEF Arrive, Entitled, JobsEntitled, EffectsAuthorised, Jobs
  <2>10. EffectsAuthorised'
    BY <2>9 DEF JobsEntitled, EffectsAuthorised
  <2>11. (\A t \in Threads : /\ \A i \in DOMAIN queue[t] : MayHaveIt(queue[t][i])
                            /\ \A i \in DOMAIN busy[t] : MayHaveIt(busy[t][i]))'
    BY <2>9 DEF JobsEntitled
  <2>12. Entitled'
    BY <2>6, <2>7, <2>8, <2>10, <2>11, Zenon DEF Entitled
  <2> QED
    BY <2>3, <2>12 DEF EntitledInv
<1>6. ASSUME NEW r \in Reqs, WhoisFails(r) \/ Unlisted(r) \/ Forbidden(r) PROVE EntitledInv'
  <2>1. stage[r] # "new" /\ UNCHANGED <<Process, req, task, reply, Jobs>>
    BY <1>6 DEF WhoisFails, Unlisted, Forbidden, Identified
  <2>2. \E outcome \in {"denied", "error"}, a \in Answers : Tells(r, outcome, a)
    BY <1>6, RefusalTells
  <2> QED
    BY <2>1, <2>2, AnswerEntitled DEF Tells
<1>7. ASSUME NEW r \in Reqs, NotGated(r) PROVE EntitledInv'
  <2>1. PICK a \in Answers : Close(r, a)
    BY <1>7, AnswerType DEF NotGated
  <2>2. stage[r] # "new"
    BY <1>7 DEF NotGated, Identified
  <2> QED
    BY <1>7, <2>1, <2>2, AnswerEntitled DEF NotGated
<1>8. ASSUME NEW r \in Reqs, FailsAtOnce(r) PROVE EntitledInv'
  BY <1>8, FinishEntitled DEF FailsAtOnce, Cleared, Identified, Errors
<1>9. ASSUME NEW r \in Reqs, Spawn(r) \/ Enqueue(r) PROVE EntitledInv'
  <2>1. Cleared(r)
    BY <1>9 DEF Spawn, Enqueue
  <2>2. MayHaveIt(r) /\ stage[r] = "whois" /\ req[r] \in Asked
    BY <1>1, <2>1, ClearedMay DEF Cleared, Identified, Entitled
  <2>3. CASE Spawn(r)
    <3>1. TypeOK'
      BY <1>1, <2>3 DEF Spawn, TypeOK, Process, Jobs, Open
    <3>2. Entitled'
      BY <1>1, <2>2, <2>3 DEF Spawn, Entitled, EffectsAuthorised, MayHaveIt, Process, Jobs, TypeOK
    <3> QED
      BY <3>1, <3>2 DEF EntitledInv
  <2>4. CASE Enqueue(r)
    <3> DEFINE t == ThreadFor(req[r].call)
    <3>1. t \in Threads /\ queue[t] \in Seq(Reqs)
      BY <1>1 DEF ThreadFor, Threads, TypeOK
    <3>2. /\ queue' \in [Threads -> Seq(Reqs)] /\ queue'[t] = Append(queue[t], r)
          /\ \A u \in Threads \ {t} : queue'[u] = queue[u]
      BY <1>1, <2>4, <3>1 DEF Enqueue, Sent, TypeOK
    <3>3. accepted' \in Seq(Reqs)
      BY <1>1, <2>4 DEF Enqueue, TypeOK
    <3>4. TypeOK'
      BY <1>1, <2>4, <3>2, <3>3 DEF Enqueue, TypeOK, Process, Open
    <3>5. \A q \in Reqs : MayHaveIt(q)' <=> MayHaveIt(q)
      BY <2>4 DEF Enqueue, MayHaveIt
    <3>6. \A u \in Threads : \A i \in DOMAIN queue'[u] : MayHaveIt(queue'[u][i])
      BY <1>1, <2>2, <3>1, <3>2 DEF Entitled
    <3>7. \A q \in Reqs : stage'[q] = IF q = r THEN "waiting" ELSE stage[q]
      BY <1>1, <2>4 DEF Enqueue, TypeOK
    <3>8. req' = req /\ task' = task /\ busy' = busy /\ performed' = performed
      BY <2>4 DEF Enqueue
    <3>9. \A q \in Reqs :
            /\ stage'[q] = "new" => req'[q] = Unasked
            /\ stage'[q] # "new" => req'[q] \in Asked
            /\ stage'[q] = "whois" => req'[q].ours
            /\ stage'[q] = "listing" \/ task'[q] # None => MayHaveIt(q)
      BY <1>1, <2>2, <3>7, <3>8 DEF Entitled
    <3>10. Entitled'
      BY <1>1, <3>6, <3>8, <3>9 DEF Entitled, EffectsAuthorised, MayHaveIt
    <3> QED
      BY <3>4, <3>10 DEF EntitledInv
  <2> QED
    BY <1>9, <2>3, <2>4
<1>10. ASSUME NEW r \in Reqs, RunTask(r) PROVE EntitledInv'
  <2>1. reply' \in [Reqs -> ReplyValues] /\ performed' \in {performed, Append(performed, r)}
    BY <1>1, <1>10, ReplyType DEF RunTask, TaskErrors, Errors
  <2>2. MayHaveIt(r)
    BY <1>1, <1>10 DEF RunTask, Entitled
  <2>3. performed' \in Seq(Reqs) /\ \A i \in DOMAIN performed' : MayHaveIt(performed'[i])
    <3>1. performed \in Seq(Reqs) /\ \A i \in DOMAIN performed : MayHaveIt(performed[i])
      BY <1>1 DEF TypeOK, Entitled, EffectsAuthorised
    <3>2. Append(performed, r) \in Seq(Reqs)
      BY <3>1
    <3>3. ASSUME NEW i \in DOMAIN Append(performed, r)
          PROVE  \/ Append(performed, r)[i] = r
                 \/ i \in DOMAIN performed /\ Append(performed, r)[i] = performed[i]
      <4>1. i \in 1 .. (Len(performed) + 1)
        BY <3>1, <3>3
      <4>2. CASE i = Len(performed) + 1
        BY <3>1, <4>2
      <4>3. CASE i \in 1 .. Len(performed)
        BY <3>1, <4>3
      <4> QED
        BY <3>1, <4>1, <4>2, <4>3
    <3> QED
      BY <2>1, <2>2, <3>1, <3>2, <3>3
  <2>4. TypeOK'
    BY <1>1, <1>10, <2>1, <2>3 DEF RunTask, TypeOK, Process, ReplyValues
  <2>5. \A q \in Reqs : task'[q] \in {None, task[q]}
    BY <1>1, <1>10 DEF RunTask, TypeOK
  <2>6. Entitled'
    BY <1>1, <1>10, <2>3, <2>5 DEF RunTask, Entitled, EffectsAuthorised, MayHaveIt
  <2> QED
    BY <2>4, <2>6 DEF EntitledInv
<1>11. ASSUME NEW r \in Reqs, FocusEnds(r) \/ Resume(r) \/ TimeOut(r) PROVE EntitledInv'
  <2>1. PICK res \in {"ok"} \cup Errors :
           Finish(r, res) /\ UNCHANGED <<Process, req, task, reply, Jobs>>
    BY <1>1, <1>11 DEF FocusEnds, Resume, TimeOut, TimedOut, TaskErrors, Errors, TypeOK, None
  <2>2. stage[r] # "new"
    BY <1>11 DEF FocusEnds, Resume, TimeOut, TimedOut, WindowsListed
  <2> QED
    BY <2>1, <2>2, FinishEntitled
<1>12. ASSUME NEW r \in Reqs, FocusGoesOn(r) PROVE EntitledInv'
  <2>1. TypeOK'
    BY <1>1, <1>12 DEF FocusGoesOn, TypeOK, Process, Jobs, Open
  <2>2. MayHaveIt(r) /\ stage[r] = "listing"
    BY <1>1, <1>12 DEF FocusGoesOn, WindowsListed, Entitled
  <2>3. Entitled'
    BY <1>1, <1>12, <2>2
    DEF FocusGoesOn, Entitled, EffectsAuthorised, MayHaveIt, Process, Jobs, TypeOK
  <2> QED
    BY <2>1, <2>3 DEF EntitledInv
<1>13. ASSUME NEW r \in Reqs, HangUp(r) PROVE EntitledInv'
  <2>1. TypeOK'
    BY <1>1, <1>13 DEF HangUp, TypeOK, Process, Jobs, Closed
  <2>2. Entitled'
    BY <1>1, <1>13 DEF HangUp, Entitled, EffectsAuthorised, MayHaveIt, Process, Jobs, TypeOK, Open
  <2> QED
    BY <2>1, <2>2 DEF EntitledInv
<1>14. ASSUME NEW t \in Threads, Take(t) PROVE EntitledInv'
  <2>1. queue[t] \in Seq(Reqs) /\ queue[t] # << >>
    BY <1>1, <1>14 DEF Take, TypeOK
  <2>2. /\ Head(queue[t]) \in Reqs /\ Tail(queue[t]) \in Seq(Reqs)
        /\ Head(queue[t]) = queue[t][1] /\ 1 \in DOMAIN queue[t]
        /\ \A i \in DOMAIN Tail(queue[t]) :
             i + 1 \in DOMAIN queue[t] /\ Tail(queue[t])[i] = queue[t][i + 1]
    BY <2>1
  <2>3. MayHaveIt(Head(queue[t])) /\ \A i \in DOMAIN Tail(queue[t]) : MayHaveIt(Tail(queue[t])[i])
    BY <1>1, <2>2 DEF Entitled
  <2>4. /\ queue' = [queue EXCEPT ![t] = Tail(queue[t])]
        /\ busy' = [busy EXCEPT ![t] = <<Head(queue[t])>>]
    BY <1>14 DEF Take
  <2>5. TypeOK'
    BY <1>1, <1>14, <2>2, <2>4 DEF Take, TypeOK, Process
  <2>6. \A u \in Threads :
          /\ \A i \in DOMAIN queue'[u] : MayHaveIt(queue'[u][i])
          /\ \A i \in DOMAIN busy'[u] : MayHaveIt(busy'[u][i])
    BY <1>1, <2>3, <2>4 DEF Entitled, TypeOK
  <2>7. Entitled'
    BY <1>1, <1>14, <2>6 DEF Take, Entitled, EffectsAuthorised, MayHaveIt
  <2> QED
    BY <2>5, <2>7 DEF EntitledInv
<1>15. ASSUME NEW t \in Threads, Work(t) PROVE EntitledInv'
  <2>1. reply' \in [Reqs -> ReplyValues] /\ performed' \in {performed, performed \o busy[t]}
    BY <1>1, <1>15, ReplyType DEF Work, Refusals, Errors
  <2>2. performed' \in Seq(Reqs) /\ \A i \in DOMAIN performed' : MayHaveIt(performed'[i])
    <3>1. /\ performed \in Seq(Reqs) /\ busy[t] \in Seq(Reqs)
          /\ \A i \in DOMAIN performed : MayHaveIt(performed[i])
          /\ \A i \in DOMAIN busy[t] : MayHaveIt(busy[t][i])
      BY <1>1 DEF TypeOK, Entitled, EffectsAuthorised
    <3>2. /\ performed \o busy[t] \in Seq(Reqs)
          /\ \A i \in DOMAIN (performed \o busy[t]) :
               \/ i \in DOMAIN performed /\ (performed \o busy[t])[i] = performed[i]
               \/ \E j \in DOMAIN busy[t] : (performed \o busy[t])[i] = busy[t][j]
      <4>1. performed \o busy[t] \in Seq(Reqs)
        BY <3>1
      <4>2. ASSUME NEW i \in DOMAIN (performed \o busy[t])
            PROVE  \/ i \in DOMAIN performed /\ (performed \o busy[t])[i] = performed[i]
                   \/ \E j \in DOMAIN busy[t] : (performed \o busy[t])[i] = busy[t][j]
        <5>1. i \in 1 .. (Len(performed) + Len(busy[t]))
          BY <3>1, <4>2
        <5>2. CASE i =< Len(performed)
          BY <3>1, <5>1, <5>2
        <5>3. CASE i > Len(performed)
          <6>1. i - Len(performed) \in DOMAIN busy[t]
            BY <3>1, <5>1, <5>3
          <6> QED
            BY <3>1, <5>1, <5>3, <6>1
        <5> QED
          BY <3>1, <5>1, <5>2, <5>3
      <4> QED
        BY <4>1, <4>2
    <3> QED
      BY <2>1, <3>1, <3>2
  <2>3. TypeOK'
    BY <1>1, <1>15, <2>1, <2>2 DEF Work, TypeOK, Process, ReplyValues
  <2>4. \A u \in Threads : busy'[u] = IF u = t THEN << >> ELSE busy[u]
    BY <1>1, <1>15 DEF Work, TypeOK
  <2>5. req' = req /\ stage' = stage /\ task' = task /\ queue' = queue
    BY <1>15 DEF Work
  <2>6. \A u \in Threads : \A i \in DOMAIN busy'[u] : MayHaveIt(busy'[u][i])
    BY <1>1, <2>4 DEF Entitled
  <2>7. Entitled'
    BY <1>1, <2>2, <2>5, <2>6 DEF Entitled, EffectsAuthorised, MayHaveIt
  <2> QED
    BY <2>3, <2>7 DEF EntitledInv
<1>16. ASSUME NEW t \in Threads, Panic(t) PROVE EntitledInv'
  <2>1. reply' \in [Reqs -> ReplyValues] /\ panics' \in 0 .. MaxPanics
    BY <1>1, <1>16, ReplyType, DaemonAssumption DEF Panic, Errors, TypeOK
  <2>2. TypeOK'
    BY <1>1, <1>16, <2>1 DEF Panic, TypeOK, ReplyValues
  <2>3. \A u \in Threads : /\ queue'[u] = IF u = t THEN << >> ELSE queue[u]
                           /\ busy'[u] = IF u = t THEN << >> ELSE busy[u]
    BY <1>1, <1>16 DEF Panic, TypeOK
  <2>4. Entitled'
    BY <1>1, <1>16, <2>3 DEF Panic, Entitled, EffectsAuthorised, MayHaveIt
  <2> QED
    BY <2>2, <2>4 DEF EntitledInv
<1>17. CASE UNCHANGED vars
  BY <1>1, <1>17 DEF vars, EntitledInv, TypeOK, Entitled, EffectsAuthorised, MayHaveIt
<1> QED
  BY <1>2, <1>3, <1>4, <1>5, <1>6, <1>7, <1>8, <1>9, <1>10, <1>11, <1>12, <1>13, <1>14,
     <1>15, <1>16, <1>17 DEF Next, Exit, Kill

(* Whatever runs in whichever order, and whoever hangs up, only what the   *)
(* allowlist gives its caller is done to the desktop or read from it       *)
(* (routes.rs, audited; auth.rs, middleware; proto.rs, Capability).        *)
THEOREM EffectsAlwaysAuthorised == Spec => []EffectsAuthorised
<1>1. EntitledInv => EffectsAuthorised
  BY DEF EntitledInv, Entitled
<1> QED
  BY <1>1, InitEntitled, NextEntitled, PTL DEF Spec

-----------------------------------------------------------------------------
LineInv == TypeOK /\ LinesFollowAnswers

LEMMA LineInvSuffices == LineInv => OneTrueLine
<1> SUFFICES ASSUME LineInv, NEW r \in Reqs
             PROVE  /\ Len(lines[r]) =< 1
                    /\ lines[r] # << >> =>
                         /\ stage[r] = "answered" /\ lines[r][1].status = answer[r].status
                         /\ lines[r][1].outcome = "denied" <=> answer[r].status \in {403, 421}
                    /\ stage[r] = "answered" /\ lines[r] = << >> => req[r].call \in Ungated
  BY DEF OneTrueLine
<1>1. CASE Untold(r)
  BY <1>1 DEF Untold
<1>2. CASE Unlogged(r)
  BY <1>2 DEF Unlogged
<1>3. CASE Told(r)
  BY <1>3 DEF Told
<1> QED
  BY <1>1, <1>2, <1>3 DEF LineInv, LinesFollowAnswers

(* Closing a request that has no line yet, and recording it.               *)
LEMMA AnswersTell ==
  ASSUME TypeOK, NEW r \in Reqs, lines[r] = << >>,
         NEW outcome \in {"ok", "denied", "error"}, NEW a \in Answers,
         outcome = "denied" <=> a.status \in {403, 421}, Tells(r, outcome, a)
  PROVE  Told(r)' /\ \A q \in Reqs \ {r} : UNCHANGED <<stage[q], answer[q], lines[q]>>
<1> DEFINE l == [outcome |-> outcome, status |-> a.status]
<1>1. a.status \in Status /\ l \in Lines /\ l.status = a.status /\ l.outcome = outcome
  BY DEF Lines, Answers
<1>2. lines'[r] = <<l>> /\ \A q \in Reqs \ {r} : lines'[q] = lines[q]
  BY <1>1, RecordType DEF Tells
<1>3. /\ stage'[r] = "answered" /\ answer'[r] = a
      /\ \A q \in Reqs \ {r} : stage'[q] = stage[q] /\ answer'[q] = answer[q]
  BY CloseType DEF Tells
<1> QED
  BY <1>1, <1>2, <1>3 DEF Told

(* A request none of whose four variables moves keeps what holds of it.    *)
LEMMA StillFollows ==
  ASSUME NEW q \in Reqs, UNCHANGED <<stage[q], answer[q], lines[q], req[q].call>>,
         Untold(q) \/ Unlogged(q) \/ Told(q)
  PROVE  (Untold(q) \/ Unlogged(q) \/ Told(q))'
BY DEF Untold, Unlogged, Told

LEMMA NextLines ==
  ASSUME LineInv, EntitledInv, EntitledInv', [Next]_vars
  PROVE  LinesFollowAnswers'
<1>1. TypeOK /\ \A q \in Reqs : Untold(q) \/ Unlogged(q) \/ Told(q)
  BY DEF LineInv, LinesFollowAnswers
<1>2. \A q \in Reqs : stage[q] \in {"new"} \cup Open => lines[q] = << >>
  BY <1>1 DEF Open, Untold, Unlogged, Told
<1>3. ASSUME NEW r \in Reqs, stage[r] \in {"new"} \cup Open, NEW outcome \in {"ok", "denied", "error"},
             NEW a \in Answers, outcome = "denied" <=> a.status \in {403, 421},
             Tells(r, outcome, a), \A q \in Reqs \ {r} : req'[q] = req[q]
      PROVE  LinesFollowAnswers'
  <2>1. Told(r)' /\ \A q \in Reqs \ {r} : UNCHANGED <<stage[q], answer[q], lines[q]>>
    BY <1>1, <1>2, <1>3, AnswersTell
  <2>2. \A q \in Reqs \ {r} : (Untold(q) \/ Unlogged(q) \/ Told(q))'
    BY <1>1, <1>3, <2>1, StillFollows
  <2> QED
    BY <2>1, <2>2 DEF LinesFollowAnswers
<1>4. ASSUME NEW r \in Reqs, stage[r] \in Open, NEW res \in {"ok"} \cup Errors,
             Finish(r, res), UNCHANGED req
      PROVE  LinesFollowAnswers'
  <2>1. PICK outcome \in {"ok", "error"}, a \in Answers :
             a.status \notin {403, 421} /\ Tells(r, outcome, a)
    BY <1>4, FinishTells
  <2> QED
    BY <1>3, <1>4, <2>1
<1>5. ASSUME UNCHANGED <<answer, lines, req>>,
             \A q \in Reqs : stage'[q] = "answered" <=> stage[q] = "answered"
      PROVE  LinesFollowAnswers'
  BY <1>1, <1>5 DEF LinesFollowAnswers, Untold, Unlogged, Told
<1>7. ASSUME NEW r \in Reqs, NEW call \in Calls, NEW from \in Callers, NEW ours \in BOOLEAN,
             Arrive(r, call, from, ours)
      PROVE  LinesFollowAnswers'
  <2>1. stage[r] = "new" /\ \A q \in Reqs \ {r} : req'[q] = req[q]
    BY <1>1, <1>7 DEF Arrive, TypeOK
  <2>2. CASE Tells(r, "denied", Misdirected)
    BY <1>3, <2>1, <2>2, AnswerType
  <2>3. CASE stage' = [stage EXCEPT ![r] = "whois"] /\ UNCHANGED <<answer, lines>>
    <3>1. Untold(r)'
      BY <1>1, <1>2, <2>1, <2>3 DEF Untold, TypeOK
    <3>2. \A q \in Reqs \ {r} : (Untold(q) \/ Unlogged(q) \/ Told(q))'
      BY <1>1, <2>1, <2>3, StillFollows DEF TypeOK
    <3> QED
      BY <3>1, <3>2 DEF LinesFollowAnswers
  <2> QED
    BY <1>7, <2>2, <2>3, AnswerType DEF Arrive, Tells
<1>8. ASSUME NEW r \in Reqs, WhoisFails(r) \/ Unlisted(r) \/ Forbidden(r)
      PROVE  LinesFollowAnswers'
  <2>1. UNCHANGED req /\ stage[r] \in Open
    BY <1>8 DEF WhoisFails, Unlisted, Forbidden, Identified, Open
  <2> QED
    BY <1>3, <1>8, <2>1, RefusalTells
<1>9. ASSUME NEW r \in Reqs, NotGated(r) PROVE LinesFollowAnswers'
  <2>1. /\ stage[r] \in Open /\ req[r].call \in Ungated /\ UNCHANGED <<req, lines>>
        /\ \E a \in Answers : Close(r, a)
    BY <1>9, AnswerType DEF NotGated, Identified, Open
  <2>2. stage'[r] = "answered"
        /\ \A q \in Reqs \ {r} : stage'[q] = stage[q] /\ answer'[q] = answer[q]
    BY <1>1, <2>1, CloseType
  <2>3. Unlogged(r)'
    BY <1>2, <2>1, <2>2 DEF Unlogged
  <2>4. \A q \in Reqs \ {r} : (Untold(q) \/ Unlogged(q) \/ Told(q))'
    BY <1>1, <2>1, <2>2, StillFollows
  <2> QED
    BY <2>3, <2>4 DEF LinesFollowAnswers
<1>10. ASSUME NEW r \in Reqs,
              FailsAtOnce(r) \/ FocusEnds(r) \/ Resume(r) \/ TimeOut(r)
       PROVE  LinesFollowAnswers'
  <2>1. PICK res \in {"ok"} \cup Errors : Finish(r, res) /\ UNCHANGED req
    BY <1>1, <1>10 DEF FailsAtOnce, FocusEnds, Resume, TimeOut, TimedOut, TaskErrors, Errors, TypeOK, None
  <2>2. stage[r] \in Open
    BY <1>10 DEF FailsAtOnce, Cleared, Identified, FocusEnds, WindowsListed, Resume, TimeOut, TimedOut, Open
  <2> QED
    BY <1>4, <2>1, <2>2
<1>11. ASSUME NEW r \in Reqs,
              Spawn(r) \/ Enqueue(r) \/ FocusGoesOn(r) \/ HangUp(r)
       PROVE  LinesFollowAnswers'
  <2>1. /\ UNCHANGED <<answer, lines, req>> /\ stage[r] \in Open
        /\ \E s \in {"waiting", "listing", "dropped"} : stage' = [stage EXCEPT ![r] = s]
    BY <1>11 DEF Spawn, Enqueue, FocusGoesOn, HangUp, Cleared, Identified, WindowsListed, Open
  <2>2. \A q \in Reqs : stage'[q] = "answered" <=> stage[q] = "answered"
    BY <1>1, <2>1 DEF TypeOK, Open
  <2> QED
    BY <1>5, <2>1, <2>2
<1>12. CASE End
  <2>1. \A q \in Reqs : stage'[q] = "answered" <=> stage[q] = "answered"
    BY <1>1, <1>12 DEF End, Open
  <2> QED
    BY <1>5, <1>12, <2>1 DEF End
<1>13. CASE \/ Start \/ Interrupt \/ UNCHANGED vars
           \/ \E r \in Reqs : RunTask(r)
  <2>1. UNCHANGED <<stage, answer, lines, req>>
    BY <1>13 DEF Start, Interrupt, vars, RunTask
  <2> QED
    BY <1>5, <2>1
<1>14. ASSUME NEW t \in Threads, Take(t) \/ Work(t) \/ Panic(t) PROVE LinesFollowAnswers'
  <2>1. UNCHANGED <<stage, answer, lines, req>>
    BY <1>14 DEF Take, Work, Panic
  <2> QED
    BY <1>5, <2>1
<1>15. CASE \E r \in Reqs :
              \/ \E call \in Calls, from \in Callers, ours \in BOOLEAN : Arrive(r, call, from, ours)
              \/ WhoisFails(r) \/ Unlisted(r) \/ NotGated(r) \/ Forbidden(r)
              \/ FailsAtOnce(r) \/ Spawn(r) \/ Enqueue(r)
              \/ FocusEnds(r) \/ FocusGoesOn(r) \/ Resume(r) \/ TimeOut(r) \/ HangUp(r)
  BY <1>7, <1>8, <1>9, <1>10, <1>11, <1>15
<1> QED
  <2>1. CASE UNCHANGED vars
    BY <1>13, <2>1
  <2>2. CASE Next
    <3>1. CASE Start \/ Interrupt
      BY <1>13, <3>1
    <3>2. CASE \E t \in Threads : Take(t) \/ Work(t) \/ Panic(t)
      BY <1>14, <3>2
    <3>3. CASE Exit \/ Kill
      BY <1>12, <3>3 DEF Exit, Kill
    <3>4. CASE \E r \in Reqs : RunTask(r)
      BY <1>13, <3>4
    <3> QED
      BY <1>15, <2>2, <3>1, <3>2, <3>3, <3>4 DEF Next
  <2> QED
    BY <2>1, <2>2

(* A request leaves at most one line, with the status its caller got; and  *)
(* exactly one if it was rejected or asked for a capability and was        *)
(* answered, marked denied if and only if it was refused (routes.rs,       *)
(* audited; auth.rs, middleware).                                          *)
THEOREM OneTrueLineAlways == Spec => []OneTrueLine
<1>1. Init => LineInv
  <2>1. Init => TypeOK
    BY InitEntitled DEF EntitledInv
  <2>2. Init => LinesFollowAnswers
    BY DEF Init, LinesFollowAnswers, Untold
  <2> QED
    BY <2>1, <2>2 DEF LineInv
<1>2. EntitledInv /\ LineInv /\ [Next]_vars => EntitledInv' /\ LineInv'
  BY NextEntitled, NextLines DEF EntitledInv, LineInv
<1> QED
  BY <1>1, <1>2, InitEntitled, LineInvSuffices, PTL DEF Spec

-----------------------------------------------------------------------------
(* What is owed to a request and what was done for it: which actions move  *)
(* what.                                                                   *)
LEMMA SameOwed ==
  ASSUME UNCHANGED <<task, queue, busy>>, NEW q \in Reqs
  PROVE  Owed(q)' <=> Owed(q)
BY DEF Owed, HeldBy

LEMMA SameDone ==
  ASSUME UNCHANGED performed, NEW q \in Reqs
  PROVE  Done(q)' <=> Done(q)
BY DEF Done, Entries

LEMMA DoneIff ==
  ASSUME TypeOK, NEW q \in Reqs
  PROVE  Done(q) <=> \E i \in DOMAIN performed : performed[i] = q
BY DEF Done, Entries

LEMMA HeldInReqs ==
  ASSUME TypeOK, NEW t \in Threads
  PROVE  HeldBy(t) \subseteq Reqs
BY DEF TypeOK, HeldBy

(* The jobs and what is done stay; no request that is owed something       *)
(* changes its call.                                                       *)
LEMMA SameOnce ==
  ASSUME TypeOK, OwedOnce, UNCHANGED <<queue, busy, performed>>,
         \A q \in Reqs : Owed(q) => req'[q] = req[q],
         \A q \in Reqs : task'[q] # None => req'[q].call \in ToRead \cup ToFocus
  PROVE  OwedOnce'
<1>1. ASSUME NEW t \in Threads
      PROVE  \A r \in HeldBy(t) : req'[r].call = req[r].call
  BY HeldInReqs DEF Owed
<1>2. \A t \in Threads : HeldBy(t)' = HeldBy(t)
  BY DEF HeldBy
<1>3. \A r, t : (ThreadFor(req[r].call) = t)' <=> ThreadFor(req'[r].call) = t
  BY DEF ThreadFor
<1>4. \A t \in Threads : \A r \in HeldBy(t)' :
          /\ req'[r].call \in ToInput \cup ToClip
          /\ ThreadFor(req'[r].call) = t
  BY <1>1, <1>2 DEF OwedOnce
<1> QED
  BY <1>4 DEF OwedOnce

LEMMA EnqueueOwed ==
  ASSUME TypeOK, TypeOK', OwedOnce, NEW r \in Reqs, Enqueue(r), ~Owed(r)
  PROVE  /\ OwedOnce'
         /\ \A q \in Reqs : Owed(q)' <=> (Owed(q) \/ q = r)
<1> DEFINE t == ThreadFor(req[r].call)
<1>1. t \in Threads /\ queue[t] \in Seq(Reqs)
  BY DEF ThreadFor, Threads, TypeOK
<1>2. /\ queue'[t] = Append(queue[t], r)
      /\ \A u \in Threads \ {t} : queue'[u] = queue[u]
      /\ busy' = busy /\ task' = task /\ req' = req /\ performed' = performed
  BY <1>1 DEF Enqueue, Sent, TypeOK
<1>3. /\ DOMAIN Append(queue[t], r) = 1 .. (Len(queue[t]) + 1)
      /\ DOMAIN queue[t] = 1 .. Len(queue[t]) /\ Len(queue[t]) \in Nat
      /\ \A i \in 1 .. Len(queue[t]) : Append(queue[t], r)[i] = queue[t][i]
      /\ Append(queue[t], r)[Len(queue[t]) + 1] = r
  BY <1>1
<1> DEFINE k == Len(queue[t])
<1>4. HeldBy(t)' = HeldBy(t) \cup {r}
  <2>1. \A q \in HeldBy(t)' : q \in HeldBy(t) \cup {r}
    BY <1>2, <1>3 DEF HeldBy
  <2>2. \A q \in HeldBy(t) \cup {r} : q \in HeldBy(t)'
    BY <1>2, <1>3 DEF HeldBy
  <2> QED
    BY <2>1, <2>2
<1>5. \A u \in Threads \ {t} : HeldBy(u)' = HeldBy(u)
  BY <1>2 DEF HeldBy
<1>6. \A q \in Reqs : Owed(q)' <=> (Owed(q) \/ q = r)
  BY <1>1, <1>2, <1>4, <1>5 DEF Owed
<1>7. r \notin HeldBy(t)
  BY <1>1 DEF Owed
<1>8. \A u \in Threads : \A q \in HeldBy(u)' :
         req'[q].call \in ToInput \cup ToClip /\ ThreadFor(req'[q].call) = u
  <2>1. req[r].call \in ToInput \cup ToClip
    BY DEF Enqueue
  <2> QED
    BY <1>2, <1>4, <1>5, <2>1 DEF OwedOnce
<1>9. ASSUME NEW u \in Threads
      PROVE  /\ \A i, j \in DOMAIN queue'[u] : queue'[u][i] = queue'[u][j] => i = j
             /\ \A i \in DOMAIN busy'[u] :
                  i = 1 /\ \A j \in DOMAIN queue'[u] : queue'[u][j] # busy'[u][i]
  <2>1. CASE u # t
    BY <1>2, <2>1 DEF OwedOnce
  <2>2. CASE u = t
    <3>1. \A i \in 1 .. k : queue[t][i] # r
      BY <1>3, <1>7 DEF HeldBy
    <3>2. \A i \in DOMAIN busy[t] : busy[t][i] # r
      BY <1>7 DEF HeldBy
    <3>3. \A i, j \in 1 .. k : queue[t][i] = queue[t][j] => i = j
      BY <1>1, <1>3 DEF OwedOnce
    <3>4. \A i \in DOMAIN busy[t] : i = 1 /\ \A j \in 1 .. k : queue[t][j] # busy[t][i]
      BY <1>1, <1>3 DEF OwedOnce
    <3>5. ASSUME NEW i \in 1 .. (k + 1), NEW j \in 1 .. (k + 1),
                 Append(queue[t], r)[i] = Append(queue[t], r)[j]
          PROVE  i = j
      <4>1. CASE i \in 1 .. k /\ j \in 1 .. k
        BY <1>3, <3>3, <3>5, <4>1
      <4>2. CASE i = k + 1 \/ j = k + 1
        BY <1>3, <3>1, <3>5, <4>2
      <4> QED
        BY <1>3, <4>1, <4>2
    <3>6. \A i \in DOMAIN busy[t] :
             i = 1 /\ \A j \in 1 .. (k + 1) : Append(queue[t], r)[j] # busy[t][i]
      BY <1>3, <3>2, <3>4
    <3>7. queue'[u] = Append(queue[t], r) /\ DOMAIN queue'[u] = 1 .. (k + 1) /\ busy'[u] = busy[t]
      BY <1>1, <1>2, <1>3, <2>2
    <3>8. \A i, j \in DOMAIN queue'[u] : queue'[u][i] = queue'[u][j] => i = j
      BY <3>5, <3>7
    <3>9. \A i \in DOMAIN busy'[u] : i = 1 /\ \A j \in DOMAIN queue'[u] : queue'[u][j] # busy'[u][i]
      BY <3>6, <3>7
    <3> QED
      BY <3>8, <3>9
  <2> QED
    BY <2>1, <2>2
<1>10. \A q \in Reqs : task'[q] # None => req'[q].call \in ToRead \cup ToFocus
  BY <1>2 DEF OwedOnce
<1>11. \A i, j \in DOMAIN performed' : performed'[i] = performed'[j] => i = j
  BY <1>2 DEF OwedOnce
<1> QED
  BY <1>6, <1>8, <1>9, <1>10, <1>11 DEF OwedOnce

LEMMA TakeOwed ==
  ASSUME TypeOK, TypeOK', OwedOnce, NEW t \in Threads, Take(t)
  PROVE  /\ OwedOnce'
         /\ \A q \in Reqs : Owed(q)' <=> Owed(q)
<1>1. queue[t] \in Seq(Reqs) /\ queue[t] # << >> /\ busy[t] = << >>
  BY DEF Take, TypeOK, Idle
<1>2. /\ queue'[t] = Tail(queue[t]) /\ busy'[t] = <<queue[t][1]>>
      /\ \A u \in Threads \ {t} : queue'[u] = queue[u] /\ busy'[u] = busy[u]
      /\ task' = task /\ req' = req /\ performed' = performed
  BY <1>1 DEF Take, TypeOK
<1>3. /\ DOMAIN Tail(queue[t]) = 1 .. (Len(queue[t]) - 1)
      /\ DOMAIN queue[t] = 1 .. Len(queue[t]) /\ Len(queue[t]) \in Nat \ {0}
      /\ \A i \in 1 .. (Len(queue[t]) - 1) : Tail(queue[t])[i] = queue[t][i + 1]
  BY <1>1
<1>4. HeldBy(t)' = HeldBy(t)
  <2>1. ASSUME NEW q \in HeldBy(t)' PROVE q \in HeldBy(t)
    BY <1>2, <1>3 DEF HeldBy
  <2>2. ASSUME NEW q \in HeldBy(t) PROVE q \in HeldBy(t)'
    <3>1. PICK i \in 1 .. Len(queue[t]) : q = queue[t][i]
      BY <1>1, <1>3 DEF HeldBy
    <3>2. CASE i = 1
      BY <1>2, <3>1, <3>2 DEF HeldBy
    <3>3. CASE i # 1
      <4>1. i - 1 \in 1 .. (Len(queue[t]) - 1) /\ (i - 1) + 1 = i
        BY <1>3, <3>3
      <4>2. Tail(queue[t])[i - 1] = q
        BY <1>3, <3>1, <4>1
      <4> QED
        BY <1>2, <1>3, <4>1, <4>2 DEF HeldBy
    <3> QED
      BY <3>2, <3>3
  <2> QED
    BY <2>1, <2>2
<1>5. \A u \in Threads : HeldBy(u)' = HeldBy(u)
  <2>1. \A u \in Threads \ {t} : HeldBy(u)' = HeldBy(u)
    BY <1>2 DEF HeldBy
  <2> QED
    BY <1>4, <2>1
<1>6. \A q \in Reqs : Owed(q)' <=> Owed(q)
  BY <1>2, <1>5 DEF Owed
<1>7. \A u \in Threads : \A q \in HeldBy(u)' :
         req'[q].call \in ToInput \cup ToClip /\ ThreadFor(req'[q].call) = u
  BY <1>2, <1>5 DEF OwedOnce
<1>8. ASSUME NEW u \in Threads
      PROVE  /\ \A i, j \in DOMAIN queue'[u] : queue'[u][i] = queue'[u][j] => i = j
             /\ \A i \in DOMAIN busy'[u] :
                  i = 1 /\ \A j \in DOMAIN queue'[u] : queue'[u][j] # busy'[u][i]
  <2>1. CASE u # t
    BY <1>2, <2>1 DEF OwedOnce
  <2>2. CASE u = t
    <3>1. \A i, j \in 1 .. Len(queue[t]) : queue[t][i] = queue[t][j] => i = j
      BY <1>3 DEF OwedOnce
    <3>2. \A i \in 1 .. (Len(queue[t]) - 1) : i + 1 \in 1 .. Len(queue[t]) /\ i + 1 # 1
      BY <1>3
    <3>3. \A i, j \in 1 .. (Len(queue[t]) - 1) :
             Tail(queue[t])[i] = Tail(queue[t])[j] => i = j
      <4>1. \A i, j \in 1 .. (Len(queue[t]) - 1) : i + 1 = j + 1 => i = j
        OBVIOUS
      <4> QED
        BY <1>3, <3>1, <3>2, <4>1
    <3>4. \A j \in 1 .. (Len(queue[t]) - 1) : Tail(queue[t])[j] # queue[t][1]
      <4>1. 1 \in 1 .. Len(queue[t])
        BY <1>3
      <4> QED
        BY <1>3, <3>1, <3>2, <4>1
    <3>5. DOMAIN <<queue[t][1]>> = {1} /\ <<queue[t][1]>>[1] = queue[t][1]
      OBVIOUS
    <3>6. /\ queue'[u] = Tail(queue[t]) /\ DOMAIN queue'[u] = 1 .. (Len(queue[t]) - 1)
          /\ busy'[u] = <<queue[t][1]>>
      BY <1>1, <1>2, <1>3, <2>2
    <3>7. \A i, j \in DOMAIN queue'[u] : queue'[u][i] = queue'[u][j] => i = j
      BY <3>3, <3>6
    <3>8. \A i \in DOMAIN busy'[u] : i = 1 /\ \A j \in DOMAIN queue'[u] : queue'[u][j] # busy'[u][i]
      BY <3>4, <3>5, <3>6
    <3> QED
      BY <3>7, <3>8
  <2> QED
    BY <2>1, <2>2
<1> QED
  BY <1>2, <1>6, <1>7, <1>8 DEF OwedOnce

DoneDistinct == \A i, j \in DOMAIN performed : performed[i] = performed[j] => i = j

LEMMA DoneMore ==
  ASSUME TypeOK, DoneDistinct, NEW b \in Reqs, ~Done(b), performed' = Append(performed, b)
  PROVE  /\ DoneDistinct'
         /\ \A q \in Reqs : Done(q)' <=> (Done(q) \/ q = b)
<1> DEFINE k == Len(performed)
<1>1. /\ performed \in Seq(Reqs) /\ k \in Nat /\ DOMAIN performed = 1 .. k
      /\ DOMAIN performed' = 1 .. (k + 1) /\ performed'[k + 1] = b
      /\ \A i \in 1 .. k : performed'[i] = performed[i]
  BY DEF TypeOK
<1>2. \A i \in 1 .. k : performed[i] # b
  BY <1>1, DoneIff
<1>3. \A q \in Reqs : Done(q) <=> \E i \in 1 .. k : performed[i] = q
  BY <1>1, DoneIff
<1>4. \A q \in Reqs : Done(q)' <=> \E i \in 1 .. (k + 1) : performed'[i] = q
  BY <1>1 DEF Done, Entries
<1>5. \A q \in Reqs : Done(q)' <=> (Done(q) \/ q = b)
  BY <1>1, <1>3, <1>4
<1>6. ASSUME NEW i \in 1 .. (k + 1), NEW j \in 1 .. (k + 1), performed'[i] = performed'[j]
      PROVE  i = j
  <2>1. CASE i \in 1 .. k /\ j \in 1 .. k
    BY <1>1, <1>6, <2>1 DEF DoneDistinct
  <2>2. CASE i = k + 1 \/ j = k + 1
    BY <1>1, <1>2, <1>6, <2>2
  <2> QED
    BY <1>1, <2>1, <2>2
<1>7. DoneDistinct'
  BY <1>1, <1>6 DEF DoneDistinct
<1> QED
  BY <1>5, <1>7

LEMMA BusyWithOne ==
  ASSUME TypeOK, OwedOnce, NEW t \in Threads, busy[t] # << >>
  PROVE  busy[t][1] \in Reqs /\ busy[t] = <<busy[t][1]>> /\ busy[t][1] \in HeldBy(t)
<1>1. busy[t] \in Seq(Reqs) /\ DOMAIN busy[t] = 1 .. Len(busy[t]) /\ Len(busy[t]) \in Nat
  BY DEF TypeOK
<1>2. Len(busy[t]) # 0
  BY <1>1, EmptySeq
<1>3. Len(busy[t]) \in DOMAIN busy[t]
  BY <1>1, <1>2
<1>4. Len(busy[t]) = 1
  BY <1>3 DEF OwedOnce
<1>5. busy[t] = <<busy[t][1]>>
  BY <1>1, <1>4
<1> QED
  BY <1>1, <1>3, <1>4, <1>5 DEF HeldBy

(* Jobs leave a thread, which then has none under way and at most those it *)
(* had to do.                                                              *)
LEMMA LeaveOnce ==
  ASSUME TypeOK, OwedOnce, NEW t \in Threads, UNCHANGED req,
         busy' = [busy EXCEPT ![t] = << >>],
         queue' \in {queue, [queue EXCEPT ![t] = << >>]},
         \A q \in Reqs : task'[q] \in {None, task[q]},
         DoneDistinct'
  PROVE  OwedOnce'
<1>1. /\ \A u \in Threads : busy'[u] = IF u = t THEN << >> ELSE busy[u]
      /\ \A u \in Threads : queue'[u] \in {queue[u], << >>}
  BY DEF TypeOK
<1>2. ASSUME NEW u \in Threads, NEW q \in HeldBy(u)' PROVE q \in HeldBy(u)
  BY <1>1, <1>2 DEF HeldBy
<1>3. \A u \in Threads : \A q \in HeldBy(u)' :
         req'[q].call \in ToInput \cup ToClip /\ ThreadFor(req'[q].call) = u
  BY <1>2 DEF OwedOnce
<1>4. ASSUME NEW u \in Threads
      PROVE  /\ \A i, j \in DOMAIN queue'[u] : queue'[u][i] = queue'[u][j] => i = j
             /\ \A i \in DOMAIN busy'[u] :
                  i = 1 /\ \A j \in DOMAIN queue'[u] : queue'[u][j] # busy'[u][i]
  <2>1. CASE queue'[u] = << >>
    BY <1>1, <2>1 DEF OwedOnce
  <2>2. CASE queue'[u] = queue[u]
    BY <1>1, <2>2 DEF OwedOnce
  <2> QED
    BY <1>1, <2>1, <2>2
<1>5. \A q \in Reqs : task'[q] # None => req'[q].call \in ToRead \cup ToFocus
  BY DEF OwedOnce
<1> QED
  BY <1>3, <1>4, <1>5 DEF OwedOnce, DoneDistinct

LEMMA WorkOwed ==
  ASSUME TypeOK, OwedOnce, \A q \in Reqs : Owed(q) => ~Done(q),
         NEW t \in Threads, Work(t)
  PROVE  \E b \in HeldBy(t), res \in {"ok", "backend"} \cup Refusals(t), touched \in BOOLEAN :
            /\ b \in Reqs /\ Owed(b) /\ busy[t] = <<b>> /\ OwedOnce'
            /\ res = "ok" => touched
            /\ res \in Refusals(t) => ~touched
            /\ performed' = IF touched THEN Append(performed, b) ELSE performed
            /\ Replies({b}, res)
            /\ \A q \in Reqs : Owed(q)' <=> (Owed(q) /\ q # b)
            /\ \A q \in Reqs : Done(q)' <=> (Done(q) \/ (touched /\ q = b))
<1> DEFINE b == busy[t][1]
<1>1. b \in Reqs /\ busy[t] = <<b>> /\ b \in HeldBy(t)
  BY BusyWithOne DEF Work
<1>2. Owed(b)
  BY <1>1 DEF Owed
<1>3. PICK res \in {"ok", "backend"} \cup Refusals(t), touched \in BOOLEAN :
         /\ res = "ok" => touched
         /\ res \in Refusals(t) => ~touched
         /\ performed' = IF touched THEN performed \o busy[t] ELSE performed
         /\ Replies({b}, res)
  BY DEF Work
<1>4. performed \o busy[t] = Append(performed, b)
  <2>1. performed \in Seq(Reqs)
    BY DEF TypeOK
  <2> QED
    BY <1>1, <2>1, AppendIsConcat
<1>5. DoneDistinct
  BY DEF OwedOnce, DoneDistinct
<1>6. /\ DoneDistinct'
      /\ \A q \in Reqs : Done(q)' <=> (Done(q) \/ (touched /\ q = b))
  <2>1. CASE touched
    BY <1>1, <1>2, <1>3, <1>4, <1>5, <2>1, DoneMore
  <2>2. CASE ~touched
    BY <1>3, <1>5, <2>2, SameDone DEF DoneDistinct
  <2> QED
    BY <2>1, <2>2
<1>7. /\ busy' = [busy EXCEPT ![t] = << >>] /\ queue' = queue /\ task' = task /\ req' = req
      /\ busy'[t] = << >> /\ \A u \in Threads \ {t} : busy'[u] = busy[u]
  BY DEF Work, TypeOK
<1>8. OwedOnce'
  BY <1>6, <1>7, LeaveOnce
<1>9. /\ \A u \in Threads \ {t} : HeldBy(u)' = HeldBy(u)
      /\ HeldBy(t)' = HeldBy(t) \ {b}
  <2>1. \A u \in Threads \ {t} : HeldBy(u)' = HeldBy(u)
    BY <1>7 DEF HeldBy
  <2>2. \A q : q \in HeldBy(t)' <=> \E i \in DOMAIN queue[t] : q = queue[t][i]
    BY <1>7 DEF HeldBy
  <2>3. \A q : q \in HeldBy(t) <=> q = b \/ \E i \in DOMAIN queue[t] : q = queue[t][i]
    <3>1. \E c : c = b
      OBVIOUS
    <3>2. PICK c : c = b
      BY <3>1
    <3>3. busy[t] = <<c>> /\ DOMAIN <<c>> = {1} /\ <<c>>[1] = c
      BY <1>1, <3>2
    <3>4. {busy[t][i] : i \in DOMAIN busy[t]} = {c}
      <4>1. {<<c>>[i] : i \in {1}} = {<<c>>[1]}
        OBVIOUS
      <4> QED
        BY <3>3, <4>1
    <3>5. HeldBy(t) = {queue[t][i] : i \in DOMAIN queue[t]} \cup {c}
      BY <3>4, Zenon DEF HeldBy
    <3>6. \A q : q \in {queue[t][i] : i \in DOMAIN queue[t]} <=> \E i \in DOMAIN queue[t] : q = queue[t][i]
      OBVIOUS
    <3>7. \A q : q \in HeldBy(t) <=> q = c \/ \E i \in DOMAIN queue[t] : q = queue[t][i]
      BY <3>5, <3>6, Zenon
    <3> QED
      BY <3>2, <3>7, Zenon
  <2>4. \A i \in DOMAIN queue[t] : queue[t][i] # b
    BY <1>1 DEF OwedOnce
  <2> QED
    BY <2>1, <2>2, <2>3, <2>4
<1>10. \A u \in Threads \ {t} : b \notin HeldBy(u)
  BY <1>1 DEF OwedOnce
<1>11. task[b] = None
  BY <1>1 DEF OwedOnce, ToInput, ToClip, ToRead, ToFocus
<1>12. \A q \in Reqs : Owed(q)' <=> (Owed(q) /\ q # b)
  BY <1>1, <1>7, <1>9, <1>10, <1>11 DEF Owed
<1> HIDE DEF b
<1> QED
  BY <1>1, <1>2, <1>3, <1>4, <1>6, <1>8, <1>12

LEMMA PanicOwed ==
  ASSUME TypeOK, OwedOnce, NEW t \in Threads, Panic(t)
  PROVE  /\ OwedOnce' /\ Replies(HeldBy(t), "backend")
         /\ \A q \in Reqs : Owed(q)' <=> (Owed(q) /\ q \notin HeldBy(t))
<1>1. /\ busy' = [busy EXCEPT ![t] = << >>] /\ queue' = [queue EXCEPT ![t] = << >>]
      /\ task' = task /\ req' = req /\ performed' = performed
      /\ busy'[t] = << >> /\ queue'[t] = << >>
      /\ \A u \in Threads \ {t} : busy'[u] = busy[u] /\ queue'[u] = queue[u]
  BY DEF Panic, TypeOK
<1>2. DoneDistinct'
  BY <1>1 DEF OwedOnce, DoneDistinct
<1>3. OwedOnce'
  BY <1>1, <1>2, LeaveOnce
<1>4. busy[t] = <<busy[t][1]>>
  BY BusyWithOne DEF Panic
<1>5. HeldBy(t) = {busy[t][1]} \cup {queue[t][i] : i \in DOMAIN queue[t]}
  BY <1>4 DEF HeldBy
<1>6. Replies(HeldBy(t), "backend")
  BY <1>5 DEF Panic
<1>7. HeldBy(t)' = {} /\ \A u \in Threads \ {t} : HeldBy(u)' = HeldBy(u)
  BY <1>1 DEF HeldBy
<1>8. ASSUME NEW q \in HeldBy(t)
      PROVE  task[q] = None /\ \A u \in Threads \ {t} : q \notin HeldBy(u)
  BY <1>8, HeldInReqs DEF OwedOnce, ToInput, ToClip, ToRead, ToFocus
<1>9. \A q \in Reqs : Owed(q)' <=> (Owed(q) /\ q \notin HeldBy(t))
  BY <1>1, <1>7, <1>8 DEF Owed
<1> QED
  BY <1>3, <1>6, <1>9

LEMMA RunTaskOwed ==
  ASSUME TypeOK, OwedOnce, \A q \in Reqs : Owed(q) => ~Done(q),
         NEW r \in Reqs, RunTask(r)
  PROVE  \E res \in {"ok"} \cup TaskErrors, touched \in BOOLEAN :
            /\ Owed(r) /\ OwedOnce'
            /\ res = "ok" => touched
            /\ Replies({r}, res)
            /\ \A q \in Reqs : Owed(q)' <=> (Owed(q) /\ q # r)
            /\ \A q \in Reqs : Done(q)' <=> (Done(q) \/ (touched /\ task[r] # "list" /\ q = r))
<1>1. PICK res \in {"ok"} \cup TaskErrors, touched \in BOOLEAN :
         /\ res = "ok" => touched
         /\ performed' = IF touched /\ task[r] # "list" THEN Append(performed, r) ELSE performed
         /\ Replies({r}, res)
  BY DEF RunTask
<1>2. Owed(r) /\ DoneDistinct
  BY DEF RunTask, Owed, OwedOnce, DoneDistinct
<1>3. /\ DoneDistinct'
      /\ \A q \in Reqs : Done(q)' <=> (Done(q) \/ (touched /\ task[r] # "list" /\ q = r))
  <2>1. CASE touched /\ task[r] # "list"
    BY <1>1, <1>2, <2>1, DoneMore
  <2>2. CASE ~(touched /\ task[r] # "list")
    BY <1>1, <1>2, <2>2, SameDone DEF DoneDistinct
  <2> QED
    BY <2>1, <2>2
<1>4. /\ busy' = busy /\ queue' = queue /\ req' = req
      /\ \A q \in Reqs : task'[q] = IF q = r THEN None ELSE task[q]
  BY DEF RunTask, TypeOK
<1>5. \A t \in Threads : HeldBy(t)' = HeldBy(t) /\ r \notin HeldBy(t)
  BY <1>4 DEF HeldBy, RunTask, OwedOnce, ToInput, ToClip, ToRead, ToFocus
<1>6. \A q \in Reqs : Owed(q)' <=> (Owed(q) /\ q # r)
  BY <1>4, <1>5 DEF Owed
<1>7. OwedOnce'
  BY <1>3, <1>4, <1>5 DEF OwedOnce, DoneDistinct, ThreadFor
<1> QED
  BY <1>1, <1>2, <1>3, <1>6, <1>7

LEMMA EndOwed ==
  ASSUME TypeOK, OwedOnce, End
  PROVE  OwedOnce' /\ \A q \in Reqs : ~Owed(q)'
<1>1. /\ \A t \in Threads : queue'[t] = << >> /\ busy'[t] = << >>
      /\ \A q \in Reqs : task'[q] = None
      /\ performed' = performed
  BY DEF End
<1>2. \A t \in Threads : HeldBy(t)' = {}
  BY <1>1 DEF HeldBy
<1> QED
  BY <1>1, <1>2 DEF OwedOnce, Owed

-----------------------------------------------------------------------------
LEMMA StaysAccounted ==
  ASSUME NEW q \in Reqs, Accounted(q),
         UNCHANGED <<stage[q], req[q], task[q], reply[q], answer[q]>>,
         Owed(q)' <=> Owed(q), Done(q)' <=> Done(q)
  PROVE  Accounted(q)'
BY DEF Accounted, IsRefusal, Check

LEMMA AnswerMeans ==
  /\ \A res \in {"ok"} \cup Errors :
       /\ AnswerOf(res).status = 200 <=> res = "ok"
       /\ IsRefusal(Check(AnswerOf(res))) => res \in RefusedByThread
       /\ res # "ok" => AnswerOf(res) = ErrorAnswer(res)
  /\ \A e \in Refused : ErrorAnswer(e).status = 403
  /\ Misdirected.status = 421
  /\ ErrorAnswer("backend").status = 500 /\ ~IsRefusal(Check(ErrorAnswer("backend")))
BY DEF AnswerOf, Plain, ErrorAnswer, StatusOf, Errors, Refused, Check, IsRefusal,
       RefusedByThread, None, Misdirected

(* A request that is answered: what it is told agrees with what was done.  *)
LEMMA CloseAccounted ==
  ASSUME EntitledInv, AllAccounted, NEW r \in Reqs, NEW a \in Answers, Close(r, a),
         \A q \in Reqs \ {r} : req'[q] = req[q],
         UNCHANGED <<task, reply, queue, busy, performed>>,
         Owed(r) => req'[r] = req[r], task[r] # "list",
         req'[r].call \in Gated =>
           /\ Owed(r) => req'[r].call \in ToClip /\ a = ErrorAnswer("backend")
           /\ a.status = 200 => Done(r)
           /\ IsRefusal(Check(a)) => ~Done(r) /\ ~Owed(r)
  PROVE  AllAccounted'
<1>1. TypeOK /\ OwedOnce /\ \A q \in Reqs : Accounted(q)
  BY DEF EntitledInv, AllAccounted
<1>2. /\ \A q \in Reqs : Owed(q)' <=> Owed(q)
      /\ \A q \in Reqs : Done(q)' <=> Done(q)
  BY SameOwed, SameDone
<1>3. OwedOnce'
  <2>1. \A q \in Reqs : task'[q] # None => req'[q].call \in ToRead \cup ToFocus
    BY <1>1 DEF Owed, OwedOnce
  <2> QED
    BY <1>1, <2>1, SameOnce
<1>4. /\ stage'[r] = "answered" /\ answer'[r] = a
      /\ \A q \in Reqs \ {r} : stage'[q] = stage[q] /\ answer'[q] = answer[q]
  BY <1>1, CloseType
<1>5. \A q \in Reqs \ {r} : Accounted(q)'
  BY <1>1, <1>2, <1>4, StaysAccounted
<1>6. Owed(r) => ~Done(r)
  BY <1>1 DEF Accounted
<1>7. Accounted(r)'
  BY <1>2, <1>4, <1>6 DEF Accounted, IsRefusal, Check
<1> QED
  BY <1>3, <1>5, <1>7 DEF AllAccounted

(* The same for an operation that was awaited, whose result is res.        *)
LEMMA FinishAccounted ==
  ASSUME EntitledInv, AllAccounted, NEW r \in Reqs, NEW res \in {"ok"} \cup Errors,
         Finish(r, res), UNCHANGED <<req, task, reply, queue, busy, performed>>,
         task[r] # "list",
         Owed(r) => req[r].call \in ToClip /\ res = "backend",
         res = "ok" => Done(r),
         res \in RefusedByThread => ~Done(r) /\ ~Owed(r)
  PROVE  AllAccounted'
<1>1. Close(r, AnswerOf(res)) /\ AnswerOf(res) \in Answers
  BY AnswerType DEF Finish
<1>2. /\ AnswerOf(res).status = 200 => Done(r)
      /\ IsRefusal(Check(AnswerOf(res))) => ~Done(r) /\ ~Owed(r)
      /\ Owed(r) => AnswerOf(res) = ErrorAnswer("backend")
  BY AnswerMeans
<1> HIDE DEF AnswerOf
<1> QED
  BY <1>1, <1>2, CloseAccounted

LEMMA RefusalAccounted ==
  ASSUME EntitledInv, AllAccounted, NEW r \in Reqs,
         WhoisFails(r) \/ Unlisted(r) \/ NotGated(r) \/ Forbidden(r)
  PROVE  AllAccounted'
<1>1. /\ stage[r] = "whois" /\ UNCHANGED <<req, task, reply, queue, busy, performed>>
      /\ Accounted(r)
  BY DEF WhoisFails, Unlisted, NotGated, Forbidden, Identified, Process, Jobs, AllAccounted
<1>2. ~Owed(r) /\ ~Done(r) /\ task[r] # "list"
  BY <1>1 DEF Accounted
<1>3. CASE NotGated(r)
  <2>1. PICK a \in Answers : Close(r, a)
    BY <1>3, AnswerType DEF NotGated
  <2>2. req'[r].call \notin Gated
    BY <1>1, <1>3 DEF NotGated, Ungated, Gated, ToRead, ToInput, ToFocus, ToClip
  <2> QED
    BY <1>1, <1>2, <2>1, <2>2, CloseAccounted
<1>4. CASE WhoisFails(r) \/ Unlisted(r) \/ Forbidden(r)
  <2>1. PICK a \in Answers : Close(r, a) /\ a.status # 200
    <3>1. \A e \in Refused \cup {"backend"} :
             ErrorAnswer(e) \in Answers /\ ErrorAnswer(e).status # 200
      BY AnswerMeans, AnswerType DEF AnswerOf, Errors
    <3> QED
      BY <1>4, <3>1 DEF WhoisFails, Unlisted, Forbidden, Refused
  <2> QED
    BY <1>1, <1>2, <2>1, CloseAccounted
<1> QED
  BY <1>3, <1>4

(* Threads, queues and tasks stay; a request moves on to another stage.    *)
LEMMA MoveAccounted ==
  ASSUME EntitledInv, AllAccounted, NEW r \in Reqs, NEW s,
         stage' = [stage EXCEPT ![r] = s],
         UNCHANGED <<req, task, reply, queue, busy, performed, answer>>,
         Accounted(r)'
  PROVE  AllAccounted'
<1>1. TypeOK /\ OwedOnce /\ \A q \in Reqs : Accounted(q)
  BY DEF EntitledInv, AllAccounted
<1>2. /\ \A q \in Reqs : Owed(q)' <=> Owed(q)
      /\ \A q \in Reqs : Done(q)' <=> Done(q)
  BY SameOwed, SameDone
<1>3. OwedOnce'
  BY <1>1, SameOnce DEF OwedOnce
<1>4. \A q \in Reqs \ {r} : stage'[q] = stage[q]
  BY <1>1 DEF TypeOK
<1>5. \A q \in Reqs \ {r} : Accounted(q)'
  BY <1>1, <1>2, <1>4, StaysAccounted
<1> QED
  BY <1>3, <1>5 DEF AllAccounted

(* A handler that waits for a task, but not for a thread, is owed nothing   *)
(* else.                                                                   *)
LEMMA OwedByTask ==
  ASSUME TypeOK, OwedOnce, NEW r \in Reqs, req[r].call \in ToRead \cup ToFocus
  PROVE  Owed(r) <=> task[r] # None
BY DEF Owed, OwedOnce, ToInput, ToClip, ToRead, ToFocus

LEMMA ArriveAccounted ==
  ASSUME EntitledInv, EntitledInv', AllAccounted, NEW r \in Reqs, NEW call \in Calls,
         NEW from \in Callers, NEW ours \in BOOLEAN, Arrive(r, call, from, ours)
  PROVE  AllAccounted'
<1>1. TypeOK /\ OwedOnce /\ \A q \in Reqs : Accounted(q)
  BY DEF EntitledInv, AllAccounted
<1>2. /\ stage[r] = "new" /\ UNCHANGED <<task, reply, queue, busy, performed>>
      /\ \A q \in Reqs \ {r} : req'[q] = req[q]
  BY <1>1 DEF Arrive, Process, Jobs, TypeOK
<1>3. ~Owed(r) /\ ~Done(r) /\ task[r] # "list" /\ reply[r] = None /\ answer[r] = Unanswered
  BY <1>1, <1>2 DEF Accounted
<1>4. CASE Close(r, Misdirected)
  BY <1>2, <1>3, <1>4, AnswerType, AnswerMeans, CloseAccounted
<1>5. CASE stage' = [stage EXCEPT ![r] = "whois"] /\ UNCHANGED <<answer, lines>>
  <2>1. /\ \A q \in Reqs : Owed(q)' <=> Owed(q)
        /\ \A q \in Reqs : Done(q)' <=> Done(q)
    BY <1>2, SameOwed, SameDone
  <2>2. OwedOnce'
    <3>1. \A q \in Reqs : task'[q] # None => req'[q].call \in ToRead \cup ToFocus
      BY <1>1, <1>2, <1>3 DEF Owed, OwedOnce
    <3> QED
      BY <1>1, <1>2, <1>3, <3>1, SameOnce
  <2>3. /\ stage'[r] = "whois" /\ \A q \in Reqs \ {r} : stage'[q] = stage[q]
    BY <1>1, <1>5 DEF TypeOK
  <2>4. \A q \in Reqs \ {r} : Accounted(q)'
    BY <1>1, <1>2, <1>5, <2>1, <2>3, StaysAccounted
  <2>5. Accounted(r)'
    BY <1>2, <1>3, <1>5, <2>1, <2>3 DEF Accounted
  <2> QED
    BY <2>2, <2>4, <2>5 DEF AllAccounted
<1> QED
  BY <1>4, <1>5 DEF Arrive

LEMMA SpawnAccounted ==
  ASSUME EntitledInv, EntitledInv', AllAccounted, NEW r \in Reqs,
         Spawn(r) \/ FocusGoesOn(r)
  PROVE  AllAccounted'
<1>1. TypeOK /\ OwedOnce /\ \A q \in Reqs : Accounted(q)
  BY DEF EntitledInv, AllAccounted
<1>2. /\ UNCHANGED <<req, queue, busy, performed, answer>>
      /\ \A q \in Reqs \ {r} : stage'[q] = stage[q] /\ task'[q] = task[q] /\ reply'[q] = reply[q]
      /\ reply'[r] = None /\ stage'[r] # "answered"
      /\ \/ stage'[r] = "waiting" /\ task'[r] = "read" /\ req[r].call \in ToRead
         \/ stage'[r] = "listing" /\ task'[r] = "list" /\ req[r].call \in ToFocus
         \/ stage'[r] = "waiting" /\ task'[r] = "focus" /\ req[r].call \in ToFocus
  <2>1. CASE Spawn(r)
    BY <1>1, <2>1 DEF Spawn, TypeOK, Process, Jobs, Cleared, Identified, Accounted
  <2>2. CASE FocusGoesOn(r)
    BY <1>1, <2>2 DEF FocusGoesOn, WindowsListed, TypeOK, Process, Jobs, Accounted
  <2> QED
    BY <2>1, <2>2
<1>3. ~Done(r) /\ answer[r] = Unanswered
  BY <1>1 DEF Accounted, Spawn, Cleared, Identified, FocusGoesOn, WindowsListed
<1>4. \A q \in Reqs : Done(q)' <=> Done(q)
  BY <1>2, SameDone
<1>5. OwedOnce'
  <2>1. \A q \in Reqs : task'[q] # None => req'[q].call \in ToRead \cup ToFocus
    BY <1>1, <1>2 DEF OwedOnce
  <2> QED
    BY <1>1, <1>2, <2>1, SameOnce
<1>6. \A q \in Reqs \ {r} : Owed(q)' <=> Owed(q)
  BY <1>2 DEF Owed, HeldBy
<1>7. \A q \in Reqs \ {r} : Accounted(q)'
  BY <1>1, <1>2, <1>4, <1>6, StaysAccounted
<1>8. Accounted(r)'
  BY <1>2, <1>3, <1>4 DEF Accounted, None, RefusedByThread, Gated
<1> QED
  BY <1>5, <1>7, <1>8 DEF AllAccounted

LEMMA EnqueueAccounted ==
  ASSUME EntitledInv, EntitledInv', AllAccounted, NEW r \in Reqs, Enqueue(r)
  PROVE  AllAccounted'
<1>1. TypeOK /\ TypeOK' /\ OwedOnce /\ \A q \in Reqs : Accounted(q)
  BY DEF EntitledInv, AllAccounted
<1>2. stage[r] = "whois" /\ req[r].call \in Gated
  BY DEF Enqueue, Cleared, Identified
<1>3. ~Owed(r) /\ ~Done(r) /\ task[r] # "list" /\ reply[r] = None /\ answer[r] = Unanswered
  BY <1>1, <1>2 DEF Accounted
<1>4. OwedOnce' /\ \A q \in Reqs : Owed(q)' <=> (Owed(q) \/ q = r)
  BY <1>1, <1>3, EnqueueOwed
<1>5. /\ \A q \in Reqs : Done(q)' <=> Done(q)
      /\ stage'[r] = "waiting" /\ \A q \in Reqs \ {r} : stage'[q] = stage[q]
      /\ req' = req /\ task' = task /\ reply' = reply /\ answer' = answer
  BY <1>1, SameDone DEF Enqueue, TypeOK
<1>6. \A q \in Reqs \ {r} : Accounted(q)'
  BY <1>1, <1>4, <1>5, StaysAccounted
<1>7. Accounted(r)'
  BY <1>2, <1>3, <1>4, <1>5 DEF Accounted, None, RefusedByThread
<1> QED
  BY <1>4, <1>6, <1>7 DEF AllAccounted

LEMMA TakeAccounted ==
  ASSUME EntitledInv, EntitledInv', AllAccounted, NEW t \in Threads, Take(t)
  PROVE  AllAccounted'
<1>1. TypeOK /\ TypeOK' /\ OwedOnce /\ \A q \in Reqs : Accounted(q)
  BY DEF EntitledInv, AllAccounted
<1>2. OwedOnce' /\ \A q \in Reqs : Owed(q)' <=> Owed(q)
  BY <1>1, TakeOwed
<1>3. /\ \A q \in Reqs : Done(q)' <=> Done(q)
      /\ UNCHANGED <<stage, req, task, reply, answer>>
  BY SameDone DEF Take
<1> QED
  BY <1>1, <1>2, <1>3, StaysAccounted DEF AllAccounted

LEMMA WorkAccounted ==
  ASSUME EntitledInv, EntitledInv', AllAccounted, NEW t \in Threads, Work(t)
  PROVE  AllAccounted'
<1>1. TypeOK /\ TypeOK' /\ OwedOnce /\ \A q \in Reqs : Accounted(q)
  BY DEF EntitledInv, AllAccounted
<1>2. \A q \in Reqs : Owed(q) => ~Done(q)
  BY <1>1 DEF Accounted
<1>3. PICK b \in HeldBy(t), res \in {"ok", "backend"} \cup Refusals(t), touched \in BOOLEAN :
         /\ b \in Reqs /\ Owed(b) /\ busy[t] = <<b>> /\ OwedOnce'
         /\ res = "ok" => touched
         /\ res \in Refusals(t) => ~touched
         /\ performed' = IF touched THEN Append(performed, b) ELSE performed
         /\ Replies({b}, res)
         /\ \A q \in Reqs : Owed(q)' <=> (Owed(q) /\ q # b)
         /\ \A q \in Reqs : Done(q)' <=> (Done(q) \/ (touched /\ q = b))
  BY <1>1, <1>2, WorkOwed
<1>4. /\ UNCHANGED <<stage, req, task, answer>>
      /\ \A q \in Reqs \ {b} : reply'[q] = reply[q]
      /\ reply'[b] = IF stage[b] \in Open THEN res ELSE reply[b]
  BY <1>1, <1>3 DEF Work, Replies
<1>5. \A q \in Reqs \ {b} : Accounted(q)'
  BY <1>1, <1>3, <1>4, StaysAccounted
<1>6. req[b].call \in ToInput \cup ToClip /\ req[b].call \notin ToRead \cup ToFocus
  BY <1>1, <1>3 DEF OwedOnce, ToInput, ToClip, ToRead, ToFocus
<1>7. task[b] = None /\ ~Done(b) /\ Accounted(b)
  BY <1>1, <1>2, <1>3, <1>6 DEF OwedOnce
<1>8. stage[b] \in {"waiting", "answered", "dropped"}
  BY <1>1, <1>3, <1>6, <1>7 DEF Accounted, TypeOK, Open, Closed
<1>9. res \in RefusedByThread => ~touched
  BY <1>3 DEF RefusedByThread, Refusals
<1>10. ~Owed(b)' /\ (Done(b)' <=> touched)
  BY <1>3, <1>7
<1>11. CASE stage[b] = "waiting"
  <2>1. reply'[b] = res /\ stage'[b] = "waiting" /\ answer'[b] = Unanswered /\ task'[b] = None
    BY <1>4, <1>7, <1>11 DEF Open, Accounted
  <2> QED
    BY <1>3, <1>4, <1>5, <1>6, <1>9, <1>10, <2>1 DEF Accounted, AllAccounted, Gated, None
<1>12. CASE stage[b] = "answered"
  <2>1. /\ answer'[b] = ErrorAnswer("backend") /\ stage'[b] = "answered" /\ task'[b] = None
    BY <1>3, <1>4, <1>6, <1>7, <1>12 DEF Accounted, Gated
  <2>2. ErrorAnswer("backend").status # 200 /\ ~IsRefusal(Check(ErrorAnswer("backend")))
    BY AnswerMeans
  <2>3. ~IsRefusal(Check(answer'[b])) /\ answer'[b].status # 200
    BY <2>1, <2>2
  <2>4. Accounted(b)'
    BY <1>10, <2>1, <2>3 DEF Accounted, None, IsRefusal, Check
  <2> QED
    BY <1>3, <1>5, <2>4 DEF AllAccounted
<1>13. CASE stage[b] = "dropped"
  <2>1. stage'[b] = "dropped" /\ answer'[b] = Unanswered /\ task'[b] = None
    BY <1>4, <1>7, <1>13 DEF Accounted
  <2>2. Accounted(b)'
    BY <1>10, <2>1 DEF Accounted, None
  <2> QED
    BY <1>3, <1>5, <2>2 DEF AllAccounted
<1> QED
  BY <1>8, <1>11, <1>12, <1>13

LEMMA PanicAccounted ==
  ASSUME EntitledInv, EntitledInv', AllAccounted, NEW t \in Threads, Panic(t)
  PROVE  AllAccounted'
<1>1. TypeOK /\ OwedOnce /\ \A q \in Reqs : Accounted(q)
  BY DEF EntitledInv, AllAccounted
<1>2. /\ OwedOnce' /\ Replies(HeldBy(t), "backend")
      /\ \A q \in Reqs : Owed(q)' <=> (Owed(q) /\ q \notin HeldBy(t))
  BY <1>1, PanicOwed
<1>3. /\ \A q \in Reqs : Done(q)' <=> Done(q)
      /\ UNCHANGED <<stage, req, task, answer>>
  BY SameDone DEF Panic
<1>4. \A q \in Reqs : reply'[q] = IF q \in HeldBy(t) /\ stage[q] \in Open THEN "backend" ELSE reply[q]
  BY <1>2 DEF Replies
<1>5. ASSUME NEW q \in Reqs, q \notin HeldBy(t)
      PROVE  Accounted(q)'
  BY <1>1, <1>2, <1>3, <1>4, <1>5, StaysAccounted
<1>6. ASSUME NEW q \in Reqs, q \in HeldBy(t)
      PROVE  Accounted(q)'
  <2>1. Owed(q) /\ ~Done(q) /\ Accounted(q) /\ stage[q] \notin {"new", "whois"}
    BY <1>1, <1>6 DEF Owed, Accounted
  <2>2. /\ req[q].call \in ToInput \cup ToClip /\ req[q].call \notin ToRead \cup ToFocus
        /\ task[q] = None
    BY <1>1, <1>6 DEF OwedOnce, ToInput, ToClip, ToRead, ToFocus
  <2>3. ~Owed(q)' /\ ~Done(q)'
    BY <1>2, <1>3, <1>6, <2>1
  <2>4. stage[q] = "waiting" => reply'[q] = "backend"
    BY <1>4, <1>6 DEF Open
  <2>5. stage[q] # "listing"
    BY <2>1, <2>2 DEF Accounted
  <2> QED
    BY <1>3, <2>1, <2>2, <2>3, <2>4, <2>5 DEF Accounted, IsRefusal, Check, RefusedByThread, None
<1> QED
  BY <1>2, <1>5, <1>6 DEF AllAccounted

LEMMA RunTaskAccounted ==
  ASSUME EntitledInv, EntitledInv', AllAccounted, NEW r \in Reqs, RunTask(r)
  PROVE  AllAccounted'
<1>1. TypeOK /\ OwedOnce /\ \A q \in Reqs : Accounted(q)
  BY DEF EntitledInv, AllAccounted
<1>2. \A q \in Reqs : Owed(q) => ~Done(q)
  BY <1>1 DEF Accounted
<1>3. PICK res \in {"ok"} \cup TaskErrors, touched \in BOOLEAN :
         /\ Owed(r) /\ OwedOnce'
         /\ res = "ok" => touched
         /\ Replies({r}, res)
         /\ \A q \in Reqs : Owed(q)' <=> (Owed(q) /\ q # r)
         /\ \A q \in Reqs : Done(q)' <=> (Done(q) \/ (touched /\ task[r] # "list" /\ q = r))
  BY <1>1, <1>2, RunTaskOwed
<1>4. /\ UNCHANGED <<stage, req, answer>>
      /\ \A q \in Reqs \ {r} : reply'[q] = reply[q] /\ task'[q] = task[q]
      /\ reply'[r] = IF stage[r] \in Open THEN res ELSE reply[r]
      /\ task'[r] = None /\ task[r] # None
  BY <1>1, <1>3 DEF RunTask, Replies, TypeOK
<1>5. \A q \in Reqs \ {r} : Accounted(q)'
  BY <1>1, <1>3, <1>4, StaysAccounted
<1>6. req[r].call \in ToRead \cup ToFocus /\ req[r].call \notin ToClip /\ Accounted(r)
  BY <1>1, <1>4 DEF OwedOnce, ToInput, ToClip, ToRead, ToFocus
<1>7. /\ stage[r] \in {"listing", "waiting", "dropped"} \cup {"answered"} /\ ~Done(r)
      /\ stage[r] = "answered" => req[r].call \notin Gated
  BY <1>1, <1>3, <1>6 DEF Accounted, TypeOK, Open, Closed
<1>8. /\ stage[r] = "listing" => task[r] = "list"
      /\ stage[r] = "waiting" => task[r] # "list"
  BY <1>4, <1>6 DEF Accounted
<1>9. /\ ~Owed(r)'
      /\ Done(r)' <=> touched /\ task[r] # "list"
  BY <1>3, <1>7
<1>10. res # None /\ res \notin RefusedByThread
  BY <1>3 DEF TaskErrors, None, RefusedByThread
<1>11. CASE stage[r] = "listing"
  BY <1>3, <1>4, <1>5, <1>6, <1>8, <1>9, <1>10, <1>11 DEF Accounted, AllAccounted, Open, None
<1>12. CASE stage[r] = "waiting"
  BY <1>3, <1>4, <1>5, <1>6, <1>8, <1>9, <1>10, <1>12 DEF Accounted, AllAccounted, Open, None
<1>13. CASE stage[r] \in {"dropped", "answered"}
  BY <1>3, <1>4, <1>5, <1>6, <1>7, <1>9, <1>13 DEF Accounted, AllAccounted, None
<1> QED
  BY <1>7, <1>11, <1>12, <1>13

LEMMA EndAccounted ==
  ASSUME EntitledInv, EntitledInv', AllAccounted, End
  PROVE  AllAccounted'
<1>1. TypeOK /\ OwedOnce /\ \A q \in Reqs : Accounted(q)
  BY DEF EntitledInv, AllAccounted
<1>2. OwedOnce' /\ \A q \in Reqs : ~Owed(q)'
  BY <1>1, EndOwed
<1>3. /\ \A q \in Reqs : stage'[q] = IF stage[q] \in Open THEN "dropped" ELSE stage[q]
      /\ \A q \in Reqs : task'[q] = None
      /\ \A q \in Reqs : Done(q)' <=> Done(q)
      /\ UNCHANGED <<req, reply, answer>>
  BY SameDone DEF End
<1>4. \A q \in Reqs : stage'[q] \notin {"whois", "listing", "waiting"}
  BY <1>3 DEF Open
<1>5. ASSUME NEW q \in Reqs PROVE Accounted(q)'
  <2>1. Accounted(q) /\ ~Owed(q)' /\ (Done(q)' <=> Done(q)) /\ task'[q] = None
    BY <1>1, <1>2, <1>3
  <2>2. CASE stage[q] \in Open
    <3>1. stage'[q] = "dropped" /\ answer'[q] = Unanswered
      BY <1>3, <2>1, <2>2 DEF Accounted, Open
    <3> QED
      BY <2>1, <3>1 DEF Accounted, None
  <2>3. CASE stage[q] \notin Open
    <3>1. stage'[q] = stage[q] /\ stage[q] \notin {"listing", "waiting"}
      BY <1>3, <2>3 DEF Open
    <3> QED
      BY <1>3, <2>1, <3>1 DEF Accounted, None, IsRefusal, Check
  <2> QED
    BY <2>2, <2>3
<1> QED
  BY <1>2, <1>5 DEF AllAccounted

LEMMA InitAccounted == Init => AllAccounted
<1> SUFFICES ASSUME Init PROVE AllAccounted
  OBVIOUS
<1>1. \A t \in Threads : HeldBy(t) = {}
  BY DEF Init, HeldBy
<1>2. \A q \in Reqs : ~Owed(q) /\ ~Done(q)
  BY <1>1 DEF Init, Owed, Done, Entries
<1>3. OwedOnce
  BY <1>1 DEF Init, OwedOnce
<1>4. \A q \in Reqs : Accounted(q)
  BY <1>2 DEF Init, Accounted, None
<1> QED
  BY <1>3, <1>4 DEF AllAccounted

LEMMA NextAccounted ==
  ASSUME EntitledInv, EntitledInv', AllAccounted, [Next]_vars
  PROVE  AllAccounted'
<1>1. TypeOK /\ OwedOnce /\ \A q \in Reqs : Accounted(q)
  BY DEF EntitledInv, AllAccounted
<1>2. CASE Start \/ Interrupt \/ UNCHANGED vars
  <2>1. UNCHANGED <<stage, req, task, reply, queue, busy, answer, performed>>
    BY <1>2 DEF Start, Interrupt, vars, Jobs
  <2>2. \A q \in Reqs : (Owed(q)' <=> Owed(q)) /\ (Done(q)' <=> Done(q))
    BY <2>1, SameOwed, SameDone
  <2>3. OwedOnce'
    BY <1>1, <2>1, SameOnce DEF OwedOnce
  <2> QED
    BY <1>1, <2>1, <2>2, <2>3, StaysAccounted DEF AllAccounted
<1>3. CASE Exit \/ Kill
  BY <1>3, EndAccounted DEF Exit, Kill
<1>4. ASSUME NEW r \in Reqs, NEW call \in Calls, NEW from \in Callers, NEW ours \in BOOLEAN,
             Arrive(r, call, from, ours)
      PROVE  AllAccounted'
  BY <1>4, ArriveAccounted
<1>5. ASSUME NEW r \in Reqs, WhoisFails(r) \/ Unlisted(r) \/ NotGated(r) \/ Forbidden(r)
      PROVE  AllAccounted'
  BY <1>5, RefusalAccounted
<1>6. ASSUME NEW r \in Reqs, FailsAtOnce(r) PROVE AllAccounted'
  <2>1. ~Owed(r) /\ task[r] # "list"
    BY <1>1, <1>6 DEF FailsAtOnce, Cleared, Identified, Accounted
  <2>2. /\ Finish(r, "backend") /\ UNCHANGED <<req, task, reply, queue, busy, performed>>
        /\ "backend" \in Errors /\ "backend" \notin RefusedByThread
    BY <1>6 DEF FailsAtOnce, Process, Jobs, Errors, RefusedByThread
  <2> QED
    BY <2>1, <2>2, FinishAccounted
<1>7. ASSUME NEW r \in Reqs, Spawn(r) \/ FocusGoesOn(r) PROVE AllAccounted'
  BY <1>7, SpawnAccounted
<1>8. ASSUME NEW r \in Reqs, Enqueue(r) PROVE AllAccounted'
  BY <1>8, EnqueueAccounted
<1>9. ASSUME NEW r \in Reqs, RunTask(r) PROVE AllAccounted'
  BY <1>9, RunTaskAccounted
<1>10. ASSUME NEW r \in Reqs, FocusEnds(r) PROVE AllAccounted'
  <2>1. PICK res \in {"not_found", "unsupported"} \cup TaskErrors : Finish(r, res)
    BY <1>10 DEF FocusEnds
  <2>2. /\ stage[r] = "listing" /\ reply[r] # None
        /\ UNCHANGED <<req, task, reply, queue, busy, performed>>
    BY <1>10 DEF FocusEnds, WindowsListed, Process, Jobs
  <2>3. task[r] = None /\ ~Done(r) /\ req[r].call \in ToFocus
    BY <1>1, <2>2 DEF Accounted
  <2>4. ~Owed(r)
    BY <1>1, <2>3, OwedByTask
  <2>5. res \in Errors /\ res # "ok" /\ task[r] # "list"
    BY <2>3 DEF TaskErrors, Errors, None
  <2> QED
    BY <2>1, <2>2, <2>3, <2>4, <2>5, FinishAccounted
<1>11. ASSUME NEW r \in Reqs, Resume(r) PROVE AllAccounted'
  <2>1. /\ stage[r] = "waiting" /\ reply[r] # None /\ Finish(r, reply[r])
        /\ UNCHANGED <<req, task, reply, queue, busy, performed>>
    BY <1>11 DEF Resume, Process, Jobs
  <2>2. /\ ~Owed(r) /\ task[r] # "list"
        /\ reply[r] = "ok" => Done(r)
        /\ reply[r] \in RefusedByThread => ~Done(r)
    BY <1>1, <2>1 DEF Accounted
  <2>3. reply[r] \in {"ok"} \cup Errors
    BY <1>1, <2>1 DEF TypeOK
  <2> QED
    BY <2>1, <2>2, <2>3, FinishAccounted
<1>12. ASSUME NEW r \in Reqs, TimeOut(r) PROVE AllAccounted'
  <2>1. /\ stage[r] = "waiting" /\ req[r].call \in ToClip /\ Finish(r, "backend")
        /\ UNCHANGED <<req, task, reply, queue, busy, performed>>
        /\ "backend" \in Errors /\ "backend" \notin RefusedByThread
    BY <1>12 DEF TimeOut, TimedOut, HasTimeout, Process, Jobs, Errors, RefusedByThread
  <2>2. task[r] # "list"
    BY <1>1, <2>1 DEF Accounted
  <2> QED
    BY <2>1, <2>2, FinishAccounted
<1>13. ASSUME NEW r \in Reqs, HangUp(r) PROVE AllAccounted'
  <2>1. /\ stage[r] \in Open /\ stage' = [stage EXCEPT ![r] = "dropped"]
        /\ UNCHANGED <<req, task, reply, queue, busy, performed, answer>>
    BY <1>13 DEF HangUp, Process, Jobs
  <2>2. stage'[r] = "dropped"
    BY <1>1, <2>1 DEF TypeOK
  <2>3. (Owed(r)' <=> Owed(r)) /\ (Done(r)' <=> Done(r))
    BY <2>1, SameOwed, SameDone
  <2>4. Accounted(r)'
    BY <1>1, <2>1, <2>2, <2>3 DEF Accounted, Open
  <2> QED
    BY <2>1, <2>4, MoveAccounted
<1>14. ASSUME NEW t \in Threads, Take(t) \/ Work(t) \/ Panic(t) PROVE AllAccounted'
  BY <1>14, TakeAccounted, WorkAccounted, PanicAccounted
<1> QED
  BY <1>2, <1>3, <1>4, <1>5, <1>6, <1>7, <1>8, <1>9, <1>10, <1>11, <1>12, <1>13, <1>14 DEF Next

(* Once a mouse or keyboard request is answered, nothing more happens for  *)
(* it: such a request is never given up while it may still take place      *)
(* (input.rs, input).                                                      *)
LEMMA NoLateStep ==
  ASSUME EntitledInv, AllAccounted, [Next]_vars
  PROVE  \A r \in Reqs : stage[r] = "answered" /\ req[r].call \in ToInput => (Done(r)' <=> Done(r))
<1>1. TypeOK /\ OwedOnce /\ \A q \in Reqs : Accounted(q)
  BY DEF EntitledInv, AllAccounted
<1>2. \A q \in Reqs : Owed(q) => ~Done(q)
  BY <1>1 DEF Accounted
<1>3. \A r \in Reqs : stage[r] = "answered" /\ req[r].call \in ToInput => ~Owed(r)
  BY <1>1 DEF Accounted, ToInput, ToClip, Gated
<1>4. ASSUME NEW t \in Threads, Work(t)
      PROVE  \A q \in Reqs : ~Owed(q) => (Done(q)' <=> Done(q))
  BY <1>1, <1>2, <1>4, WorkOwed
<1>5. ASSUME NEW s \in Reqs, RunTask(s)
      PROVE  \A q \in Reqs : ~Owed(q) => (Done(q)' <=> Done(q))
  BY <1>1, <1>2, <1>5, RunTaskOwed
<1>6. CASE performed' = performed
  BY <1>6, SameDone
<1>7. performed' = performed \/ (\E t \in Threads : Work(t)) \/ \E s \in Reqs : RunTask(s)
  BY DEF Next, vars, Start, Interrupt, Exit, Kill, End, Arrive, WhoisFails, Unlisted, NotGated,
         Forbidden, FailsAtOnce, Spawn, Enqueue, FocusEnds, FocusGoesOn, Resume, TimeOut,
         HangUp, Take, Panic, Jobs
<1> QED
  BY <1>3, <1>4, <1>5, <1>6, <1>7

THEOREM NoLateInputAlways == Spec => NoLateInput
<1>1. EntitledInv /\ AllAccounted /\ [Next]_vars => EntitledInv' /\ AllAccounted'
  BY NextEntitled, NextAccounted
<1>2. EntitledInv /\ AllAccounted /\ [Next]_vars =>
        [\A r \in Reqs : stage[r] = "answered" /\ req[r].call \in ToInput => (Done(r)' <=> Done(r))]_vars
  BY NoLateStep
<1> QED
  BY <1>1, <1>2, InitEntitled, InitAccounted, PTL DEF Spec, NoLateInput

-----------------------------------------------------------------------------
OrderInv == PipelineInOrder /\ InputInOrder

LEMMA PipelineType ==
  ASSUME TypeOK
  PROVE  /\ busy["input"] \in Seq(Reqs) /\ queue["input"] \in Seq(Reqs)
         /\ accepted \in Seq(Reqs) /\ performed \in Seq(Reqs)
         /\ Len(busy["input"]) \in Nat /\ DOMAIN busy["input"] = 1 .. Len(busy["input"])
         /\ Len(queue["input"]) \in Nat /\ DOMAIN queue["input"] = 1 .. Len(queue["input"])
         /\ Len(accepted) \in Nat /\ DOMAIN accepted = 1 .. Len(accepted)
         /\ Len(performed) \in Nat /\ DOMAIN performed = 1 .. Len(performed)
BY DEF TypeOK, Threads

LEMMA PipelineShape ==
  ASSUME TypeOK, PipelineInOrder
  PROVE  \E n \in Nat, b \in Nat, k \in Nat, a \in Nat :
            /\ n = Finished /\ b = Len(busy["input"]) /\ k = Len(queue["input"])
            /\ a = Len(accepted) /\ n + b + k = a
            /\ DOMAIN busy["input"] = 1 .. b /\ DOMAIN queue["input"] = 1 .. k
            /\ DOMAIN accepted = 1 .. a
            /\ \A i \in 1 .. b : busy["input"][i] = accepted[n + i]
            /\ \A i \in 1 .. k : queue["input"][i] = accepted[n + b + i]
<1>1. \A b, k, a, n \in Nat : n = a - (b + k) => n + b + k = a
  OBVIOUS
<1>2. Finished + Len(busy["input"]) + Len(queue["input"]) = Len(accepted)
  BY <1>1, PipelineType DEF Finished, PipelineInOrder
<1>3. /\ Finished \in Nat /\ Len(busy["input"]) \in Nat /\ Len(queue["input"]) \in Nat
      /\ Len(accepted) \in Nat
      /\ DOMAIN busy["input"] = 1 .. Len(busy["input"])
      /\ DOMAIN queue["input"] = 1 .. Len(queue["input"])
      /\ DOMAIN accepted = 1 .. Len(accepted)
  BY PipelineType DEF PipelineInOrder
<1>4. /\ \A i \in 1 .. Len(busy["input"]) : busy["input"][i] = accepted[Finished + i]
      /\ \A i \in 1 .. Len(queue["input"]) :
           queue["input"][i] = accepted[Finished + Len(busy["input"]) + i]
  BY <1>3 DEF PipelineInOrder
<1> QED
  BY <1>2, <1>3, <1>4, Zenon

(* What is not finished is held by the input thread.                       *)
LEMMA UnfinishedHeld ==
  ASSUME TypeOK, PipelineInOrder, NEW i \in DOMAIN accepted, i > Finished
  PROVE  accepted[i] \in HeldBy("input")
<1>0. PICK n \in Nat, b \in Nat, k \in Nat, a \in Nat :
            /\ n = Finished /\ n + b + k = a
            /\ DOMAIN busy["input"] = 1 .. b /\ DOMAIN queue["input"] = 1 .. k
            /\ DOMAIN accepted = 1 .. a
            /\ \A j \in 1 .. b : busy["input"][j] = accepted[n + j]
            /\ \A j \in 1 .. k : queue["input"][j] = accepted[n + b + j]
  BY PipelineShape
<1>1. i \in 1 .. a /\ i > n
  BY <1>0
<1>2. CASE i =< n + b
  <2>1. i - n \in 1 .. b /\ n + (i - n) = i
    BY <1>0, <1>1, <1>2
  <2>2. busy["input"][i - n] = accepted[i]
    BY <1>0, <2>1
  <2> QED
    BY <1>0, <2>1, <2>2 DEF HeldBy
<1>3. CASE i > n + b
  <2>1. i - (n + b) \in 1 .. k /\ n + b + (i - (n + b)) = i
    BY <1>0, <1>1, <1>3
  <2>2. queue["input"][i - (n + b)] = accepted[i]
    BY <1>0, <2>1
  <2> QED
    BY <1>0, <2>1, <2>2 DEF HeldBy
<1> QED
  BY <1>0, <1>1, <1>2, <1>3

(* Steps that leave the input thread, what it accepted and what was done.  *)
LEMMA SameOrder ==
  ASSUME TypeOK, OrderInv, UNCHANGED <<queue["input"], busy["input"], accepted, performed>>,
         \A q \in Reqs : stage[q] \notin {"new", "whois"} =>
            stage'[q] \notin {"new", "whois"} /\ req'[q] = req[q]
  PROVE  OrderInv'
<1>1. \A i \in DOMAIN accepted : accepted[i] \in Reqs
  BY PipelineType
<1>2. Finished' = Finished
  BY DEF Finished
<1>3. \A i \in DOMAIN accepted' :
         stage'[accepted'[i]] \notin {"new", "whois"} /\ req'[accepted'[i]].call \in ToInput
  BY <1>1 DEF OrderInv, PipelineInOrder
<1>4. PipelineInOrder'
  BY <1>2, <1>3 DEF OrderInv, PipelineInOrder
<1>5. InputInOrder'
  BY DEF OrderInv, InputInOrder
<1> QED
  BY <1>4, <1>5 DEF OrderInv

LEMMA EnqueueOrder ==
  ASSUME TypeOK, TypeOK', OrderInv, NEW r \in Reqs, Enqueue(r), ~Done(r)
  PROVE  OrderInv'
<1>1. /\ stage[r] = "whois" /\ req' = req /\ busy' = busy /\ performed' = performed
      /\ \A q \in Reqs : stage'[q] = IF q = r THEN "waiting" ELSE stage[q]
  BY DEF Enqueue, Cleared, Identified, TypeOK
<1>2. CASE req[r].call \in ToClip
  <2>1. UNCHANGED <<queue["input"], accepted>>
    BY <1>2 DEF Enqueue, ThreadFor, Sent, TypeOK, Threads
  <2> QED
    BY <1>1, <2>1, SameOrder
<1>3. CASE req[r].call \in ToInput
  <2>0. PipelineInOrder /\ InputInOrder
    BY DEF OrderInv
  <2>2. PICK n \in Nat, b \in Nat, k \in Nat, a \in Nat :
            /\ n = Finished /\ b = Len(busy["input"]) /\ k = Len(queue["input"])
            /\ a = Len(accepted) /\ n + b + k = a
            /\ DOMAIN busy["input"] = 1 .. b /\ DOMAIN queue["input"] = 1 .. k
            /\ DOMAIN accepted = 1 .. a
            /\ \A i \in 1 .. b : busy["input"][i] = accepted[n + i]
            /\ \A i \in 1 .. k : queue["input"][i] = accepted[n + b + i]
    BY <2>0, PipelineShape
  <2>20. n \in Nat /\ b \in Nat /\ k \in Nat /\ a \in Nat /\ n + b + k = a
    BY <2>2
  <2>1. /\ queue'["input"] = Append(queue["input"], r) /\ accepted' = Append(accepted, r)
    BY <1>3 DEF Enqueue, ThreadFor, Sent, TypeOK, Threads, ToInput, ToClip
  <2>3. /\ Len(queue'["input"]) = k + 1 /\ DOMAIN queue'["input"] = 1 .. (k + 1)
        /\ queue'["input"][k + 1] = r
        /\ \A i \in 1 .. k : queue'["input"][i] = queue["input"][i]
        /\ Len(accepted') = a + 1 /\ DOMAIN accepted' = 1 .. (a + 1) /\ accepted'[a + 1] = r
        /\ \A i \in 1 .. a : accepted'[i] = accepted[i]
    BY <2>1, <2>2, PipelineType
  <2>4. Finished' = n
    <3>1. (a + 1) - (b + (k + 1)) = n
      BY <2>20
    <3>2. Len(accepted') = a + 1 /\ Len(busy'["input"]) = b /\ Len(queue'["input"]) = k + 1
      BY <1>1, <2>2, <2>3
    <3> QED
      BY <3>1, <3>2 DEF Finished
  <2>5. \A i \in 1 .. a : accepted[i] # r /\ accepted[i] \in Reqs
    BY <1>1, <2>0, <2>2, PipelineType DEF PipelineInOrder
  <2>6. \A i \in DOMAIN busy'["input"] : busy'["input"][i] = accepted'[n + i]
    <3>1. \A i \in 1 .. b : n + i \in 1 .. a
      BY <2>20
    <3> QED
      BY <1>1, <2>2, <2>3, <3>1
  <2>7. ASSUME NEW i \in 1 .. (k + 1) PROVE queue'["input"][i] = accepted'[n + b + i]
    <3>1. CASE i = k + 1
      <4>1. n + b + i = a + 1
        BY <2>20, <3>1
      <4> QED
        BY <2>3, <3>1, <4>1
    <3>2. CASE i \in 1 .. k
      <4>1. n + b + i \in 1 .. a
        BY <2>20, <3>2
      <4>2. queue["input"][i] = accepted[n + b + i]
        BY <2>2, <3>2
      <4> QED
        BY <2>3, <3>2, <4>1, <4>2
    <3> QED
      BY <2>20, <3>1, <3>2
  <2>8. ASSUME NEW i \in 1 .. (a + 1), NEW j \in 1 .. (a + 1), accepted'[i] = accepted'[j]
        PROVE  i = j
    <3>1. CASE i \in 1 .. a /\ j \in 1 .. a
      <4>1. \A x, y \in 1 .. a : accepted[x] = accepted[y] => x = y
        BY <2>0, <2>2 DEF PipelineInOrder
      <4>2. accepted[i] = accepted[j]
        BY <2>3, <2>8, <3>1
      <4> QED
        BY <3>1, <4>1, <4>2
    <3>2. CASE i = a + 1 \/ j = a + 1
      <4>1. (i = a + 1 /\ j \in 1 .. a) \/ (j = a + 1 /\ i \in 1 .. a) \/ i = j
        BY <2>20, <3>2
      <4>2. CASE i = a + 1 /\ j \in 1 .. a
        BY <2>3, <2>5, <2>8, <4>2
      <4>3. CASE j = a + 1 /\ i \in 1 .. a
        BY <2>3, <2>5, <2>8, <4>3
      <4> QED
        BY <4>1, <4>2, <4>3
    <3>3. i \in 1 .. a \/ i = a + 1
      BY <2>20
    <3>4. j \in 1 .. a \/ j = a + 1
      BY <2>20
    <3> QED
      BY <3>1, <3>2, <3>3, <3>4
  <2>9. ASSUME NEW i \in 1 .. (a + 1)
        PROVE  stage'[accepted'[i]] \notin {"new", "whois"} /\ req'[accepted'[i]].call \in ToInput
    <3>1. CASE i = a + 1
      BY <1>1, <1>3, <2>3, <3>1
    <3>2. CASE i \in 1 .. a
      BY <1>1, <2>0, <2>2, <2>3, <2>5, <3>2 DEF PipelineInOrder
    <3> QED
      BY <2>2, <3>1, <3>2
  <2>10. \A k1 \in DOMAIN performed : performed[k1] # r
    BY DoneIff
  <2>11. ASSUME NEW i \in 1 .. (a + 1), NEW k1 \in DOMAIN performed, performed[k1] = accepted'[i]
         PROVE  i =< n /\ i \in 1 .. a
    <3>1. i \in 1 .. a
      BY <2>2, <2>3, <2>10, <2>11
    <3> QED
      BY <2>0, <2>2, <2>3, <2>11, <3>1 DEF PipelineInOrder
  <2>12. PipelineInOrder'
    BY <1>1, <2>2, <2>3, <2>4, <2>6, <2>7, <2>8, <2>9, <2>11 DEF PipelineInOrder
  <2>13. InputInOrder'
    <3> SUFFICES ASSUME NEW i \in 1 .. (a + 1), NEW j \in 1 .. (a + 1), i < j,
                        NEW k1 \in DOMAIN performed, NEW l \in DOMAIN performed,
                        performed[k1] = accepted'[j], performed[l] = accepted'[i]
                 PROVE  l < k1
      BY <1>1, <2>3 DEF InputInOrder
    <3>1. i \in 1 .. a /\ j \in 1 .. a
      BY <2>11
    <3> QED
      BY <2>0, <2>2, <2>3, <3>1 DEF InputInOrder
  <2> QED
    BY <2>12, <2>13 DEF OrderInv
<1> QED
  BY <1>2, <1>3 DEF Enqueue

LEMMA TakeOrder ==
  ASSUME TypeOK, TypeOK', OrderInv, NEW t \in Threads, Take(t)
  PROVE  OrderInv'
<1>1. UNCHANGED <<stage, req, accepted, performed>>
  BY DEF Take
<1>2. CASE t # "input"
  <2>1. UNCHANGED <<queue["input"], busy["input"]>>
    BY <1>2 DEF Take, TypeOK, Threads
  <2> QED
    BY <1>1, <2>1, SameOrder
<1>3. CASE t = "input"
  <2>0. PipelineInOrder /\ InputInOrder
    BY DEF OrderInv
  <2>1. /\ busy["input"] = << >> /\ queue["input"] # << >>
        /\ busy'["input"] = <<queue["input"][1]>> /\ queue'["input"] = Tail(queue["input"])
    BY <1>3, PipelineType DEF Take, Idle, TypeOK, Threads
  <2>2. PICK n \in Nat, k \in Nat, a \in Nat :
            /\ n = Finished /\ k = Len(queue["input"]) /\ a = Len(accepted) /\ n + k = a
            /\ DOMAIN queue["input"] = 1 .. k /\ DOMAIN accepted = 1 .. a /\ k # 0
            /\ \A i \in 1 .. k : queue["input"][i] = accepted[n + i]
    <3>1. PICK n \in Nat, b \in Nat, k \in Nat, a \in Nat :
            /\ n = Finished /\ b = Len(busy["input"]) /\ k = Len(queue["input"])
            /\ a = Len(accepted) /\ n + b + k = a
            /\ DOMAIN queue["input"] = 1 .. k
            /\ DOMAIN accepted = 1 .. a
            /\ \A i \in 1 .. k : queue["input"][i] = accepted[n + b + i]
      BY <2>0, PipelineShape
    <3>2. b = 0 /\ k # 0
      BY <2>1, <3>1, PipelineType, EmptySeq
    <3>3. n + k = a /\ \A i \in 1 .. k : n + b + i = n + i
      BY <3>1, <3>2
    <3>4. \A i \in 1 .. k : queue["input"][i] = accepted[n + i]
      BY <3>1, <3>3
    <3> QED
      BY <3>1, <3>2, <3>3, <3>4, Zenon
  <2>3. /\ Len(busy'["input"]) = 1 /\ DOMAIN busy'["input"] = {1}
        /\ busy'["input"][1] = queue["input"][1]
        /\ Len(queue'["input"]) = k - 1 /\ DOMAIN queue'["input"] = 1 .. (k - 1)
        /\ \A i \in 1 .. (k - 1) : queue'["input"][i] = queue["input"][i + 1]
    BY <2>1, <2>2, PipelineType
  <2>4. Finished' = n
    <3>1. a - (1 + (k - 1)) = n
      BY <2>2
    <3>2. Len(accepted') = a /\ Len(busy'["input"]) = 1 /\ Len(queue'["input"]) = k - 1
      BY <1>1, <2>2, <2>3
    <3> QED
      BY <3>1, <3>2 DEF Finished
  <2>5. \A i \in 1 .. (k - 1) : queue'["input"][i] = accepted[n + 1 + i]
    <3>1. \A i \in 1 .. (k - 1) : i + 1 \in 1 .. k /\ n + (i + 1) = n + 1 + i
      BY <2>2
    <3> QED
      BY <2>2, <2>3, <3>1
  <2>6. busy'["input"][1] = accepted[n + 1]
    <3>1. 1 \in 1 .. k
      BY <2>2
    <3> QED
      BY <2>2, <2>3, <3>1
  <2>7. PipelineInOrder'
    BY <1>1, <2>0, <2>2, <2>3, <2>4, <2>5, <2>6 DEF PipelineInOrder
  <2>8. InputInOrder'
    BY <1>1 DEF InputInOrder, OrderInv
  <2> QED
    BY <2>7, <2>8 DEF OrderInv
<1> QED
  BY <1>2, <1>3

(* A request that was never accepted by the input thread is done.          *)
LEMMA OtherDoneOrder ==
  ASSUME TypeOK, OrderInv, UNCHANGED <<stage, req, queue["input"], busy["input"], accepted>>,
         NEW b \in Reqs, req[b].call \notin ToInput, performed' = Append(performed, b)
  PROVE  OrderInv'
<1> DEFINE p == Len(performed)
<1>1. /\ p \in Nat /\ DOMAIN performed = 1 .. p /\ DOMAIN performed' = 1 .. (p + 1)
      /\ performed'[p + 1] = b /\ \A i \in 1 .. p : performed'[i] = performed[i]
  BY PipelineType
<1>2. \A i \in DOMAIN accepted : accepted[i] # b
  BY DEF OrderInv, PipelineInOrder
<1>3. ASSUME NEW i \in DOMAIN accepted, NEW k \in 1 .. (p + 1), performed'[k] = accepted[i]
      PROVE  k \in DOMAIN performed /\ performed[k] = accepted[i]
  BY <1>1, <1>2, <1>3
<1>4. Finished' = Finished
  BY DEF Finished
<1>5. PipelineInOrder'
  BY <1>1, <1>3, <1>4 DEF PipelineInOrder, OrderInv
<1>6. InputInOrder'
  <2> SUFFICES ASSUME NEW i \in DOMAIN accepted, NEW j \in DOMAIN accepted, i < j,
                      NEW k \in DOMAIN performed', NEW l \in DOMAIN performed',
                      performed'[k] = accepted[j], performed'[l] = accepted[i]
               PROVE  l < k
    BY DEF InputInOrder
  <2>1. /\ k \in DOMAIN performed /\ performed[k] = accepted[j]
        /\ l \in DOMAIN performed /\ performed[l] = accepted[i]
    BY <1>1, <1>3
  <2> QED
    BY <2>1 DEF InputInOrder, OrderInv
<1> QED
  BY <1>5, <1>6 DEF OrderInv

(* The input thread finishes the job at the head of the pipeline.          *)
LEMMA WorkOrder ==
  ASSUME TypeOK, TypeOK', OwedOnce, \A q \in Reqs : Owed(q) => ~Done(q), OrderInv,
         NEW t \in Threads, Work(t)
  PROVE  OrderInv'
<1>1. PICK b \in HeldBy(t), touched \in BOOLEAN :
         /\ b \in Reqs /\ Owed(b) /\ busy[t] = <<b>>
         /\ performed' = IF touched THEN Append(performed, b) ELSE performed
  BY WorkOwed
<1>2. UNCHANGED <<stage, req, accepted, queue>>
  BY DEF Work
<1>3. CASE t # "input"
  <2>1. UNCHANGED busy["input"]
    BY <1>3 DEF Work, TypeOK, Threads
  <2>2. req[b].call \notin ToInput
    BY <1>1, <1>3 DEF OwedOnce, ThreadFor, ToInput, ToClip
  <2>3. CASE touched
    BY <1>1, <1>2, <2>1, <2>2, <2>3, OtherDoneOrder
  <2>4. CASE ~touched
    BY <1>1, <1>2, <2>1, <2>4, SameOrder
  <2> QED
    BY <2>3, <2>4
<1>4. CASE t = "input"
  <2>0. PipelineInOrder /\ InputInOrder
    BY DEF OrderInv
  <2>1. busy'["input"] = << >> /\ busy["input"] = <<b>> /\ ~Done(b)
    BY <1>1, <1>4 DEF Work, TypeOK, Threads
  <2>2. PICK n \in Nat, k \in Nat, a \in Nat :
            /\ n = Finished /\ k = Len(queue["input"]) /\ a = Len(accepted) /\ n + 1 + k = a
            /\ DOMAIN queue["input"] = 1 .. k /\ DOMAIN accepted = 1 .. a
            /\ b = accepted[n + 1]
            /\ \A i \in 1 .. k : queue["input"][i] = accepted[n + 1 + i]
    <3>1. PICK n \in Nat, c \in Nat, k \in Nat, a \in Nat :
            /\ n = Finished /\ c = Len(busy["input"]) /\ k = Len(queue["input"])
            /\ a = Len(accepted) /\ n + c + k = a
            /\ DOMAIN queue["input"] = 1 .. k
            /\ DOMAIN accepted = 1 .. a
            /\ \A i \in 1 .. c : busy["input"][i] = accepted[n + i]
            /\ \A i \in 1 .. k : queue["input"][i] = accepted[n + c + i]
      BY <2>0, PipelineShape
    <3>2. c = 1 /\ busy["input"][1] = b
      BY <2>1, <3>1
    <3>10. n + c + k = a
      BY <3>1
    <3>3. 1 \in 1 .. c /\ n + 1 + k = a
      BY <3>2, <3>10
    <3>4. b = accepted[n + 1]
      BY <3>1, <3>2, <3>3
    <3>5. \A i \in 1 .. k : queue["input"][i] = accepted[n + 1 + i]
      BY <3>1, <3>2
    <3> QED
      BY <3>1, <3>3, <3>4, <3>5, Zenon
  <2>20. n \in Nat /\ k \in Nat /\ a \in Nat /\ n + 1 + k = a
    BY <2>2
  <2>3. Finished' = n + 1
    <3>1. a - (0 + k) = n + 1
      BY <2>20
    <3>2. Len(accepted') = a /\ Len(busy'["input"]) = 0 /\ Len(queue'["input"]) = k
      BY <1>2, <2>1, <2>2
    <3> QED
      BY <3>1, <3>2 DEF Finished
  <2>4. n + 1 \in 1 .. a /\ n + 1 \in Nat
    BY <2>20
  <2> DEFINE p == Len(performed)
  <2>5. /\ p \in Nat /\ DOMAIN performed = 1 .. p
        /\ ~touched => performed' = performed
        /\ touched => /\ DOMAIN performed' = 1 .. (p + 1) /\ performed'[p + 1] = b
                      /\ \A i \in 1 .. p : performed'[i] = performed[i]
    <3>1. performed \in Seq(Reqs) /\ p \in Nat /\ DOMAIN performed = 1 .. p
      BY PipelineType
    <3>2. /\ DOMAIN Append(performed, b) = 1 .. (p + 1) /\ Append(performed, b)[p + 1] = b
          /\ \A i \in 1 .. p : Append(performed, b)[i] = performed[i]
      BY <1>1, <3>1
    <3>3. touched \in BOOLEAN
      BY <1>1
    <3>4. CASE touched
      BY <1>1, <3>1, <3>2, <3>4
    <3>5. CASE ~touched
      BY <1>1, <3>1, <3>5
    <3> QED
      BY <3>4, <3>5
  <2> HIDE DEF p
  <2>6. \A i \in 1 .. a : accepted[i] = b => i = n + 1
    BY <2>0, <2>2, <2>4 DEF PipelineInOrder
  <2>7. ASSUME NEW i \in 1 .. a, NEW l \in DOMAIN performed', performed'[l] = accepted[i]
        PROVE  \/ l \in 1 .. p /\ performed[l] = accepted[i] /\ i =< n
               \/ l = p + 1 /\ i = n + 1
    <3>1. CASE l \in 1 .. p /\ performed[l] = accepted[i]
      BY <2>0, <2>2, <2>5, <3>1 DEF PipelineInOrder
    <3>2. CASE touched /\ l = p + 1
      BY <2>5, <2>6, <2>7, <3>2
    <3> QED
      BY <2>5, <2>7, <3>1, <3>2
  <2>8. PipelineInOrder'
    <3>1. DOMAIN busy'["input"] = {} /\ Len(busy'["input"]) = 0
      BY <2>1
    <3>2. \A i \in 1 .. k : queue'["input"][i] = accepted'[Finished' + Len(busy'["input"]) + i]
      <4>1. \A i \in 1 .. k : (n + 1) + 0 + i = n + 1 + i
        BY <2>20
      <4> QED
        BY <1>2, <2>2, <2>3, <3>1, <4>1
    <3>3. \A i \in 1 .. a, l \in DOMAIN performed' : performed'[l] = accepted[i] => i =< n + 1
      BY <2>4, <2>7, <2>20
    <3> QED
      BY <1>2, <2>0, <2>2, <2>3, <2>4, <3>1, <3>2, <3>3 DEF PipelineInOrder
  <2>9. InputInOrder'
    <3> SUFFICES ASSUME NEW i \in 1 .. a, NEW j \in 1 .. a, i < j,
                        NEW m \in DOMAIN performed', NEW l \in DOMAIN performed',
                        performed'[m] = accepted[j], performed'[l] = accepted[i]
                 PROVE  l < m
      BY <1>2, <2>2 DEF InputInOrder
    <3>1. \/ m \in 1 .. p /\ performed[m] = accepted[j] /\ j =< n
          \/ m = p + 1 /\ j = n + 1
      BY <2>7
    <3>2. \/ l \in 1 .. p /\ performed[l] = accepted[i] /\ i =< n
          \/ l = p + 1 /\ i = n + 1
      BY <2>7
    <3>3. CASE m = p + 1 /\ j = n + 1
      BY <2>5, <2>20, <3>2, <3>3
    <3>4. CASE m \in 1 .. p /\ performed[m] = accepted[j] /\ j =< n
      <4>1. l \in 1 .. p /\ performed[l] = accepted[i]
        BY <2>20, <3>2, <3>4
      <4> QED
        BY <2>0, <2>2, <2>5, <3>4, <4>1 DEF InputInOrder
    <3> QED
      BY <3>1, <3>3, <3>4
  <2> QED
    BY <2>8, <2>9 DEF OrderInv
<1> QED
  BY <1>3, <1>4

LEMMA RunTaskOrder ==
  ASSUME TypeOK, OwedOnce, OrderInv, NEW r \in Reqs, RunTask(r)
  PROVE  OrderInv'
<1>1. /\ UNCHANGED <<stage, req, queue, busy, accepted>>
      /\ performed' = performed \/ performed' = Append(performed, r)
  BY DEF RunTask
<1>2. req[r].call \notin ToInput
  BY DEF RunTask, OwedOnce, ToInput, ToRead, ToFocus
<1> QED
  BY <1>1, <1>2, SameOrder, OtherDoneOrder

(* The jobs of the input thread are lost.                                  *)
LEMMA LostOrder ==
  ASSUME TypeOK, OrderInv, UNCHANGED <<req, accepted, performed>>,
         queue'["input"] = << >>, busy'["input"] = << >>,
         \A q \in Reqs : stage'[q] \in {"new", "whois"} => stage'[q] = stage[q]
  PROVE  OrderInv'
<1>1. /\ Len(accepted) \in Nat /\ DOMAIN accepted = 1 .. Len(accepted)
      /\ \A i \in DOMAIN accepted : accepted[i] \in Reqs
  BY PipelineType
<1>2. Finished' = Len(accepted)
  BY <1>1 DEF Finished
<1>3. \A i \in DOMAIN accepted : stage'[accepted[i]] \notin {"new", "whois"}
  BY <1>1 DEF OrderInv, PipelineInOrder
<1>4. PipelineInOrder'
  BY <1>1, <1>2, <1>3 DEF OrderInv, PipelineInOrder
<1>5. InputInOrder'
  BY DEF OrderInv, InputInOrder
<1> QED
  BY <1>4, <1>5 DEF OrderInv

LEMMA PanicOrder ==
  ASSUME TypeOK, OrderInv, NEW t \in Threads, Panic(t)
  PROVE  OrderInv'
<1>1. UNCHANGED <<stage, req, accepted, performed>>
  BY DEF Panic
<1>2. CASE t = "input"
  <2>1. queue'["input"] = << >> /\ busy'["input"] = << >>
    BY <1>2 DEF Panic, TypeOK, Threads
  <2> QED
    BY <1>1, <2>1, LostOrder
<1>3. CASE t # "input"
  <2>1. UNCHANGED <<queue["input"], busy["input"]>>
    BY <1>3 DEF Panic, TypeOK, Threads
  <2> QED
    BY <1>1, <2>1, SameOrder
<1> QED
  BY <1>2, <1>3

LEMMA NextOrder ==
  ASSUME EntitledInv, EntitledInv', AllAccounted, OrderInv, [Next]_vars
  PROVE  OrderInv'
<1>1. TypeOK /\ TypeOK' /\ OwedOnce /\ \A q \in Reqs : Accounted(q)
  BY DEF EntitledInv, AllAccounted
<1>2. \A q \in Reqs : Owed(q) => ~Done(q)
  BY <1>1 DEF Accounted
<1>3. CASE Start \/ Interrupt \/ UNCHANGED vars
  <2>1. UNCHANGED <<stage, req, queue, busy, accepted, performed>>
    BY <1>3 DEF Start, Interrupt, vars, Jobs
  <2> QED
    BY <1>1, <2>1, SameOrder
<1>4. CASE Exit \/ Kill
  <2>1. End
    BY <1>4 DEF Exit, Kill
  <2>2. /\ UNCHANGED <<req, accepted, performed>>
        /\ queue'["input"] = << >> /\ busy'["input"] = << >>
        /\ \A q \in Reqs : stage'[q] \in {"new", "whois"} => stage'[q] = stage[q]
    BY <2>1 DEF End, Threads, Open
  <2> QED
    BY <1>1, <2>2, LostOrder
<1>5. ASSUME NEW r \in Reqs, NEW call \in Calls, NEW from \in Callers, NEW ours \in BOOLEAN,
             Arrive(r, call, from, ours)
      PROVE  OrderInv'
  <2>1. /\ stage[r] = "new" /\ UNCHANGED <<queue, busy, accepted, performed>>
        /\ \A q \in Reqs \ {r} : req'[q] = req[q] /\ stage'[q] = stage[q]
    BY <1>1, <1>5 DEF Arrive, Jobs, TypeOK, Close
  <2> QED
    BY <1>1, <2>1, SameOrder
<1>6. ASSUME NEW r \in Reqs,
             \/ WhoisFails(r) \/ Unlisted(r) \/ NotGated(r) \/ Forbidden(r)
             \/ FailsAtOnce(r) \/ Spawn(r)
             \/ FocusEnds(r) \/ FocusGoesOn(r) \/ Resume(r) \/ TimeOut(r) \/ HangUp(r)
      PROVE  OrderInv'
  <2>1. /\ UNCHANGED <<req, queue, busy, accepted, performed>>
        /\ \E s \in {"answered", "waiting", "listing", "dropped"} : stage' = [stage EXCEPT ![r] = s]
    BY <1>6 DEF WhoisFails, Unlisted, NotGated, Forbidden, FailsAtOnce, Spawn, FocusEnds,
                FocusGoesOn, Resume, TimeOut, HangUp, Finish, Close, Jobs
  <2>2. \A q \in Reqs : stage[q] \notin {"new", "whois"} => stage'[q] \notin {"new", "whois"}
    BY <1>1, <2>1 DEF TypeOK
  <2> QED
    BY <1>1, <2>1, <2>2, SameOrder
<1>7. ASSUME NEW r \in Reqs, Enqueue(r) PROVE OrderInv'
  <2>1. ~Done(r)
    BY <1>1, <1>7 DEF Enqueue, Cleared, Identified, Accounted
  <2> QED
    BY <1>1, <1>7, <2>1, EnqueueOrder
<1>8. ASSUME NEW r \in Reqs, RunTask(r) PROVE OrderInv'
  BY <1>1, <1>8, RunTaskOrder
<1>9. ASSUME NEW t \in Threads, Take(t) \/ Work(t) \/ Panic(t) PROVE OrderInv'
  BY <1>1, <1>2, <1>9, TakeOrder, WorkOrder, PanicOrder
<1> QED
  BY <1>3, <1>4, <1>5, <1>6, <1>7, <1>8, <1>9 DEF Next

(* Mouse and keyboard actions take place in the order their requests       *)
(* reached the queue, across panics, time-outs and restarts (input.rs,     *)
(* input_thread).                                                          *)
THEOREM InputAlwaysInOrder == Spec => []InputInOrder
<1>1. Init => OrderInv
  <2> SUFFICES ASSUME Init PROVE OrderInv
    OBVIOUS
  <2>1. Finished = 0
    BY DEF Init, Finished, Threads
  <2> QED
    BY <2>1 DEF Init, OrderInv, PipelineInOrder, InputInOrder, Threads
<1>2. EntitledInv /\ AllAccounted /\ OrderInv /\ [Next]_vars
        => EntitledInv' /\ AllAccounted' /\ OrderInv'
  BY NextEntitled, NextAccounted, NextOrder
<1>3. OrderInv => InputInOrder
  BY DEF OrderInv
<1> QED
  BY <1>1, <1>2, <1>3, InitEntitled, InitAccounted, PTL DEF Spec

-----------------------------------------------------------------------------
AllExplained == \A r \in Reqs : Explained(r)

LEMMA StaysExplained ==
  ASSUME NEW q \in Reqs, Explained(q),
         stage'[q] = "answered" => UNCHANGED <<stage[q], answer[q], lines[q], req[q]>>
  PROVE  Explained(q)'
BY DEF Explained, Listed, MayHaveIt

(* Only the capability a handler names covers its call.                    *)
LEMMA NotCleared ==
  ASSUME NEW r \in Reqs, req[r].call \in Gated, Needs(req[r].call) \notin Allow[req[r].from]
  PROVE  ~MayHaveIt(r)
<1>1. \A cap \in Caps : req[r].call \in Covered(cap) => cap = Needs(req[r].call)
  BY DEF Caps, Covered, Needs, Gated, ToRead, ToInput, ToFocus, ToClip
<1> QED
  BY <1>1 DEF MayHaveIt

LEMMA AnswerCodes ==
  /\ \A res \in {"ok"} \cup Errors :
       AnswerOf(res).status \notin {403, 421} /\ AnswerOf(res).code \notin Refused
  /\ \A e \in Refused : ErrorAnswer(e).status = 403 /\ ErrorAnswer(e).code = e
  /\ ErrorAnswer("backend").status = 500 /\ ErrorAnswer("backend").code = "backend"
  /\ Misdirected.status = 421 /\ Misdirected.code = "unauthorized"
  /\ \A call \in Ungated : \A a \in UngatedAnswers(call) :
       a.status \notin {403, 421} /\ a.code \notin Refused
BY DEF AnswerOf, Plain, ErrorAnswer, StatusOf, Errors, Refused, None, Misdirected, Ungated,
       UngatedAnswers

LEMMA CloseExplained ==
  ASSUME TypeOK, AllExplained, NEW r \in Reqs, NEW a \in Answers, Close(r, a),
         \A q \in Reqs \ {r} : req'[q] = req[q] /\ lines'[q] = lines[q],
         a.status \in {403, 421} <=> a.code \in Refused,
         a.code = "forbidden" => (Listed(r) /\ req[r].ours /\ ~MayHaveIt(r))',
         a.status \in {403, 421} => lines'[r] # << >>
  PROVE  AllExplained'
<1>1. /\ stage'[r] = "answered" /\ answer'[r] = a
      /\ \A q \in Reqs \ {r} : stage'[q] = stage[q] /\ answer'[q] = answer[q]
  BY CloseType
<1>2. \A q \in Reqs \ {r} : Explained(q)'
  BY <1>1, StaysExplained DEF AllExplained
<1>3. Explained(r)'
  BY <1>1 DEF Explained
<1> QED
  BY <1>2, <1>3 DEF AllExplained

LEMMA RecordMore ==
  ASSUME TypeOK, NEW r \in Reqs, NEW outcome \in {"ok", "denied", "error"},
         NEW status \in Status, Record(r, outcome, status)
  PROVE  lines'[r] # << >> /\ \A q \in Reqs \ {r} : lines'[q] = lines[q]
<1> DEFINE l == [outcome |-> outcome, status |-> status]
<1>1. lines[r] \in Seq(Lines) /\ l \in Lines
  BY DEF TypeOK, Lines
<1>2. lines'[r] = Append(lines[r], l) /\ \A q \in Reqs \ {r} : lines'[q] = lines[q]
  BY RecordType
<1>3. Append(lines[r], l) # << >>
  BY <1>1, AppendProperties
<1> QED
  BY <1>2, <1>3

LEMMA NextExplained ==
  ASSUME EntitledInv, AllExplained, [Next]_vars
  PROVE  AllExplained'
<1>1. TypeOK /\ Entitled /\ \A q \in Reqs : Explained(q)
  BY DEF EntitledInv, AllExplained
<1>2. ASSUME UNCHANGED <<answer, lines, req>>,
             \A q \in Reqs : stage'[q] = "answered" => stage[q] = "answered"
      PROVE  AllExplained'
  BY <1>1, <1>2, StaysExplained DEF AllExplained
<1>3. ASSUME NEW r \in Reqs, NEW res \in {"ok"} \cup Errors, Finish(r, res), UNCHANGED req
      PROVE  AllExplained'
  <2>1. AnswerOf(res) \in Answers /\ Close(r, AnswerOf(res))
    BY <1>3, AnswerType DEF Finish
  <2>2. \A q \in Reqs \ {r} : lines'[q] = lines[q]
    <3>1. AnswerOf(res).status \in Status
      BY <2>1 DEF Answers
    <3> QED
      BY <1>1, <1>3, <3>1, RecordMore DEF Finish
  <2>3. AnswerOf(res).status \notin {403, 421} /\ AnswerOf(res).code \notin Refused
    BY AnswerCodes
  <2> HIDE DEF AnswerOf
  <2> QED
    BY <1>1, <1>3, <2>1, <2>2, <2>3, CloseExplained DEF Refused
<1>4. ASSUME NEW r \in Reqs, NEW call \in Calls, NEW from \in Callers, NEW ours \in BOOLEAN,
             Arrive(r, call, from, ours)
      PROVE  AllExplained'
  <2>1. \A q \in Reqs \ {r} : req'[q] = req[q]
    BY <1>1, <1>4 DEF Arrive, TypeOK
  <2>2. CASE Close(r, Misdirected) /\ Record(r, "denied", 421)
    <3>1. lines'[r] # << >> /\ \A q \in Reqs \ {r} : lines'[q] = lines[q]
      BY <1>1, <2>2, RecordMore DEF Status
    <3> QED
      BY <1>1, <2>1, <2>2, <3>1, AnswerType, AnswerCodes, CloseExplained DEF Refused
  <2>3. CASE stage' = [stage EXCEPT ![r] = "whois"] /\ UNCHANGED <<answer, lines>>
    <3>1. \A q \in Reqs : stage'[q] = "answered" =>
                            UNCHANGED <<stage[q], answer[q], lines[q], req[q]>>
      BY <1>1, <2>1, <2>3 DEF TypeOK
    <3> QED
      BY <1>1, <3>1, StaysExplained DEF AllExplained
  <2> QED
    BY <1>4, <2>2, <2>3 DEF Arrive
<1>5. ASSUME NEW r \in Reqs, WhoisFails(r) \/ Unlisted(r) PROVE AllExplained'
  <2>1. PICK a \in {ErrorAnswer("unauthorized"), ErrorAnswer("backend")} :
           /\ Close(r, a)
           /\ \E outcome \in {"ok", "denied", "error"}, status \in Status :
                 Record(r, outcome, status)
    BY <1>5 DEF WhoisFails, Unlisted, Status
  <2>2. a \in Answers
    BY <2>1, AnswerType DEF Refused, Errors, AnswerOf
  <2>3. a.code # "forbidden" /\ (a.status \in {403, 421} <=> a.code \in Refused)
    BY <2>1, AnswerCodes DEF Refused
  <2>4. lines'[r] # << >> /\ \A q \in Reqs \ {r} : lines'[q] = lines[q]
    BY <1>1, <2>1, RecordMore
  <2>5. UNCHANGED req
    BY <1>5 DEF WhoisFails, Unlisted
  <2> QED
    BY <1>1, <2>1, <2>2, <2>3, <2>4, <2>5, CloseExplained
<1>6. ASSUME NEW r \in Reqs, Forbidden(r) PROVE AllExplained'
  <2>1. /\ Close(r, ErrorAnswer("forbidden")) /\ Record(r, "denied", 403) /\ UNCHANGED req
        /\ stage[r] = "whois" /\ Listed(r)
        /\ req[r].call \in Gated /\ Needs(req[r].call) \notin Allow[req[r].from]
    BY <1>6 DEF Forbidden, Identified
  <2>2. req[r].ours /\ ~MayHaveIt(r)
    BY <1>1, <2>1, NotCleared DEF Entitled
  <2>3. (Listed(r) /\ req[r].ours /\ ~MayHaveIt(r))'
    BY <2>1, <2>2 DEF Listed, MayHaveIt
  <2>4. lines'[r] # << >> /\ \A q \in Reqs \ {r} : lines'[q] = lines[q]
    BY <1>1, <2>1, RecordMore DEF Status
  <2>5. /\ ErrorAnswer("forbidden") \in Answers
        /\ ErrorAnswer("forbidden").status = 403 /\ ErrorAnswer("forbidden").code \in Refused
    BY AnswerType, AnswerCodes DEF Refused
  <2> QED
    BY <1>1, <2>1, <2>3, <2>4, <2>5, CloseExplained
<1>7. ASSUME NEW r \in Reqs, NotGated(r) PROVE AllExplained'
  <2>1. PICK a \in UngatedAnswers(req[r].call) : Close(r, a)
    BY <1>7 DEF NotGated
  <2>2. a \in Answers /\ a.status \notin {403, 421} /\ a.code \notin Refused
    BY <1>7, <2>1, AnswerType, AnswerCodes DEF NotGated
  <2>3. UNCHANGED <<req, lines>>
    BY <1>7 DEF NotGated
  <2> QED
    BY <1>1, <2>1, <2>2, <2>3, CloseExplained DEF Refused
<1>8. ASSUME NEW r \in Reqs, FailsAtOnce(r) \/ FocusEnds(r) \/ Resume(r) \/ TimeOut(r)
      PROVE  AllExplained'
  <2>1. PICK res \in {"ok"} \cup Errors : Finish(r, res) /\ UNCHANGED req
    BY <1>1, <1>8 DEF FailsAtOnce, FocusEnds, Resume, TimeOut, TimedOut, TaskErrors, Errors, TypeOK, None
  <2> QED
    BY <1>3, <2>1
<1>9. ASSUME NEW r \in Reqs, Spawn(r) \/ Enqueue(r) \/ FocusGoesOn(r) \/ HangUp(r)
      PROVE  AllExplained'
  <2>1. /\ UNCHANGED <<answer, lines, req>>
        /\ \E s \in {"waiting", "listing", "dropped"} : stage' = [stage EXCEPT ![r] = s]
    BY <1>9 DEF Spawn, Enqueue, FocusGoesOn, HangUp
  <2>2. \A q \in Reqs : stage'[q] = "answered" => stage[q] = "answered"
    BY <1>1, <2>1 DEF TypeOK
  <2> QED
    BY <1>2, <2>1, <2>2
<1>10. CASE Exit \/ Kill
  <2>1. End
    BY <1>10 DEF Exit, Kill
  <2>2. \A q \in Reqs : stage'[q] = "answered" => stage[q] = "answered"
    BY <2>1 DEF End
  <2> QED
    BY <1>2, <2>1, <2>2 DEF End
<1>11. CASE Start \/ Interrupt \/ UNCHANGED vars
  <2>1. UNCHANGED <<stage, answer, lines, req>>
    BY <1>11 DEF Start, Interrupt, vars
  <2> QED
    BY <1>2, <2>1
<1>12. ASSUME NEW r \in Reqs, RunTask(r) PROVE AllExplained'
  BY <1>2, <1>12 DEF RunTask
<1>13. ASSUME NEW t \in Threads, Take(t) \/ Work(t) \/ Panic(t) PROVE AllExplained'
  BY <1>2, <1>13 DEF Take, Work, Panic
<1> QED
  BY <1>4, <1>5, <1>6, <1>7, <1>8, <1>9, <1>10, <1>11, <1>12, <1>13 DEF Next

LEMMA ExplainedSuffices ==
  ASSUME TypeOK, LinesFollowAnswers, AllExplained, AllAccounted
  PROVE  DenialsUnderstood
<1> SUFFICES ASSUME NEW r \in Reqs
             PROVE  /\ \A h \in Returns(r) \cap Refused :
                         /\ Len(lines[r]) = 1 /\ lines[r][1].outcome = "denied"
                         /\ h = "forbidden" => Listed(r) /\ req[r].ours /\ ~MayHaveIt(r)
                    /\ lines[r] # << >> /\ lines[r][1].outcome = "denied"
                         => Check(answer[r]) \in Refused
  BY DEF DenialsUnderstood
<1>1. Explained(r) /\ (Untold(r) \/ Unlogged(r) \/ Told(r))
  BY DEF AllExplained, LinesFollowAnswers
<1>2. CASE stage[r] # "answered"
  <2>1. lines[r] = << >>
    BY <1>1, <1>2 DEF Untold, Unlogged, Told
  <2>2. Returns(r) \cap Refused = {}
    BY <1>2 DEF Returns, Refused
  <2> QED
    BY <2>1, <2>2
<1>3. CASE stage[r] = "answered"
  <2>1. PICK a \in Answers : a = answer[r]
    BY <1>1, <1>3 DEF Explained
  <2>2. /\ a.status \in {403, 421} <=> a.code \in Refused
        /\ a.code = "forbidden" => Listed(r) /\ req[r].ours /\ ~MayHaveIt(r)
        /\ lines[r] = << >> => a.status \notin {403, 421}
    BY <1>1, <1>3, <2>1 DEF Explained
  <2>3. lines[r] # << >> =>
           /\ Len(lines[r]) = 1
           /\ lines[r][1].outcome = "denied" <=> a.status \in {403, 421}
    <3>1. CASE Told(r)
      <4>1. PICK l \in Lines : /\ lines[r] = <<l>>
                               /\ l.outcome = "denied" <=> answer[r].status \in {403, 421}
        BY <3>1 DEF Told
      <4> QED
        BY <2>1, <4>1
    <3>2. CASE ~Told(r)
      BY <1>1, <3>2 DEF Untold, Unlogged
    <3> QED
      BY <3>1, <3>2
  <2>4. /\ Check(a) \in Refused => a.code \in Refused /\ Check(a) = a.code
        /\ a.code \in Refused => Check(a) \in Refused
    BY <2>2 DEF Check, Refused, Answers, Status, None
  <2>5. Check(Broken(a)) \in Refused =>
           a.status \in {403, 421} /\ Check(Broken(a)) = "unauthorized"
    BY DEF Check, Broken, Refused, Answers, Status, None
  <2>6. ASSUME NEW h \in Returns(r) \cap Refused
        PROVE  a.status \in {403, 421} /\ (h = "forbidden" => a.code = "forbidden")
    <3>1. h \in Results(a, req[r].call) /\ h \in Refused
      BY <1>3, <2>1, <2>6 DEF Returns
    <3>2. h = Check(a) \/ h = Check(Broken(a))
      BY <3>1 DEF Results, Refused
    <3> QED
      BY <2>2, <2>4, <2>5, <3>1, <3>2
  <2> QED
    BY <2>1, <2>2, <2>3, <2>4, <2>6
<1> QED
  BY <1>2, <1>3

(* A client that is told it was refused was, with the line to show for it; *)
(* and with the whole answer it never takes a denial for a failure of the  *)
(* desktop (remote.rs, check; auth.rs, error_response).                    *)
THEOREM DenialsAlwaysUnderstood == Spec => []DenialsUnderstood
<1>1. Init => AllExplained /\ LinesFollowAnswers
  BY DEF Init, AllExplained, Explained, LinesFollowAnswers, Untold
<1>2. EntitledInv /\ AllAccounted /\ LineInv /\ AllExplained /\ [Next]_vars
        => EntitledInv' /\ AllAccounted' /\ LineInv' /\ AllExplained'
  BY NextEntitled, NextAccounted, NextLines, NextExplained DEF EntitledInv, LineInv
<1>3. EntitledInv /\ AllAccounted /\ LineInv /\ AllExplained => DenialsUnderstood
  BY ExplainedSuffices DEF LineInv
<1>4. Init => LineInv
  BY <1>1, InitEntitled DEF EntitledInv, LineInv
<1> QED
  BY <1>1, <1>2, <1>3, <1>4, InitEntitled, InitAccounted, PTL DEF Spec

-----------------------------------------------------------------------------
(* The refinement.  What a caller knows agrees with what was done, and as  *)
(* long as something is owed to it nothing definite was said.              *)
Knowledge == {"pending", "ok", "refused", "unknown"}

LEMMA EffectsCounted ==
  ASSUME TypeOK, OwedOnce, NEW r \in Reqs
  PROVE  Cardinality(Entries(performed, r)) = IF Done(r) THEN 1 ELSE 0
<1>1. CASE ~Done(r)
  BY <1>1, FS_EmptySet DEF Done
<1>2. CASE Done(r)
  <2>1. PICK i \in DOMAIN performed : performed[i] = r
    BY <1>2, DoneIff
  <2>2. Entries(performed, r) = {i}
    BY <2>1 DEF Entries, OwedOnce
  <2> QED
    BY <1>2, <2>2, FS_Singleton
<1> QED
  BY <1>1, <1>2

Agrees(r) ==
  /\ Knows(r) \in Knowledge
  /\ Knows(r) = "ok" => Done(r)
  /\ Knows(r) = "refused" => ~Done(r)
  /\ stage[r] \notin Closed => Knows(r) = "pending"
  /\ Owed(r) => Knows(r) \in {"pending", "unknown"}
  /\ Cardinality(Entries(performed, r)) = IF Done(r) THEN 1 ELSE 0

AllAgree == \A r \in Reqs : Agrees(r)

LEMMA KnowsAgrees ==
  ASSUME TypeOK, OwedOnce, NEW r \in Reqs, Accounted(r)
  PROVE  Agrees(r)
<1> USE DEF Agrees
<1> USE EffectsCounted
<1>1. CASE req[r].call \notin Gated
  BY <1>1 DEF Knows, Knowledge
<1>2. CASE stage[r] \notin Closed
  BY <1>2 DEF Knows, Knowledge, Returns, Closed
<1>3. CASE req[r].call \in Gated /\ stage[r] = "dropped"
  <2>1. Returns(r) = {"backend"} /\ answer[r] = Unanswered
    BY <1>3 DEF Returns, Accounted
  <2>2. ~IsRefusal(Check(answer[r]))
    BY <2>1 DEF IsRefusal, Check, Unanswered, None
  <2>3. Knows(r) = "unknown"
    BY <1>3, <2>1, <2>2 DEF Knows
  <2> QED
    BY <1>3, <2>3 DEF Knowledge, Closed
<1>4. CASE req[r].call \in Gated /\ stage[r] = "answered" /\ answer[r].status = 200
  <2>1. Done(r) /\ ~Owed(r)
    BY <1>4 DEF Accounted
  <2>2. Returns(r) = Results(answer[r], req[r].call) /\ "ok" \in Returns(r)
    BY <1>4 DEF Returns, Results
  <2>3. Returns(r) # {}
    BY <2>2
  <2>4. Knows(r) = "ok"
    BY <1>4, <2>2, <2>3 DEF Knows
  <2> QED
    BY <1>4, <2>1, <2>4 DEF Knowledge, Closed
<1>5. CASE req[r].call \in Gated /\ stage[r] = "answered" /\ answer[r].status # 200
  <2>1. answer[r] \in Answers \cup {Unanswered}
    BY DEF TypeOK
  <2>2. Returns(r) = {Check(answer[r]), Check(Broken(answer[r]))}
    BY <1>5 DEF Returns, Results
  <2>3. Check(answer[r]) # "ok" /\ Check(Broken(answer[r])) # "ok"
    BY <2>1 DEF Check, Broken, Answers, Unanswered, Codes, Errors, Refused, None
  <2>4. Returns(r) # {} /\ "ok" \notin Returns(r)
    BY <2>2, <2>3
  <2>5. Knows(r) = IF IsRefusal(Check(answer[r])) THEN "refused" ELSE "unknown"
    BY <1>5, <2>4 DEF Knows
  <2>6. IsRefusal(Check(answer[r])) => ~Done(r) /\ ~Owed(r)
    BY <1>5 DEF Accounted
  <2>7. Knows(r) = "refused" => ~Done(r) /\ ~Owed(r)
    BY <2>5, <2>6
  <2>8. Knows(r) \in {"refused", "unknown"}
    BY <2>5
  <2> QED
    BY <1>5, <2>7, <2>8 DEF Knowledge, Closed
<1> QED
  BY <1>1, <1>2, <1>3, <1>4, <1>5 DEF Closed

Heard == [r \in Reqs |-> Knows(r)]
Effects == [r \in Reqs |-> Cardinality(Entries(performed, r))]

LEMMA SameKnows ==
  ASSUME NEW q \in Reqs, UNCHANGED <<stage[q], req[q], answer[q]>>
  PROVE  Knows(q)' = Knows(q)
BY DEF Knows, Returns, Results, Check, Broken, IsRefusal

LEMMA TraitStutter ==
  ASSUME UNCHANGED <<Heard, Effects>>
  PROVE  [Trait!Next]_(Trait!vars)
BY DEF Heard, Effects, Trait!vars

(* At most one request hears something; nothing is done.                   *)
LEMMA TraitTells ==
  ASSUME TypeOK, TypeOK', AllAccounted, AllAccounted', NEW r \in Reqs,
         AllAgree, AllAgree',
         \A q \in Reqs \ {r} : UNCHANGED <<stage[q], req[q], answer[q]>>,
         stage[r] \notin Closed, UNCHANGED performed
  PROVE  [Trait!Next]_(Trait!vars)
<1>1. \A q \in Reqs \ {r} : Knows(q)' = Knows(q)
  BY SameKnows
<1>2. Knows(r) = "pending"
  BY DEF AllAgree, Agrees
<1>3. /\ Knows(r)' \in Knowledge
      /\ Knows(r)' = "ok" => Done(r)'
      /\ Knows(r)' = "refused" => ~Done(r)'
  BY DEF AllAgree, Agrees
<1>4. Done(r)' <=> Done(r)
  BY SameDone
<1>5. Effects' = Effects /\ Effects[r] = IF Done(r) THEN 1 ELSE 0
  BY DEF Effects, AllAgree, Agrees, Entries
<1>6. Heard' = [Heard EXCEPT ![r] = Knows(r)']
  BY <1>1 DEF Heard
<1>7. CASE Knows(r)' = "pending"
  <2>1. Heard' = Heard
    BY <1>2, <1>6, <1>7 DEF Heard
  <2> QED
    BY <1>5, <2>1, TraitStutter
<1>8. CASE Knows(r)' # "pending"
  <2>1. Knows(r)' \in {"unknown"} \cup IF Effects[r] = 1 THEN {"ok"} ELSE {"refused"}
    BY <1>3, <1>4, <1>5, <1>8 DEF Knowledge
  <2>2. Trait!Tell(r)
    BY <1>2, <1>5, <1>6, <2>1 DEF Trait!Tell, Heard, Effects
  <2> QED
    BY <2>2 DEF Trait!Next
<1> QED
  BY <1>7, <1>8

(* What was owed to a request is done.                                     *)
LEMMA TraitTakesEffect ==
  ASSUME AllAccounted, AllAgree, AllAgree', NEW b \in Reqs,
         Owed(b), UNCHANGED <<stage, req, answer>>,
         \A q \in Reqs : Done(q)' <=> (Done(q) \/ q = b)
  PROVE  [Trait!Next]_(Trait!vars)
<1>1. Heard' = Heard
  BY SameKnows DEF Heard
<1>2. Heard[b] \in {"pending", "unknown"} /\ ~Done(b)
  BY DEF Heard, AllAgree, Agrees, AllAccounted, Accounted
<1>3. /\ \A q \in Reqs : Effects[q] = IF Done(q) THEN 1 ELSE 0
      /\ \A q \in Reqs : Effects'[q] = IF Done(q)' THEN 1 ELSE 0
  BY DEF Effects, AllAgree, Agrees
<1>4. Effects[b] = 0 /\ Effects' = [Effects EXCEPT ![b] = 1]
  <2>1. \A q \in Reqs : Effects'[q] = IF q = b THEN 1 ELSE Effects[q]
    BY <1>2, <1>3
  <2>2. Effects' = [q \in Reqs |-> Effects'[q]]
    BY DEF Effects
  <2>3. Effects = [q \in Reqs |-> Effects[q]]
    BY DEF Effects
  <2> HIDE DEF Effects
  <2>4. [q \in Reqs |-> Effects'[q]] = [Effects EXCEPT ![b] = 1]
    BY <2>1, <2>3
  <2> QED
    BY <1>2, <1>3, <2>2, <2>4
<1>5. Trait!TakeEffect(b)
  BY <1>1, <1>2, <1>4 DEF Trait!TakeEffect, Heard, Effects
<1> QED
  BY <1>5 DEF Trait!Next

LEMMA TraitSame ==
  ASSUME AllAgree, AllAgree', UNCHANGED <<stage, req, answer>>,
         \A q \in Reqs : Done(q)' <=> Done(q)
  PROVE  [Trait!Next]_(Trait!vars)
<1>1. Heard' = Heard
  BY SameKnows DEF Heard
<1>2. Effects' = Effects
  BY DEF Effects, AllAgree, Agrees
<1> QED
  BY <1>1, <1>2, TraitStutter

(* The daemon ends, and every call still open with it.                     *)
LEMMA TraitEnds ==
  ASSUME TypeOK, AllAccounted, AllAgree, AllAgree', End
  PROVE  [Trait!Next]_(Trait!vars)
<1>1. /\ \A q \in Reqs : stage'[q] = IF stage[q] \in Open THEN "dropped" ELSE stage[q]
      /\ UNCHANGED <<req, answer, performed>>
  BY DEF End
<1>2. ASSUME NEW q \in Reqs
      PROVE  Knows(q)' # Knows(q) => Knows(q) = "pending" /\ Knows(q)' = "unknown"
  <2>1. CASE stage[q] \notin Open
    BY <1>1, <2>1, SameKnows
  <2>2. CASE stage[q] \in Open
    <3>1. Knows(q) = "pending" /\ answer[q] = Unanswered
      BY <2>2 DEF AllAgree, Agrees, AllAccounted, Accounted, Open, Closed
    <3>2. stage'[q] = "dropped" /\ answer'[q] = Unanswered
      BY <1>1, <2>2, <3>1
    <3>3. Returns(q)' = {"backend"}
      BY <3>2 DEF Returns
    <3>4. ~IsRefusal(Check(answer'[q]))
      BY <3>2 DEF IsRefusal, Check, Unanswered, None
    <3>5. Knows(q)' \in {"pending", "unknown"}
      BY <3>3, <3>4 DEF Knows
    <3> QED
      BY <3>1, <3>5
  <2> QED
    BY <2>1, <2>2
<1>3. Heard' \in [Reqs -> Knowledge]
  BY DEF Heard, AllAgree, Agrees
<1>4. \A q \in Reqs : Heard'[q] # Heard[q] => Heard[q] = "pending" /\ Heard'[q] = "unknown"
  BY <1>2 DEF Heard
<1>5. Effects' = Effects
  BY <1>1 DEF Effects, Entries
<1>6. Trait!TellAll
  BY <1>3, <1>4, <1>5 DEF Trait!TellAll, Heard, Effects, Knowledge
<1> QED
  BY <1>6 DEF Trait!Next

LEMMA TraitStep ==
  ASSUME EntitledInv, EntitledInv', AllAccounted, AllAccounted', AllAgree, AllAgree',
         [Next]_vars
  PROVE  [Trait!Next]_(Trait!vars)
<1>1. TypeOK /\ TypeOK' /\ OwedOnce /\ \A q \in Reqs : Accounted(q)
  BY DEF EntitledInv, AllAccounted
<1>2. \A q \in Reqs : Owed(q) => ~Done(q)
  BY <1>1 DEF Accounted
<1>3. ASSUME UNCHANGED <<stage, req, answer, performed>>
      PROVE  [Trait!Next]_(Trait!vars)
  <2>1. Heard' = Heard
    BY <1>3, SameKnows DEF Heard
  <2>2. Effects' = Effects
    BY <1>3 DEF Effects, Entries
  <2> QED
    BY <2>1, <2>2, TraitStutter
<1>4. CASE Start \/ Interrupt \/ UNCHANGED vars
  BY <1>3, <1>4 DEF Start, Interrupt, vars, Jobs
<1>5. CASE Exit \/ Kill
  BY <1>1, <1>5, TraitEnds DEF Exit, Kill
<1>6. ASSUME NEW r \in Reqs, NEW call \in Calls, NEW from \in Callers, NEW ours \in BOOLEAN,
             Arrive(r, call, from, ours)
      PROVE  [Trait!Next]_(Trait!vars)
  <2>1. /\ stage[r] \notin Closed /\ UNCHANGED performed
        /\ \A q \in Reqs \ {r} : UNCHANGED <<stage[q], req[q], answer[q]>>
    BY <1>1, <1>6 DEF Arrive, Jobs, TypeOK, Close, Closed
  <2> QED
    BY <1>1, <2>1, TraitTells
<1>7. ASSUME NEW r \in Reqs,
             \/ WhoisFails(r) \/ Unlisted(r) \/ NotGated(r) \/ Forbidden(r)
             \/ FailsAtOnce(r) \/ Spawn(r) \/ Enqueue(r)
             \/ FocusEnds(r) \/ FocusGoesOn(r) \/ Resume(r) \/ TimeOut(r) \/ HangUp(r)
      PROVE  [Trait!Next]_(Trait!vars)
  <2>1. stage[r] \in Open /\ UNCHANGED <<req, performed>>
    BY <1>7 DEF WhoisFails, Unlisted, NotGated, Forbidden, FailsAtOnce, Spawn, Enqueue, Cleared,
                Identified, FocusEnds, FocusGoesOn, WindowsListed, Resume, TimeOut, HangUp, Jobs,
                Open
  <2>2. \/ \E a : Close(r, a)
        \/ answer' = answer /\ \E s : stage' = [stage EXCEPT ![r] = s]
    BY <1>7 DEF WhoisFails, Unlisted, NotGated, Forbidden, FailsAtOnce, Spawn, Enqueue,
                FocusEnds, FocusGoesOn, Resume, TimeOut, HangUp, Finish
  <2>3. \A q \in Reqs \ {r} : UNCHANGED <<stage[q], req[q], answer[q]>>
    BY <1>1, <2>1, <2>2 DEF Close, TypeOK
  <2> QED
    BY <1>1, <2>1, <2>3, TraitTells DEF Open, Closed
<1>8. ASSUME NEW r \in Reqs, RunTask(r) PROVE [Trait!Next]_(Trait!vars)
  <2>1. PICK touched \in BOOLEAN :
           /\ Owed(r)
           /\ \A q \in Reqs : Done(q)' <=> (Done(q) \/ (touched /\ task[r] # "list" /\ q = r))
    BY <1>1, <1>2, <1>8, RunTaskOwed
  <2>2. UNCHANGED <<stage, req, answer>>
    BY <1>8 DEF RunTask
  <2>3. CASE touched /\ task[r] # "list"
    BY <2>1, <2>2, <2>3, TraitTakesEffect
  <2>4. CASE ~(touched /\ task[r] # "list")
    BY <2>1, <2>2, <2>4, TraitSame
  <2> QED
    BY <2>3, <2>4
<1>9. ASSUME NEW t \in Threads, Work(t) PROVE [Trait!Next]_(Trait!vars)
  <2>1. PICK b \in HeldBy(t), touched \in BOOLEAN :
           /\ b \in Reqs /\ Owed(b)
           /\ \A q \in Reqs : Done(q)' <=> (Done(q) \/ (touched /\ q = b))
    BY <1>1, <1>2, <1>9, WorkOwed
  <2>2. UNCHANGED <<stage, req, answer>>
    BY <1>9 DEF Work
  <2>3. CASE touched
    BY <2>1, <2>2, <2>3, TraitTakesEffect
  <2>4. CASE ~touched
    BY <2>1, <2>2, <2>4, TraitSame
  <2> QED
    BY <2>3, <2>4
<1>10. ASSUME NEW t \in Threads, Take(t) \/ Panic(t) PROVE [Trait!Next]_(Trait!vars)
  BY <1>3, <1>10 DEF Take, Panic
<1> QED
  BY <1>4, <1>5, <1>6, <1>7, <1>8, <1>9, <1>10 DEF Next

(* The daemon behind its HTTP interface keeps the promise of the Desktop   *)
(* trait: an action takes effect at most once, success means that it has,  *)
(* and after success or a refusal nothing more happens, whoever hangs up,  *)
(* panics, times out or is restarted (desktop/mod.rs, Desktop; remote.rs). *)
THEOREM TraitAlwaysKept == Spec => TraitKept
<1>1. Init => Trait!Init
  <2> SUFFICES ASSUME Init PROVE Trait!Init
    OBVIOUS
  <2>1. \A q \in Reqs : Knows(q) = "pending"
    BY DEF Init, Knows, Returns
  <2>2. \A q \in Reqs : Cardinality(Entries(performed, q)) = 0
    <3>1. \A q \in Reqs : Entries(performed, q) = {}
      BY DEF Init, Entries
    <3> QED
      BY <3>1, FS_EmptySet
  <2> QED
    BY <2>1, <2>2 DEF Trait!Init
<1>2. EntitledInv /\ AllAccounted /\ [Next]_vars => EntitledInv' /\ AllAccounted'
  BY NextEntitled, NextAccounted
<1>3. EntitledInv /\ AllAccounted => AllAgree
  BY KnowsAgrees DEF EntitledInv, AllAccounted, AllAgree
<1>4. EntitledInv /\ AllAccounted /\ AllAgree /\ EntitledInv' /\ AllAccounted' /\ AllAgree'
        /\ [Next]_vars => [Trait!Next]_(Trait!vars)
  BY TraitStep
<1> QED
  BY <1>1, <1>2, <1>3, <1>4, InitEntitled, InitAccounted, PTL DEF Spec, TraitKept, Trait!Spec
=============================================================================
