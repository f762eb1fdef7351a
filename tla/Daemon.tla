------------------------------- MODULE Daemon -------------------------------
(***************************************************************************)
(* The daemon between its listener and the desktop: the middleware         *)
(* (src/src/server/auth.rs), the routes with their capability gate and     *)
(* audit line (src/src/server/routes.rs), the two worker threads           *)
(* (src/src/desktop/local/input.rs), the blocking tasks for capture and    *)
(* focus (src/src/desktop/local/mod.rs), and start and shutdown            *)
(* (src/src/server/mod.rs).                                                *)
(*                                                                         *)
(* A handler runs without interruption from one await to the next, so an   *)
(* action is what it does between two of them.  Whoever sent the request   *)
(* may close the connection at any await: hyper then drops the handler and *)
(* everything after that await is not done, while a job already handed to  *)
(* a thread is performed all the same.                                     *)
(*                                                                         *)
(* What a caller may do is a constant here; module Access says how it      *)
(* follows from the grants, IdentityCache how stale it can be, and         *)
(* AuditSink what happens to a line after Audit::record.                   *)
(***************************************************************************)
EXTENDS Naturals, Sequences

CONSTANTS
  Reqs,        \* the requests made; each is made once
  Callers,     \* the peers they come from
  Allow,       \* what Allowlist::permits answers for each of them
  Calls,       \* the calls made
  MaxStarts,   \* bound: times the daemon is started
  MaxPanics    \* bound: panics of a worker thread

Caps   == {"view", "input", "clipboard"}
Nobody == {"nobody"}  \* None: not in the allowlist

ToRead    == {"state", "screenshot"}
ToInput   == {"input"}
ToFocus   == {"focus"}
ToClip    == {"clipget", "clipset"}
Gated     == ToRead \cup ToInput \cup ToFocus \cup ToClip
Ungated   == {"whoami", "health", "badquery", "badbody", "nowhere"}

ASSUME DaemonAssumption ==
  /\ Allow \in [Callers -> (SUBSET Caps) \cup {Nobody}]
  /\ Calls \subseteq Gated \cup Ungated
  /\ {MaxStarts, MaxPanics} \subseteq Nat

VARIABLES
  daemon,     \* "down", "up" or "draining"
  starts, panics,
  stage,      \* where each request is
  req,        \* its call, its caller, and whether its Host is one of ours
  task,       \* the blocking task spawned for it
  reply,      \* what the task or the thread sent back to the handler
  queue,      \* the jobs sent to each thread
  busy,       \* the job each thread performs: a sequence of at most one
  alive,      \* whether the thread runs
  answer,     \* the status and the ApiError code the caller was sent
  lines,      \* the audit lines each request left
  accepted,   \* history: the input jobs, in the order they were sent
  performed   \* history: the requests whose effect took place, in order

vars == <<daemon, starts, panics, stage, req, task, reply, queue, busy, alive,
          answer, lines, accepted, performed>>

-----------------------------------------------------------------------------
Threads == {"input", "clipboard"}
Open    == {"whois", "listing", "waiting"}
Closed  == {"answered", "dropped"}
Errors  == {"not_found", "unsupported", "permission", "bad_request", "backend"}

None    == "none"
Asked   == [call : Calls, from : Callers, ours : BOOLEAN]
Unasked == [call |-> None, from |-> None, ours |-> FALSE]
Status  == {200, 400, 403, 404, 405, 415, 421, 422, 500, 501, 503}
Refused == {"unauthorized", "forbidden"}
Codes   == {None} \cup Errors \cup Refused
Answers == [status : Status, code : Codes]  \* code None: no ApiError in the body
Unanswered == [status |-> 0, code |-> None]
Lines   == [outcome : {"ok", "denied", "error"}, status : Status]

TypeOK ==
  /\ daemon \in {"down", "up", "draining"}
  /\ starts \in 0 .. MaxStarts
  /\ panics \in 0 .. MaxPanics
  /\ stage \in [Reqs -> {"new"} \cup Open \cup Closed]
  /\ req \in [Reqs -> Asked \cup {Unasked}]
  /\ task \in [Reqs -> {None, "read", "list", "focus"}]
  /\ reply \in [Reqs -> {None, "ok"} \cup Errors]
  /\ queue \in [Threads -> Seq(Reqs)]
  /\ busy \in [Threads -> Seq(Reqs)]
  /\ alive \in [Threads -> BOOLEAN]
  /\ answer \in [Reqs -> Answers \cup {Unanswered}]
  /\ lines \in [Reqs -> Seq(Lines)]
  /\ accepted \in Seq(Reqs)
  /\ performed \in Seq(Reqs)

Init ==
  /\ daemon = "down"
  /\ starts = 0 /\ panics = 0
  /\ stage = [r \in Reqs |-> "new"]
  /\ req = [r \in Reqs |-> Unasked]
  /\ task = [r \in Reqs |-> None]
  /\ reply = [r \in Reqs |-> None]
  /\ queue = [t \in Threads |-> << >>]
  /\ busy = [t \in Threads |-> << >>]
  /\ alive = [t \in Threads |-> FALSE]
  /\ answer = [r \in Reqs |-> Unanswered]
  /\ lines = [r \in Reqs |-> << >>]
  /\ accepted = << >>
  /\ performed = << >>

Process == <<daemon, starts, panics>>
Jobs    == <<queue, busy, alive, accepted, performed>>

-----------------------------------------------------------------------------
(* Answering: error_response, and the audit line that goes with it.  The   *)
(* desktop never fails with unauthorized or forbidden: only the middleware *)
(* and audited refuse, with 403.                                           *)

StatusOf(e) ==
  CASE e = "not_found" -> 404
    [] e = "unsupported" -> 501
    [] e = "permission" -> 503
    [] e \in Refused -> 403
    [] e = "bad_request" -> 400
    [] e = "backend" -> 500

Plain(status)    == [status |-> status, code |-> None]
ErrorAnswer(e)   == [status |-> StatusOf(e), code |-> e]
Misdirected      == [status |-> 421, code |-> "unauthorized"]
AnswerOf(res)    == IF res = "ok" THEN Plain(200) ELSE ErrorAnswer(res)

Close(r, a) ==
  /\ stage' = [stage EXCEPT ![r] = "answered"]
  /\ answer' = [answer EXCEPT ![r] = a]

Record(r, outcome, status) ==
  lines' = [lines EXCEPT ![r] = Append(@, [outcome |-> outcome, status |-> status])]

(* audited, once the operation has been awaited. *)
FinishTwice(r, res) ==  \* mutant: an error is recorded by the handler as well
  /\ Close(r, AnswerOf(res))
  /\ IF res = "ok" THEN Record(r, "ok", 200)
     ELSE lines' = [lines EXCEPT ![r] =
            @ \o [i \in 1 .. 2 |-> [outcome |-> "error", status |-> StatusOf(res)]]]
Finish(r, res) ==
  /\ Close(r, AnswerOf(res))
  /\ Record(r, IF res = "ok" THEN "ok" ELSE "error", AnswerOf(res).status)

-----------------------------------------------------------------------------
(* LocalDesktop::new and serve; what the process does next is accept.      *)
Start ==
  /\ daemon = "down" /\ starts < MaxStarts
  /\ daemon' = "up" /\ starts' = starts + 1
  /\ alive' = [t \in Threads |-> TRUE]
  /\ UNCHANGED <<panics, stage, req, task, reply, queue, busy, answer, lines,
                 accepted, performed>>

(* middleware, up to authorize: check_host. *)
Addressed(ours) == ours

Arrive(r, call, from, ours) ==
  /\ daemon = "up" /\ stage[r] = "new"
  /\ req' = [req EXCEPT ![r] = [call |-> call, from |-> from, ours |-> ours]]
  /\ IF Addressed(ours)
     THEN stage' = [stage EXCEPT ![r] = "whois"] /\ UNCHANGED <<answer, lines>>
     ELSE Close(r, Misdirected) /\ Record(r, "denied", 421)
  /\ UNCHANGED <<Process, task, reply, Jobs>>

(* authorize fails: whois does, or no grant names the caller. *)
Identified(r) == stage[r] = "whois"
Listed(r) == Allow[req[r].from] # Nobody

WhoisFails(r) ==
  /\ Identified(r)
  /\ \/ Close(r, ErrorAnswer("unauthorized")) /\ Record(r, "denied", 403)
     \/ Close(r, ErrorAnswer("backend")) /\ Record(r, "error", 500)
  /\ UNCHANGED <<Process, req, task, reply, Jobs>>

Unlisted(r) ==
  /\ Identified(r) /\ ~Listed(r)
  /\ Close(r, ErrorAnswer("unauthorized")) /\ Record(r, "denied", 403)
  /\ UNCHANGED <<Process, req, task, reply, Jobs>>

(* The router and the extractors: what is answered outside audited.  axum  *)
(* refuses a query, a body or a path in words of its own, without ApiError. *)
UngatedAnswers(call) ==
  CASE call \in {"whoami", "health"} -> {Plain(200)}
    [] call = "badquery" -> {Plain(400), ErrorAnswer("bad_request")}
    [] call = "badbody" -> {Plain(status) : status \in {400, 415, 422}}
    [] call = "nowhere" -> {Plain(status) : status \in {404, 405}}

NotGated(r) ==
  /\ Identified(r) /\ Listed(r) /\ req[r].call \in Ungated
  /\ \E a \in UngatedAnswers(req[r].call) : Close(r, a)
  /\ UNCHANGED <<Process, req, task, reply, lines, Jobs>>

(* The capability a handler names to audited. *)
NeedsFocusAsView(call) ==  \* mutant: focusing a window counts as viewing
  IF call \in ToRead \cup ToFocus THEN "view"
  ELSE IF call \in ToInput THEN "input" ELSE "clipboard"
Needs(call) ==
  IF call \in ToRead THEN "view"
  ELSE IF call \in ToInput \cup ToFocus THEN "input" ELSE "clipboard"

Forbidden(r) ==
  /\ Identified(r) /\ Listed(r) /\ req[r].call \in Gated
  /\ Needs(req[r].call) \notin Allow[req[r].from]
  /\ Close(r, ErrorAnswer("forbidden")) /\ Record(r, "denied", 403)
  /\ UNCHANGED <<Process, req, task, reply, Jobs>>

Cleared(r) ==
  /\ Identified(r) /\ Listed(r) /\ req[r].call \in Gated
  /\ Needs(req[r].call) \in Allow[req[r].from]

(* The operation fails before its first await: the displays cannot be      *)
(* listed, or the thread is gone.                                          *)
ThreadFor(call) == IF call \in ToClip THEN "clipboard" ELSE "input"

FailsAtOnce(r) ==
  /\ Cleared(r)
  /\ \/ req[r].call \in ToRead \cup ToInput
     \/ req[r].call \in ToInput \cup ToClip /\ ~alive[ThreadFor(req[r].call)]
  /\ Finish(r, "backend")
  /\ UNCHANGED <<Process, req, task, reply, Jobs>>

(* screenshot and windows: spawn_blocking. *)
Spawn(r) ==
  /\ Cleared(r)
  /\ \/ /\ req[r].call \in ToRead
        /\ stage' = [stage EXCEPT ![r] = "waiting"]
        /\ task' = [task EXCEPT ![r] = "read"]
     \/ /\ req[r].call \in ToFocus
        /\ stage' = [stage EXCEPT ![r] = "listing"]
        /\ task' = [task EXCEPT ![r] = "list"]
  /\ UNCHANGED <<Process, req, reply, Jobs, answer, lines>>

(* InputWorker::input and clip: send the job and await its reply. *)
SendFirst(t, r) == [queue EXCEPT ![t] = <<r>> \o @]  \* mutant: the newest job first
Sent(t, r) == [queue EXCEPT ![t] = Append(@, r)]

Enqueue(r) ==
  LET t == ThreadFor(req[r].call)
  IN  /\ Cleared(r) /\ req[r].call \in ToInput \cup ToClip
      /\ alive[t]
      /\ queue' = Sent(t, r)
      /\ accepted' = IF t = "input" THEN Append(accepted, r) ELSE accepted
      /\ stage' = [stage EXCEPT ![r] = "waiting"]
      /\ UNCHANGED <<Process, req, task, reply, busy, alive, answer, lines, performed>>

-----------------------------------------------------------------------------
(* input_thread and clipboard_thread.  A reply to a handler that is gone   *)
(* is dropped.                                                             *)
IdleTogether(t) == \A u \in Threads : busy[u] = << >>  \* mutant: one thread for both
Idle(t) == busy[t] = << >>

Replies(rs, res) ==
  reply' = [r \in Reqs |-> IF r \in rs /\ stage[r] \in Open THEN res ELSE reply[r]]

Take(t) ==
  /\ alive[t] /\ Idle(t) /\ queue[t] # << >>
  /\ busy' = [busy EXCEPT ![t] = <<Head(queue[t])>>]
  /\ queue' = [queue EXCEPT ![t] = Tail(@)]
  /\ UNCHANGED <<Process, stage, req, task, reply, alive, answer, lines, accepted, performed>>

(* The action takes place, is refused before anything is touched, or fails *)
(* on the way, when it may have taken place.                               *)
Refusals(t) == IF t = "input" THEN {"bad_request", "unsupported", "permission"} ELSE {}

Work(t) ==
  /\ busy[t] # << >>
  /\ \E res \in {"ok", "backend"} \cup Refusals(t), touched \in BOOLEAN :
       /\ res = "ok" => touched
       /\ res \in Refusals(t) => ~touched
       /\ performed' = IF touched THEN performed \o busy[t] ELSE performed
       /\ Replies({busy[t][1]}, res)
  /\ busy' = [busy EXCEPT ![t] = << >>]
  /\ UNCHANGED <<Process, stage, req, task, queue, alive, answer, lines, accepted>>

(* The thread ends: every job it had, and every later one, is an error.    *)
Panic(t) ==
  /\ alive[t] /\ busy[t] # << >>
  /\ panics < MaxPanics /\ panics' = panics + 1
  /\ alive' = [alive EXCEPT ![t] = FALSE]
  /\ Replies({busy[t][1]} \cup {queue[t][i] : i \in DOMAIN queue[t]}, "backend")
  /\ queue' = [queue EXCEPT ![t] = << >>]
  /\ busy' = [busy EXCEPT ![t] = << >>]
  /\ UNCHANGED <<daemon, starts, stage, req, task, answer, lines, accepted, performed>>

(* A blocking task runs to its end, whether or not its handler still waits. *)
TaskErrors == {"backend", "not_found"}

RunTask(r) ==
  /\ task[r] # None
  /\ \E res \in {"ok"} \cup TaskErrors, touched \in BOOLEAN :
       /\ res = "ok" => touched
       /\ performed' = IF touched /\ task[r] # "list" THEN Append(performed, r) ELSE performed
       /\ Replies({r}, res)
  /\ task' = [task EXCEPT ![r] = None]
  /\ UNCHANGED <<Process, stage, req, queue, busy, alive, answer, lines, accepted>>

-----------------------------------------------------------------------------
(* focus, once it has the windows: none matches, or the one that does is   *)
(* focused in a second task.                                               *)
WindowsListed(r) == stage[r] = "listing" /\ reply[r] # None

FocusEnds(r) ==
  /\ WindowsListed(r)
  /\ \E res \in {"not_found", "unsupported"} \cup TaskErrors :
       (reply[r] # "ok" => res = reply[r]) /\ Finish(r, res)
  /\ UNCHANGED <<Process, req, task, reply, Jobs>>

FocusGoesOn(r) ==
  /\ WindowsListed(r) /\ reply[r] = "ok"
  /\ stage' = [stage EXCEPT ![r] = "waiting"]
  /\ task' = [task EXCEPT ![r] = "focus"]
  /\ reply' = [reply EXCEPT ![r] = None]
  /\ UNCHANGED <<Process, req, Jobs, answer, lines>>

(* The handler wakes with the reply. *)
Resume(r) ==
  /\ stage[r] = "waiting" /\ reply[r] # None
  /\ Finish(r, reply[r])
  /\ UNCHANGED <<Process, req, task, reply, Jobs>>

(* clip: CLIPBOARD_TIMEOUT, and no reply yet. *)
HasTimeoutNever(call) == FALSE              \* mutant: no time limit
HasTimeoutAll(call) == call \in ToInput \cup ToClip  \* mutant: input has one too
HasTimeout(call) == call \in ToClip

TimedOutOk == "ok"  \* mutant: given up, and taken for done
TimedOut == "backend"

TimeOut(r) ==
  /\ stage[r] = "waiting" /\ reply[r] = None /\ HasTimeout(req[r].call)
  /\ Finish(r, TimedOut)
  /\ UNCHANGED <<Process, req, task, reply, Jobs>>

(* The caller closes the connection, or its own time limit does            *)
(* (RemoteDesktop::new).                                                   *)
HangUp(r) ==
  /\ stage[r] \in Open
  /\ stage' = [stage EXCEPT ![r] = "dropped"]
  /\ UNCHANGED <<Process, req, task, reply, Jobs, answer, lines>>

-----------------------------------------------------------------------------
(* Shutdown: ctrl_c stops the listener; open requests are served first, and *)
(* the runtime waits for its blocking tasks but not for the two threads.    *)
Interrupt ==
  /\ daemon = "up"
  /\ daemon' = "draining"
  /\ UNCHANGED <<starts, panics, stage, req, task, reply, Jobs, answer, lines>>

DrainedThreads == \A t \in Threads : queue[t] = << >> /\ busy[t] = << >>
DrainedJoined ==  \* mutant: the threads are joined
  (\A r \in Reqs : stage[r] \notin Open /\ task[r] = None) /\ DrainedThreads
Drained == \A r \in Reqs : stage[r] \notin Open /\ task[r] = None

(* The process ends, and its threads, its queues and its tasks with it. *)
End ==
  /\ daemon' = "down"
  /\ stage' = [r \in Reqs |-> IF stage[r] \in Open THEN "dropped" ELSE stage[r]]
  /\ task' = [r \in Reqs |-> None]
  /\ queue' = [t \in Threads |-> << >>]
  /\ busy' = [t \in Threads |-> << >>]
  /\ alive' = [t \in Threads |-> FALSE]
  /\ UNCHANGED <<starts, panics, req, reply, answer, lines, accepted, performed>>

Exit == daemon = "draining" /\ Drained /\ End
Kill == daemon # "down" /\ End

Decide(r) == \/ WhoisFails(r) \/ Unlisted(r) \/ NotGated(r) \/ Forbidden(r)
             \/ FailsAtOnce(r) \/ Spawn(r) \/ Enqueue(r)

Next ==
  \/ Start \/ Interrupt \/ Exit \/ Kill
  \/ \E r \in Reqs :
       \/ \E call \in Calls, from \in Callers, ours \in BOOLEAN : Arrive(r, call, from, ours)
       \/ WhoisFails(r) \/ Unlisted(r) \/ NotGated(r) \/ Forbidden(r)
       \/ FailsAtOnce(r) \/ Spawn(r) \/ Enqueue(r)
       \/ RunTask(r) \/ FocusEnds(r) \/ FocusGoesOn(r) \/ Resume(r) \/ TimeOut(r) \/ HangUp(r)
  \/ \E t \in Threads : Take(t) \/ Work(t) \/ Panic(t)

Spec == Init /\ [][Next]_vars
-----------------------------------------------------------------------------
(* What the code's scheduling gives: the runtime polls a handler that can   *)
(* go on, tokio's timer fires, tailscaled answers, a blocking task and the  *)
(* input thread come to an end.  The clipboard thread may hang for ever: it *)
(* waits for whichever program owns the clipboard.  Reading the body of a   *)
(* POST (routes.rs, act_h) is an await of its own in the code and part of   *)
(* the wait for whois here: that a decision is reached assumes a peer that  *)
(* sends the body it announced or hangs up, since axum puts no limit on it. *)
FairSpec ==
  /\ Spec
  /\ \A r \in Reqs : /\ WF_vars(Decide(r)) /\ WF_vars(RunTask(r))
                      /\ WF_vars(FocusEnds(r) \/ FocusGoesOn(r))
                      /\ WF_vars(Resume(r)) /\ WF_vars(TimeOut(r))
  /\ WF_vars(Take("input")) /\ WF_vars(Work("input"))
  /\ WF_vars(Exit)

-----------------------------------------------------------------------------
Entries(s, r) == {i \in DOMAIN s : s[i] = r}
Done(r) == Entries(performed, r) # {}

Covered(cap) == CASE cap = "view" -> {"state", "screenshot"}
                  [] cap = "input" -> {"input", "focus"}
                  [] cap = "clipboard" -> {"clipget", "clipset"}

(* Nothing is done to the desktop, nor read from it, except for a caller   *)
(* the allowlist gives the capability that covers it, on a request that    *)
(* was addressed to this node: not by a job left behind by a caller that   *)
(* has gone, nor after a restart (proto.rs, Capability; routes.rs,         *)
(* audited; auth.rs, middleware).                                          *)
MayHaveIt(r) ==
  /\ req[r].ours
  /\ \E cap \in Caps \cap Allow[req[r].from] : req[r].call \in Covered(cap)

EffectsAuthorised == \A i \in DOMAIN performed : MayHaveIt(performed[i])

(* A request leaves at most one audit line, which has the status its       *)
(* caller got; one that was rejected or asked for a capability and was     *)
(* answered leaves exactly one, marked denied if and only if it was        *)
(* refused for who or where it came from (audit.rs; routes.rs, audited).   *)
OneTrueLine ==
  \A r \in Reqs :
    /\ Len(lines[r]) =< 1
    /\ lines[r] # << >> =>
         /\ stage[r] = "answered" /\ lines[r][1].status = answer[r].status
         /\ lines[r][1].outcome = "denied" <=> answer[r].status \in {403, 421}
    /\ stage[r] = "answered" /\ lines[r] = << >> => req[r].call \in Ungated

(* Mouse and keyboard actions take place in the order their requests       *)
(* reached the queue, whatever becomes of the handlers (input.rs,          *)
(* input_thread: one thread, one channel).                                 *)
InputInOrder ==
  \A i, j \in DOMAIN accepted : i < j =>
    \A k, l \in DOMAIN performed :
      performed[k] = accepted[j] /\ performed[l] = accepted[i] => l < k

(* Once a mouse or keyboard request is answered, with success or with an   *)
(* error, it has no further effect: unlike a clipboard operation it is     *)
(* never given up while it may still take place (input.rs, input).         *)
NoLateInput ==
  [][\A r \in Reqs : stage[r] = "answered" /\ req[r].call \in ToInput => (Done(r)' <=> Done(r))]_vars

(* A clipboard that hangs never blocks mouse and keyboard: such a request  *)
(* is answered all the same (input.rs:2-3).                                *)
InputNotBlockedByClipboard ==
  \A r \in Reqs : (stage[r] = "waiting" /\ req[r].call \in ToInput) ~> stage[r] \in Closed

(* Whoever waits for the clipboard gets an answer even if its owner hangs  *)
(* (input.rs, CLIPBOARD_TIMEOUT).                                          *)
ClipboardAnswered ==
  \A r \in Reqs : (stage[r] = "waiting" /\ req[r].call \in ToClip) ~> stage[r] \in Closed

(* A daemon that was asked to stop does, whatever the clipboard does, as   *)
(* long as its peers finish sending what they have begun to send           *)
(* (server/mod.rs, with_graceful_shutdown).                                *)
ShutdownCompletes == daemon = "draining" ~> daemon = "down"

-----------------------------------------------------------------------------
(* The inductive invariants behind EffectsAuthorised and OneTrueLine: only  *)
(* what the caller may have gets past the gate, into a task or a queue, and *)
(* a line is there when, and only when, an answer is.                       *)
Entitled ==
  /\ \A r \in Reqs : IF stage[r] = "new" THEN req[r] = Unasked ELSE req[r] \in Asked
  /\ \A r \in Reqs : stage[r] = "whois" => req[r].ours
  /\ \A r \in Reqs : stage[r] = "listing" \/ task[r] # None => MayHaveIt(r)
  /\ \A t \in Threads :
       /\ \A i \in DOMAIN queue[t] : MayHaveIt(queue[t][i])
       /\ \A i \in DOMAIN busy[t] : MayHaveIt(busy[t][i])
  /\ EffectsAuthorised

EntitledInv == TypeOK /\ Entitled

Untold(r)  == stage[r] # "answered" /\ lines[r] = << >>
Unlogged(r) == stage[r] = "answered" /\ lines[r] = << >> /\ req[r].call \in Ungated
Told(r) ==
  /\ stage[r] = "answered"
  /\ \E l \in Lines : /\ lines[r] = <<l>> /\ l.status = answer[r].status
                      /\ l.outcome = "denied" <=> answer[r].status \in {403, 421}

LinesFollowAnswers == \A r \in Reqs : Untold(r) \/ Unlogged(r) \/ Told(r)

(* The inductive invariants behind InputInOrder and NoLateInput.  Whatever  *)
(* is owed to a request, by a thread or by a task, is owed once and not    *)
(* yet done; and what the input thread has not finished is the end of what *)
(* was accepted, in that order, whatever was lost before it.               *)
HeldBy(t) == {queue[t][i] : i \in DOMAIN queue[t]} \cup {busy[t][i] : i \in DOMAIN busy[t]}
Owed(r) == task[r] # None \/ \E t \in Threads : r \in HeldBy(t)

OwedOnce ==
  /\ \A t \in Threads :
       /\ \A r \in HeldBy(t) : /\ req[r].call \in ToInput \cup ToClip
                              /\ ThreadFor(req[r].call) = t
       /\ \A i, j \in DOMAIN queue[t] : queue[t][i] = queue[t][j] => i = j
       /\ \A i \in DOMAIN busy[t] :
            i = 1 /\ \A j \in DOMAIN queue[t] : queue[t][j] # busy[t][i]
  /\ \A r \in Reqs : task[r] # None => req[r].call \in ToRead \cup ToFocus
  /\ \A i, j \in DOMAIN performed : performed[i] = performed[j] => i = j

Finished == Len(accepted) - (Len(busy["input"]) + Len(queue["input"]))

PipelineInOrder ==
  /\ Finished \in Nat
  /\ \A i \in DOMAIN busy["input"] : busy["input"][i] = accepted[Finished + i]
  /\ \A i \in DOMAIN queue["input"] :
       queue["input"][i] = accepted[Finished + Len(busy["input"]) + i]
  /\ \A i, j \in DOMAIN accepted : accepted[i] = accepted[j] => i = j
  /\ \A i \in DOMAIN accepted :
       stage[accepted[i]] \notin {"new", "whois"} /\ req[accepted[i]].call \in ToInput
  /\ \A i \in DOMAIN accepted, k \in DOMAIN performed :
       performed[k] = accepted[i] => i =< Finished

-----------------------------------------------------------------------------
(* What a daemon that was never stopped did for an authorized request is   *)
(* in the audit log once the request is over (docs/configuration.md).      *)
EveryActionRecorded ==
  (starts = 1 /\ daemon = "up") =>
    \A r \in Reqs : (Done(r) /\ stage[r] \in Closed) => lines[r] # << >>
=============================================================================
