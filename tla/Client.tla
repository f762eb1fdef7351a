------------------------------- MODULE Client -------------------------------
(***************************************************************************)
(* The other end of a connection: RemoteDesktop (src/src/desktop/remote.rs) *)
(* turns what comes back into the result of a Desktop call.  Nothing is    *)
(* kept between two calls, so what a caller is told is a function of what  *)
(* the daemon sent it.                                                     *)
(***************************************************************************)
EXTENDS Daemon, FiniteSets

(* check: the code of an ApiError, or else the status.                     *)
CheckNoForbidden(a) ==  \* mutant: no arm for the code "forbidden"
  IF a.code = "forbidden" THEN "backend"
  ELSE IF a.code # None THEN a.code
  ELSE IF a.status \in {401, 403} THEN "unauthorized" ELSE "backend"
Check(a) ==
  IF a.code # None THEN a.code
  ELSE IF a.status \in {401, 403} THEN "unauthorized" ELSE "backend"

(* The connection may break after the status: text().await is then empty,  *)
(* and a body that was needed is missing.                                  *)
Broken(a) == [a EXCEPT !.code = None]
NeedsBody(call) == call \in ToRead \cup {"clipget", "whoami"}

Results(a, call) ==
  IF a.status = 200 THEN {"ok"} \cup IF NeedsBody(call) THEN {"backend"} ELSE {}
  ELSE {Check(a), Check(Broken(a))}

(* What the client returns; net, if nothing comes back before its time     *)
(* limit or the connection is lost.                                        *)
Returns(r) ==
  CASE stage[r] = "answered" -> Results(answer[r], req[r].call)
    [] stage[r] = "dropped" -> {"backend"}
    [] OTHER -> {}

-----------------------------------------------------------------------------
(* A client that is told it was refused was: the audit line says denied,   *)
(* and "forbidden", unlike "unauthorized", is said to peers of the         *)
(* allowlist alone.  With the whole answer the converse holds: a denial is *)
(* never taken for a failure of the desktop (remote.rs, check; auth.rs,    *)
(* error_response; routes.rs, audited).                                    *)
DenialsUnderstood ==
  \A r \in Reqs :
    /\ \A h \in Returns(r) \cap Refused :
         /\ Len(lines[r]) = 1 /\ lines[r][1].outcome = "denied"
         /\ h = "forbidden" => Listed(r) /\ req[r].ours /\ ~MayHaveIt(r)
    /\ lines[r] # << >> /\ lines[r][1].outcome = "denied" => Check(answer[r]) \in Refused

-----------------------------------------------------------------------------
(* The Desktop calls of module DesktopCalls: those of the trait, as their  *)
(* callers see them.                                                       *)
IsRefusal(res) == res \in {"unauthorized", "forbidden", "bad_request", "unsupported", "permission"}

Knows(r) ==
  IF req[r].call \notin Gated \/ Returns(r) = {} THEN "pending"
  ELSE IF "ok" \in Returns(r) THEN "ok"
  ELSE IF IsRefusal(Check(answer[r])) THEN "refused" ELSE "unknown"

Trait == INSTANCE DesktopCalls WITH
  Requests <- Reqs,
  told    <- [r \in Reqs |-> Knows(r)],
  effects <- [r \in Reqs |-> Cardinality(Entries(performed, r))]

(* The daemon behind its HTTP interface keeps the promise of the trait: an *)
(* action takes effect at most once, success means that it has, and after  *)
(* success or a refusal nothing more happens, whoever hangs up, panics,    *)
(* times out or is restarted (desktop/mod.rs, Desktop; remote.rs).         *)
TraitKept == Trait!Spec

-----------------------------------------------------------------------------
(* The inductive invariant behind TraitKept: how far what a request has    *)
(* been told, and what its handler has been told, agrees with what was     *)
(* done for it and what may still be.                                      *)
RefusedByThread == {"bad_request", "unsupported", "permission"}

Accounted(r) ==
  /\ Owed(r) => ~Done(r) /\ stage[r] \notin {"new", "whois"}
  /\ stage[r] \in {"new", "whois"} => reply[r] = None /\ ~Done(r)
  /\ stage[r] = "listing" =>
       req[r].call \in ToFocus /\ ~Done(r) /\ task[r] \in IF reply[r] = None THEN {"list"} ELSE {None}
  /\ task[r] = "list" => stage[r] \in {"listing", "dropped"}
  /\ stage[r] = "waiting" =>
       /\ req[r].call \in Gated
       /\ reply[r] # None => ~Owed(r)
       /\ reply[r] = "ok" => Done(r)
       /\ reply[r] \in RefusedByThread => ~Done(r)
  /\ stage[r] = "answered" /\ req[r].call \in Gated =>
       /\ Owed(r) => req[r].call \in ToClip /\ answer[r] = ErrorAnswer("backend")
       /\ answer[r].status = 200 => Done(r)
       /\ IsRefusal(Check(answer[r])) => ~Done(r) /\ ~Owed(r)
  /\ stage[r] # "answered" => answer[r] = Unanswered

AllAccounted == OwedOnce /\ \A r \in Reqs : Accounted(r)

(* And the one behind DenialsUnderstood: why an answer says what it says.   *)
Explained(r) ==
  stage[r] = "answered" =>
    /\ answer[r] \in Answers
    /\ answer[r].status \in {403, 421} <=> answer[r].code \in Refused
    /\ answer[r].code = "forbidden" => Listed(r) /\ req[r].ours /\ ~MayHaveIt(r)
    /\ lines[r] = << >> => answer[r].status \notin {403, 421}
=============================================================================
