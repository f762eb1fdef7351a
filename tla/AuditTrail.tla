----------------------------- MODULE AuditTrail -----------------------------
(***************************************************************************)
(* What the audit log promises whoever reads it: lines are added at the    *)
(* end, and may be forgotten from the beginning, a whole file at a time.   *)
(* As long as the file system is reliable no line is changed, moved,       *)
(* repeated or lost between two that are kept.  Once a call has failed,    *)
(* lines may be lost, never moved or repeated.                             *)
(***************************************************************************)
EXTENDS Naturals, Sequences

CONSTANT Lines

VARIABLES
  log,      \* every line written so far
  kept,     \* those that can still be read, oldest first
  reliable  \* no file system call has failed

vars == <<log, kept, reliable>>

Init == log = << >> /\ kept = << >> /\ reliable = TRUE

Add ==
  /\ \E l \in Lines :
       /\ log' = Append(log, l)
       /\ \/ kept' = Append(kept, l)
          \/ kept' = kept /\ ~reliable
  /\ UNCHANGED reliable

Forget ==
  /\ \E n \in 1 .. Len(kept) : kept' = SubSeq(kept, n + 1, Len(kept))
  /\ UNCHANGED <<log, reliable>>

Fail == reliable' = FALSE /\ UNCHANGED <<log, kept>>

(* A file's worth of lines is lost from anywhere. *)
Lose ==
  /\ ~reliable
  /\ \E i, j \in 1 .. Len(kept) :
       i =< j /\ kept' = SubSeq(kept, 1, i - 1) \o SubSeq(kept, j + 1, Len(kept))
  /\ UNCHANGED <<log, reliable>>

Next == Add \/ Forget \/ Fail \/ Lose

Spec == Init /\ [][Next]_vars
=============================================================================
