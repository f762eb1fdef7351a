------------------------------ MODULE AuditSink ------------------------------
(***************************************************************************)
(* The audit log on disk: Audit::open, record and Sink::rotate             *)
(* (src/src/server/audit.rs), one file system call at a time.              *)
(*                                                                         *)
(* Slot 0 is the configured path, slot n the rotated file path.n.  The     *)
(* open handle is tied to a file and not to a name: it follows its file    *)
(* through every rename, and outlives it when the file is removed.  The    *)
(* sink's mutex is held from the first step of a record to the last, so    *)
(* only a crash comes between them.                                        *)
(*                                                                         *)
(* What a record wrote is known by the record's number.  A write that      *)
(* fails part way leaves a fragment without a newline, and the next write  *)
(* continues that line.                                                    *)
(***************************************************************************)
EXTENDS Naturals, Sequences, SequencesExt

CONSTANTS
  Keep,        \* [serve.audit].keep
  MaxBytes,    \* [serve.audit].max_size_mb
  Sizes,       \* the sizes a line may have
  MaxRecords,  \* bound: records made
  MaxFaults,   \* bound: file system calls that fail
  MaxCrashes   \* bound: times the daemon dies

ASSUME SinkAssumption ==
  /\ Keep \in Nat
  /\ MaxBytes \in Nat
  /\ Sizes \subseteq 1 .. MaxBytes
  /\ {MaxRecords, MaxFaults, MaxCrashes} \subseteq Nat

VARIABLES
  slot,     \* the files, by name
  handle,   \* Sink.file: the slot of the open file, or Unlinked
  written,  \* Sink.written
  pc,       \* the file system call that comes next
  n,        \* the loop variable of rotate
  line,     \* the record being made
  records, faults, crashes,
  trail     \* history: the lines whose write succeeded, in order

vars == <<slot, handle, written, pc, n, line, records, faults, crashes, trail>>

-----------------------------------------------------------------------------
Slots    == 0 .. Keep
Unlinked == Keep + 1

Pieces   == [id : 1 .. MaxRecords, json : BOOLEAN, ends : BOOLEAN]
Absent   == [there |-> FALSE, text |-> << >>, bytes |-> 0]
Empty    == [there |-> TRUE,  text |-> << >>, bytes |-> 0]

Steps == {"down", "ready", "oldest", "shift", "active", "open", "write"}

TypeOK ==
  /\ slot \in [Slots -> [there : BOOLEAN, text : Seq(Pieces), bytes : Nat]]
  /\ handle \in Slots \cup {Unlinked}
  /\ written \in Nat
  /\ pc \in Steps
  /\ n \in Slots
  /\ line \in [id : 0 .. MaxRecords, size : {0} \cup Sizes]
  /\ records \in 0 .. MaxRecords
  /\ faults \in 0 .. MaxFaults
  /\ crashes \in 0 .. MaxCrashes
  /\ trail \in Seq(1 .. MaxRecords)

Init ==
  /\ slot = [s \in Slots |-> Absent]
  /\ handle = Unlinked
  /\ written = 0
  /\ pc = "down"
  /\ n = 0
  /\ line = [id |-> 0, size |-> 0]
  /\ records = 0 /\ faults = 0 /\ crashes = 0
  /\ trail = << >>

Budgets == <<records, faults, crashes>>

(* The next call fails, leaving the files as they are. *)
Fault == faults < MaxFaults /\ faults' = faults + 1

-----------------------------------------------------------------------------
(* Audit::open, at start.  open_private appends to a file that is there,   *)
(* and what it holds counts as written.                                    *)
Opened(f) == IF f.there THEN f ELSE Empty

WrittenAtStartZero == 0  \* mutant: the length of the file is not read
WrittenAtStart == slot[0].bytes

Start ==
  /\ pc = "down"
  /\ slot' = [slot EXCEPT ![0] = Opened(slot[0])]
  /\ handle' = 0
  /\ written' = WrittenAtStart
  /\ pc' = "ready"
  /\ UNCHANGED <<n, line, Budgets, trail>>

-----------------------------------------------------------------------------
(* record: whether the line still fits.                                     *)
Overfull(size) == written + size > MaxBytes

FirstCall(size) == IF ~Overfull(size) THEN "write"
                   ELSE IF Keep = 0 THEN "active" ELSE "oldest"

Record(size) ==
  /\ pc = "ready"
  /\ records < MaxRecords
  /\ records' = records + 1
  /\ line' = [id |-> records + 1, size |-> size]
  /\ pc' = FirstCall(size)
  /\ UNCHANGED <<slot, handle, written, n, faults, crashes, trail>>

(* The effect of removing, or renaming, a file on the names and the handle. *)
Unlink(s) ==
  /\ slot' = [slot EXCEPT ![s] = Absent]
  /\ handle' = IF handle = s THEN Unlinked ELSE handle

Rename(s, t) ==
  /\ slot' = [slot EXCEPT ![s] = Absent, ![t] = slot[s]]
  /\ handle' = IF handle = s THEN t ELSE IF handle = t THEN Unlinked ELSE handle

(* One of the renames of rotate: rotated(s) to rotated(s + 1).              *)
Rotate(s) == Rename(s, s + 1)

(* rotate, with keep > 0: `let _ = remove_file(rotated(keep))`. *)
AfterOldestNoShift == "active"  \* mutant: the older files stay where they are
AfterOldest == IF Keep = 1 THEN "active" ELSE "shift"

RemoveOldest ==
  /\ pc = "oldest"
  /\ \/ Unlink(Keep) /\ UNCHANGED faults
     \/ slot[Keep].there /\ Fault /\ UNCHANGED <<slot, handle>>
  /\ n' = Keep - 1
  /\ pc' = AfterOldest
  /\ UNCHANGED <<written, line, records, crashes, trail>>

(* `let _ = rename(rotated(n), rotated(n + 1))` for n from keep-1 down to 1. *)
LastShiftZero == n = 0         \* mutant: the loop includes 0
LastShift == n = 1

Shift ==
  /\ pc = "shift"
  /\ \/ slot[n].there /\ Rotate(n) /\ UNCHANGED faults
     \/ slot[n].there /\ Fault /\ UNCHANGED <<slot, handle>>
     \/ ~slot[n].there /\ UNCHANGED <<slot, handle, faults>>
  /\ n' = n - 1
  /\ pc' = IF LastShift THEN "active" ELSE "shift"
  /\ UNCHANGED <<written, line, records, crashes, trail>>

(* `rename(path, rotated(1))?`, or `remove_file(path)?` when none is kept:  *)
(* an error ends the rotation, and the line goes to the handle there is.   *)
MoveActive ==
  /\ pc = "active"
  /\ \/ /\ slot[0].there
        /\ IF Keep = 0 THEN Unlink(0) ELSE Rotate(0)
        /\ pc' = "open"
        /\ UNCHANGED faults
     \/ /\ ~slot[0].there
        /\ pc' = "write"
        /\ UNCHANGED <<slot, handle, faults>>
     \/ /\ slot[0].there /\ Fault
        /\ pc' = "write"
        /\ UNCHANGED <<slot, handle>>
  /\ UNCHANGED <<written, n, line, records, crashes, trail>>

(* `self.file = open_private(&self.path)?; self.written = 0`. *)
ReopenedOld == handle  \* mutant: the new file is opened and not kept
Reopened == 0

Reopen ==
  /\ pc = "open"
  /\ \/ /\ slot' = [slot EXCEPT ![0] = Opened(slot[0])]
        /\ handle' = Reopened
        /\ written' = 0
        /\ UNCHANGED faults
     \/ /\ Fault
        /\ UNCHANGED <<slot, handle, written>>
  /\ pc' = "write"
  /\ UNCHANGED <<n, line, records, crashes, trail>>

(* `write_all(line)`: to the end of the open file, whatever its name.  A   *)
(* failed write may leave a part of the line, and counts nothing.          *)
Put(piece, bytes) ==
  slot' = IF handle = Unlinked THEN slot
          ELSE [slot EXCEPT ![handle].text = Append(@, piece), ![handle].bytes = @ + bytes]

OnNewLine == handle = Unlinked \/ slot[handle].text = << >> \/ Last(slot[handle].text).ends

Whole    == [id |-> line.id, json |-> OnNewLine, ends |-> TRUE]
Fragment == [id |-> line.id, json |-> FALSE, ends |-> FALSE]

Write ==
  /\ pc = "write"
  /\ \/ /\ Put(Whole, line.size)
        /\ written' = written + line.size
        /\ trail' = Append(trail, line.id)
        /\ UNCHANGED faults
     \/ /\ Fault
        /\ \E part \in 0 .. (line.size - 1) :
             IF part = 0 THEN UNCHANGED slot ELSE Put(Fragment, part)
        /\ UNCHANGED <<written, trail>>
  /\ pc' = "ready"
  /\ UNCHANGED <<handle, n, line, records, crashes>>

(* The daemon's process ends between any two calls.  What was written      *)
(* stays, as it does in the system's cache; that the machine goes down and *)
(* loses it (the code never calls sync), or that a kill tears a write in   *)
(* two, is left out.                                                       *)
Crash ==
  /\ pc # "down"
  /\ crashes < MaxCrashes
  /\ crashes' = crashes + 1
  /\ pc' = "down"
  /\ handle' = Unlinked
  /\ written' = 0 /\ n' = 0 /\ line' = [id |-> 0, size |-> 0]
  /\ UNCHANGED <<slot, records, faults, trail>>

Next ==
  \/ Start
  \/ \E size \in Sizes : Record(size)
  \/ RemoveOldest \/ Shift \/ MoveActive \/ Reopen \/ Write
  \/ Crash

Spec == Init /\ [][Next]_vars

-----------------------------------------------------------------------------
(* Reading the files, oldest first; what is not JSON is skipped, as tail    *)
(* does.                                                                    *)
Readable(text) ==
  LET upTo[i \in 0 .. Len(text)] ==
        IF i = 0 THEN << >>
        ELSE IF text[i].json THEN Append(upTo[i - 1], text[i].id) ELSE upTo[i - 1]
  IN  upTo[Len(text)]

ToRead == FlattenSeq([i \in 1 .. Keep + 1 |-> Readable(slot[Keep + 1 - i].text)])

(* Whatever is rotated, whatever fails, and wherever the daemon dies and   *)
(* starts again, the files read oldest first are the log that AuditTrail   *)
(* promises: the last lines written, in order, with nothing lost in        *)
(* between until a call fails, and nothing twice or out of order ever      *)
(* (audit.rs, rotate: the order of its renames).                           *)
Trail == INSTANCE AuditTrail
         WITH Lines <- 1 .. MaxRecords, log <- trail, kept <- ToRead, reliable <- faults = 0
TrailKept == Trail!Spec

(* As long as no call fails no file outgrows the configured size, restarts *)
(* included (audit.rs, record and open; config.rs: rotate when the file    *)
(* exceeds max_size_mb).                                                   *)
InSize == \A s \in Slots : slot[s].bytes =< MaxBytes
SizeBounded == faults = 0 => InSize

(* Without a crash or a failing call a line is forgotten only when every   *)
(* rotated file is in use (config.rs: keep).                               *)
ForgetsOnlyWhenFull ==
  [][(crashes = 0 /\ faults' = 0 /\ Len(ToRead') < Len(ToRead))
       => \A s \in 1 .. Keep : slot[s].there]_vars

-----------------------------------------------------------------------------
(* The inductive invariant behind SizeBounded: while no call has failed,   *)
(* between rotations the handle is the file at the path and Sink.written   *)
(* its length, and a line that is about to be written fits.                *)
InRecord == pc \in {"oldest", "shift", "active", "open", "write"}

LineUnderWay == InRecord => line.id # 0 /\ line.size \in Sizes

LoopInRange ==
  /\ pc = "oldest" => Keep # 0
  /\ pc = "shift" => n \in 1 .. (Keep - 1)

CountedBytes ==
  /\ \A s \in Slots : ~slot[s].there => slot[s].bytes = 0
  /\ pc \notin {"down", "open"} => handle = 0 /\ slot[0].there /\ written = slot[0].bytes
  /\ pc = "open" => ~slot[0].there
  /\ pc = "write" => written + line.size =< MaxBytes

SizeInv ==
  /\ TypeOK /\ LineUnderWay /\ LoopInRange
  /\ faults = 0 => CountedBytes /\ InSize

(* The invariant behind TrailKept: what is open is the last file there is, *)
(* and while no call has failed every line is whole, and a file is moved   *)
(* where there is none.                                                    *)
OpenIsLast ==
  handle \in Slots => slot[handle].there /\ \A s \in Slots : s < handle => ~slot[s].there

NoRests == \A s \in Slots : ~slot[s].there => slot[s].text = << >>

(* The rotated file that is missing while the older ones are moved up.     *)
Gap == IF pc = "shift" THEN n + 1 ELSE IF pc = "active" THEN 1 ELSE 0

WholeLines == \A s \in Slots : \A i \in 1 .. Len(slot[s].text) : slot[s].text[i].ends

TrailInv ==
  /\ SizeInv /\ OpenIsLast /\ NoRests
  /\ faults = 0 => WholeLines /\ (Gap \in 1 .. Keep => ~slot[Gap].there)

(* And behind ForgetsOnlyWhenFull: without a crash or a failing call the   *)
(* rotated files are used one after the other, but for the gap.            *)
FilledUp ==
  crashes = 0 /\ faults = 0 =>
    \A s, t \in 1 .. Keep : s < t /\ slot[t].there => slot[s].there \/ s = Gap
=============================================================================
