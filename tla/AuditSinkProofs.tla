-------------------------- MODULE AuditSinkProofs --------------------------
(***************************************************************************)
(* Proofs about AuditSink, for every number of rotated files, size limit,  *)
(* choice of line sizes and number of crashes: the variables keep their    *)
(* types whatever fails; until a file system call fails no file outgrows   *)
(* the configured size; every step is one of AuditTrail or none; and a     *)
(* line is forgotten only when every rotated file is in use.               *)
(***************************************************************************)
EXTENDS AuditSink, TLAPS, SequenceTheorems, WellFoundedInduction

Typed == TypeOK /\ LineUnderWay /\ LoopInRange

LEMMA SlotFacts == 0 \in Slots /\ Keep \in Slots /\ Unlinked \notin Slots
BY SinkAssumption DEF Slots, Unlinked

(* The files keep their type under the three ways they change.             *)
Files == [there : BOOLEAN, text : Seq(Pieces), bytes : Nat]

LEMMA OpenedType == ASSUME NEW f \in Files PROVE Opened(f) \in Files /\ Opened(f).there
BY DEF Opened, Files, Empty

LEMMA UnlinkType ==
  ASSUME TypeOK, NEW s \in Slots, Unlink(s)
  PROVE  /\ slot' \in [Slots -> Files]
         /\ handle' \in Slots \cup {Unlinked}
         /\ ~slot'[s].there /\ slot'[s].bytes = 0 /\ slot'[s].text = << >>
         /\ \A t \in Slots : t # s => slot'[t] = slot[t]
         /\ handle # s => handle' = handle
<1>1. Absent \in Files
  BY DEF Absent, Files
<1> QED
  BY <1>1 DEF TypeOK, Unlink, Absent, Files

LEMMA RenameType ==
  ASSUME TypeOK, NEW s \in Slots, NEW t \in Slots, s # t, Rename(s, t)
  PROVE  /\ slot' \in [Slots -> Files]
         /\ handle' \in Slots \cup {Unlinked}
         /\ ~slot'[s].there /\ slot'[s].bytes = 0 /\ slot'[s].text = << >>
         /\ slot'[t] = slot[s]
         /\ \A u \in Slots : u # s /\ u # t => slot'[u] = slot[u]
         /\ handle \notin {s, t} => handle' = handle
<1>1. Absent \in Files
  BY DEF Absent, Files
<1> QED
  BY <1>1 DEF TypeOK, Rename, Absent, Files

LEMMA PutType ==
  ASSUME TypeOK, NEW piece \in Pieces, NEW b \in Nat, Put(piece, b)
  PROVE  /\ slot' \in [Slots -> Files]
         /\ \A s \in Slots :
              /\ slot'[s].there = slot[s].there
              /\ slot'[s].bytes = IF s = handle THEN slot[s].bytes + b ELSE slot[s].bytes
              /\ slot'[s].text = IF s = handle THEN Append(slot[s].text, piece) ELSE slot[s].text
<1>1. CASE handle = Unlinked
  BY <1>1, SlotFacts DEF Put, TypeOK, Files
<1>2. CASE handle \in Slots
  <2>1. /\ slot[handle] \in Files
        /\ slot' = [slot EXCEPT ![handle] = [slot[handle] EXCEPT
                      !.text = Append(slot[handle].text, piece),
                      !.bytes = slot[handle].bytes + b]]
    BY <1>2, SlotFacts DEF Put, TypeOK, Files
  <2>2. Append(slot[handle].text, piece) \in Seq(Pieces) /\ slot[handle].bytes + b \in Nat
    BY <2>1 DEF Files
  <2> QED
    BY <1>2, <2>1, <2>2 DEF TypeOK, Files
<1> QED
  BY <1>1, <1>2 DEF TypeOK

LEMMA FaultType == ASSUME TypeOK, Fault PROVE faults' \in 0 .. MaxFaults
BY SinkAssumption DEF TypeOK, Fault

LEMMA LineType ==
  ASSUME TypeOK, LineUnderWay, pc = "write"
  PROVE  line.id \in 1 .. MaxRecords /\ line.size \in Sizes /\ line.size \in Nat
<1>1. line.id \in 0 .. MaxRecords /\ line.id # 0 /\ line.size \in Sizes
  BY DEF TypeOK, LineUnderWay, InRecord
<1>2. line.size \in 1 .. MaxBytes
  BY <1>1, SinkAssumption
<1> QED
  BY <1>1, <1>2, SinkAssumption

LEMMA PieceType == TypeOK /\ LineUnderWay /\ pc = "write" => Whole \in Pieces /\ Fragment \in Pieces
<1> SUFFICES ASSUME TypeOK, LineUnderWay, pc = "write"
             PROVE  Whole \in Pieces /\ Fragment \in Pieces
  OBVIOUS
<1>1. line.id \in 1 .. MaxRecords
  BY SinkAssumption DEF TypeOK, LineUnderWay, InRecord
<1>2. OnNewLine \in BOOLEAN
  <2>1. CASE handle = Unlinked \/ slot[handle].text = << >>
    BY <2>1 DEF OnNewLine
  <2>2. CASE handle \in Slots /\ slot[handle].text # << >>
    <3>1. slot[handle].text \in Seq(Pieces)
      BY <2>2 DEF TypeOK
    <3>2. Last(slot[handle].text) \in Pieces
      BY <2>2, <3>1 DEF Last
    <3> QED
      BY <3>2, <2>2 DEF OnNewLine, Pieces
  <2> QED
    BY <2>1, <2>2 DEF TypeOK
<1> QED
  BY <1>1, <1>2 DEF Whole, Fragment, Pieces

-----------------------------------------------------------------------------
LEMMA InitTyped == Init => Typed
<1> SUFFICES ASSUME Init PROVE Typed
  OBVIOUS
<1>1. slot \in [Slots -> Files]
  BY DEF Init, Absent, Files
<1> QED
  BY <1>1, SinkAssumption, SlotFacts
  DEF Init, Typed, TypeOK, LineUnderWay, LoopInRange, InRecord, Files, Steps

LEMMA NextTyped == Typed /\ [Next]_vars => Typed'
<1> SUFFICES ASSUME Typed, [Next]_vars PROVE Typed'
  OBVIOUS
<1> USE SinkAssumption, SlotFacts
<1>1. TypeOK /\ LineUnderWay /\ LoopInRange
  BY DEF Typed
<1>2. CASE Start
  <2>1. Opened(slot[0]) \in Files
    BY <1>1, OpenedType DEF TypeOK, Files
  <2>2. slot' \in [Slots -> Files] /\ written' \in Nat
    BY <1>1, <1>2, <2>1 DEF Start, TypeOK, Files, WrittenAtStart
  <2> QED
    BY <1>1, <1>2, <2>2
    DEF Start, Typed, TypeOK, LineUnderWay, LoopInRange, InRecord, Files, Steps, Budgets
<1>3. ASSUME NEW size \in Sizes, Record(size) PROVE Typed'
  <2>1. records' \in 1 .. MaxRecords /\ line' \in [id : 1 .. MaxRecords, size : Sizes]
    BY <1>1, <1>3 DEF Record, TypeOK
  <2>2. line' \in [id : 0 .. MaxRecords, size : {0} \cup Sizes] /\ line'.id # 0 /\ line'.size \in Sizes
    BY <2>1
  <2>3. pc' \in {"write", "active", "oldest"} /\ (pc' = "oldest" => Keep # 0)
    BY <1>3 DEF Record, FirstCall
  <2> QED
    BY <1>1, <1>3, <2>1, <2>2, <2>3
    DEF Record, Typed, TypeOK, LineUnderWay, LoopInRange, InRecord, Steps
<1>4. CASE RemoveOldest
  <2>1. Keep # 0 /\ n' \in Slots
    BY <1>1, <1>4 DEF RemoveOldest, LoopInRange, Slots
  <2>2. slot' \in [Slots -> Files] /\ handle' \in Slots \cup {Unlinked} /\ faults' \in 0 .. MaxFaults
    <3>1. CASE Unlink(Keep) /\ UNCHANGED faults
      BY <1>1, <3>1, UnlinkType DEF TypeOK
    <3>2. CASE Fault /\ UNCHANGED <<slot, handle>>
      BY <1>1, <3>2, FaultType DEF TypeOK, Files
    <3> QED
      BY <1>4, <3>1, <3>2 DEF RemoveOldest
  <2>3. pc' \in {"active", "shift"} /\ (pc' = "shift" => n' \in 1 .. (Keep - 1))
    BY <1>4, <2>1 DEF RemoveOldest, AfterOldest
  <2> QED
    BY <1>1, <1>4, <2>1, <2>2, <2>3
    DEF RemoveOldest, Typed, TypeOK, LineUnderWay, LoopInRange, InRecord, Files, Steps
<1>5. CASE Shift
  <2>1. n \in 1 .. (Keep - 1) /\ n \in Slots /\ n + 1 \in Slots /\ n' \in Slots
    BY <1>1, <1>5 DEF Shift, LoopInRange, Slots
  <2>2. slot' \in [Slots -> Files] /\ handle' \in Slots \cup {Unlinked} /\ faults' \in 0 .. MaxFaults
    <3>1. CASE Rename(n, n + 1) /\ UNCHANGED faults
      <4>1. n # n + 1
        BY <2>1
      <4> QED
        BY <1>1, <2>1, <3>1, <4>1, RenameType DEF TypeOK
    <3>2. CASE Fault /\ UNCHANGED <<slot, handle>>
      BY <1>1, <3>2, FaultType DEF TypeOK, Files
    <3>3. CASE UNCHANGED <<slot, handle, faults>>
      BY <1>1, <3>3 DEF TypeOK, Files
    <3> QED
      BY <1>5, <3>1, <3>2, <3>3 DEF Shift, Rotate
  <2>3. pc' \in {"active", "shift"} /\ (pc' = "shift" => n' \in 1 .. (Keep - 1))
    BY <1>5, <2>1 DEF Shift, LastShift
  <2> QED
    BY <1>1, <1>5, <2>1, <2>2, <2>3
    DEF Shift, Typed, TypeOK, LineUnderWay, LoopInRange, InRecord, Files, Steps
<1>6. CASE MoveActive
  <2>1. slot' \in [Slots -> Files] /\ handle' \in Slots \cup {Unlinked} /\ faults' \in 0 .. MaxFaults
    <3>1. CASE Keep = 0 /\ Unlink(0) /\ UNCHANGED faults
      BY <1>1, <3>1, UnlinkType DEF TypeOK
    <3>2. CASE Keep # 0 /\ Rename(0, 1) /\ UNCHANGED faults
      <4>1. 1 \in Slots
        BY <3>2 DEF Slots
      <4> QED
        BY <1>1, <3>2, <4>1, RenameType DEF TypeOK
    <3>3. CASE Fault /\ UNCHANGED <<slot, handle>>
      BY <1>1, <3>3, FaultType DEF TypeOK, Files
    <3>4. CASE UNCHANGED <<slot, handle, faults>>
      BY <1>1, <3>4 DEF TypeOK, Files
    <3> QED
      BY <1>6, <3>1, <3>2, <3>3, <3>4 DEF MoveActive, Rotate
  <2>2. pc' \in {"open", "write"}
    BY <1>6 DEF MoveActive
  <2> QED
    BY <1>1, <1>6, <2>1, <2>2
    DEF MoveActive, Typed, TypeOK, LineUnderWay, LoopInRange, InRecord, Files, Steps
<1>7. CASE Reopen
  <2>1. Opened(slot[0]) \in Files
    BY <1>1, OpenedType DEF TypeOK, Files
  <2>2. /\ slot' \in [Slots -> Files] /\ handle' \in Slots \cup {Unlinked}
        /\ faults' \in 0 .. MaxFaults /\ written' \in Nat
    <3>1. CASE /\ slot' = [slot EXCEPT ![0] = Opened(slot[0])]
               /\ handle' = Reopened /\ written' = 0 /\ UNCHANGED faults
      BY <1>1, <2>1, <3>1 DEF Reopened, TypeOK, Files
    <3>2. CASE Fault /\ UNCHANGED <<slot, handle, written>>
      BY <1>1, <3>2, FaultType DEF TypeOK, Files
    <3> QED
      BY <1>7, <3>1, <3>2 DEF Reopen
  <2> QED
    BY <1>1, <1>7, <2>2
    DEF Reopen, Typed, TypeOK, LineUnderWay, LoopInRange, InRecord, Files, Steps
<1>8. CASE Write
  <2>1. /\ Whole \in Pieces /\ Fragment \in Pieces
        /\ line.id \in 1 .. MaxRecords /\ line.size \in Nat
    BY <1>1, <1>8, PieceType, LineType DEF Write
  <2>2. slot' \in [Slots -> Files]
    <3>1. CASE Put(Whole, line.size)
      BY <1>1, <2>1, <3>1, PutType
    <3>2. ASSUME NEW part \in 0 .. (line.size - 1), Put(Fragment, part)
          PROVE  slot' \in [Slots -> Files]
      BY <1>1, <2>1, <3>2, PutType
    <3>3. CASE UNCHANGED slot
      BY <1>1, <3>3 DEF TypeOK, Files
    <3> QED
      BY <1>8, <3>1, <3>2, <3>3 DEF Write
  <2>3. written' \in Nat /\ trail' \in Seq(1 .. MaxRecords) /\ faults' \in 0 .. MaxFaults
    <3>1. CASE /\ written' = written + line.size
               /\ trail' = Append(trail, line.id) /\ UNCHANGED faults
      <4>1. trail \in Seq(1 .. MaxRecords) /\ written \in Nat /\ faults \in 0 .. MaxFaults
        BY <1>1 DEF TypeOK
      <4>2. Append(trail, line.id) \in Seq(1 .. MaxRecords)
        BY <2>1, <4>1
      <4> QED
        BY <2>1, <3>1, <4>1, <4>2
    <3>2. CASE Fault /\ UNCHANGED <<written, trail>>
      BY <1>1, <3>2, FaultType DEF TypeOK
    <3> QED
      BY <1>8, <3>1, <3>2 DEF Write
  <2> QED
    BY <1>1, <1>8, <2>2, <2>3
    DEF Write, Typed, TypeOK, LineUnderWay, LoopInRange, InRecord, Files, Steps
<1>9. CASE Crash
  BY <1>1, <1>9 DEF Crash, Typed, TypeOK, LineUnderWay, LoopInRange, InRecord, Steps
<1>10. CASE UNCHANGED vars
  BY <1>1, <1>10 DEF vars, Typed, TypeOK, LineUnderWay, LoopInRange, InRecord
<1> QED
  BY <1>2, <1>3, <1>4, <1>5, <1>6, <1>7, <1>8, <1>9, <1>10 DEF Next

(* Whatever fails and whenever the daemon dies, the sink's variables keep  *)
(* their types: rotate never touches a name beyond path.keep (audit.rs).   *)
THEOREM SinkTyped == Spec => []TypeOK
<1>1. Typed => TypeOK
  BY DEF Typed
<1> QED
  BY <1>1, InitTyped, NextTyped, PTL DEF Spec

-----------------------------------------------------------------------------
LEMMA InitSized == Init => SizeInv
<1> SUFFICES ASSUME Init PROVE SizeInv
  OBVIOUS
<1>1. TypeOK /\ LineUnderWay /\ LoopInRange
  BY InitTyped DEF Typed
<1>2. CountedBytes /\ InSize
  BY SinkAssumption DEF Init, CountedBytes, InSize, Absent
<1> QED
  BY <1>1, <1>2 DEF SizeInv

(* Nothing makes a failed call undone.                                     *)
LEMMA FaultsStay ==
  ASSUME TypeOK, [Next]_vars, faults' = 0
  PROVE  faults = 0 /\ ~Fault
<1>1. faults \in Nat
  BY SinkAssumption DEF TypeOK
<1>2. ~Fault
  BY <1>1 DEF Fault
<1>3. UNCHANGED faults
  BY <1>2 DEF Next, Start, Record, RemoveOldest, Shift, MoveActive, Reopen, Write, Crash,
              Budgets, vars
<1> QED
  BY <1>2, <1>3

LEMMA NextSized ==
  ASSUME SizeInv, [Next]_vars
  PROVE  SizeInv'
<1> USE SinkAssumption, SlotFacts
<1>0. TypeOK' /\ LineUnderWay' /\ LoopInRange'
  BY NextTyped DEF Typed, SizeInv
<1> SUFFICES ASSUME faults' = 0 PROVE CountedBytes' /\ InSize'
  BY <1>0 DEF SizeInv
<1>2. faults = 0 /\ ~Fault
  BY FaultsStay DEF SizeInv
<1>1. TypeOK /\ LineUnderWay /\ LoopInRange /\ CountedBytes /\ InSize
  BY <1>2 DEF SizeInv
<1>3. ~Fault
  BY <1>2
<1>4. \A s \in Slots : slot[s] \in Files /\ slot[s].bytes \in Nat /\ slot[s].bytes =< MaxBytes
  BY <1>1 DEF TypeOK, Files, InSize
<1>5. CASE Start
  <2>1. /\ slot'[0] = Opened(slot[0]) /\ \A s \in Slots : s # 0 => slot'[s] = slot[s]
        /\ written' = slot[0].bytes /\ handle' = 0 /\ pc' = "ready"
    BY <1>1, <1>5 DEF Start, WrittenAtStart, TypeOK
  <2>2. Opened(slot[0]).there /\ Opened(slot[0]).bytes = slot[0].bytes
    BY <1>1 DEF Opened, Empty, CountedBytes
  <2> QED
    BY <1>1, <2>1, <2>2 DEF CountedBytes, InSize
<1>6. ASSUME NEW size \in Sizes, Record(size) PROVE CountedBytes' /\ InSize'
  <2>1. line'.size = size /\ (pc' = "write" => written + size =< MaxBytes)
    BY <1>1, <1>6 DEF Record, FirstCall, Overfull, TypeOK
  <2> QED
    BY <1>1, <1>6, <2>1 DEF Record, FirstCall, CountedBytes, InSize
<1>7. CASE RemoveOldest
  <2>1. Keep # 0 /\ Unlink(Keep) /\ handle = 0
    BY <1>1, <1>3, <1>7 DEF RemoveOldest, LoopInRange, CountedBytes
  <2>2. /\ slot'[Keep].bytes = 0 /\ handle' = handle
        /\ \A s \in Slots : s # Keep => slot'[s] = slot[s]
    BY <1>1, <2>1, UnlinkType
  <2> QED
    BY <1>1, <1>7, <2>1, <2>2
    DEF RemoveOldest, AfterOldest, CountedBytes, InSize
<1>8. CASE Shift
  <2>1. n \in 1 .. (Keep - 1) /\ n \in Slots /\ n + 1 \in Slots /\ n # n + 1
    BY <1>1, <1>8 DEF Shift, LoopInRange, Slots
  <2>2. \/ Rename(n, n + 1)
        \/ UNCHANGED <<slot, handle>>
    BY <1>3, <1>8 DEF Shift, Rotate
  <2>3. pc' \in {"active", "shift"} /\ written' = written
    BY <1>8 DEF Shift
  <2>4. CASE Rename(n, n + 1)
    <3>1. /\ slot'[n].bytes = 0 /\ slot'[n + 1] = slot[n]
          /\ \A u \in Slots : u # n /\ u # n + 1 => slot'[u] = slot[u]
          /\ handle' = handle
      BY <1>1, <1>8, <2>1, <2>4, RenameType DEF CountedBytes, Shift
    <3>2. slot'[0] = slot[0]
      BY <2>1, <3>1
    <3> QED
      BY <1>1, <1>8, <2>1, <2>3, <3>1, <3>2 DEF Shift, CountedBytes, InSize
  <2>5. CASE UNCHANGED <<slot, handle>>
    BY <1>1, <1>8, <2>3, <2>5 DEF Shift, CountedBytes, InSize
  <2> QED
    BY <2>2, <2>4, <2>5
<1>9. CASE MoveActive
  <2>1. slot[0].there
    BY <1>1, <1>9 DEF MoveActive, CountedBytes
  <2>2. pc' = "open" /\ IF Keep = 0 THEN Unlink(0) ELSE Rename(0, 1)
    BY <1>3, <1>9, <2>1 DEF MoveActive, Rotate
  <2>3. CASE Keep = 0
    <3>1. /\ ~slot'[0].there /\ slot'[0].bytes = 0
          /\ \A s \in Slots : s # 0 => slot'[s] = slot[s]
      BY <1>1, <2>2, <2>3, UnlinkType
    <3> QED
      BY <1>1, <2>2, <3>1 DEF CountedBytes, InSize
  <2>4. CASE Keep # 0
    <3>1. 1 \in Slots
      BY <2>4 DEF Slots
    <3>2. /\ ~slot'[0].there /\ slot'[0].bytes = 0 /\ slot'[1] = slot[0]
          /\ \A u \in Slots : u # 0 /\ u # 1 => slot'[u] = slot[u]
      BY <1>1, <2>2, <2>4, <3>1, RenameType
    <3> QED
      BY <1>1, <2>2, <3>1, <3>2 DEF CountedBytes, InSize
  <2> QED
    BY <2>3, <2>4
<1>10. CASE Reopen
  <2>1. /\ slot'[0] = Opened(slot[0]) /\ \A s \in Slots : s # 0 => slot'[s] = slot[s]
        /\ written' = 0 /\ handle' = 0 /\ pc' = "write" /\ line' = line
    BY <1>1, <1>3, <1>10 DEF Reopen, Reopened, TypeOK
  <2>2. ~slot[0].there /\ line.size \in Sizes
    BY <1>1, <1>10 DEF Reopen, CountedBytes, LineUnderWay, InRecord
  <2>3. slot'[0] = Empty
    BY <2>1, <2>2 DEF Opened
  <2>4. line.size \in 1 .. MaxBytes
    BY <2>2
  <2>5. slot'[0].there /\ slot'[0].bytes = 0
    BY <2>3 DEF Empty
  <2>6. CountedBytes'
    BY <1>1, <2>1, <2>4, <2>5 DEF CountedBytes
  <2>7. InSize'
    BY <1>1, <2>1, <2>5 DEF InSize
  <2> QED
    BY <2>6, <2>7
<1>11. CASE Write
  <2>1. /\ Put(Whole, line.size) /\ written' = written + line.size
        /\ pc' = "ready" /\ handle' = handle
    BY <1>3, <1>11 DEF Write
  <2>2. Whole \in Pieces /\ line.size \in Nat
    BY <1>1, <1>11, PieceType, LineType DEF Write
  <2>3. \A s \in Slots :
          /\ slot'[s].there = slot[s].there
          /\ slot'[s].bytes = IF s = handle THEN slot[s].bytes + line.size ELSE slot[s].bytes
    BY <1>1, <2>1, <2>2, PutType
  <2>4. handle = 0 /\ slot[0].there /\ written = slot[0].bytes /\ written + line.size =< MaxBytes
    BY <1>1, <1>11 DEF Write, CountedBytes
  <2> QED
    BY <1>1, <1>4, <2>1, <2>3, <2>4 DEF CountedBytes, InSize
<1>12. CASE Crash
  BY <1>1, <1>12 DEF Crash, CountedBytes, InSize
<1>13. CASE UNCHANGED vars
  BY <1>1, <1>13 DEF vars, CountedBytes, InSize
<1> QED
  BY <1>5, <1>6, <1>7, <1>8, <1>9, <1>10, <1>11, <1>12, <1>13 DEF Next

(* Until a file system call fails, and however often the daemon dies and   *)
(* is started again, no file of the audit log outgrows the configured size *)
(* (audit.rs: record, rotate and open).                                    *)
THEOREM FilesStayInSize == Spec => []SizeBounded
<1>1. SizeInv /\ [Next]_vars => SizeInv'
  BY NextSized
<1>2. SizeInv => SizeBounded
  BY DEF SizeInv, SizeBounded
<1> QED
  BY <1>1, <1>2, InitSized, PTL DEF Spec

-----------------------------------------------------------------------------
(* Induction, told of a set, and the functions that are defined by         *)
(* recursion on a number: each exists, and no two differ.                  *)
LEMMA LeastNumber ==
  ASSUME NEW T \in SUBSET Nat, T # {}
  PROVE  \E k \in T : \A m \in T : k =< m
<1>1. PICK x \in T : \A y \in T : ~(<<y, x>> \in OpToRel(<, Nat))
  BY NatLessThanWellFounded, WFMin, Zenon
<1>2. \A y \in T : ~(y < x)
  BY <1>1, Zenon DEF OpToRel
<1> QED BY <1>2

LEMMA Induction ==
  ASSUME NEW S, 0 \in S, \A k \in Nat : k \in S => k + 1 \in S
  PROVE  Nat \subseteq S
<1>1. SUFFICES ASSUME Nat \ S # {} PROVE FALSE
  OBVIOUS
<1>2. PICK k \in Nat \ S : \A m \in Nat \ S : k =< m
  BY <1>1, LeastNumber
<1>3. k # 0
  OBVIOUS
<1>4. k - 1 \in Nat /\ k - 1 < k
  BY <1>3
<1>5. k - 1 \in S
  BY <1>4, <1>2
<1>6. (k - 1) + 1 \in S
  BY <1>4, <1>5
<1> QED BY <1>6, <1>2

Recurs(P, base, next, N) == P[0] = base /\ \A i \in 1 .. N : P[i] = next[i][P[i - 1]]

LEMMA RecursionExists ==
  ASSUME NEW S, NEW N \in Nat, NEW base \in S, NEW next \in [1 .. N -> [S -> S]]
  PROVE  \E P \in [0 .. N -> S] : Recurs(P, base, next, N)
<1> DEFINE Good == {k \in Nat : k =< N => \E P \in [0 .. k -> S] : Recurs(P, base, next, k)}
<1>1. 0 \in Good
  <2> DEFINE P == [i \in 0 .. 0 |-> base]
  <2>1. P \in [0 .. 0 -> S] /\ Recurs(P, base, next, 0)
    BY DEF Recurs
  <2> QED BY <2>1
<1>2. ASSUME NEW k \in Nat, k \in Good PROVE k + 1 \in Good
  <2>1. SUFFICES ASSUME k + 1 =< N
                 PROVE  \E P \in [0 .. k + 1 -> S] : Recurs(P, base, next, k + 1)
    OBVIOUS
  <2>2. PICK P \in [0 .. k -> S] : Recurs(P, base, next, k)
    BY <1>2, <2>1
  <2> DEFINE Q == [i \in 0 .. k + 1 |-> IF i = k + 1 THEN next[k + 1][P[k]] ELSE P[i]]
  <2>3. P[k] \in S /\ k + 1 \in 1 .. N
    BY <2>1
  <2>4. next[k + 1][P[k]] \in S
    BY <2>3
  <2>5. Q \in [0 .. k + 1 -> S]
    BY <2>4
  <2>6. Q[k + 1] = next[k + 1][P[k]] /\ \A i \in 0 .. k : Q[i] = P[i]
    OBVIOUS
  <2> HIDE DEF Q
  <2>7. ASSUME NEW i \in 1 .. k + 1 PROVE Q[i] = next[i][Q[i - 1]]
    <3>1. i - 1 \in 0 .. k /\ Q[i - 1] = P[i - 1]
      BY <2>6
    <3>2. CASE i = k + 1
      BY <2>6, <3>1, <3>2
    <3>3. CASE i \in 1 .. k
      BY <2>2, <2>6, <3>1, <3>3 DEF Recurs
    <3> QED BY <3>2, <3>3
  <2>8. Recurs(Q, base, next, k + 1)
    BY <2>2, <2>6, <2>7 DEF Recurs
  <2> QED BY <2>5, <2>8
<1>3. N \in Good
  <2> HIDE DEF Good
  <2> QED BY <1>1, <1>2, Induction
<1> QED BY <1>3

LEMMA RecursionAgrees ==
  ASSUME NEW P, NEW Q, NEW N \in Nat, P[0] = Q[0],
         \A i \in 1 .. N : P[i - 1] = Q[i - 1] => P[i] = Q[i]
  PROVE  P[N] = Q[N]
<1> DEFINE Good == {k \in Nat : k =< N => P[k] = Q[k]}
<1>1. 0 \in Good
  OBVIOUS
<1>2. ASSUME NEW k \in Nat, k \in Good PROVE k + 1 \in Good
  <2>1. SUFFICES ASSUME k + 1 =< N PROVE P[k + 1] = Q[k + 1]
    OBVIOUS
  <2>2. k + 1 \in 1 .. N /\ (k + 1) - 1 = k /\ P[k] = Q[k]
    BY <1>2, <2>1
  <2> QED BY <2>2
<1>3. Nat \subseteq Good
  <2> HIDE DEF Good
  <2> QED BY <1>1, <1>2, Induction
<1> QED BY <1>3

-----------------------------------------------------------------------------
(* The concatenation of sequences, one after the other.                    *)
Joins(P, R, N) == P[0] = << >> /\ \A i \in 1 .. N : P[i] = P[i - 1] \o R[i]

LEMMA FlattenJoins ==
  ASSUME NEW X, NEW N \in Nat \ {0}, NEW R \in [1 .. N -> Seq(X)]
  PROVE  \E P \in [0 .. N -> Seq(X)] : Joins(P, R, N) /\ FlattenSeq(R) = P[N]
<1> DEFINE next == [i \in 1 .. N |-> [x \in Seq(X) |-> x \o R[i]]]
<1>1. next \in [1 .. N -> [Seq(X) -> Seq(X)]]
  <2>1. ASSUME NEW i \in 1 .. N, NEW x \in Seq(X) PROVE x \o R[i] \in Seq(X)
    <3>1. R[i] \in Seq(X)
      OBVIOUS
    <3> QED BY <3>1, ConcatProperties
  <2> QED BY <2>1
<1>2. << >> \in Seq(X)
  OBVIOUS
<1>3. PICK P \in [0 .. N -> Seq(X)] : Recurs(P, << >>, next, N)
  <2> HIDE DEF next
  <2> QED BY <1>1, <1>2, RecursionExists
<1>4. \A i \in 1 .. N : i - 1 \in 0 .. N /\ P[i - 1] \in Seq(X) /\ next[i][P[i - 1]] = P[i - 1] \o R[i]
  <2>1. \A i \in 1 .. N : i - 1 \in 0 .. N
    OBVIOUS
  <2>2. \A i \in 1 .. N : P[i - 1] \in Seq(X)
    BY <2>1
  <2> QED BY <2>1, <2>2
<1> HIDE DEF next
<1>5. Joins(P, R, N)
  BY <1>3, <1>4 DEF Recurs, Joins
<1>6. Len(R) = N /\ N # 0
  OBVIOUS
<1> DEFINE Body(f) == [i \in 1 .. N |-> IF i = 1 THEN R[i] ELSE f[i - 1] \o R[i]]
           g == [i \in 1 .. N |-> P[i]]
           h == CHOOSE f : f = Body(f)
<1>7. g = Body(g)
  <2>1. ASSUME NEW i \in 1 .. N PROVE g[i] = Body(g)[i]
    <3>1. CASE i = 1
      <4>1. P[1] = << >> \o R[1] /\ R[1] \in Seq(X)
        <5>1. 1 \in 1 .. N /\ 1 - 1 = 0
          OBVIOUS
        <5>2. P[0] = << >> /\ P[1] = P[1 - 1] \o R[1]
          BY <1>5, <5>1 DEF Joins
        <5> QED BY <5>1, <5>2
      <4>2. P[1] = R[1]
        BY <4>1, ConcatEmptySeq
      <4> QED BY <3>1, <4>2
    <3>2. CASE i # 1
      <4>1. i - 1 \in 1 .. N
        BY <3>2
      <4>2. g[i] = P[i] /\ g[i - 1] = P[i - 1]
        BY <4>1
      <4>3. Body(g)[i] = g[i - 1] \o R[i]
        BY <3>2
      <4>4. P[i] = P[i - 1] \o R[i]
        BY <1>5 DEF Joins
      <4> HIDE DEF g, Body
      <4> QED BY <4>2, <4>3, <4>4
    <3> QED BY <3>1, <3>2
  <2>2. /\ DOMAIN g = 1 .. N /\ g = [i \in 1 .. N |-> g[i]]
        /\ DOMAIN Body(g) = 1 .. N /\ Body(g) = [i \in 1 .. N |-> Body(g)[i]]
    OBVIOUS
  <2> HIDE DEF g, Body
  <2> QED BY <2>1, <2>2
<1>8. h = Body(h)
  <2> HIDE DEF g, Body
  <2> QED BY <1>7
<1>9. FlattenSeq(R) = h[N]
  BY <1>6 DEF FlattenSeq
<1> HIDE DEF g, h
<1>10. \A i \in 1 .. N : h[i] = IF i = 1 THEN R[i] ELSE h[i - 1] \o R[i]
  BY <1>8
<1>11. \A i \in 1 .. N : g[i] = IF i = 1 THEN R[i] ELSE g[i - 1] \o R[i]
  BY <1>7
<1> HIDE DEF Body
<1> DEFINE Good == {k \in Nat : k + 1 =< N => g[k + 1] = h[k + 1]}
<1>12. 0 \in Good
  BY <1>10, <1>11
<1>13. ASSUME NEW k \in Nat, k \in Good PROVE k + 1 \in Good
  <2>1. SUFFICES ASSUME (k + 1) + 1 =< N PROVE g[(k + 1) + 1] = h[(k + 1) + 1]
    OBVIOUS
  <2>2. (k + 1) + 1 \in 1 .. N /\ (k + 1) + 1 # 1 /\ ((k + 1) + 1) - 1 = k + 1 /\ g[k + 1] = h[k + 1]
    BY <1>13, <2>1
  <2> QED BY <1>10, <1>11, <2>2
<1>14. N - 1 \in Good
  <2> HIDE DEF Good
  <2>1. Nat \subseteq Good
    BY <1>12, <1>13, Induction
  <2> QED BY <2>1
<1>15. g[N] = h[N]
  BY <1>14
<1>16. P[N] = h[N]
  BY <1>15 DEF g
<1> QED BY <1>5, <1>9, <1>16

(* Changing some of them.  P is the sums of R, O those of Q.                *)
Parts(N, X) == [1 .. N -> Seq(X)]
Sums(N, X)  == [0 .. N -> Seq(X)]
Agree(R, Q, S) == \A i \in S : R[i] = Q[i]
NoneIn(R, S)   == \A i \in S : R[i] = << >>

Rest(P, O, R, k, m, N, B) ==
  P[m] = P[k] \o B /\ O[m] = O[k] \o B /\ (NoneIn(R, k + 1 .. N) => B = << >>)

LEMMA Associative ==
  ASSUME NEW X, NEW s, s \in Seq(X), NEW t, t \in Seq(X), NEW u, u \in Seq(X)
  PROVE  (s \o t) \o u = s \o (t \o u)
BY ConcatAssociative

LEMMA SameAfter ==
  ASSUME NEW X, NEW N \in Nat, NEW R \in Parts(N, X), NEW Q \in Parts(N, X),
         NEW P \in Sums(N, X), NEW O \in Sums(N, X), Joins(P, R, N), Joins(O, Q, N),
         NEW k \in 0 .. N, Agree(R, Q, k + 1 .. N)
  PROVE  \E B \in Seq(X) : Rest(P, O, R, k, N, N, B)
<1> DEFINE Good == {j \in Nat : k + j =< N => \E B \in Seq(X) : Rest(P, O, R, k, k + j, N, B)}
<1>1. 0 \in Good
  <2>1. P[k] \in Seq(X) /\ O[k] \in Seq(X) /\ k + 0 = k
    BY DEF Sums
  <2>2. P[k] \o << >> = P[k] /\ O[k] \o << >> = O[k] /\ << >> \in Seq(X)
    BY <2>1, ConcatEmptySeq, EmptySeq
  <2>3. Rest(P, O, R, k, k + 0, N, << >>)
    BY <2>1, <2>2 DEF Rest
  <2> QED BY <2>2, <2>3
<1>2. ASSUME NEW j \in Nat, j \in Good PROVE j + 1 \in Good
  <2>1. SUFFICES ASSUME k + (j + 1) =< N PROVE \E B \in Seq(X) : Rest(P, O, R, k, k + (j + 1), N, B)
    OBVIOUS
  <2>2. PICK B \in Seq(X) : Rest(P, O, R, k, k + j, N, B)
    BY <1>2, <2>1
  <2>3. PICK m \in 1 .. N : m = k + (j + 1) /\ m \in k + 1 .. N /\ m - 1 = k + j /\ m - 1 \in 0 .. N
    <3>1. /\ k + (j + 1) \in 1 .. N /\ k + (j + 1) \in k + 1 .. N
          /\ (k + (j + 1)) - 1 = k + j /\ k + j \in 0 .. N
      BY <2>1
    <3> QED BY <3>1
  <2> HIDE DEF Good
  <2>4. R[m] \in Seq(X) /\ Q[m] = R[m] /\ P[k] \in Seq(X) /\ O[k] \in Seq(X)
    BY <2>3 DEF Parts, Sums, Agree
  <2>5. P[m] = (P[k] \o B) \o R[m] /\ O[m] = (O[k] \o B) \o R[m]
    BY <2>2, <2>3, <2>4 DEF Joins, Rest
  <2>6. B \o R[m] \in Seq(X) /\ P[m] = P[k] \o (B \o R[m]) /\ O[m] = O[k] \o (B \o R[m])
    <3>1. (P[k] \o B) \o R[m] = P[k] \o (B \o R[m]) /\ (O[k] \o B) \o R[m] = O[k] \o (B \o R[m])
      <4>1. PICK p \in Seq(X), o \in Seq(X), r \in Seq(X) : p = P[k] /\ o = O[k] /\ r = R[m]
        BY <2>4, Zenon
      <4>2. (p \o B) \o r = p \o (B \o r)
        BY Associative
      <4>3. (o \o B) \o r = o \o (B \o r)
        BY Associative
      <4> QED BY <4>1, <4>2, <4>3
    <3>2. B \o R[m] \in Seq(X)
      BY <2>4, ConcatProperties
    <3> QED BY <2>5, <3>1, <3>2
  <2>7. ASSUME NoneIn(R, k + 1 .. N) PROVE B \o R[m] = << >>
    <3>1. B = << >> /\ R[m] = << >>
      BY <2>2, <2>3, <2>7 DEF Rest, NoneIn
    <3>2. << >> \o << >> = << >>
      BY ConcatEmptySeq, EmptySeq
    <3> QED BY <3>1, <3>2
  <2>8. Rest(P, O, R, k, k + (j + 1), N, B \o R[m])
    BY <2>3, <2>6, <2>7 DEF Rest
  <2> QED BY <2>6, <2>8
<1>3. PICK j \in Nat : j = N - k /\ k + j = N /\ k + j =< N
  OBVIOUS
<1>4. j \in Good
  <2> HIDE DEF Good
  <2>1. Nat \subseteq Good
    BY <1>1, <1>2, Induction
  <2> QED BY <2>1
<1> QED BY <1>3, <1>4

LEMMA SameBefore ==
  ASSUME NEW X, NEW N \in Nat, NEW R, NEW Q, NEW P, NEW O, Joins(P, R, N), Joins(O, Q, N),
         NEW k \in 0 .. N, Agree(R, Q, 1 .. k)
  PROVE  P[k] = O[k]
<1>1. \A i \in 1 .. k : P[i - 1] = O[i - 1] => P[i] = O[i]
  <2>1. ASSUME NEW i \in 1 .. k, P[i - 1] = O[i - 1] PROVE P[i] = O[i]
    <3>1. i \in 1 .. N
      OBVIOUS
    <3>2. P[i] = P[i - 1] \o R[i] /\ O[i] = O[i - 1] \o Q[i] /\ R[i] = Q[i]
      BY <3>1 DEF Joins, Agree
    <3> QED BY <2>1, <3>2
  <2> QED BY <2>1
<1>2. P[0] = O[0] /\ k \in Nat
  BY DEF Joins
<1> QED BY <1>1, <1>2, RecursionAgrees

(* One of the sequences changes: what comes before and after it stays.     *)
SameButOne(X, N, R, Q, k) ==
  /\ N \in Nat \ {0} /\ R \in Parts(N, X) /\ Q \in Parts(N, X)
  /\ k \in 1 .. N /\ Agree(R, Q, (1 .. N) \ {k})

Around(X, N, R, Q, k) ==
  \E A, B \in Seq(X) : /\ FlattenSeq(R) = (A \o R[k]) \o B
                       /\ FlattenSeq(Q) = (A \o Q[k]) \o B
                       /\ k = 1 => A = << >>
                       /\ NoneIn(R, k + 1 .. N) => B = << >>

LEMMA OneChanges ==
  ASSUME NEW X, NEW N, NEW R, NEW Q, NEW k, SameButOne(X, N, R, Q, k)
  PROVE  Around(X, N, R, Q, k)
<1>0. /\ N \in Nat \ {0} /\ R \in Parts(N, X) /\ Q \in Parts(N, X)
      /\ k \in 1 .. N /\ Agree(R, Q, (1 .. N) \ {k})
  BY DEF SameButOne
<1>1. PICK P \in Sums(N, X) : Joins(P, R, N) /\ FlattenSeq(R) = P[N]
  BY <1>0, FlattenJoins DEF Parts, Sums
<1>2. PICK O \in Sums(N, X) : Joins(O, Q, N) /\ FlattenSeq(Q) = O[N]
  BY <1>0, FlattenJoins DEF Parts, Sums
<1>3. PICK j \in 0 .. N : j = k - 1 /\ k \in 0 .. N /\ N \in Nat
  BY <1>0
<1>4. P[j] = O[j]
  <2>1. Agree(R, Q, 1 .. j)
    BY <1>0, <1>3 DEF Agree
  <2> QED BY <1>0, <1>1, <1>2, <1>3, <2>1, SameBefore
<1>5. PICK B \in Seq(X) : Rest(P, O, R, k, N, N, B)
  <2>1. Agree(R, Q, k + 1 .. N)
    BY <1>0, <1>3 DEF Agree
  <2> QED BY <1>0, <1>1, <1>2, <1>3, <2>1, SameAfter
<1>6. P[k] = P[j] \o R[k] /\ O[k] = O[j] \o Q[k] /\ P[0] = << >>
  BY <1>0, <1>1, <1>2, <1>3 DEF Joins
<1>7. P[j] \in Seq(X)
  BY <1>3 DEF Sums
<1>8. FlattenSeq(R) = (P[j] \o R[k]) \o B /\ FlattenSeq(Q) = (P[j] \o Q[k]) \o B
  BY <1>1, <1>2, <1>4, <1>5, <1>6 DEF Rest
<1>9. k = 1 => P[j] = << >>
  BY <1>3, <1>6
<1>10. NoneIn(R, k + 1 .. N) => B = << >>
  BY <1>5 DEF Rest
<1> QED BY <1>7, <1>8, <1>9, <1>10 DEF Around

(* Two neighbours change.                                                  *)
Others(N, k, m) == (1 .. N) \ {k, m}

Neighbours(X, N, R, Q, k, m) ==
  /\ N \in Nat \ {0} /\ R \in Parts(N, X) /\ Q \in Parts(N, X)
  /\ k \in 1 .. N /\ m \in 1 .. N /\ m = k + 1 /\ Agree(R, Q, Others(N, k, m))

Between(X, R, Q, k, m) ==
  \E A, B \in Seq(X) : /\ FlattenSeq(R) = ((A \o R[k]) \o R[m]) \o B
                       /\ FlattenSeq(Q) = ((A \o Q[k]) \o Q[m]) \o B

LEMMA TwoChange ==
  ASSUME NEW X, NEW N, NEW R, NEW Q, NEW k, NEW m, Neighbours(X, N, R, Q, k, m)
  PROVE  Between(X, R, Q, k, m)
<1>0. /\ N \in Nat \ {0} /\ R \in Parts(N, X) /\ Q \in Parts(N, X)
      /\ k \in 1 .. N /\ m \in 1 .. N /\ m = k + 1 /\ Agree(R, Q, Others(N, k, m))
  BY DEF Neighbours
<1>1. PICK P \in Sums(N, X) : Joins(P, R, N) /\ FlattenSeq(R) = P[N]
  BY <1>0, FlattenJoins DEF Parts, Sums
<1>2. PICK O \in Sums(N, X) : Joins(O, Q, N) /\ FlattenSeq(Q) = O[N]
  BY <1>0, FlattenJoins DEF Parts, Sums
<1>3. PICK j \in 0 .. N : j = k - 1 /\ k \in 1 .. N /\ m \in 0 .. N /\ m - 1 = k /\ N \in Nat
  BY <1>0
<1>4. P[j] = O[j]
  <2>1. Agree(R, Q, 1 .. j)
    BY <1>0, <1>3 DEF Agree, Others
  <2> QED BY <1>0, <1>1, <1>2, <1>3, <2>1, SameBefore
<1>5. PICK B \in Seq(X) : Rest(P, O, R, m, N, N, B)
  <2>1. Agree(R, Q, m + 1 .. N)
    BY <1>0, <1>3 DEF Agree, Others
  <2> QED BY <1>0, <1>1, <1>2, <1>3, <2>1, SameAfter
<1>6. /\ P[k] = P[j] \o R[k] /\ O[k] = O[j] \o Q[k] /\ P[0] = << >>
      /\ P[m] = P[k] \o R[m] /\ O[m] = O[k] \o Q[m]
  BY <1>0, <1>1, <1>2, <1>3 DEF Joins
<1>7. P[j] \in Seq(X)
  BY <1>3 DEF Sums
<1>8. /\ FlattenSeq(R) = ((P[j] \o R[k]) \o R[m]) \o B
      /\ FlattenSeq(Q) = ((P[j] \o Q[k]) \o Q[m]) \o B
  BY <1>1, <1>2, <1>4, <1>5, <1>6 DEF Rest
<1> QED BY <1>7, <1>8 DEF Between

-----------------------------------------------------------------------------
(* What can be read of a file.                                             *)
Ids == 1 .. MaxRecords

Reads(P, text) ==
  P[0] = << >> /\ \A i \in 1 .. Len(text) :
                    P[i] = IF text[i].json THEN Append(P[i - 1], text[i].id) ELSE P[i - 1]

LEMMA ReadableReads ==
  ASSUME NEW text \in Seq(Pieces)
  PROVE  \E P \in [0 .. Len(text) -> Seq(Ids)] : Reads(P, text) /\ Readable(text) = P[Len(text)]
<1> DEFINE N == Len(text)
           next == [i \in 1 .. N |->
                      [x \in Seq(Ids) |-> IF text[i].json THEN Append(x, text[i].id) ELSE x]]
<1>1. next \in [1 .. N -> [Seq(Ids) -> Seq(Ids)]]
  <2>1. ASSUME NEW i \in 1 .. N, NEW x \in Seq(Ids)
        PROVE  (IF text[i].json THEN Append(x, text[i].id) ELSE x) \in Seq(Ids)
    <3>1. text[i] \in Pieces
      OBVIOUS
    <3>2. text[i].id \in Ids
      BY <3>1 DEF Pieces, Ids
    <3>3. Append(x, text[i].id) \in Seq(Ids)
      BY <3>2, AppendProperties
    <3> QED BY <3>3
  <2> HIDE DEF N
  <2> QED BY <2>1
<1>2. << >> \in Seq(Ids) /\ N \in Nat
  OBVIOUS
<1>3. PICK P \in [0 .. N -> Seq(Ids)] : Recurs(P, << >>, next, N)
  <2> HIDE DEF next, N
  <2> QED BY <1>1, <1>2, RecursionExists
<1>4. \A i \in 1 .. N : i - 1 \in 0 .. N
  BY <1>2
<1>5. \A i \in 1 .. N : P[i - 1] \in Seq(Ids)
  BY <1>4
<1>6. \A i \in 1 .. N :
        next[i][P[i - 1]] = IF text[i].json THEN Append(P[i - 1], text[i].id) ELSE P[i - 1]
  <2> HIDE DEF N
  <2> QED BY <1>5
<1>7. Reads(P, text)
  <2> HIDE DEF next
  <2> QED BY <1>3, <1>6 DEF Recurs, Reads
<1> HIDE DEF next
<1> DEFINE Body(f) == [i \in 0 .. Len(text) |->
                         IF i = 0 THEN << >>
                         ELSE IF text[i].json THEN Append(f[i - 1], text[i].id) ELSE f[i - 1]]
           h == CHOOSE f : f = Body(f)
<1>8. P = Body(P)
  <2>1. \A i \in 0 .. N : i = 0 \/ i \in 1 .. N
    BY <1>2
  <2>2. \A i \in 0 .. N : P[i] = Body(P)[i]
    BY <1>7, <2>1 DEF Reads
  <2>3. Body(P) = [i \in 0 .. N |-> Body(P)[i]]
    OBVIOUS
  <2> HIDE DEF Body
  <2> QED BY <2>2, <2>3
<1>9. h = Body(h)
  <2> HIDE DEF Body
  <2> QED BY <1>8
<1>10. Readable(text) = h[N]
  BY DEF Readable
<1> HIDE DEF h
<1>11. h[0] = << >> /\ \A i \in 1 .. N :
         h[i] = IF text[i].json THEN Append(h[i - 1], text[i].id) ELSE h[i - 1]
  <2>1. 0 \in 0 .. N /\ \A i \in 1 .. N : i \in 0 .. N /\ i # 0
    BY <1>2
  <2>2. \A i \in 0 .. N : h[i] = IF i = 0 THEN << >>
                                 ELSE IF text[i].json THEN Append(h[i - 1], text[i].id) ELSE h[i - 1]
    BY <1>9
  <2> HIDE DEF N, Body
  <2> QED BY <2>1, <2>2
<1>12. \A i \in 1 .. N : P[i - 1] = h[i - 1] => P[i] = h[i]
  BY <1>7, <1>11 DEF Reads
<1>13. P[0] = h[0]
  BY <1>7, <1>11 DEF Reads
<1>15. P[N] = h[N]
  <2> HIDE DEF N, Body
  <2> QED BY <1>2, <1>12, <1>13, RecursionAgrees
<1> QED BY <1>7, <1>10, <1>15

LEMMA ReadableOfAppend ==
  ASSUME NEW text \in Seq(Pieces), NEW p \in Pieces
  PROVE  /\ Readable(text) \in Seq(Ids)
         /\ Readable(Append(text, p)) = IF p.json THEN Append(Readable(text), p.id) ELSE Readable(text)
<1> DEFINE more == Append(text, p)
<1>1. PICK N \in Nat : N = Len(text)
  OBVIOUS
<1>2. /\ more \in Seq(Pieces) /\ Len(more) = N + 1 /\ more[N + 1] = p
      /\ \A i \in 1 .. N : more[i] = text[i]
  BY <1>1, AppendProperties
<1> HIDE DEF more
<1>3. PICK P \in [0 .. N -> Seq(Ids)] : Reads(P, text) /\ Readable(text) = P[N]
  BY <1>1, ReadableReads
<1>4. PICK Q \in [0 .. N + 1 -> Seq(Ids)] : Reads(Q, more) /\ Readable(more) = Q[N + 1]
  BY <1>2, ReadableReads
<1>5. \A i \in 1 .. N : P[i - 1] = Q[i - 1] => P[i] = Q[i]
  <2>1. ASSUME NEW i \in 1 .. N, P[i - 1] = Q[i - 1] PROVE P[i] = Q[i]
    <3>1. i \in 1 .. N + 1 /\ more[i] = text[i]
      BY <1>2
    <3>2. P[i] = IF text[i].json THEN Append(P[i - 1], text[i].id) ELSE P[i - 1]
      BY <1>1, <1>3 DEF Reads
    <3>3. Q[i] = IF more[i].json THEN Append(Q[i - 1], more[i].id) ELSE Q[i - 1]
      BY <1>2, <1>4, <3>1 DEF Reads
    <3> QED BY <2>1, <3>1, <3>2, <3>3
  <2> QED BY <2>1
<1>6. P[0] = Q[0]
  BY <1>3, <1>4 DEF Reads
<1>7. P[N] = Q[N]
  BY <1>5, <1>6, RecursionAgrees
<1>8. Q[N + 1] = IF p.json THEN Append(Q[N], p.id) ELSE Q[N]
  <2>1. N + 1 \in 1 .. Len(more) /\ (N + 1) - 1 = N
    BY <1>2
  <2> QED BY <1>2, <1>4, <2>1 DEF Reads
<1>9. P[N] \in Seq(Ids)
  OBVIOUS
<1> QED BY <1>3, <1>4, <1>7, <1>8, <1>9 DEF more

LEMMA ReadableOfEmpty == Readable(<< >>) = << >>
<1>1. << >> \in Seq(Pieces) /\ Len(<< >>) = 0
  BY EmptySeq
<1>2. PICK P \in [0 .. Len(<< >>) -> Seq(Ids)] : Reads(P, << >>) /\ Readable(<< >>) = P[Len(<< >>)]
  BY <1>1, ReadableReads
<1> QED BY <1>1, <1>2 DEF Reads

LEMMA ReadableType == ASSUME NEW text \in Seq(Pieces) PROVE Readable(text) \in Seq(Ids)
<1>1. PICK P \in [0 .. Len(text) -> Seq(Ids)] : Reads(P, text) /\ Readable(text) = P[Len(text)]
  BY ReadableReads
<1>2. Len(text) \in 0 .. Len(text)
  BY LenProperties
<1> QED BY <1>1, <1>2

-----------------------------------------------------------------------------
(* The beginning, the end and the middle of a concatenation.               *)
LEMMA EndsOfConcat ==
  ASSUME NEW X, NEW s \in Seq(X), NEW t \in Seq(X)
  PROVE  SubSeq(s \o t, 1, Len(s)) = s /\ SubSeq(s \o t, Len(s) + 1, Len(s \o t)) = t
<1>1. PICK m \in Nat, k \in Nat : m = Len(s) /\ k = Len(t)
  BY LenProperties
<1>2. s \o t \in Seq(X) /\ Len(s \o t) = m + k
  BY <1>1, ConcatProperties
<1>3. SubSeq(s \o t, 1, m) = s
  <2>1. CASE m = 0
    <3>1. s = << >>
      BY <1>1, <2>1, EmptySeq
    <3>2. SubSeq(s \o t, 1, m) = << >>
      BY <2>1, SubSeqEmpty
    <3> QED BY <3>1, <3>2
  <2>2. CASE m # 0
    <3>1. 1 \in 1 .. m /\ m \in 1 .. m
      BY <2>2
    <3>2. SubSeq(s \o t, 1, m) = SubSeq(s, 1, m)
      BY <1>1, <3>1, SubSeqOfConcat1
    <3> QED BY <1>1, <3>2, SubSeqFull
  <2> QED BY <2>1, <2>2
<1>4. SubSeq(s \o t, m + 1, m + k) = t
  <2>1. CASE k = 0
    <3>1. t = << >>
      BY <1>1, <2>1, EmptySeq
    <3>2. m + 1 \in Int /\ m + k \in Int /\ m + k < m + 1
      BY <2>1
    <3>3. SubSeq(s \o t, m + 1, m + k) = << >>
      BY <3>2, SubSeqEmpty
    <3> QED BY <3>1, <3>3
  <2>2. CASE k # 0
    <3>1. m + 1 \in m + 1 .. m + k /\ m + k \in m + 1 .. m + k
      BY <2>2
    <3>2. (m + 1) - m = 1 /\ (m + k) - m = k
      OBVIOUS
    <3>3. SubSeq(s \o t, m + 1, m + k) = SubSeq(t, (m + 1) - m, (m + k) - m)
      BY <1>1, <3>1, SubSeqOfConcat2
    <3> QED BY <1>1, <3>2, <3>3, SubSeqFull
  <2> QED BY <2>1, <2>2
<1> QED BY <1>1, <1>2, <1>3, <1>4

LEMMA BeginningForgotten ==
  ASSUME NEW X, NEW s \in Seq(X), NEW t \in Seq(X), s # << >>
  PROVE  \E k \in 1 .. Len(s \o t) : t = SubSeq(s \o t, k + 1, Len(s \o t))
<1>1. Len(s \o t) = Len(s) + Len(t) /\ Len(t) \in Nat
  BY ConcatProperties, LenProperties
<1>2. Len(s) \in Nat \ {0}
  BY EmptySeq
<1>3. Len(s) \in 1 .. Len(s \o t)
  BY <1>1, <1>2
<1> QED BY <1>3, EndsOfConcat

WithoutMiddle(all, left) ==
  \E i, j \in 1 .. Len(all) :
    i =< j /\ left = SubSeq(all, 1, i - 1) \o SubSeq(all, j + 1, Len(all))

LEMMA MiddleLost ==
  ASSUME NEW X, NEW s \in Seq(X), NEW t \in Seq(X), NEW u \in Seq(X), t # << >>,
         NEW all, all = (s \o t) \o u
  PROVE  WithoutMiddle(all, s \o u)
<1>1. PICK a \in Nat, b \in Nat \ {0}, c \in Nat : a = Len(s) /\ b = Len(t) /\ c = Len(u)
  <2>1. Len(s) \in Nat /\ Len(t) \in Nat \ {0} /\ Len(u) \in Nat
    BY LenProperties, EmptySeq
  <2> QED BY <2>1
<1>2. s \o t \in Seq(X) /\ Len(s \o t) = a + b /\ t \o u \in Seq(X)
  BY <1>1, ConcatProperties
<1>3. Len(all) = (a + b) + c
  BY <1>1, <1>2, ConcatProperties
<1>4. all = s \o (t \o u)
  BY ConcatAssociative
<1>5. SubSeq(all, 1, a) = s
  BY <1>1, <1>2, <1>4, EndsOfConcat
<1>6. SubSeq(all, (a + b) + 1, Len(all)) = u
  BY <1>2, EndsOfConcat
<1>7. PICK i \in 1 .. Len(all), j \in 1 .. Len(all) : i = a + 1 /\ j = a + b /\ i =< j /\ i - 1 = a
  <2>1. a + 1 \in 1 .. Len(all) /\ a + b \in 1 .. Len(all) /\ a + 1 =< a + b /\ (a + 1) - 1 = a
    BY <1>3
  <2> QED BY <2>1
<1> QED BY <1>5, <1>6, <1>7 DEF WithoutMiddle

-----------------------------------------------------------------------------
(* What can be read of all files, as they are emptied, moved and added to. *)
Disk            == [Slots -> Files]
SameBut(f, g, S) == \A t \in Slots \ S : g[t].text = f[t].text
NoneBelow(f, s) == \A t \in Slots : t < s => f[t].text = << >>

Column(f) == [i \in 1 .. Keep + 1 |-> Readable(f[Keep + 1 - i].text)]
All(f)    == FlattenSeq(Column(f))

LEMMA ColumnParts ==
  ASSUME NEW f \in Disk
  PROVE  /\ Column(f) \in Parts(Keep + 1, Ids)
         /\ \A s \in Slots : /\ Keep + 1 - s \in 1 .. Keep + 1
                              /\ Column(f)[Keep + 1 - s] = Readable(f[s].text)
         /\ \A i \in 1 .. Keep + 1 : /\ Keep + 1 - i \in Slots
                                      /\ Column(f)[i] = Readable(f[Keep + 1 - i].text)
<1>1. \A i \in 1 .. Keep + 1 : Keep + 1 - i \in Slots
  BY SinkAssumption DEF Slots
<1>2. \A s \in Slots : Keep + 1 - s \in 1 .. Keep + 1 /\ Keep + 1 - (Keep + 1 - s) = s
  BY SinkAssumption DEF Slots
<1>3. \A s \in Slots : f[s].text \in Seq(Pieces)
  BY DEF Disk, Files
<1>4. \A i \in 1 .. Keep + 1 : Readable(f[Keep + 1 - i].text) \in Seq(Ids)
  BY <1>1, <1>3, ReadableType
<1>5. \A i \in 1 .. Keep + 1 : Column(f)[i] = Readable(f[Keep + 1 - i].text)
  BY DEF Column
<1>6. Column(f) \in Parts(Keep + 1, Ids)
  BY <1>4 DEF Column, Parts
<1> QED BY <1>1, <1>2, <1>5, <1>6

LEMMA AllTyped == ASSUME NEW f \in Disk PROVE All(f) \in Seq(Ids)
<1>1. PICK N \in Nat \ {0} : N = Keep + 1
  BY SinkAssumption
<1>2. Column(f) \in [1 .. N -> Seq(Ids)]
  BY <1>1, ColumnParts DEF Parts
<1>3. PICK P \in [0 .. N -> Seq(Ids)] : FlattenSeq(Column(f)) = P[N]
  BY <1>2, FlattenJoins
<1> QED BY <1>3 DEF All

LEMMA AllSame ==
  ASSUME NEW f \in Disk, NEW g \in Disk, SameBut(f, g, {})
  PROVE  All(g) = All(f)
<1>1. \A i \in 1 .. Keep + 1 : Readable(g[Keep + 1 - i].text) = Readable(f[Keep + 1 - i].text)
  BY ColumnParts DEF SameBut
<1> QED BY <1>1 DEF All, Column

(* All but one file stay as they are.                                      *)
LEMMA AllButOne ==
  ASSUME NEW f \in Disk, NEW g \in Disk, NEW s \in Slots,
         SameBut(f, g, {s})
  PROVE  \E A, B \in Seq(Ids) : /\ All(f) = (A \o Readable(f[s].text)) \o B
                                /\ All(g) = (A \o Readable(g[s].text)) \o B
                                /\ s = Keep => A = << >>
                                /\ NoneBelow(f, s) => B = << >>
<1>0. PICK N \in Nat \ {0} : N = Keep + 1
  BY SinkAssumption
<1>1. PICK k \in 1 .. N : N = Keep + 1 /\ k = Keep + 1 - s /\ (s = Keep => k = 1)
  <2>1. Keep + 1 - s \in 1 .. N /\ (s = Keep => Keep + 1 - s = 1)
    BY <1>0, SinkAssumption DEF Slots
  <2> QED BY <1>0, <2>1
<1>2. Column(f) \in Parts(N, Ids) /\ Column(g) \in Parts(N, Ids)
  BY <1>1, ColumnParts
<1>3. Agree(Column(f), Column(g), (1 .. N) \ {k})
  <2>1. ASSUME NEW i \in (1 .. N) \ {k} PROVE Column(f)[i] = Column(g)[i]
    <3>1. Keep + 1 - i \in Slots /\ Keep + 1 - i # s
      BY <1>1, SinkAssumption DEF Slots
    <3>2. g[Keep + 1 - i].text = f[Keep + 1 - i].text
      BY <3>1 DEF SameBut
    <3> QED BY <1>1, <3>2, ColumnParts
  <2> QED BY <2>1 DEF Agree
<1>4. PICK A \in Seq(Ids), B \in Seq(Ids) :
         /\ FlattenSeq(Column(f)) = (A \o Column(f)[k]) \o B
         /\ FlattenSeq(Column(g)) = (A \o Column(g)[k]) \o B
         /\ k = 1 => A = << >>
         /\ NoneIn(Column(f), k + 1 .. N) => B = << >>
  <2>1. SameButOne(Ids, N, Column(f), Column(g), k)
    BY <1>2, <1>3 DEF SameButOne
  <2>2. Around(Ids, N, Column(f), Column(g), k)
    BY <2>1, OneChanges
  <2> QED BY <2>2 DEF Around
<1>5. Column(f)[k] = Readable(f[s].text) /\ Column(g)[k] = Readable(g[s].text)
  BY <1>1, ColumnParts
<1>6. ASSUME NoneBelow(f, s) PROVE NoneIn(Column(f), k + 1 .. N)
  <2>1. ASSUME NEW i \in k + 1 .. N PROVE Column(f)[i] = << >>
    <3>1. i \in 1 .. N /\ Keep + 1 - i \in Slots /\ Keep + 1 - i < s
      BY <1>1, SinkAssumption DEF Slots
    <3>2. f[Keep + 1 - i].text = << >>
      BY <1>6, <3>1 DEF NoneBelow
    <3> QED BY <1>1, <3>1, <3>2, ColumnParts, ReadableOfEmpty
  <2> QED BY <2>1 DEF NoneIn
<1> QED BY <1>1, <1>4, <1>5, <1>6 DEF All

(* The oldest file is removed.                                             *)
LEMMA AllWithoutOldest ==
  ASSUME NEW f \in Disk, NEW g \in Disk,
         SameBut(f, g, {Keep}), g[Keep].text = << >>
  PROVE  \E C, B \in Seq(Ids) : All(f) = C \o B /\ All(g) = B /\ C = Readable(f[Keep].text)
<1>1. Keep \in Slots /\ f[Keep].text \in Seq(Pieces)
  BY SlotFacts DEF Disk, Files
<1>2. PICK A \in Seq(Ids), B \in Seq(Ids) :
        /\ All(f) = (A \o Readable(f[Keep].text)) \o B /\ All(g) = (A \o Readable(g[Keep].text)) \o B
        /\ Keep = Keep => A = << >>
        /\ NoneBelow(f, Keep) => B = << >>
  BY <1>1, AllButOne, Zenon
<1>3. PICK C \in Seq(Ids) : C = Readable(f[Keep].text)
  BY <1>1, ReadableType
<1>4. << >> \o C = C /\ << >> \o << >> = << >> /\ << >> \o B = B
  BY ConcatEmptySeq, EmptySeq
<1>5. All(f) = C \o B /\ All(g) = B
  BY <1>2, <1>3, <1>4, ReadableOfEmpty
<1> QED BY <1>3, <1>5

(* A file takes the next name, in place of what had it.                    *)
LEMMA AllMoved ==
  ASSUME NEW f \in Disk, NEW g \in Disk, NEW s \in Slots, s < Keep,
         SameBut(f, g, {s, s + 1}),
         g[s + 1].text = f[s].text, g[s].text = << >>
  PROVE  \E A, C, D \in Seq(Ids) : /\ All(f) = (A \o C) \o D /\ All(g) = A \o D
                                   /\ C = Readable(f[s + 1].text)
<1>0. PICK N \in Nat \ {0} : N = Keep + 1
  BY SinkAssumption
<1>1. PICK k \in 1 .. N, m \in 1 .. N :
        /\ k = Keep + 1 - (s + 1) /\ m = Keep + 1 - s /\ m = k + 1 /\ s + 1 \in Slots
  <2>1. /\ Keep + 1 - (s + 1) \in 1 .. N /\ Keep + 1 - s \in 1 .. N
        /\ Keep + 1 - s = (Keep + 1 - (s + 1)) + 1 /\ s + 1 \in Slots
    BY <1>0, SinkAssumption DEF Slots
  <2> QED BY <1>0, <2>1
<1>2. PICK R \in Parts(N, Ids), Q \in Parts(N, Ids) : R = Column(f) /\ Q = Column(g)
  BY <1>0, ColumnParts
<1>3. Agree(R, Q, Others(N, k, m))
  <2>1. ASSUME NEW i \in Others(N, k, m) PROVE R[i] = Q[i]
    <3>1. Keep + 1 - i \in Slots /\ Keep + 1 - i # s /\ Keep + 1 - i # s + 1
      BY <1>0, <1>1, SinkAssumption DEF Slots, Others
    <3>2. g[Keep + 1 - i].text = f[Keep + 1 - i].text
      BY <3>1 DEF SameBut
    <3>3. /\ Column(f)[i] = Readable(f[Keep + 1 - i].text)
          /\ Column(g)[i] = Readable(g[Keep + 1 - i].text)
      BY <1>0, ColumnParts DEF Others
    <3> QED BY <1>2, <3>2, <3>3
  <2> QED BY <2>1 DEF Agree
<1>4. PICK A \in Seq(Ids), B \in Seq(Ids) :
         /\ FlattenSeq(R) = ((A \o R[k]) \o R[m]) \o B
         /\ FlattenSeq(Q) = ((A \o Q[k]) \o Q[m]) \o B
  <2>1. m = k + 1
    BY <1>1
  <2>2. Neighbours(Ids, N, R, Q, k, m)
    BY <1>3, <2>1 DEF Neighbours
  <2>3. Between(Ids, R, Q, k, m)
    BY <2>2, TwoChange
  <2> QED BY <2>3 DEF Between
<1>5. /\ R[k] = Readable(f[s + 1].text) /\ R[m] = Readable(f[s].text)
      /\ Q[k] = Readable(f[s].text) /\ Q[m] = << >>
  BY <1>1, <1>2, ColumnParts, ReadableOfEmpty
<1>6. PICK C \in Seq(Ids), E \in Seq(Ids) : C = Readable(f[s + 1].text) /\ E = Readable(f[s].text)
  <2>1. f[s + 1].text \in Seq(Pieces) /\ f[s].text \in Seq(Pieces)
    BY <1>1 DEF Disk, Files
  <2> QED BY <2>1, ReadableType
<1>7. All(f) = ((A \o C) \o E) \o B /\ All(g) = ((A \o E) \o << >>) \o B
  BY <1>2, <1>4, <1>5, <1>6 DEF All
<1>8. A \o C \in Seq(Ids) /\ A \o E \in Seq(Ids) /\ E \o B \in Seq(Ids)
  BY ConcatProperties
<1>9. ((A \o C) \o E) \o B = (A \o C) \o (E \o B)
  BY <1>8, ConcatAssociative
<1>10. (A \o E) \o B = A \o (E \o B)
  BY ConcatAssociative
<1>11. (A \o E) \o << >> = A \o E
  BY <1>8, ConcatEmptySeq
<1> QED BY <1>6, <1>7, <1>8, <1>9, <1>10, <1>11

(* A piece is added to the last file there is.                             *)
LEMMA AllWithOneMore ==
  ASSUME NEW f \in Disk, NEW g \in Disk, NEW s \in Slots, NEW p \in Pieces,
         SameBut(f, g, {s}),
         g[s].text = Append(f[s].text, p),
         NoneBelow(f, s)
  PROVE  All(g) = IF p.json THEN Append(All(f), p.id) ELSE All(f)
<1>1. PICK A \in Seq(Ids), B \in Seq(Ids) :
        /\ All(f) = (A \o Readable(f[s].text)) \o B /\ All(g) = (A \o Readable(g[s].text)) \o B
        /\ B = << >>
  BY AllButOne
<1>2. f[s].text \in Seq(Pieces)
  BY DEF Disk, Files
<1>3. PICK C \in Seq(Ids) : C = Readable(f[s].text)
  BY <1>2, ReadableType
<1>4. Readable(g[s].text) = IF p.json THEN Append(C, p.id) ELSE C
  BY <1>2, <1>3, ReadableOfAppend
<1>5. PICK id \in Ids : id = p.id
  BY DEF Pieces, Ids
<1>6. A \o C \in Seq(Ids) /\ Append(C, id) \in Seq(Ids)
  BY ConcatProperties, AppendProperties
<1>7. (A \o C) \o << >> = A \o C /\ A \o Append(C, id) \in Seq(Ids)
  BY <1>6, ConcatEmptySeq, ConcatProperties
<1>8. (A \o Append(C, id)) \o << >> = A \o Append(C, id)
  BY <1>7, ConcatEmptySeq
<1>9. A \o Append(C, id) = Append(A \o C, id)
  <2>1. << id >> \in Seq(Ids)
    OBVIOUS
  <2>2. Append(C, id) = C \o << id >> /\ Append(A \o C, id) = (A \o C) \o << id >>
    BY <1>6, AppendIsConcat
  <2> QED BY <2>1, <2>2, ConcatAssociative
<1> QED BY <1>1, <1>3, <1>4, <1>5, <1>7, <1>8, <1>9

-----------------------------------------------------------------------------
(* The ways in which a step can change the files.                          *)
Stays ==
  /\ slot' = slot /\ handle' \in {handle, Unlinked}
  /\ trail' = trail /\ faults' \in {faults, faults + 1}

Opens ==
  /\ slot' = [slot EXCEPT ![0] = Opened(slot[0])] /\ handle' = 0
  /\ UNCHANGED <<trail, faults>>

Drops ==
  /\ Unlink(Keep)
  /\ pc = "oldest" \/ Keep = 0
  /\ UNCHANGED <<trail, faults>>

Moves(s) ==
  /\ s < Keep /\ slot[s].there /\ Rename(s, s + 1)
  /\ faults = 0 => ~slot[s + 1].there
  /\ UNCHANGED <<trail, faults>>

Writes ==
  /\ pc = "write" /\ Put(Whole, line.size)
  /\ trail' = Append(trail, line.id)
  /\ UNCHANGED <<handle, faults>>

Tears ==
  /\ pc = "write" /\ \E part \in Nat : Put(Fragment, part)
  /\ faults' = faults + 1
  /\ UNCHANGED <<handle, trail>>

LEMMA StepKinds ==
  ASSUME TrailInv, [Next]_vars
  PROVE  Stays \/ Opens \/ Drops \/ (\E s \in Slots : Moves(s)) \/ Writes \/ Tears
<1> USE SinkAssumption, SlotFacts
<1>1. TypeOK /\ LineUnderWay /\ LoopInRange /\ (faults = 0 => (Gap \in 1 .. Keep => ~slot[Gap].there))
  BY DEF TrailInv, SizeInv
<1>2. CASE Start
  BY <1>2 DEF Start, Opens, Budgets
<1>3. ASSUME NEW size \in Sizes, Record(size) PROVE Stays
  BY <1>3 DEF Record, Stays
<1>4. CASE RemoveOldest
  BY <1>4 DEF RemoveOldest, Stays, Drops, Fault
<1>5. CASE Shift
  <2>1. n \in Slots /\ n < Keep /\ Gap = n + 1 /\ n + 1 \in 1 .. Keep
    BY <1>1, <1>5 DEF Shift, LoopInRange, Slots, Gap
  <2>2. CASE slot[n].there /\ Rotate(n) /\ UNCHANGED faults
    <3>1. Moves(n)
      BY <1>1, <1>5, <2>1, <2>2 DEF Shift, Rotate, Moves
    <3> QED BY <2>1, <3>1
  <2>3. CASE UNCHANGED <<slot, handle>>
    BY <1>5, <2>3 DEF Shift, Stays, Fault
  <2> QED BY <1>5, <2>2, <2>3 DEF Shift
<1>6. CASE MoveActive
  <2>1. CASE slot[0].there /\ Keep = 0 /\ Unlink(0) /\ UNCHANGED faults
    BY <1>6, <2>1 DEF MoveActive, Drops
  <2>2. CASE slot[0].there /\ Keep # 0 /\ Rotate(0) /\ UNCHANGED faults
    <3>1. Gap = 1 /\ 1 \in 1 .. Keep /\ 0 < Keep
      BY <1>6, <2>2 DEF MoveActive, Gap
    <3>2. Rename(0, 0 + 1) /\ 0 + 1 = 1
      BY <2>2 DEF Rotate
    <3>3. Moves(0)
      BY <1>1, <1>6, <2>2, <3>1, <3>2 DEF MoveActive, Moves
    <3> QED BY <3>3
  <2>3. CASE UNCHANGED <<slot, handle>>
    BY <1>6, <2>3 DEF MoveActive, Stays, Fault
  <2> QED BY <1>6, <2>1, <2>2, <2>3 DEF MoveActive
<1>7. CASE Reopen
  BY <1>7 DEF Reopen, Reopened, Stays, Opens, Fault
<1>8. CASE Write
  <2>1. CASE Fault
    <3>1. line.size \in Nat
      BY <1>1, <1>8, LineType DEF Write
    <3>2. \A part \in 0 .. (line.size - 1) : part \in Nat
      BY <3>1
    <3>3. trail' = trail /\ faults' = faults + 1 /\ handle' = handle /\ pc = "write"
      BY <1>8, <2>1 DEF Write, Fault
    <3>4. CASE UNCHANGED slot
      BY <3>3, <3>4 DEF Stays
    <3>5. CASE ~UNCHANGED slot
      BY <1>8, <2>1, <3>2, <3>3, <3>5 DEF Write, Tears
    <3> QED BY <3>4, <3>5
  <2>2. CASE ~Fault
    BY <1>8, <2>2 DEF Write, Writes
  <2> QED BY <2>1, <2>2
<1>9. CASE Crash
  BY <1>9 DEF Crash, Stays
<1>10. CASE UNCHANGED vars
  BY <1>10 DEF vars, Stays
<1> QED
  BY <1>2, <1>3, <1>4, <1>5, <1>6, <1>7, <1>8, <1>9, <1>10 DEF Next

LEMMA InitTrail == Init => TrailInv /\ FilledUp
<1> SUFFICES ASSUME Init PROVE TrailInv /\ FilledUp
  OBVIOUS
<1>1. SizeInv
  BY InitSized
<1>2. OpenIsLast /\ NoRests /\ WholeLines /\ Gap = 0
  BY SlotFacts DEF Init, OpenIsLast, NoRests, WholeLines, Gap, Absent
<1>3. \A s \in 1 .. Keep : ~slot[s].there
  BY SinkAssumption DEF Init, Slots, Absent
<1> QED
  BY <1>1, <1>2, <1>3 DEF TrailInv, FilledUp

LEMMA FileFacts ==
  ASSUME TypeOK
  PROVE  /\ slot \in Disk
         /\ \A s \in Slots : slot[s] \in Files /\ slot[s].text \in Seq(Pieces)
         /\ Opened(slot[0]) \in Files /\ Opened(slot[0]).there
<1>1. \A s \in Slots : slot[s] \in Files
  BY DEF TypeOK, Files
<1> QED BY <1>1, SlotFacts, OpenedType DEF TypeOK, Disk, Files

(* The last file stays the one that is open, and no rests appear.          *)
LEMMA NextOpen ==
  ASSUME TrailInv, [Next]_vars
  PROVE  OpenIsLast' /\ NoRests'
<1> USE SlotFacts
<1>1. TypeOK /\ LineUnderWay /\ OpenIsLast /\ NoRests
  BY DEF TrailInv, SizeInv
<1>2. CASE Stays
  BY <1>1, <1>2 DEF Stays, OpenIsLast, NoRests
<1>3. CASE Opens
  <2>1. slot'[0].there /\ \A s \in Slots : s # 0 => slot'[s] = slot[s]
    BY <1>1, <1>3, FileFacts DEF Opens, TypeOK
  <2>2. \A s \in Slots : ~(s < 0)
    BY SinkAssumption DEF Slots
  <2> QED BY <1>1, <1>3, <2>1, <2>2 DEF Opens, OpenIsLast, NoRests
<1>4. CASE Drops
  <2>1. /\ ~slot'[Keep].there /\ slot'[Keep].text = << >>
        /\ \A s \in Slots : s # Keep => slot'[s] = slot[s]
        /\ handle' = IF handle = Keep THEN Unlinked ELSE handle
    BY <1>1, <1>4, UnlinkType DEF Drops, Unlink
  <2> QED BY <1>1, <2>1 DEF OpenIsLast, NoRests
<1>5. ASSUME NEW s \in Slots, Moves(s) PROVE OpenIsLast' /\ NoRests'
  <2>1. s + 1 \in Slots /\ s # s + 1 /\ slot[s].there
    BY <1>5, SinkAssumption DEF Moves, Slots
  <2>2. /\ ~slot'[s].there /\ slot'[s].text = << >> /\ slot'[s + 1] = slot[s]
        /\ \A u \in Slots : u # s /\ u # s + 1 => slot'[u] = slot[u]
    BY <1>1, <1>5, <2>1, RenameType DEF Moves
  <2>3. handle' = IF handle = s THEN s + 1 ELSE IF handle = s + 1 THEN Unlinked ELSE handle
    BY <1>5 DEF Moves, Rename
  <2>4. NoRests'
    BY <1>1, <2>1, <2>2 DEF NoRests
  <2>5. CASE handle = s
    <3>1. handle' = s + 1 /\ \A u \in Slots : u < s + 1 => u = s \/ u < s
      BY <2>3, <2>5 DEF Slots
    <3>2. \A u \in Slots : u < s => u # s /\ u # s + 1 /\ ~slot[u].there
      BY <1>1, <2>5 DEF OpenIsLast, Slots
    <3> QED BY <2>1, <2>2, <2>4, <3>1, <3>2 DEF OpenIsLast
  <2>6. CASE handle = s + 1
    BY <2>3, <2>4, <2>5, <2>6, SinkAssumption DEF OpenIsLast
  <2>7. CASE handle # s /\ handle # s + 1
    <3>1. CASE handle \in Slots
      <4>1. ~(s < handle)
        BY <1>1, <2>1, <3>1 DEF OpenIsLast
      <4>2. handle < s
        BY <2>7, <3>1, <4>1 DEF Slots
      <4>3. \A u \in Slots : u < handle => u # s /\ u # s + 1
        BY <3>1, <4>2 DEF Slots
      <4> QED BY <1>1, <2>2, <2>3, <2>4, <2>7, <3>1, <4>3 DEF OpenIsLast
    <3>2. CASE handle \notin Slots
      BY <2>3, <2>4, <2>7, <3>2 DEF OpenIsLast
    <3> QED BY <3>1, <3>2
  <2> QED BY <2>5, <2>6, <2>7
<1>6. ASSUME NEW piece \in Pieces, NEW b \in Nat, Put(piece, b), handle' = handle
      PROVE  OpenIsLast' /\ NoRests'
  <2>1. \A s \in Slots :
          /\ slot'[s].there = slot[s].there
          /\ slot'[s].text = IF s = handle THEN Append(slot[s].text, piece) ELSE slot[s].text
    BY <1>1, <1>6, PutType
  <2> QED BY <1>1, <1>6, <2>1 DEF OpenIsLast, NoRests
<1>7. CASE Writes
  <2>1. Whole \in Pieces /\ line.size \in Nat
    BY <1>1, <1>7, PieceType, LineType DEF Writes
  <2> QED BY <1>6, <1>7, <2>1 DEF Writes
<1>8. CASE Tears
  <2>1. Fragment \in Pieces
    BY <1>1, <1>8, PieceType DEF Tears
  <2> QED BY <1>6, <1>8, <2>1 DEF Tears
<1> QED BY <1>2, <1>3, <1>4, <1>5, <1>7, <1>8, StepKinds

(* While no call fails every line is whole.                                *)
LEMMA NextWhole ==
  ASSUME TrailInv, [Next]_vars, faults' = 0
  PROVE  WholeLines'
<1> USE SlotFacts
<1>1. TypeOK /\ LineUnderWay /\ NoRests /\ faults = 0 /\ WholeLines
  BY FaultsStay DEF TrailInv, SizeInv
<1>2. CASE Stays
  BY <1>1, <1>2 DEF Stays, WholeLines
<1>3. CASE Opens
  <2>1. \A s \in Slots : s # 0 => slot'[s] = slot[s]
    BY <1>1, <1>3, FileFacts DEF Opens, TypeOK
  <2>2. slot'[0].text = slot[0].text
    BY <1>1, <1>3 DEF Opens, Opened, Empty, NoRests, TypeOK
  <2> QED BY <1>1, <2>1, <2>2 DEF WholeLines
<1>4. CASE Drops
  <2>1. /\ slot'[Keep].text = << >> /\ Len(<< >>) = 0
        /\ \A s \in Slots : s # Keep => slot'[s] = slot[s]
    BY <1>1, <1>4, UnlinkType, EmptySeq DEF Drops
  <2> QED BY <1>1, <2>1 DEF WholeLines
<1>5. ASSUME NEW s \in Slots, Moves(s) PROVE WholeLines'
  <2>1. s + 1 \in Slots /\ s # s + 1
    BY <1>5, SinkAssumption DEF Moves, Slots
  <2>2. /\ slot'[s].text = << >> /\ slot'[s + 1] = slot[s] /\ Len(<< >>) = 0
        /\ \A u \in Slots : u # s /\ u # s + 1 => slot'[u] = slot[u]
    BY <1>1, <1>5, <2>1, RenameType, EmptySeq DEF Moves
  <2> QED BY <1>1, <2>1, <2>2 DEF WholeLines
<1>6. CASE Writes
  <2>1. Whole \in Pieces /\ line.size \in Nat /\ Whole.ends
    BY <1>1, <1>6, PieceType, LineType DEF Writes, Whole
  <2>2. \A s \in Slots :
          slot'[s].text = IF s = handle THEN Append(slot[s].text, Whole) ELSE slot[s].text
    BY <1>1, <1>6, <2>1, PutType DEF Writes
  <2>3. ASSUME NEW s \in Slots, NEW i \in 1 .. Len(slot'[s].text) PROVE slot'[s].text[i].ends
    <3>1. CASE s # handle
      BY <1>1, <2>2, <3>1 DEF WholeLines
    <3>2. CASE s = handle
      <4>1. PICK text \in Seq(Pieces) : text = slot[s].text
        BY <1>1, FileFacts
      <4>2. slot'[s].text = Append(text, Whole)
        BY <2>2, <3>2, <4>1
      <4>3. Len(text) \in Nat /\ Len(Append(text, Whole)) = Len(text) + 1
        BY <2>1, AppendProperties, LenProperties
      <4>4. CASE i = Len(text) + 1
        BY <2>1, <4>2, <4>4, AppendProperties
      <4>5. CASE i # Len(text) + 1
        <5>1. i \in 1 .. Len(text)
          BY <4>2, <4>3, <4>5
        <5>2. Append(text, Whole)[i] = text[i]
          BY <2>1, <5>1, AppendProperties
        <5> QED BY <1>1, <4>1, <4>2, <5>1, <5>2 DEF WholeLines
      <4> QED BY <4>4, <4>5
    <3> QED BY <3>1, <3>2
  <2> QED BY <2>3 DEF WholeLines
<1>7. ~Tears
  BY <1>1 DEF Tears
<1> QED BY <1>2, <1>3, <1>4, <1>5, <1>6, <1>7, StepKinds

(* A file is moved where there is none, and without a crash the rotated    *)
(* files are used one after the other.                                     *)
LEMMA NextGap ==
  ASSUME TrailInv, [Next]_vars, faults' = 0
  PROVE  /\ Gap' \in 1 .. Keep => ~slot'[Gap'].there
         /\ FilledUp => FilledUp'
<1> USE SlotFacts, SinkAssumption
<1>1. /\ TypeOK /\ LineUnderWay /\ LoopInRange /\ CountedBytes
      /\ faults = 0 /\ ~Fault /\ (Gap \in 1 .. Keep => ~slot[Gap].there)
  BY FaultsStay DEF TrailInv, SizeInv
<1> DEFINE Filled == \A s, t \in 1 .. Keep : s < t /\ slot[t].there => slot[s].there \/ s = Gap
<1>2. 1 .. Keep \subseteq Slots /\ 0 \notin 1 .. Keep
  BY DEF Slots
<1>3. FilledUp /\ crashes' = 0 => Filled \/ Crash
  <2>1. crashes' = 0 => crashes = 0 \/ Crash
    BY DEF Next, Start, Record, RemoveOldest, Shift, MoveActive, Reopen, Write, Budgets, vars
  <2> QED BY <1>1, <2>1 DEF FilledUp
<1> SUFFICES /\ Gap' \in 1 .. Keep => ~slot'[Gap'].there
             /\ Filled /\ ~Crash => Filled'
  <2>1. Crash => crashes' # 0
    BY <1>1 DEF Crash, TypeOK
  <2> QED BY <1>3, <2>1 DEF FilledUp
<1>4. CASE Start
  <2>1. Gap' = 0 /\ Gap = 0 /\ \A s \in 1 .. Keep : slot'[s] = slot[s]
    BY <1>1, <1>2, <1>4 DEF Start, Gap, TypeOK
  <2> QED BY <1>2, <2>1
<1>5. ASSUME NEW size \in Sizes, Record(size)
      PROVE  /\ Gap' \in 1 .. Keep => ~slot'[Gap'].there
             /\ Filled => Filled'
  <2>1. Gap' \notin 1 .. Keep /\ Gap = 0 /\ slot' = slot
    BY <1>5 DEF Record, FirstCall, Gap
  <2> QED BY <1>2, <2>1
<1>6. CASE RemoveOldest
  <2>1. Keep # 0 /\ Unlink(Keep) /\ Gap = 0
    BY <1>1, <1>6 DEF RemoveOldest, LoopInRange, Gap
  <2>2. ~slot'[Keep].there /\ \A s \in Slots : s # Keep => slot'[s] = slot[s]
    BY <1>1, <2>1, UnlinkType
  <2>3. Gap' = Keep
    BY <1>6 DEF RemoveOldest, AfterOldest, Gap
  <2> QED BY <1>2, <2>1, <2>2, <2>3
<1>7. CASE Shift
  <2>1. /\ n \in 1 .. (Keep - 1) /\ n \in Slots /\ n + 1 \in Slots /\ n # n + 1
        /\ Gap = n + 1 /\ n + 1 \in 1 .. Keep
    BY <1>1, <1>7 DEF Shift, LoopInRange, Gap, Slots
  <2>2. Gap' = n /\ n \in 1 .. Keep
    BY <1>7, <2>1 DEF Shift, LastShift, Gap
  <2>3. CASE slot[n].there
    <3>1. Rename(n, n + 1)
      BY <1>1, <1>7, <2>3 DEF Shift, Rotate
    <3>2. /\ ~slot'[n].there /\ slot'[n + 1] = slot[n]
          /\ \A u \in Slots : u # n /\ u # n + 1 => slot'[u] = slot[u]
      BY <1>1, <2>1, <3>1, RenameType
    <3>3. ASSUME Filled, NEW s \in 1 .. Keep, NEW t \in 1 .. Keep, s < t, slot'[t].there, s # n
          PROVE  slot'[s].there
      <4>1. CASE s = n + 1
        BY <2>3, <3>2, <4>1
      <4>2. CASE s # n + 1
        <5>1. slot'[s] = slot[s]
          BY <1>2, <3>2, <3>3, <4>2
        <5>2. CASE t = n + 1
          <6>1. s < n
            BY <2>1, <3>3, <5>2
          <6> QED BY <2>1, <2>2, <2>3, <3>3, <4>2, <5>1, <6>1
        <5>3. CASE t # n + 1
          <6>1. t # n /\ slot'[t] = slot[t]
            BY <1>2, <3>2, <3>3, <5>3
          <6> QED BY <2>1, <3>3, <4>2, <5>1, <6>1
        <5> QED BY <5>2, <5>3
      <4> QED BY <4>1, <4>2
    <3> QED BY <2>2, <3>2, <3>3
  <2>4. CASE ~slot[n].there
    <3>1. slot' = slot
      BY <1>1, <1>7, <2>4 DEF Shift
    <3>2. ASSUME Filled, NEW s \in 1 .. Keep, NEW t \in 1 .. Keep, s < t, slot[t].there, s # n
          PROVE  slot[s].there
      <4>1. CASE s = n + 1
        <5>1. n < t
          BY <2>1, <3>2, <4>1
        <5> QED BY <2>1, <2>2, <2>4, <3>2, <5>1
      <4>2. CASE s # n + 1
        BY <2>1, <3>2, <4>2
      <4> QED BY <4>1, <4>2
    <3> QED BY <2>2, <2>4, <3>1, <3>2
  <2> QED BY <2>3, <2>4
<1>8. CASE MoveActive
  <2>1. slot[0].there /\ pc' = "open" /\ Gap' = 0 /\ Gap = 1
    BY <1>1, <1>8 DEF MoveActive, CountedBytes, Gap
  <2>2. CASE Keep = 0
    BY <1>2, <2>1, <2>2
  <2>3. CASE Keep # 0
    <3>1. Rename(0, 1) /\ 1 \in Slots /\ 0 # 1
      BY <1>1, <1>8, <2>1, <2>3 DEF MoveActive, Rotate, Slots
    <3>2. slot'[1] = slot[0] /\ \A u \in Slots : u # 0 /\ u # 1 => slot'[u] = slot[u]
      BY <1>1, <3>1, RenameType
    <3>3. ASSUME Filled, NEW s \in 1 .. Keep, NEW t \in 1 .. Keep, s < t, slot'[t].there
          PROVE  slot'[s].there
      <4>1. t # 1 /\ slot'[t] = slot[t]
        BY <1>2, <3>2, <3>3
      <4> QED BY <1>2, <2>1, <3>2, <3>3, <4>1
    <3> QED BY <1>2, <2>1, <3>3
  <2> QED BY <2>2, <2>3
<1>9. CASE Reopen
  <2>1. Gap' = 0 /\ Gap = 0 /\ \A s \in 1 .. Keep : slot'[s] = slot[s]
    BY <1>1, <1>2, <1>9 DEF Reopen, Gap, TypeOK
  <2> QED BY <1>2, <2>1
<1>10. CASE Write
  <2>1. Whole \in Pieces /\ line.size \in Nat /\ Put(Whole, line.size)
    BY <1>1, <1>10, PieceType, LineType DEF Write
  <2>2. Gap' = 0 /\ Gap = 0 /\ \A s \in Slots : slot'[s].there = slot[s].there
    BY <1>1, <1>10, <2>1, PutType DEF Write, Gap
  <2> QED BY <1>2, <2>2
<1>11. CASE Crash
  BY <1>2, <1>11 DEF Crash, Gap
<1>12. CASE UNCHANGED vars
  <2>1. Gap' = Gap /\ slot' = slot
    BY <1>12 DEF vars, Gap
  <2> QED BY <1>1, <2>1
<1> QED
  BY <1>4, <1>5, <1>6, <1>7, <1>8, <1>9, <1>10, <1>11, <1>12 DEF Next

LEMMA NextTrail ==
  ASSUME TrailInv, [Next]_vars
  PROVE  TrailInv' /\ (FilledUp => FilledUp')
<1>1. SizeInv' /\ OpenIsLast' /\ NoRests'
  BY NextSized, NextOpen DEF TrailInv
<1>2. CASE faults' = 0
  BY <1>1, <1>2, NextWhole, NextGap DEF TrailInv
<1>3. CASE faults' # 0
  BY <1>1, <1>3 DEF TrailInv, FilledUp
<1> QED BY <1>2, <1>3

-----------------------------------------------------------------------------
(* What each of these ways means for whoever reads the files.              *)
LEMMA ReadAll == ToRead = All(slot)
BY DEF ToRead, All, Column

LEMMA StaysRead == Stays => ToRead' = ToRead
BY DEF Stays, ToRead

LEMMA OpensRead ==
  ASSUME TrailInv, TrailInv', Opens
  PROVE  ToRead' = ToRead
<1>1. TypeOK /\ TypeOK' /\ NoRests
  BY DEF TrailInv, SizeInv
<1>2. slot \in Disk /\ slot' \in Disk
  BY <1>1 DEF TypeOK, Disk, Files
<1>3. SameBut(slot, slot', {})
  BY <1>1, SlotFacts DEF Opens, Opened, Empty, NoRests, TypeOK, SameBut
<1>4. All(slot') = All(slot)
  BY <1>2, <1>3, AllSame
<1> QED BY <1>4 DEF ToRead, All, Column

LEMMA DropsRead ==
  ASSUME TrailInv, TrailInv', Drops
  PROVE  /\ ~slot[Keep].there => ToRead' = ToRead
         /\ \/ ToRead' = ToRead
            \/ \E k \in 1 .. Len(ToRead) : ToRead' = SubSeq(ToRead, k + 1, Len(ToRead))
<1>1. TypeOK /\ TypeOK' /\ NoRests /\ Keep \in Slots
  BY SlotFacts DEF TrailInv, SizeInv
<1>2. slot \in Disk /\ slot' \in Disk
  BY <1>1 DEF TypeOK, Disk, Files
<1>3. slot'[Keep].text = << >> /\ SameBut(slot, slot', {Keep})
  BY <1>1, UnlinkType DEF Drops, SameBut
<1>4. PICK C \in Seq(Ids), B \in Seq(Ids) :
        All(slot) = C \o B /\ All(slot') = B /\ C = Readable(slot[Keep].text)
  BY <1>2, <1>3, AllWithoutOldest
<1>5. ToRead = C \o B /\ ToRead' = B
  BY <1>4 DEF ToRead, All, Column
<1>6. C = << >> => ToRead' = ToRead
  BY <1>5, ConcatEmptySeq
<1>7. C # << >> => \E k \in 1 .. Len(ToRead) : ToRead' = SubSeq(ToRead, k + 1, Len(ToRead))
  BY <1>5, BeginningForgotten
<1>8. ~slot[Keep].there => C = << >>
  BY <1>1, <1>4, ReadableOfEmpty DEF NoRests
<1> QED BY <1>6, <1>7, <1>8

LEMMA MovesRead ==
  ASSUME TrailInv, TrailInv', NEW s \in Slots, Moves(s)
  PROVE  \/ ToRead' = ToRead
         \/ faults # 0 /\ WithoutMiddle(ToRead, ToRead')
<1>1. TypeOK /\ TypeOK' /\ NoRests /\ s + 1 \in Slots /\ s < Keep /\ s # s + 1
  BY SinkAssumption DEF TrailInv, SizeInv, Moves, Slots
<1>2. slot \in Disk /\ slot' \in Disk
  BY <1>1 DEF TypeOK, Disk, Files
<1>3. slot'[s].text = << >> /\ slot'[s + 1].text = slot[s].text /\ SameBut(slot, slot', {s, s + 1})
  BY <1>1, RenameType DEF Moves, SameBut
<1>4. PICK A \in Seq(Ids), C \in Seq(Ids), D \in Seq(Ids) :
        All(slot) = (A \o C) \o D /\ All(slot') = A \o D /\ C = Readable(slot[s + 1].text)
  BY <1>1, <1>2, <1>3, AllMoved
<1>5. ToRead = (A \o C) \o D /\ ToRead' = A \o D
  BY <1>4 DEF ToRead, All, Column
<1>6. faults = 0 => C = << >>
  BY <1>1, <1>4, ReadableOfEmpty DEF NoRests, Moves
<1>7. C = << >> => ToRead' = ToRead
  BY <1>5, ConcatEmptySeq
<1>8. C # << >> => WithoutMiddle(ToRead, ToRead')
  BY <1>5, MiddleLost
<1> QED BY <1>6, <1>7, <1>8

LEMMA PutRead ==
  ASSUME TrailInv, TrailInv', NEW piece \in Pieces, NEW b \in Nat, Put(piece, b)
  PROVE  IF handle \in Slots /\ piece.json THEN ToRead' = Append(ToRead, piece.id) ELSE ToRead' = ToRead
<1>1. TypeOK /\ TypeOK' /\ NoRests /\ OpenIsLast
  BY DEF TrailInv, SizeInv
<1>2. slot \in Disk /\ slot' \in Disk
  BY <1>1 DEF TypeOK, Disk, Files
<1>3. CASE handle = Unlinked
  <2>1. slot' = slot /\ handle \notin Slots
    BY <1>3, SlotFacts DEF Put
  <2> QED BY <2>1 DEF ToRead
<1>4. CASE handle \in Slots
  <2>1. PICK s \in Slots : s = handle
    BY <1>4
  <2>2. slot'[s].text = Append(slot[s].text, piece) /\ SameBut(slot, slot', {s})
    BY <1>1, <2>1, PutType DEF SameBut
  <2>3. NoneBelow(slot, s)
    BY <1>1, <2>1 DEF OpenIsLast, NoRests, NoneBelow
  <2>4. All(slot') = IF piece.json THEN Append(All(slot), piece.id) ELSE All(slot)
    BY <1>2, <2>2, <2>3, AllWithOneMore
  <2>5. All(slot) = ToRead /\ All(slot') = ToRead'
    BY DEF ToRead, All, Column
  <2> QED BY <1>4, <2>4, <2>5
<1> QED BY <1>1, <1>3, <1>4 DEF TypeOK

LEMMA WritesRead ==
  ASSUME TrailInv, TrailInv', Writes
  PROVE  /\ ToRead' = Append(ToRead, line.id) \/ (faults # 0 /\ ToRead' = ToRead)
         /\ line.id \in 1 .. MaxRecords
<1>1. TypeOK /\ LineUnderWay /\ (faults = 0 => CountedBytes /\ WholeLines)
  BY DEF TrailInv, SizeInv
<1>2. Whole \in Pieces /\ line.size \in Nat /\ line.id \in 1 .. MaxRecords
  BY <1>1, PieceType, LineType DEF Writes
<1>3. IF handle \in Slots /\ Whole.json THEN ToRead' = Append(ToRead, Whole.id) ELSE ToRead' = ToRead
  BY <1>2, PutRead DEF Writes
<1>4. ASSUME faults = 0 PROVE handle \in Slots /\ Whole.json
  <2>1. handle = 0 /\ handle \in Slots
    BY <1>1, <1>4, SlotFacts DEF Writes, CountedBytes
  <2>2. ASSUME slot[handle].text # << >> PROVE Last(slot[handle].text).ends
    <3>1. PICK text \in Seq(Pieces) : text = slot[handle].text
      BY <1>1, <2>1, FileFacts
    <3>2. Len(text) \in 1 .. Len(text)
      BY <2>2, <3>1, EmptySeq, LenProperties
    <3> QED BY <1>1, <1>4, <2>1, <3>1, <3>2 DEF WholeLines, Last
  <2> QED BY <2>1, <2>2 DEF Whole, OnNewLine
<1>5. Whole.id = line.id
  BY DEF Whole
<1> QED BY <1>2, <1>3, <1>4, <1>5

LEMMA TearsRead ==
  ASSUME TrailInv, TrailInv', Tears
  PROVE  ToRead' = ToRead /\ faults' # 0
<1>1. TypeOK /\ LineUnderWay
  BY DEF TrailInv, SizeInv
<1>2. Fragment \in Pieces /\ ~Fragment.json
  BY <1>1, PieceType DEF Tears, Fragment
<1>3. PICK part \in Nat : Put(Fragment, part)
  BY DEF Tears
<1>4. faults \in Nat
  BY <1>1, SinkAssumption DEF TypeOK
<1> QED BY <1>2, <1>3, <1>4, PutRead DEF Tears

-----------------------------------------------------------------------------
(* Reading every step of AuditSink as one of AuditTrail, or as none.       *)
LEMMA InitRead == Init => Trail!Init
<1> SUFFICES ASSUME Init PROVE Trail!Init
  OBVIOUS
<1>1. \A s \in Slots : slot[s].text = << >>
  BY DEF Init, Absent
<1>2. \A i \in 1 .. Keep + 1 : Keep + 1 - i \in Slots
  BY SinkAssumption DEF Slots
<1>3. PICK N \in Nat \ {0} : N = Keep + 1
  BY SinkAssumption
<1> DEFINE R == [i \in 1 .. N |-> Readable(slot[Keep + 1 - i].text)]
<1>4. \A i \in 1 .. N : R[i] = << >>
  BY <1>1, <1>2, <1>3, ReadableOfEmpty
<1>5. R \in [1 .. N -> Seq(Ids)]
  BY <1>1, <1>2, <1>3, ReadableOfEmpty, EmptySeq
<1>6. ToRead = FlattenSeq(R)
  BY <1>3 DEF ToRead
<1> HIDE DEF R
<1>7. PICK P \in [0 .. N -> Seq(Ids)] : Joins(P, R, N) /\ FlattenSeq(R) = P[N]
  BY <1>5, FlattenJoins
<1> DEFINE Good == {k \in Nat : k =< N => P[k] = << >>}
<1>8. 0 \in Good
  BY <1>7 DEF Joins
<1>9. ASSUME NEW k \in Nat, k \in Good PROVE k + 1 \in Good
  <2>1. SUFFICES ASSUME k + 1 =< N PROVE P[k + 1] = << >>
    OBVIOUS
  <2>2. k + 1 \in 1 .. N /\ (k + 1) - 1 = k /\ P[k] = << >>
    BY <1>9, <2>1
  <2>3. P[k + 1] = << >> \o << >>
    BY <1>4, <1>7, <2>2 DEF Joins
  <2> QED BY <2>3, ConcatEmptySeq, EmptySeq
<1>10. N \in Good
  <2> HIDE DEF Good
  <2>1. Nat \subseteq Good
    BY <1>8, <1>9, Induction
  <2> QED BY <2>1
<1>11. ToRead = << >>
  BY <1>6, <1>7, <1>10
<1> QED BY <1>11 DEF Init, Trail!Init

LEMMA NextRead ==
  ASSUME TrailInv, TrailInv', [Next]_vars
  PROVE  [Trail!Next]_(Trail!vars)
<1>0. faults \in Nat
  BY SinkAssumption DEF TrailInv, SizeInv, TypeOK
<1>1. CASE Stays
  <2>1. ToRead' = ToRead /\ trail' = trail
    BY <1>1, StaysRead DEF Stays
  <2>2. CASE (faults = 0) <=> (faults' = 0)
    BY <2>1, <2>2 DEF Trail!vars
  <2>3. CASE ~((faults = 0) <=> (faults' = 0))
    <3>1. faults' # 0
      BY <1>0, <1>1, <2>3 DEF Stays
    <3> QED BY <2>1, <3>1 DEF Trail!Next, Trail!Fail
  <2> QED BY <2>2, <2>3
<1>2. CASE Opens
  <2>1. ToRead' = ToRead /\ trail' = trail /\ faults' = faults
    BY <1>2, OpensRead DEF Opens
  <2> QED BY <2>1 DEF Trail!vars
<1>3. CASE Drops
  <2>1. trail' = trail /\ faults' = faults
    BY <1>3 DEF Drops
  <2>2. CASE ToRead' = ToRead
    BY <2>1, <2>2 DEF Trail!vars
  <2>3. CASE \E k \in 1 .. Len(ToRead) : ToRead' = SubSeq(ToRead, k + 1, Len(ToRead))
    BY <2>1, <2>3 DEF Trail!Next, Trail!Forget
  <2> QED BY <1>3, <2>2, <2>3, DropsRead
<1>4. ASSUME NEW s \in Slots, Moves(s) PROVE [Trail!Next]_(Trail!vars)
  <2>1. trail' = trail /\ faults' = faults
    BY <1>4 DEF Moves
  <2>2. CASE ToRead' = ToRead
    BY <2>1, <2>2 DEF Trail!vars
  <2>3. CASE faults # 0 /\ WithoutMiddle(ToRead, ToRead')
    BY <2>1, <2>3 DEF WithoutMiddle, Trail!Next, Trail!Lose
  <2> QED BY <1>4, <2>2, <2>3, MovesRead
<1>5. CASE Writes
  <2>1. trail' = Append(trail, line.id) /\ faults' = faults
    BY <1>5 DEF Writes
  <2> QED BY <1>5, <2>1, WritesRead DEF Trail!Next, Trail!Add
<1>6. CASE Tears
  <2>1. ToRead' = ToRead /\ trail' = trail /\ faults' # 0
    BY <1>6, TearsRead DEF Tears
  <2> QED BY <2>1 DEF Trail!Next, Trail!Fail
<1> QED BY <1>1, <1>2, <1>3, <1>4, <1>5, <1>6, StepKinds

(* Whatever is rotated, whatever fails and wherever the daemon dies, the   *)
(* files read oldest first are the last lines written, in order: nothing   *)
(* lost in between until a call fails, nothing twice or out of order ever  *)
(* (audit.rs, rotate and record).                                          *)
THEOREM TrailAlwaysKept == Spec => TrailKept
<1>1. TrailInv /\ [Next]_vars => TrailInv'
  BY NextTrail
<1>2. TrailInv /\ TrailInv' /\ [Next]_vars => [Trail!Next]_(Trail!vars)
  BY NextRead
<1>3. Init => TrailInv
  BY InitTrail
<1> QED BY <1>1, <1>2, <1>3, InitRead, PTL DEF Spec, TrailKept, Trail!Spec

(* Without a crash or a failing call a line is forgotten only when every   *)
(* rotated file is in use (audit.rs, rotate; config.rs: keep).             *)
THEOREM AlwaysForgetsOnlyWhenFull == Spec => ForgetsOnlyWhenFull
<1> DEFINE Inv == TrailInv /\ FilledUp
           Forgets == (crashes = 0 /\ faults' = 0 /\ Len(ToRead') < Len(ToRead))
                        => \A s \in 1 .. Keep : slot[s].there
<1>1. Init => Inv
  BY InitTrail
<1>2. Inv /\ [Next]_vars => Inv'
  BY NextTrail
<1>3. Inv /\ Inv' /\ [Next]_vars => [Forgets]_vars
  <2> SUFFICES ASSUME TrailInv, FilledUp, TrailInv', [Next]_vars,
                      crashes = 0, faults' = 0, Len(ToRead') < Len(ToRead)
               PROVE  \A s \in 1 .. Keep : slot[s].there
    OBVIOUS
  <2>1. /\ faults = 0 /\ TypeOK
        /\ \A s, t \in 1 .. Keep : s < t /\ slot[t].there => slot[s].there \/ s = Gap
    BY FaultsStay DEF TrailInv, SizeInv, FilledUp
  <2>2. ToRead' # ToRead /\ ToRead \in Seq(Ids)
    <3>1. slot \in Disk
      BY <2>1 DEF TypeOK, Disk, Files
    <3>2. ToRead \in Seq(Ids)
      BY <3>1, AllTyped DEF ToRead, All, Column
    <3>3. Len(ToRead) \in Nat
      BY <3>2, LenProperties
    <3> QED BY <3>2, <3>3
  <2>3. CASE Stays
    BY <2>2, <2>3, StaysRead
  <2>4. CASE Opens
    BY <2>2, <2>4, OpensRead
  <2>5. ASSUME NEW s \in Slots, Moves(s) PROVE FALSE
    BY <2>1, <2>2, <2>5, MovesRead
  <2>6. CASE Writes
    <3>1. ToRead' = Append(ToRead, line.id) /\ line.id \in Ids
      BY <2>1, <2>6, WritesRead DEF Ids
    <3>2. Len(Append(ToRead, line.id)) = Len(ToRead) + 1 /\ Len(ToRead) \in Nat
      BY <2>2, <3>1, AppendProperties, LenProperties
    <3> QED BY <3>1, <3>2
  <2>7. CASE Tears
    BY <2>7, TearsRead
  <2>8. CASE Drops
    <3>1. slot[Keep].there
      BY <2>2, <2>8, DropsRead
    <3>2. CASE Keep = 0
      BY <3>2
    <3>3. CASE pc = "oldest"
      <4>1. Gap = 0 /\ Keep \in Nat
        BY <3>3, SinkAssumption DEF Gap
      <4>2. ASSUME NEW s \in 1 .. Keep PROVE slot[s].there
        <5>1. s = Keep \/ s < Keep
          BY <4>1
        <5>2. Keep \in 1 .. Keep /\ s # 0
          BY <4>1
        <5> QED BY <2>1, <3>1, <4>1, <5>1, <5>2
      <4> QED BY <4>2
    <3> QED BY <2>8, <3>2, <3>3 DEF Drops
  <2> QED BY <2>3, <2>4, <2>5, <2>6, <2>7, <2>8, StepKinds
<1> QED BY <1>1, <1>2, <1>3, PTL DEF Spec, ForgetsOnlyWhenFull
=============================================================================
