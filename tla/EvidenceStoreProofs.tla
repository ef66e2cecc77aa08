------------------------ MODULE EvidenceStoreProofs ------------------------
(***************************************************************************)
(* Theorems about EvidenceStore for any set of processes, entry sizes,     *)
(* segment limit and number of faults: the store is well typed, the lock   *)
(* excludes, a sealed segment is immutable, the log is append-only, and an *)
(* acknowledged entry is never answered with "not found".  Where lines are *)
(* written whole the store implements AppendLog; a lone writer breaks the  *)
(* hash chain at most once per fault.                                      *)
(***************************************************************************)
EXTENDS EvidenceStore, SequenceTheorems, FiniteSetTheorems, NaturalsInduction,
        WellFoundedInduction, TLAPS

\* Replacing an element, inside or outside the domain, keeps a sequence's type.
LEMMA SeqExcept ==
    ASSUME NEW S, NEW s \in Seq(S), NEW i, NEW e \in S
    PROVE  /\ [s EXCEPT ![i] = e] \in Seq(S)
           /\ Len([s EXCEPT ![i] = e]) = Len(s)
<1>1. CASE i \in 1..Len(s)
    BY <1>1, ExceptSeq
<1>2. CASE i \notin 1..Len(s)
    <2>1. [s EXCEPT ![i] = e] = s
        BY <1>2
    <2> QED
        BY <2>1
<1> QED
    BY <1>1, <1>2

(***************************************************************************)
(* appendEntryLine on one segment.                                         *)
(***************************************************************************)

\* Appending text to a segment (O_APPEND) yields a segment.
LEMMA AppendTextType ==
    ASSUME NEW seg \in Segment, NEW line \in Line, NEW n \in Nat
    PROVE  AppendText(seg, line, n) \in Segment
<1> DEFINE k == Len(seg.lines)
           new == AppendText(seg, line, n)
<1>1. seg.lines \in Seq(Line) /\ seg.bytes \in Nat
    BY DEF Segment
<1>2. Garbled(line) \in Line
    BY DEF Garbled, Line
<1>3. [seg.lines EXCEPT ![k] = Garbled(line)] \in Seq(Line)
    BY <1>1, <1>2, SeqExcept
<1>4. Append(seg.lines, line) \in Seq(Line)
    BY <1>1
<1>5. new.lines \in Seq(Line) /\ new.bytes \in Nat
    BY <1>1, <1>3, <1>4 DEF AppendText
<1>6. new = [bytes |-> new.bytes, lines |-> new.lines]
    BY DEF AppendText
<1> QED
    BY <1>5, <1>6 DEF Segment

\* Appending text keeps every complete line where it is.
LEMMA AppendTextKeeps ==
    ASSUME NEW seg \in Segment, NEW line \in Line, NEW n \in Nat,
           NEW k \in 1..Len(seg.lines), seg.lines[k].nl
    PROVE  /\ k <= Len(AppendText(seg, line, n).lines)
           /\ AppendText(seg, line, n).lines[k] = seg.lines[k]
BY DEF AppendText, Garbled, Segment, Line

\* The bytes an operation writes form a line, whole or cut short.
LEMMA LineOfType ==
    ASSUME NEW o \in Op, o.id \in Id, NEW n \in Nat
    PROVE  LineOf(o) \in Line /\ CutLine(o, n) \in Line
BY DEF LineOf, CutLine, Line, Op

\* Counting an entry and rotating the current segment keep the manifest's type.
LEMMA CountedType ==
    ASSUME NEW m \in Manifest, NEW o \in Op, o.id \in Id
    PROVE  Counted(m, o) \in Manifest
<1> DEFINE m1 == [m EXCEPT !.total = @ + 1]
<1>1. m1 \in Manifest
    BY DEF Manifest
<1>2. [m1 EXCEPT !.last = o.id] \in Manifest
    BY <1>1 DEF Manifest
<1>3. Counted(m, o) = [m1 EXCEPT !.last = o.id]
    BY DEF Counted
<1> QED
    BY <1>2, <1>3

LEMMA RotatedType ==
    ASSUME NEW m \in Manifest, NEW next \in Nat \ {0}
    PROVE  Rotated(m, next) \in Manifest
BY DEF Rotated, Manifest

-----------------------------------------------------------------------------
(***************************************************************************)
(* Type correctness and lock exclusion, with the fact that a process past  *)
(* Begin carries an entry id.                                              *)
(***************************************************************************)

Typing == TypeOK /\ LockInv /\ OpsStarted

LEMMA InitTyping == Init => Typing
BY ConstantsAssumption
   DEF Init, Typing, TypeOK, LockInv, OpsStarted, Locked, Steps, Op, NoOp,
       NoHash, Manifest, FreshManifest, Id

LEMMA NextTyping == Typing /\ [Next]_vars => Typing'
<1> SUFFICES ASSUME Typing, [Next]_vars PROVE Typing'
    OBVIOUS
<1> USE ConstantsAssumption DEF Typing, OpsStarted, Goto, Id
<1>1. ASSUME NEW p \in Procs, Begin(p) PROVE Typing'
    <2>1. PICK b \in EntryBytes, a \in Advisory :
            op' = [op EXCEPT ![p] = [id |-> started + 1, prev |-> NoHash,
                                     bytes |-> b, adv |-> a]]
        BY <1>1 DEF Begin
    <2>2. started + 1 \in Id /\ started' \in 0..MaxEntries
        BY <1>1 DEF Begin, TypeOK
    <2>3. op' \in [Procs -> Op] /\ op'[p].id \in Id
        BY <2>1, <2>2 DEF TypeOK, Op
    <2>4. \A q \in Procs : q # p => op'[q] = op[q]
        BY <2>1 DEF TypeOK
    <2>5. OpsStarted'
        BY <1>1, <2>3, <2>4 DEF Begin, TypeOK
    <2> QED
        BY <1>1, <2>2, <2>3, <2>5 DEF Begin, TypeOK, LockInv, Locked, Steps, disk
<1>2. ASSUME NEW p \in Procs, ReadLastHash(p) PROVE Typing'
    <2>1. LastHash \in Id \cup {NoHash}
        BY DEF LastHash, TypeOK, Manifest, NoHash
    <2>2. op' \in [Procs -> Op]
        <3>1. op[p] \in Op
            BY DEF TypeOK
        <3>2. [op[p] EXCEPT !.prev = LastHash] \in Op
            BY <2>1, <3>1 DEF Op
        <3> QED
            BY <1>2, <3>2 DEF ReadLastHash, TypeOK
    <2>3. OpsStarted'
        BY <1>2 DEF ReadLastHash, TypeOK, Op
    <2> QED
        BY <1>2, <2>2, <2>3 DEF ReadLastHash, TypeOK, LockInv, Locked, Steps, disk
<1>3. ASSUME NEW p \in Procs, LockBusy(p) PROVE Typing'
    BY <1>3 DEF LockBusy, TypeOK, LockInv, Locked, Steps, disk
<1>4. ASSUME NEW p \in Procs, Acquire(p) PROVE Typing'
    BY <1>4 DEF Acquire, LockFree, TypeOK, LockInv, Locked, Steps, disk
<1>5. ASSUME NEW p \in Procs, LoadManifest(p) PROVE Typing'
    <2>1. EmptySegment \in Segment /\ FreshManifest \in Manifest
        BY DEF EmptySegment, Segment, FreshManifest, Manifest, NoHash
    <2>2. segs' \in Seq(Segment)
        <3>1. [segs EXCEPT ![1] = EmptySegment] \in Seq(Segment)
            BY <2>1, SeqExcept DEF TypeOK
        <3> QED
            BY <1>5, <2>1, <3>1 DEF LoadManifest, TypeOK
    <2>3. mem' \in [Procs -> Manifest]
        BY <1>5, <2>1 DEF LoadManifest, TypeOK
    <2>4. LockInv' /\ pc' \in [Procs -> Steps]
        BY <1>5 DEF LoadManifest, TypeOK, LockInv, Locked, Steps
    <2> QED
        BY <1>5, <2>2, <2>3, <2>4 DEF LoadManifest, TypeOK, Locked, Steps
<1>6. ASSUME NEW p \in Procs, InitManifest(p) PROVE Typing'
    BY <1>6 DEF InitManifest, TypeOK, LockInv, Locked, Steps
<1>7. ASSUME NEW p \in Procs, WriteLine(p) PROVE Typing'
    <2>1. LineOf(op[p]) \in Line /\ op[p].bytes \in Nat
        BY <1>7, LineOfType DEF WriteLine, TypeOK, Op
    <2>2. segs' \in Seq(Segment)
        <3> DEFINE c == mem[p].current
                   new == AppendText(segs[c], LineOf(op[p]), op[p].bytes)
        <3>1. c \in 1..Len(segs) => new \in Segment
            BY <2>1, AppendTextType DEF TypeOK
        <3>2. c \in 1..Len(segs) => [segs EXCEPT ![c] = new] \in Seq(Segment)
            BY <3>1 DEF TypeOK
        <3>3. c \notin 1..Len(segs) => [segs EXCEPT ![c] = new] = segs
            BY DEF TypeOK
        <3>4. segs' = [segs EXCEPT ![c] = new]
            BY <1>7 DEF WriteLine
        <3> QED
            BY <3>2, <3>3, <3>4 DEF TypeOK
    <2> QED
        BY <1>7, <2>2 DEF WriteLine, TypeOK, LockInv, Locked, Steps
<1>8. ASSUME NEW p \in Procs, Rotate(p) PROVE Typing'
    <2> DEFINE m == Counted(mem[p], op[p])
    <2>1. m \in Manifest
        BY <1>8, CountedType DEF Rotate, TypeOK
    <2>2. Rotated(m, Len(segs) + 1) \in Manifest
        BY <2>1, RotatedType DEF TypeOK
    <2>3. mem' \in [Procs -> Manifest]
        BY <1>8, <2>1, <2>2 DEF Rotate, TypeOK
    <2>4. segs' \in Seq(Segment)
        <3>1. EmptySegment \in Segment
            BY DEF EmptySegment, Segment
        <3>2. segs' = segs \/ segs' = Append(segs, EmptySegment)
            BY <1>8 DEF Rotate
        <3>3. segs \in Seq(Segment)
            BY DEF TypeOK
        <3> QED
            BY <3>1, <3>2, <3>3, AppendProperties
    <2> QED
        BY <1>8, <2>3, <2>4 DEF Rotate, TypeOK, LockInv, Locked, Steps
<1>9. ASSUME NEW p \in Procs, CommitManifest(p) PROVE Typing'
    <2>1. manifest' \in Manifest
        BY <1>9 DEF CommitManifest, TypeOK, Manifest
    <2> QED
        BY <1>9, <2>1 DEF CommitManifest, TypeOK, LockInv, Locked, Steps
<1>10. ASSUME NEW p \in Procs, Finish(p) PROVE Typing'
    BY <1>10 DEF Finish, TypeOK, LockInv, Locked, Steps, disk
<1>11. ASSUME NEW p \in Procs, NEW id \in Id, Find(p, id) PROVE Typing'
    BY <1>11 DEF Find, TypeOK, LockInv, disk
<1>12. ASSUME NEW p \in Procs, IOError(p) PROVE Typing'
    BY <1>12 DEF IOError, Fault, Unlock, TypeOK, LockInv, Locked, Steps, disk
<1>13. ASSUME NEW p \in Procs, ShortWrite(p) PROVE Typing'
    <2>1. segs' \in Seq(Segment)
        <3>1. PICK n \in 1..(op[p].bytes - 1) :
                segs' = [segs EXCEPT ![mem[p].current] =
                          AppendText(@, CutLine(op[p], n), n)]
            BY <1>13 DEF ShortWrite
        <3>2. op[p] \in Op /\ op[p].id \in Id
            BY <1>13 DEF ShortWrite, TypeOK
        <3>4. n \in Nat
            BY <3>2 DEF Op
        <3>3. CutLine(op[p], n) \in Line
            BY <3>2, <3>4, LineOfType
        <3> QED
            <4> DEFINE c == mem[p].current
                       new == AppendText(segs[c], CutLine(op[p], n), n)
            <4>1. c \in 1..Len(segs) => new \in Segment
                BY <3>3, <3>4, AppendTextType DEF TypeOK
            <4>2. c \in 1..Len(segs) => [segs EXCEPT ![c] = new] \in Seq(Segment)
                BY <4>1 DEF TypeOK
            <4>3. c \notin 1..Len(segs) => [segs EXCEPT ![c] = new] = segs
                BY DEF TypeOK
            <4> QED
                BY <3>1, <4>2, <4>3 DEF TypeOK
    <2> QED
        BY <1>13, <2>1
        DEF ShortWrite, Fault, Unlock, TypeOK, LockInv, Locked, Steps
<1>14. ASSUME NEW p \in Procs, Crash(p) PROVE Typing'
    BY <1>14 DEF Crash, Fault, Unlock, TypeOK, LockInv, Locked, Steps, disk
<1>15. CASE UNCHANGED vars
    BY <1>15 DEF vars, TypeOK, LockInv
<1> QED
    BY <1>1, <1>2, <1>3, <1>4, <1>5, <1>6, <1>7, <1>8, <1>9, <1>10, <1>11,
       <1>12, <1>13, <1>14, <1>15 DEF Next, Proceed

\* The variables keep their types, whatever crashes or fails.
THEOREM TypeCorrect == Spec => []TypeOK
<1>1. Typing => TypeOK
    BY DEF Typing
<1> QED
    BY <1>1, InitTyping, NextTyping, PTL DEF Spec

\* At most one process is between Acquire and Release of the flock, and the
\* lock is held only by such a process (evlock.Acquire, withStoreLock).
THEOREM LockExclusion == Spec => []LockInv
<1>1. Typing => LockInv
    BY DEF Typing
<1> QED
    BY <1>1, InitTyping, NextTyping, PTL DEF Spec

-----------------------------------------------------------------------------
(***************************************************************************)
(* The shape of the files under all faults.  Typing is not enough: that a  *)
(* line goes to the end of the log needs every segment after the current   *)
(* one to be empty, and that the current segment is not sealed needs the   *)
(* writer's copy of the manifest to be the file's.                         *)
(***************************************************************************)

LEMMA InitShape == Init => ManifestShape /\ WriterShape
BY DEF Init, ManifestShape, WriterShape, EmptyAfter

\* Steps that touch neither files nor manifest copies keep the shape, if no
\* process enters the part of appendEntryUnlocked that relies on them.
LEMMA QuietShape ==
    ASSUME IInv, UNCHANGED <<segs, manifest, mem>>,
           \A q \in Procs : pc'[q] \in {"init", "write", "stat", "commit"}
                               => pc'[q] = pc[q]
    PROVE  ManifestShape' /\ WriterShape'
BY DEF IInv, ManifestShape, WriterShape, CommitShape, EmptyAfter

\* While p holds the lock no other process is in appendEntryUnlocked.
LEMMA HolderIsAlone ==
    ASSUME LockInv, NEW p \in Procs, pc[p] \in Locked,
           NEW q \in Procs, q # p
    PROVE  pc[q] \notin Locked
BY DEF LockInv

\* With the manifest untouched, lines written up to the current segment and
\* empty segments created after it keep the manifest's shape.
LEMMA ManifestShapeKept ==
    ASSUME TypeOK, ManifestShape, manifest # NoManifest, UNCHANGED manifest,
           Len(segs') \in Nat, Len(segs') >= Len(segs),
           \A i \in 1..Len(segs') :
               i > manifest.current => segs'[i].lines = <<>>
    PROVE  ManifestShape'
<1>1. manifest.current \in 1..Len(segs) /\ Len(segs) \in Nat
    BY DEF ManifestShape, TypeOK
<1>2. manifest'.current \in 1..Len(segs')
    BY <1>1
<1>3. \A i \in manifest'.sealed : i \in 1..(manifest'.current - 1)
    BY DEF ManifestShape
<1>4. EmptyAfter(manifest.current)'
    BY DEF EmptyAfter
<1> QED
    BY <1>2, <1>3, <1>4 DEF ManifestShape

LEMMA NextShape == IInv /\ [Next]_vars => ManifestShape' /\ WriterShape'
<1> SUFFICES ASSUME IInv, [Next]_vars PROVE ManifestShape' /\ WriterShape'
    OBVIOUS
<1>0. TypeOK /\ LockInv /\ ManifestShape /\ WriterShape
    BY DEF IInv
<1>1. ASSUME NEW p \in Procs, Begin(p) PROVE ManifestShape' /\ WriterShape'
    BY <1>0, <1>1, QuietShape DEF Begin, Goto, TypeOK, disk
<1>2. ASSUME NEW p \in Procs, ReadLastHash(p)
      PROVE ManifestShape' /\ WriterShape'
    BY <1>0, <1>2, QuietShape DEF ReadLastHash, Goto, TypeOK, disk
<1>3. ASSUME NEW p \in Procs, LockBusy(p) PROVE ManifestShape' /\ WriterShape'
    BY <1>0, <1>3, QuietShape DEF LockBusy, Goto, TypeOK, disk
<1>4. ASSUME NEW p \in Procs, Acquire(p) PROVE ManifestShape' /\ WriterShape'
    BY <1>0, <1>4, QuietShape DEF Acquire, Goto, TypeOK, disk
<1>5. ASSUME NEW p \in Procs, LoadManifest(p)
      PROVE ManifestShape' /\ WriterShape'
    <2>1. \A q \in Procs : q # p => pc'[q] \notin Locked
        BY <1>0, <1>5, HolderIsAlone DEF LoadManifest, Goto, TypeOK, Locked
    <2>2. CASE manifest # NoManifest
        BY <1>0, <1>5, <2>1, <2>2
        DEF LoadManifest, Goto, TypeOK, ManifestShape, WriterShape, EmptyAfter,
            Locked
    <2>3. CASE manifest = NoManifest
        <3>1. mem'[p] = FreshManifest /\ pc'[p] = "init" /\ UNCHANGED manifest
            BY <1>0, <1>5, <2>3 DEF LoadManifest, Goto, TypeOK
        <3>2. segs' # <<>> /\ EmptyAfter(0)'
            <4>1. CASE segs = <<>>
                <5>1. segs' = <<EmptySegment>>
                    BY <1>5, <2>3, <4>1 DEF LoadManifest
                <5>2. Len(segs') = 1 /\ segs'[1].lines = <<>>
                    BY <5>1 DEF EmptySegment
                <5> QED
                    BY <5>1, <5>2 DEF EmptyAfter
            <4>2. CASE segs # <<>>
                <5>1. segs' = [segs EXCEPT ![1] = EmptySegment]
                    BY <1>5, <2>3, <4>2 DEF LoadManifest
                <5>2. Len(segs') = Len(segs) /\ Len(segs) > 0
                    BY <1>0, <4>2, <5>1 DEF TypeOK
                <5>3. \A i \in 1..Len(segs) : segs[i].lines = <<>>
                    BY <1>0, <2>3 DEF ManifestShape, EmptyAfter, TypeOK
                <5>4. \A i \in 1..Len(segs') : segs'[i].lines = <<>>
                    BY <1>0, <5>1, <5>2, <5>3 DEF EmptySegment, TypeOK
                <5> QED
                    BY <5>2, <5>4 DEF EmptyAfter
            <4> QED
                BY <4>1, <4>2
        <3> QED
            BY <2>1, <2>3, <3>1, <3>2 DEF ManifestShape, WriterShape, Locked
    <2> QED
        BY <2>2, <2>3
<1>6. ASSUME NEW p \in Procs, InitManifest(p)
      PROVE ManifestShape' /\ WriterShape'
    <2>1. \A q \in Procs : q # p => pc'[q] \notin Locked
        BY <1>0, <1>6, HolderIsAlone DEF InitManifest, Goto, TypeOK, Locked
    <2>2. /\ manifest' = FreshManifest /\ mem'[p] = FreshManifest
          /\ pc'[p] = "write" /\ segs' = segs
        BY <1>0, <1>6 DEF InitManifest, Goto, TypeOK, WriterShape
    <2>3. FreshManifest # NoManifest /\ FreshManifest.current = 1
          /\ FreshManifest.sealed = {}
        BY NoManifestAssumption DEF FreshManifest, Manifest, NoHash
    <2>4. Len(segs) > 0 /\ EmptyAfter(0)
        BY <1>0, <1>6 DEF InitManifest, WriterShape, ManifestShape, TypeOK
    <2>5. ManifestShape'
        BY <1>0, <2>2, <2>3, <2>4 DEF ManifestShape, EmptyAfter, TypeOK
    <2> QED
        BY <2>1, <2>2, <2>3, <2>5 DEF WriterShape, Locked
<1>7. ASSUME NEW p \in Procs, WriteLine(p) PROVE ManifestShape' /\ WriterShape'
    <2>1. \A q \in Procs : q # p => pc'[q] \notin Locked
        BY <1>0, <1>7, HolderIsAlone DEF WriteLine, Goto, TypeOK, Locked
    <2>2. manifest # NoManifest /\ mem[p] = manifest
        BY <1>0, <1>7 DEF WriteLine, WriterShape
    <2>3. /\ UNCHANGED <<manifest, mem>> /\ pc'[p] = "stat"
          /\ Len(segs') = Len(segs)
          /\ \A i \in 1..Len(segs) : i # manifest.current => segs'[i] = segs[i]
        BY <1>0, <1>7, <2>2 DEF WriteLine, Goto, TypeOK
    <2>4. ManifestShape'
        <3>1. \A i \in 1..Len(segs') :
                 i > manifest.current => segs'[i].lines = <<>>
            <4>1. manifest.current \in Nat
                BY <1>0, <2>2 DEF TypeOK, Manifest
            <4>2. EmptyAfter(manifest.current)
                BY <1>0, <2>2 DEF ManifestShape
            <4> QED
                BY <2>3, <4>1, <4>2 DEF EmptyAfter
        <3> QED
            BY <1>0, <2>2, <2>3, <3>1, ManifestShapeKept DEF TypeOK
    <2> QED
        BY <2>1, <2>2, <2>3, <2>4 DEF WriterShape, Locked
<1>8. ASSUME NEW p \in Procs, Rotate(p) PROVE ManifestShape' /\ WriterShape'
    <2> DEFINE m == Counted(mem[p], op[p])
    <2>1. \A q \in Procs : q # p => pc'[q] \notin Locked
        BY <1>0, <1>8, HolderIsAlone DEF Rotate, Goto, TypeOK, Locked
    <2>2. /\ manifest # NoManifest /\ mem[p] = manifest /\ manifest \in Manifest
          /\ pc'[p] = "commit" /\ UNCHANGED manifest
        BY <1>0, <1>8 DEF Rotate, Goto, WriterShape, TypeOK
    <2>3. m.current = manifest.current /\ m.sealed = manifest.sealed
        BY <2>2 DEF Counted, Manifest
    <2>4. CASE Full(segs[m.current])
        <3>1. /\ segs' = Append(segs, EmptySegment)
              /\ mem'[p] = Rotated(m, Len(segs) + 1)
            BY <1>0, <1>8, <2>4 DEF Rotate, TypeOK
        <3>2. m \in Manifest
            BY <1>0, <1>8, <2>2, CountedType DEF IInv, OpsStarted, Rotate, TypeOK
        <3>3. /\ mem'[p].current = Len(segs) + 1
              /\ mem'[p].sealed = manifest.sealed \cup {manifest.current}
            BY <2>3, <3>1, <3>2 DEF Rotated, Manifest
        <3>4. Len(segs') = Len(segs) + 1
              /\ \A i \in 1..Len(segs) : segs'[i] = segs[i]
            BY <1>0, <3>1 DEF TypeOK
        <3>5. segs'[Len(segs) + 1].lines = <<>>
            BY <1>0, <3>1 DEF TypeOK, EmptySegment
        <3>6. ManifestShape'
            <4>1. Len(segs) \in Nat /\ manifest.current \in Nat
                BY <1>0, <2>2 DEF TypeOK, Manifest
            <4>2. \A i \in 1..Len(segs') :
                     i > manifest.current => segs'[i].lines = <<>>
                <5> SUFFICES ASSUME NEW i \in 1..Len(segs'), i > manifest.current
                             PROVE  segs'[i].lines = <<>>
                    OBVIOUS
                <5>1. CASE i = Len(segs) + 1
                    BY <3>5, <5>1
                <5>2. CASE i \in 1..Len(segs)
                    BY <1>0, <2>2, <3>4, <5>2 DEF ManifestShape, EmptyAfter
                <5> QED
                    BY <3>4, <4>1, <5>1, <5>2
            <4> QED
                BY <1>0, <2>2, <3>4, <4>1, <4>2, ManifestShapeKept
        <3>7. CommitShape(p)'
            BY <1>0, <2>2, <3>3, <3>4
            DEF CommitShape, ManifestShape, EmptyAfter, TypeOK, Manifest
        <3> QED
            BY <2>1, <2>2, <3>6, <3>7 DEF WriterShape, Locked
    <2>5. CASE ~Full(segs[m.current])
        <3>1. segs' = segs /\ mem'[p] = m
            BY <1>0, <1>8, <2>5 DEF Rotate, TypeOK
        <3>2. ManifestShape'
            BY <1>0, <2>2, <3>1 DEF ManifestShape, EmptyAfter
        <3>3. CommitShape(p)'
            <4>1. /\ mem'[p].current = manifest.current
                  /\ mem'[p].sealed = manifest.sealed
                BY <2>3, <3>1
            <4>2. Len(segs) \in Nat /\ manifest.current \in 1..Len(segs)
                BY <1>0, <2>2 DEF ManifestShape, TypeOK
            <4>3. /\ \A i \in manifest.sealed : i \in 1..(manifest.current - 1)
                  /\ EmptyAfter(manifest.current)
                BY <1>0, <2>2 DEF ManifestShape
            <4>4. EmptyAfter(mem[p].current)'
                BY <3>1, <4>1, <4>3 DEF EmptyAfter
            <4> QED
                BY <2>2, <3>1, <4>1, <4>2, <4>3, <4>4 DEF CommitShape
        <3> QED
            BY <2>1, <2>2, <3>2, <3>3 DEF WriterShape, Locked
    <2> QED
        BY <2>4, <2>5
<1>9. ASSUME NEW p \in Procs, CommitManifest(p)
      PROVE ManifestShape' /\ WriterShape'
    <2>1. \A q \in Procs : q # p => pc'[q] \notin Locked
        BY <1>0, <1>9, HolderIsAlone DEF CommitManifest, Goto, TypeOK, Locked
    <2>2. CommitShape(p) /\ mem[p] \in Manifest
        BY <1>0, <1>9 DEF CommitManifest, WriterShape, TypeOK
    <2>3. manifest' = [mem[p] EXCEPT !.sealed = @ \ {mem[p].current}]
        BY <1>9 DEF CommitManifest
    <2>4. /\ manifest' \in Manifest /\ manifest'.current = mem[p].current
          /\ manifest'.sealed \subseteq mem[p].sealed
          /\ segs' = segs /\ pc'[p] = "release"
        BY <1>0, <1>9, <2>2, <2>3 DEF CommitManifest, Goto, TypeOK, Manifest
    <2>5. ManifestShape'
        <3>1. manifest' # NoManifest
            BY <2>4, NoManifestAssumption
        <3>2. manifest.current \in 1..Len(segs)
            BY <1>0, <2>2 DEF ManifestShape, CommitShape
        <3> QED
            BY <1>0, <2>2, <2>4, <3>1, <3>2
            DEF ManifestShape, CommitShape, EmptyAfter, TypeOK
    <2> QED
        BY <2>1, <2>4, <2>5 DEF WriterShape, Locked
<1>10. ASSUME NEW p \in Procs, Finish(p) PROVE ManifestShape' /\ WriterShape'
    BY <1>0, <1>10, QuietShape DEF Finish, Goto, TypeOK, disk
<1>11. ASSUME NEW p \in Procs, NEW id \in Id, Find(p, id)
       PROVE ManifestShape' /\ WriterShape'
    BY <1>0, <1>11, QuietShape DEF Find, disk
<1>12. ASSUME NEW p \in Procs, IOError(p) PROVE ManifestShape' /\ WriterShape'
    BY <1>0, <1>12, QuietShape DEF IOError, Goto, TypeOK, disk
<1>13. ASSUME NEW p \in Procs, ShortWrite(p)
       PROVE ManifestShape' /\ WriterShape'
    <2>1. \A q \in Procs : pc'[q] \notin Locked
        BY <1>0, <1>13, HolderIsAlone DEF ShortWrite, Goto, TypeOK, Locked
    <2>2. manifest # NoManifest /\ mem[p] = manifest
        BY <1>0, <1>13 DEF ShortWrite, WriterShape
    <2>3. /\ UNCHANGED manifest
          /\ Len(segs') = Len(segs)
          /\ \A i \in 1..Len(segs) : i # manifest.current => segs'[i] = segs[i]
        BY <1>0, <1>13, <2>2 DEF ShortWrite, TypeOK
    <2>4. ManifestShape'
        <3>1. \A i \in 1..Len(segs') :
                 i > manifest.current => segs'[i].lines = <<>>
            <4>1. manifest.current \in Nat
                BY <1>0, <2>2 DEF TypeOK, Manifest
            <4>2. EmptyAfter(manifest.current)
                BY <1>0, <2>2 DEF ManifestShape
            <4> QED
                BY <2>3, <4>1, <4>2 DEF EmptyAfter
        <3> QED
            BY <1>0, <2>2, <2>3, <3>1, ManifestShapeKept DEF TypeOK
    <2> QED
        BY <2>1, <2>4 DEF WriterShape, Locked
<1>14. ASSUME NEW p \in Procs, Crash(p) PROVE ManifestShape' /\ WriterShape'
    BY <1>0, <1>14, QuietShape DEF Crash, Goto, TypeOK, disk
<1>15. CASE UNCHANGED vars
    BY <1>0, <1>15, QuietShape DEF vars
<1> QED
    BY <1>1, <1>2, <1>3, <1>4, <1>5, <1>6, <1>7, <1>8, <1>9, <1>10, <1>11,
       <1>12, <1>13, <1>14, <1>15 DEF Next, Proceed

\* The inductive invariant: types, lock, and the shape of the files.
THEOREM InductiveInvariant == Spec => []IInv
<1>1. Init => IInv
    BY InitTyping, InitShape DEF Typing, IInv
<1>2. IInv /\ [Next]_vars => IInv'
    BY NextTyping, NextShape DEF Typing, IInv
<1> QED
    BY <1>1, <1>2, PTL DEF Spec

-----------------------------------------------------------------------------
(***************************************************************************)
(* What a step may do to the files: nothing, create the first segment of a *)
(* store without manifest, append to the current segment, or add an empty  *)
(* segment at the end.                                                     *)
(***************************************************************************)

AppendsToCurrent ==
    /\ manifest # NoManifest
    /\ \E line \in Line, n \in Nat :
          segs' = [segs EXCEPT ![manifest.current] = AppendText(@, line, n)]

FileStep ==
    \/ segs' = segs
    \/ manifest = NoManifest /\ Len(segs') >= Len(segs)
    \/ AppendsToCurrent
    \/ segs' = Append(segs, EmptySegment)

LEMMA NextFileStep == IInv /\ [Next]_vars => FileStep
<1> SUFFICES ASSUME IInv, [Next]_vars PROVE FileStep
    OBVIOUS
<1>0. TypeOK /\ OpsStarted /\ WriterShape
    BY DEF IInv
<1>1. ASSUME NEW p \in Procs, LoadManifest(p) PROVE FileStep
    <2>1. segs = <<>> => Len(<<EmptySegment>>) >= Len(segs)
        OBVIOUS
    <2>2. Len([segs EXCEPT ![1] = EmptySegment]) = Len(segs)
        BY <1>0, SeqExcept DEF TypeOK, EmptySegment, Segment
    <2>3. Len(segs) \in Nat
        BY <1>0 DEF TypeOK
    <2> QED
        BY <1>1, <2>1, <2>2, <2>3 DEF LoadManifest, FileStep
<1>2. ASSUME NEW p \in Procs, WriteLine(p) PROVE FileStep
    <2>1. LineOf(op[p]) \in Line /\ op[p].bytes \in Nat
        BY <1>0, <1>2, LineOfType DEF WriteLine, OpsStarted, TypeOK, Op
    <2>2. manifest # NoManifest /\ mem[p] = manifest
        BY <1>0, <1>2 DEF WriteLine, WriterShape
    <2> QED
        BY <1>2, <2>1, <2>2 DEF WriteLine, FileStep, AppendsToCurrent
<1>3. ASSUME NEW p \in Procs, ShortWrite(p) PROVE FileStep
    <2>1. PICK n \in 1..(op[p].bytes - 1) :
            segs' = [segs EXCEPT ![mem[p].current] =
                        AppendText(@, CutLine(op[p], n), n)]
        BY <1>3 DEF ShortWrite
    <2>2. n \in Nat
        BY <1>0 DEF TypeOK, Op
    <2>3. CutLine(op[p], n) \in Line
        BY <1>0, <1>3, <2>2, LineOfType DEF ShortWrite, OpsStarted, TypeOK
    <2>4. manifest # NoManifest /\ mem[p] = manifest
        BY <1>0, <1>3 DEF ShortWrite, WriterShape
    <2> QED
        BY <2>1, <2>2, <2>3, <2>4 DEF FileStep, AppendsToCurrent
<1>4. ASSUME NEW p \in Procs, Rotate(p) PROVE FileStep
    BY <1>4 DEF Rotate, FileStep
<1>5. ASSUME NEW p \in Procs,
             \/ Begin(p) \/ ReadLastHash(p) \/ LockBusy(p) \/ Acquire(p)
             \/ InitManifest(p) \/ CommitManifest(p) \/ Finish(p)
             \/ IOError(p) \/ Crash(p) \/ \E id \in Id : Find(p, id)
      PROVE FileStep
    BY <1>5 DEF Begin, ReadLastHash, LockBusy, Acquire, InitManifest,
                CommitManifest, Finish, IOError, Crash, Find, disk, FileStep
<1>6. CASE UNCHANGED vars
    BY <1>6 DEF vars, FileStep
<1> QED
    BY <1>1, <1>2, <1>3, <1>4, <1>5, <1>6 DEF Next, Proceed

\* A step keeps every sealed segment sealed (CommitManifest, whose sealed
\* list contains the one on disk and not the new current segment).
LEMMA NextSealed == IInv /\ [Next]_vars => Sealed \subseteq Sealed'
<1> SUFFICES ASSUME IInv, [Next]_vars, manifest # NoManifest
             PROVE  manifest' # NoManifest /\ manifest.sealed \subseteq manifest'.sealed
    BY DEF Sealed
<1>0. TypeOK /\ WriterShape /\ ManifestShape
    BY DEF IInv
<1>1. ASSUME NEW p \in Procs, CommitManifest(p)
      PROVE manifest' # NoManifest /\ manifest.sealed \subseteq manifest'.sealed
    <2>1. CommitShape(p) /\ mem[p] \in Manifest
        BY <1>0, <1>1 DEF CommitManifest, WriterShape, TypeOK
    <2>2. manifest' = [mem[p] EXCEPT !.sealed = @ \ {mem[p].current}]
        BY <1>1 DEF CommitManifest
    <2>3. manifest' \in Manifest
          /\ manifest'.sealed = mem[p].sealed \ {mem[p].current}
        BY <2>1, <2>2 DEF Manifest
    <2>4. mem[p].current \in Nat /\ mem[p].current \notin mem[p].sealed
        BY <2>1 DEF CommitShape, Manifest
    <2> QED
        BY <2>1, <2>3, <2>4, NoManifestAssumption DEF CommitShape
<1>2. ASSUME NEW p \in Procs, InitManifest(p) PROVE FALSE
    BY <1>0, <1>2 DEF InitManifest, WriterShape
<1>3. ASSUME NEW p \in Procs,
             \/ Begin(p) \/ ReadLastHash(p) \/ LockBusy(p) \/ Acquire(p)
             \/ LoadManifest(p) \/ WriteLine(p) \/ Rotate(p) \/ Finish(p)
             \/ IOError(p) \/ ShortWrite(p) \/ Crash(p)
             \/ \E id \in Id : Find(p, id)
      PROVE manifest' = manifest
    BY <1>3 DEF Begin, ReadLastHash, LockBusy, Acquire, LoadManifest, WriteLine,
                Rotate, Finish, IOError, ShortWrite, Crash, Find, disk
<1>4. CASE UNCHANGED vars
    BY <1>4 DEF vars
<1> QED
    BY <1>1, <1>2, <1>3, <1>4 DEF Next, Proceed

\* The file a sealed segment lives in never changes again.
LEMMA NextSealedFiles ==
    IInv /\ [Next]_vars => \A i \in Sealed : segs'[i] = segs[i]
<1> SUFFICES ASSUME IInv, [Next]_vars, NEW i \in Sealed
             PROVE  segs'[i] = segs[i]
    OBVIOUS
<1>1. /\ manifest # NoManifest /\ manifest \in Manifest
      /\ i \in 1..(manifest.current - 1) /\ manifest.current \in 1..Len(segs)
      /\ segs \in Seq(Segment)
    BY DEF IInv, ManifestShape, Sealed, TypeOK
<1>2. i \in 1..Len(segs) /\ i # manifest.current
    BY <1>1 DEF Manifest
<1>3. CASE AppendsToCurrent
    BY <1>1, <1>2, <1>3 DEF AppendsToCurrent
<1>4. CASE segs' = Append(segs, EmptySegment)
    BY <1>1, <1>2, <1>4
<1> QED
    BY <1>1, <1>3, <1>4, NextFileStep DEF FileStep

\* A sealed segment stays sealed and is never written again, through crashes
\* and failures at any step of any number of processes.
THEOREM SealedSegmentsImmutable == Spec => SealedImmutable
<1>1. IInv /\ [Next]_vars
        => [\A i \in Sealed : i \in Sealed' /\ segs'[i] = segs[i]]_vars
    BY NextSealed, NextSealedFiles
<1> QED
    BY <1>1, InductiveInvariant, PTL DEF Spec, SealedImmutable

-----------------------------------------------------------------------------

\* One segment of a step of AppendOnly.
LEMMA NextAppendOnly ==
    ASSUME IInv, [Next]_vars, NEW i \in 1..Len(segs)
    PROVE  /\ i <= Len(segs')
           /\ \A k \in 1..Len(segs[i].lines) :
                 segs[i].lines[k].nl =>
                     /\ k <= Len(segs'[i].lines)
                     /\ segs'[i].lines[k] = segs[i].lines[k]
           /\ segs'[i] # segs[i] =>
                 \A j \in (i + 1)..Len(segs) : segs[j].lines = <<>>
<1>0. /\ segs \in Seq(Segment) /\ segs[i] \in Segment
      /\ Len(segs) \in Nat /\ ManifestShape /\ segs[i].lines \in Seq(Line)
    <2>1. segs \in Seq(Segment) /\ ManifestShape
        BY DEF IInv, TypeOK
    <2>2. segs[i] \in Segment /\ Len(segs) \in Nat
        BY <2>1
    <2> QED
        BY <2>1, <2>2 DEF Segment
<1>1. CASE segs' = segs
    <2>1. segs'[i] = segs[i] /\ i <= Len(segs')
        BY <1>0, <1>1
    <2> QED
        BY <1>0, <2>1
<1>2. CASE manifest = NoManifest /\ Len(segs') >= Len(segs)
    <2>1. \A j \in 1..Len(segs) : segs[j].lines = <<>>
        BY <1>0, <1>2 DEF ManifestShape, EmptyAfter
    <2>2. Len(segs') \in Nat /\ i <= Len(segs')
        BY <1>0, <1>2, NextTyping DEF IInv, Typing, TypeOK
    <2> QED
        BY <1>0, <2>1, <2>2
<1>3. CASE AppendsToCurrent
    <2> DEFINE c == manifest.current
    <2>1. c \in 1..Len(segs) /\ EmptyAfter(c)
        BY <1>0, <1>3 DEF AppendsToCurrent, ManifestShape
    <2>2. PICK line \in Line, n \in Nat :
            segs' = [segs EXCEPT ![c] = AppendText(segs[c], line, n)]
        BY <1>3 DEF AppendsToCurrent
    <2>3. Len(segs') = Len(segs)
        BY <1>0, <2>2
    <2>4. CASE i = c
        <3>1. segs'[i] = AppendText(segs[i], line, n)
            BY <1>0, <2>1, <2>2, <2>4
        <3>2. \A j \in (i + 1)..Len(segs) : segs[j].lines = <<>>
            BY <1>0, <2>1, <2>4 DEF EmptyAfter
        <3> QED
            BY <1>0, <2>3, <3>1, <3>2, AppendTextKeeps
    <2>5. CASE i # c
        BY <1>0, <2>2, <2>3, <2>5
    <2> QED
        BY <2>4, <2>5
<1>4. CASE segs' = Append(segs, EmptySegment)
    BY <1>0, <1>4
<1> QED
    BY <1>1, <1>2, <1>3, <1>4, NextFileStep DEF FileStep

\* The log is append-only in reading order: complete lines stay, and nothing
\* is written before an existing line.
THEOREM LogAppendOnly == Spec => AppendOnly
<1>1. IInv /\ [Next]_vars =>
        [\A i \in 1..Len(segs) :
            /\ i <= Len(segs')
            /\ \A k \in 1..Len(segs[i].lines) :
                  segs[i].lines[k].nl =>
                      /\ k <= Len(segs'[i].lines)
                      /\ segs'[i].lines[k] = segs[i].lines[k]
            /\ segs'[i] # segs[i] =>
                  \A j \in (i + 1)..Len(segs) : segs[j].lines = <<>>]_vars
    BY NextAppendOnly
<1> QED
    BY <1>1, InductiveInvariant, PTL DEF Spec, AppendOnly

-----------------------------------------------------------------------------
(***************************************************************************)
(* FlattenSeq.  It is defined by recursion; its running concatenations are *)
(* what the proofs use.                                                    *)
(***************************************************************************)

\* Induction over the numbers, with the property as a set.
LEMMA SetInduction ==
    ASSUME NEW S, 0 \in S, \A n \in Nat : n \in S => n + 1 \in S
    PROVE  Nat \subseteq S
<1> SUFFICES ASSUME Nat \ S # {} PROVE FALSE
    OBVIOUS
<1>1. PICK x \in Nat \ S : \A y \in Nat \ S : ~ (<<y, x>> \in OpToRel(<, Nat))
    BY NatLessThanWellFounded, WFMin
<1>2. x # 0 /\ x - 1 \in Nat /\ x - 1 < x /\ (x - 1) + 1 = x
    OBVIOUS
<1>3. <<x - 1, x>> \in OpToRel(<, Nat)
    BY <1>2 DEF OpToRel
<1>4. x - 1 \in S
    BY <1>1, <1>2, <1>3
<1>5. (x - 1) + 1 \in S
    BY <1>2, <1>4
<1> QED
    BY <1>2, <1>5

\* The function that FlattenSeq defines recursively, on the first n sequences.
Flattens(ss, n, f) ==
    f = [i \in 1..n |-> IF i = 1 THEN ss[i] ELSE f[i-1] \o ss[i]]

\* One more sequence.
LEMMA FlattensNext ==
    ASSUME NEW ss, NEW n \in Nat, NEW f, Flattens(ss, n, f)
    PROVE  \E g : Flattens(ss, n + 1, g)
<1> DEFINE g == [i \in 1..n+1 |-> IF i = 1 THEN ss[i] ELSE f[i-1] \o ss[i]]
<1>1. \A i \in 1..n : f[i] = IF i = 1 THEN ss[i] ELSE f[i-1] \o ss[i]
    BY DEF Flattens
<1>2. \A i \in 1..n : i \in 1..n+1
    OBVIOUS
<1>3. \A i \in 1..n : g[i] = f[i]
    BY <1>1, <1>2
<1>4. \A i \in 1..n+1 : i # 1 => i - 1 \in 1..n
    OBVIOUS
<1>5. g = [i \in 1..n+1 |-> IF i = 1 THEN ss[i] ELSE g[i-1] \o ss[i]]
    BY <1>3, <1>4
<1> HIDE DEF g
<1>6. Flattens(ss, n + 1, g)
    BY <1>5 DEF Flattens
<1> QED
    BY <1>6

\* The recursion has a solution, however many sequences there are.
LEMMA FlattensExists ==
    ASSUME NEW ss, NEW m \in Nat
    PROVE  \E f : Flattens(ss, m, f)
<1> DEFINE S == {n \in Nat : \E f : Flattens(ss, n, f)}
<1>1. 0 \in S
    <2> DEFINE f == [i \in 1..0 |-> ss[i]]
    <2>1. f = [i \in 1..0 |-> IF i = 1 THEN ss[i] ELSE f[i-1] \o ss[i]]
        OBVIOUS
    <2> QED
        BY <2>1 DEF Flattens
<1>2. ASSUME NEW n \in Nat, n \in S PROVE n + 1 \in S
    BY <1>2, FlattensNext
<1> HIDE DEF S
<1>3. m \in S
    BY <1>1, <1>2, SetInduction
<1> QED
    BY <1>3 DEF S

\* FlattenSeq as its running concatenations.
LEMMA FlattenSeqRuns ==
    ASSUME NEW L, NEW ss \in Seq(Seq(L))
    PROVE  \E f \in [0..Len(ss) -> Seq(L)] :
              /\ f[0] = <<>>
              /\ \A i \in 1..Len(ss) : f[i] = f[i-1] \o ss[i]
              /\ FlattenSeq(ss) = f[Len(ss)]
<1> DEFINE n == Len(ss)
           h == CHOOSE f : Flattens(ss, n, f)
           f == [i \in 0..n |-> IF i = 0 THEN <<>> ELSE h[i]]
<1>0. n \in Nat /\ \A i \in 1..n : ss[i] \in Seq(L)
    OBVIOUS
<1>1. Flattens(ss, n, h)
    BY <1>0, FlattensExists
<1>2. FlattenSeq(ss) = IF n = 0 THEN ss ELSE h[n]
    BY DEF FlattenSeq, Flattens
<1> HIDE DEF h
<1>3. \A i \in 1..n : h[i] = IF i = 1 THEN ss[i] ELSE h[i-1] \o ss[i]
    BY <1>1 DEF Flattens
<1>4. f[0] = <<>> /\ \A i \in 1..n : f[i] = h[i]
    BY <1>0
<1>5. \A i \in 1..n : f[i] = f[i-1] \o ss[i]
    <2> SUFFICES ASSUME NEW i \in 1..n PROVE f[i] = f[i-1] \o ss[i]
        OBVIOUS
    <2>1. CASE i = 1
        <3>1. <<>> \o ss[i] = ss[i]
            BY <1>0
        <3>2. f[i] = ss[i]
            BY <1>3, <1>4, <2>1
        <3>3. f[i-1] = <<>>
            BY <1>4, <2>1
        <3> QED
            BY <3>1, <3>2, <3>3
    <2>2. CASE i # 1
        <3>1. i - 1 \in 1..n
            BY <2>2
        <3> QED
            BY <1>3, <1>4, <2>2, <3>1
    <2> QED
        BY <2>1, <2>2
<1>6. \A i \in 0..n : f[i] \in Seq(L)
    <2> DEFINE S == {i \in Nat : i \in 0..n => f[i] \in Seq(L)}
    <2>1. 0 \in S
        BY <1>4
    <2>2. ASSUME NEW i \in Nat, i \in S PROVE i + 1 \in S
        <3> SUFFICES ASSUME i + 1 \in 0..n PROVE f[i+1] \in Seq(L)
            OBVIOUS
        <3>1. f[i] \in Seq(L) /\ i + 1 \in 1..n /\ (i + 1) - 1 = i
            BY <2>2, <1>0
        <3> HIDE DEF f
        <3>2. f[i+1] = f[i] \o ss[i+1] /\ ss[i+1] \in Seq(L)
            <4>1. f[i+1] = f[(i+1)-1] \o ss[i+1]
                BY <1>5, <3>1
            <4> QED
                BY <1>0, <3>1, <4>1
        <3> QED
            BY <3>1, <3>2
    <2> HIDE DEF S
    <2>3. \A i \in Nat : i \in S
        BY <2>1, <2>2, SetInduction
    <2>4. \A i \in Nat : i \in 0..n => f[i] \in Seq(L)
        BY <2>3 DEF S
    <2> HIDE DEF f
    <2> QED
        BY <1>0, <2>4
<1>7. FlattenSeq(ss) = f[n]
    BY <1>0, <1>2, <1>4
<1>8. f \in [0..n -> Seq(L)]
    BY <1>6
<1> HIDE DEF f
<1> QED
    BY <1>4, <1>5, <1>7, <1>8

-----------------------------------------------------------------------------
(***************************************************************************)
(* The log as a function of the segments.                                  *)
(***************************************************************************)

\* The log of the segments ss in reading order, and its running prefixes.
LogOf(ss) == FlattenSeq([i \in 1..Len(ss) |-> ss[i].lines])
Runs(ss, f) ==
    /\ f \in [0..Len(ss) -> Seq(Line)]
    /\ f[0] = <<>>
    /\ \A i \in 1..Len(ss) : f[i] = f[i-1] \o ss[i].lines

NoLinesAfter(ss, n) == \A i \in 1..Len(ss) : i > n => ss[i].lines = <<>>

LEMMA SegmentLines ==
    ASSUME NEW ss \in Seq(Segment), NEW i \in 1..Len(ss)
    PROVE  ss[i].lines \in Seq(Line)
<1>1. ss[i] \in Segment
    OBVIOUS
<1> QED
    BY <1>1 DEF Segment

\* Where the elements of a concatenation come from.
LEMMA ConcatParts ==
    ASSUME NEW T, NEW a \in Seq(T), NEW b \in Seq(T)
    PROVE  /\ Len(a \o b) = Len(a) + Len(b)
           /\ \A n \in 1..Len(a) : n \in 1..Len(a \o b) /\ (a \o b)[n] = a[n]
           /\ \A k \in 1..Len(b) : /\ Len(a) + k \in 1..Len(a \o b)
                                   /\ (a \o b)[Len(a) + k] = b[k]
           /\ \A n \in 1..Len(a \o b) :
                 \/ n \in 1..Len(a) /\ (a \o b)[n] = a[n]
                 \/ n - Len(a) \in 1..Len(b) /\ (a \o b)[n] = b[n - Len(a)]
<1>1. Len(a \o b) = Len(a) + Len(b) /\ Len(a) \in Nat /\ Len(b) \in Nat
    OBVIOUS
<1>2. \A n \in 1..(Len(a) + Len(b)) :
         (a \o b)[n] = IF n <= Len(a) THEN a[n] ELSE b[n - Len(a)]
    OBVIOUS
<1> QED
    BY <1>1, <1>2

LEMMA LogRuns ==
    ASSUME NEW ss \in Seq(Segment)
    PROVE  \E f : Runs(ss, f) /\ LogOf(ss) = f[Len(ss)]
<1> DEFINE ll == [i \in 1..Len(ss) |-> ss[i].lines]
<1>1. ll \in Seq(Seq(Line)) /\ Len(ll) = Len(ss)
    BY SegmentLines
<1>2. \A i \in 1..Len(ss) : ll[i] = ss[i].lines
    OBVIOUS
<1>3. LogOf(ss) = FlattenSeq(ll)
    BY DEF LogOf
<1> HIDE DEF ll
<1>4. PICK f \in [0..Len(ll) -> Seq(Line)] :
          /\ f[0] = <<>>
          /\ \A i \in 1..Len(ll) : f[i] = f[i-1] \o ll[i]
          /\ FlattenSeq(ll) = f[Len(ll)]
    BY <1>1, FlattenSeqRuns
<1> QED
    BY <1>1, <1>2, <1>3, <1>4 DEF Runs

\* Stores that agree on their first j segments agree on the log up to there.
LEMMA RunsAgree ==
    ASSUME NEW ss \in Seq(Segment), NEW tt \in Seq(Segment),
           NEW f, NEW g, Runs(ss, f), Runs(tt, g),
           NEW j \in Nat, j <= Len(ss), j <= Len(tt),
           \A i \in 1..j : tt[i].lines = ss[i].lines
    PROVE  f[j] = g[j]
<1> DEFINE S == {i \in Nat : i <= j => f[i] = g[i]}
<1>1. 0 \in S
    BY DEF Runs
<1>2. ASSUME NEW i \in Nat, i \in S PROVE i + 1 \in S
    <2> SUFFICES ASSUME i + 1 <= j PROVE f[i+1] = g[i+1]
        OBVIOUS
    <2>1. f[i] = g[i] /\ i + 1 \in 1..Len(ss) /\ i + 1 \in 1..Len(tt)
        BY <1>2
    <2>2. tt[i+1].lines = ss[i+1].lines
        BY <2>1
    <2>3. (i + 1) - 1 = i
        OBVIOUS
    <2>4. f[i+1] = f[i] \o ss[i+1].lines
        BY <2>1, <2>3 DEF Runs
    <2>5. g[i+1] = g[i] \o tt[i+1].lines
        BY <2>1, <2>3 DEF Runs
    <2> QED
        BY <2>1, <2>2, <2>4, <2>5
<1> HIDE DEF S
<1>3. j \in S
    BY <1>1, <1>2, SetInduction
<1> QED
    BY <1>3 DEF S

\* Segments without lines add nothing to the log.
LEMMA RunsRest ==
    ASSUME NEW ss \in Seq(Segment), NEW f, Runs(ss, f),
           NEW j \in Nat, j <= Len(ss), NoLinesAfter(ss, j)
    PROVE  f[Len(ss)] = f[j]
<1> DEFINE S == {i \in Nat : j + i <= Len(ss) => f[j+i] = f[j]}
<1>1. 0 \in S
    OBVIOUS
<1>2. ASSUME NEW i \in Nat, i \in S PROVE i + 1 \in S
    <2> SUFFICES ASSUME j + (i + 1) <= Len(ss) PROVE f[j+(i+1)] = f[j]
        OBVIOUS
    <2>1. f[j+i] = f[j] /\ j+(i+1) \in 1..Len(ss) /\ (j+(i+1)) - 1 = j+i
          /\ j+i \in 0..Len(ss) /\ j+(i+1) > j
        BY <1>2
    <2>2. f[j+(i+1)] = f[(j+(i+1)) - 1] \o ss[j+(i+1)].lines
        BY <2>1 DEF Runs
    <2>3. ss[j+(i+1)].lines = <<>>
        BY <2>1 DEF NoLinesAfter
    <2>4. f[j+i] \in Seq(Line)
        BY <2>1 DEF Runs
    <2>5. f[j+i] \o <<>> = f[j+i]
        BY <2>4
    <2> QED
        BY <2>1, <2>2, <2>3, <2>5
<1> HIDE DEF S
<1>3. \A i \in Nat : i \in S
    BY <1>1, <1>2, SetInduction
<1>4. PICK d \in Nat : j + d = Len(ss)
    <2>1. Len(ss) - j \in Nat /\ j + (Len(ss) - j) = Len(ss)
        OBVIOUS
    <2> QED
        BY <2>1
<1>5. \A i \in Nat : j + i <= Len(ss) => f[j+i] = f[j]
    BY <1>3 DEF S
<1>6. j + d <= Len(ss)
    BY <1>4
<1>7. f[j+d] = f[j]
    BY <1>5, <1>6
<1> QED
    BY <1>4, <1>7

\* What is before the last segment with lines does not depend on what follows.
LEMMA LogSplit ==
    ASSUME NEW ss \in Seq(Segment), NEW c \in 1..Len(ss), NoLinesAfter(ss, c)
    PROVE  \E pre \in Seq(Line) :
              /\ LogOf(ss) = pre \o ss[c].lines
              /\ \A tt \in Seq(Segment) :
                    /\ c <= Len(tt) /\ NoLinesAfter(tt, c)
                    /\ \A i \in 1..(c-1) : tt[i].lines = ss[i].lines
                    => LogOf(tt) = pre \o tt[c].lines
<1>1. PICK f : Runs(ss, f) /\ LogOf(ss) = f[Len(ss)]
    BY LogRuns
<1>2. c \in Nat /\ c - 1 \in Nat /\ c - 1 \in 0..Len(ss)
    OBVIOUS
<1>3. f[c-1] \in Seq(Line) /\ f[c] = f[c-1] \o ss[c].lines
    BY <1>1, <1>2 DEF Runs
<1>4. f[Len(ss)] = f[c]
    BY <1>1, <1>2, RunsRest
<1>5. ASSUME NEW tt \in Seq(Segment), c <= Len(tt), NoLinesAfter(tt, c),
             \A i \in 1..(c-1) : tt[i].lines = ss[i].lines
      PROVE  LogOf(tt) = f[c-1] \o tt[c].lines
    <2>1. PICK g : Runs(tt, g) /\ LogOf(tt) = g[Len(tt)]
        BY LogRuns
    <2>2. g[Len(tt)] = g[c]
        BY <1>2, <1>5, <2>1, RunsRest
    <2>3. g[c] = g[c-1] \o tt[c].lines
        <3>1. c \in 1..Len(tt)
            BY <1>2, <1>5
        <3> QED
            BY <2>1, <3>1 DEF Runs
    <2>4. c - 1 <= Len(ss) /\ c - 1 <= Len(tt)
        BY <1>2, <1>5
    <2>5. f[c-1] = g[c-1]
        BY <1>1, <1>2, <1>5, <2>1, <2>4, RunsAgree
    <2> QED
        BY <2>1, <2>2, <2>3, <2>5
<1> QED
    BY <1>1, <1>3, <1>4, <1>5

\* A store without lines has an empty log.
LEMMA LogEmpty ==
    ASSUME NEW ss \in Seq(Segment), NoLinesAfter(ss, 0)
    PROVE  LogOf(ss) = <<>>
<1>1. PICK f : Runs(ss, f) /\ LogOf(ss) = f[Len(ss)]
    BY LogRuns
<1>2. f[Len(ss)] = f[0]
    BY <1>1, RunsRest
<1> QED
    BY <1>1, <1>2 DEF Runs

\* Every line of the files is in the log, and nothing else is.
LEMMA LogHoldsLines ==
    ASSUME NEW ss \in Seq(Segment)
    PROVE  /\ LogOf(ss) \in Seq(Line)
           /\ \A i \in 1..Len(ss) : \A k \in 1..Len(ss[i].lines) :
                 \E n \in 1..Len(LogOf(ss)) : LogOf(ss)[n] = ss[i].lines[k]
           /\ \A n \in 1..Len(LogOf(ss)) :
                 \E i \in 1..Len(ss) : \E k \in 1..Len(ss[i].lines) :
                    LogOf(ss)[n] = ss[i].lines[k]
<1>1. PICK f : Runs(ss, f) /\ LogOf(ss) = f[Len(ss)]
    BY LogRuns
<1> DEFINE In(i, j) == \A k \in 1..Len(ss[i].lines) :
                          \E n \in 1..Len(f[j]) : f[j][n] = ss[i].lines[k]
           From(j) == \A n \in 1..Len(f[j]) :
                         \E i \in 1..Len(ss) : \E k \in 1..Len(ss[i].lines) :
                            f[j][n] = ss[i].lines[k]
           S == {j \in Nat : j <= Len(ss) =>
                    From(j) /\ \A i \in 1..Len(ss) : i <= j => In(i, j)}
<1>2. 0 \in S
    BY <1>1 DEF Runs
<1>3. ASSUME NEW j \in Nat, j \in S PROVE j + 1 \in S
    <2> SUFFICES ASSUME j + 1 <= Len(ss)
                 PROVE  From(j+1) /\ \A i \in 1..Len(ss) : i <= j+1 => In(i, j+1)
        OBVIOUS
    <2>1. From(j) /\ \A i \in 1..Len(ss) : i <= j => In(i, j)
        BY <1>3
    <2>2. j + 1 \in 1..Len(ss) /\ (j + 1) - 1 = j /\ j \in 0..Len(ss)
        OBVIOUS
    <2>3. f[j+1] = f[j] \o ss[j+1].lines /\ f[j] \in Seq(Line)
        BY <1>1, <2>2 DEF Runs
    <2>4. ss[j+1].lines \in Seq(Line)
        BY <2>2, SegmentLines
    <2> DEFINE a == f[j]
               b == ss[j+1].lines
    <2>7. /\ \A n \in 1..Len(a) : n \in 1..Len(a \o b) /\ (a \o b)[n] = a[n]
          /\ \A k \in 1..Len(b) : /\ Len(a) + k \in 1..Len(a \o b)
                                  /\ (a \o b)[Len(a) + k] = b[k]
          /\ \A n \in 1..Len(a \o b) :
                \/ n \in 1..Len(a) /\ (a \o b)[n] = a[n]
                \/ n - Len(a) \in 1..Len(b) /\ (a \o b)[n] = b[n - Len(a)]
        <3> HIDE DEF a, b
        <3>1. a \in Seq(Line) /\ b \in Seq(Line)
            BY <2>3, <2>4 DEF a, b
        <3> QED
            BY <3>1, ConcatParts
    <2>5. From(j+1)
        <3> SUFFICES ASSUME NEW n \in 1..Len(f[j+1])
                     PROVE  \E i \in 1..Len(ss) : \E k \in 1..Len(ss[i].lines) :
                               f[j+1][n] = ss[i].lines[k]
            OBVIOUS
        <3>1. CASE n \in 1..Len(f[j]) /\ f[j+1][n] = f[j][n]
            BY <2>1, <3>1
        <3>2. CASE /\ n - Len(f[j]) \in 1..Len(ss[j+1].lines)
                   /\ f[j+1][n] = ss[j+1].lines[n - Len(f[j])]
            BY <2>2, <3>2
        <3> QED
            BY <2>3, <2>7, <3>1, <3>2
    <2>6. ASSUME NEW i \in 1..Len(ss), i <= j + 1 PROVE In(i, j+1)
        <3> SUFFICES ASSUME NEW k \in 1..Len(ss[i].lines)
                     PROVE  \E n \in 1..Len(f[j+1]) : f[j+1][n] = ss[i].lines[k]
            OBVIOUS
        <3>1. CASE i <= j
            <4>1. PICK n \in 1..Len(f[j]) : f[j][n] = ss[i].lines[k]
                BY <2>1, <3>1
            <4>2. n \in 1..Len(f[j+1]) /\ f[j+1][n] = f[j][n]
                BY <2>3, <2>7
            <4> QED
                BY <4>1, <4>2
        <3>2. CASE i = j + 1
            <4>1. /\ Len(f[j]) + k \in 1..Len(f[j+1])
                  /\ f[j+1][Len(f[j]) + k] = ss[i].lines[k]
                BY <2>3, <2>7, <3>2
            <4> QED
                BY <4>1
        <3> QED
            BY <2>6, <3>1, <3>2
    <2> QED
        BY <2>5, <2>6
<1> HIDE DEF S
<1>4. Len(ss) \in S
    BY <1>2, <1>3, SetInduction
<1>5. From(Len(ss)) /\ \A i \in 1..Len(ss) : In(i, Len(ss))
    BY <1>4 DEF S
<1>6. f[Len(ss)] \in Seq(Line)
    BY <1>1 DEF Runs
<1> QED
    BY <1>1, <1>5, <1>6

-----------------------------------------------------------------------------
(***************************************************************************)
(* What FindEntryByID sees.  A line that was acknowledged stays, or becomes*)
(* unreadable when an unterminated one in the same place swallows the next.*)
(***************************************************************************)

\* Some stored line is one of K.
Held(K) == \E i \in 1..Len(segs) : \E k \in 1..Len(segs[i].lines) :
               segs[i].lines[k] \in K

\* The lines that FindEntryByID(id) does not read past.
StopsAt(id) == {l \in Line : ~l.ok \/ l.id = id}
Kept(id)    == Held(StopsAt(id))

BeforeWrite == {"hash", "wait", "load", "init", "write"}
AfterWrite  == {"stat", "commit", "release"}

\* An entry that was written and is being committed, or was acknowledged, left
\* a line at which a search for it stops.
Traced ==
    /\ \A id \in acked : Kept(id)
    /\ \A p \in Procs : pc[p] \in AfterWrite => Kept(op[p].id)

\* Appending text adds a line with the entry's id at the end, readable or not,
\* and makes no other line disappear.
LEMMA AppendTextHolds ==
    ASSUME NEW seg \in Segment, NEW line \in Line, NEW n \in Nat
    PROVE  /\ \A k \in 1..Len(seg.lines) :
                 /\ k \in 1..Len(AppendText(seg, line, n).lines)
                 /\ \/ AppendText(seg, line, n).lines[k] = seg.lines[k]
                    \/ ~AppendText(seg, line, n).lines[k].ok
           /\ \E k \in 1..Len(AppendText(seg, line, n).lines) :
                 \/ AppendText(seg, line, n).lines[k] = line
                 \/ AppendText(seg, line, n).lines[k] = Garbled(line)
<1> DEFINE new == AppendText(seg, line, n).lines
           k == Len(seg.lines)
<1>1. seg.lines \in Seq(Line) /\ k \in Nat
    BY DEF Segment
<1>2. CASE k > 0 /\ ~seg.lines[k].nl
    <2>1. new = [seg.lines EXCEPT ![k] = Garbled(line)]
        BY <1>2 DEF AppendText
    <2>2. Len(new) = k /\ new[k] = Garbled(line)
          /\ \A j \in 1..k : j # k => new[j] = seg.lines[j]
        BY <1>1, <1>2, <2>1
    <2>3. ~Garbled(line).ok /\ Garbled(line).id = line.id
        BY DEF Garbled
    <2> HIDE DEF new
    <2>4. k \in 1..Len(new)
        BY <1>1, <1>2, <2>2
    <2>5. \A j \in 1..k : j \in 1..Len(new) /\ (new[j] = seg.lines[j] \/ ~new[j].ok)
        BY <1>1, <2>2, <2>3
    <2> QED
        BY <2>2, <2>3, <2>4, <2>5 DEF new
<1>3. CASE ~(k > 0 /\ ~seg.lines[k].nl)
    <2>1. new = Append(seg.lines, line)
        BY <1>3 DEF AppendText
    <2>2. Len(new) = k + 1 /\ new[k+1] = line
          /\ \A j \in 1..k : new[j] = seg.lines[j]
        BY <1>1, <2>1
    <2> HIDE DEF new
    <2>3. k + 1 \in 1..Len(new) /\ \A j \in 1..k : j \in 1..Len(new)
        BY <1>1, <2>2
    <2> QED
        BY <2>2, <2>3 DEF new
<1> QED
    BY <1>2, <1>3

\* What the files say of an entry is never lost again: its line stays, or an
\* unreadable one takes its place.
LEMMA NextHeld ==
    ASSUME IInv, [Next]_vars, NEW K, \A l \in Line : ~l.ok => l \in K, Held(K)
    PROVE  Held(K)'
<1>1. segs \in Seq(Segment) /\ Len(segs) \in Nat /\ ManifestShape
    BY DEF IInv, TypeOK
<1>2. PICK i \in 1..Len(segs) : \E k \in 1..Len(segs[i].lines) :
          segs[i].lines[k] \in K
    BY DEF Held
<1>3. PICK k \in 1..Len(segs[i].lines) : segs[i].lines[k] \in K
    BY <1>2
<1>4. segs[i].lines # <<>>
    BY <1>3
<1>5. CASE segs' = segs
    BY <1>5 DEF Held
<1>6. CASE manifest = NoManifest
    BY <1>1, <1>4, <1>6 DEF ManifestShape, EmptyAfter
<1>7. CASE AppendsToCurrent
    <2> DEFINE c == manifest.current
    <2>1. c \in 1..Len(segs) /\ segs[c] \in Segment
        BY <1>1, <1>7 DEF AppendsToCurrent, ManifestShape
    <2>2. PICK line \in Line, n \in Nat :
            segs' = [segs EXCEPT ![c] = AppendText(segs[c], line, n)]
        BY <1>7 DEF AppendsToCurrent
    <2>3. Len(segs') = Len(segs) /\ segs'[c] = AppendText(segs[c], line, n)
          /\ (i # c => segs'[i] = segs[i])
        BY <1>1, <2>1, <2>2
    <2>4. CASE i = c
        <3>1. /\ k \in 1..Len(segs'[c].lines)
              /\ segs'[c].lines[k] = segs[c].lines[k] \/ ~segs'[c].lines[k].ok
            BY <1>3, <2>1, <2>3, <2>4, AppendTextHolds
        <3>2. segs'[c] \in Segment
            BY <2>1, <2>3, AppendTextType
        <3>3. segs'[c].lines[k] \in Line
            BY <3>1, <3>2 DEF Segment
        <3>4. segs'[c].lines[k] \in K
            BY <1>3, <2>4, <3>1, <3>3
        <3> QED
            BY <2>1, <2>3, <3>1, <3>4 DEF Held
    <2>5. CASE i # c
        BY <1>3, <2>3, <2>5 DEF Held
    <2> QED
        BY <2>4, <2>5
<1>8. CASE segs' = Append(segs, EmptySegment)
    <2>1. i \in 1..Len(segs') /\ segs'[i] = segs[i]
        BY <1>1, <1>8
    <2> QED
        BY <1>3, <2>1 DEF Held
<1> QED
    BY <1>5, <1>6, <1>7, <1>8, NextFileStep DEF FileStep

\* The line an operation writes is in the file afterwards, or swallowed by the
\* unterminated line before it.
LEMMA WritesLine ==
    ASSUME IInv, manifest # NoManifest, NEW line \in Line, NEW n \in Nat,
           segs' = [segs EXCEPT ![manifest.current] = AppendText(@, line, n)],
           NEW K, line \in K, Garbled(line) \in K
    PROVE  Held(K)'
<1> DEFINE c == manifest.current
<1>1. segs \in Seq(Segment) /\ c \in 1..Len(segs) /\ segs[c] \in Segment
    BY DEF IInv, TypeOK, ManifestShape
<1>2. Len(segs') = Len(segs) /\ segs'[c] = AppendText(segs[c], line, n)
    BY <1>1
<1>3. \E k \in 1..Len(segs'[c].lines) : segs'[c].lines[k] \in K
    BY <1>1, <1>2, AppendTextHolds
<1> QED
    BY <1>1, <1>2, <1>3 DEF Held

LEMMA NextKept ==
    ASSUME IInv, [Next]_vars, NEW id, Kept(id)
    PROVE  Kept(id)'
<1>1. \A l \in Line : ~l.ok => l \in StopsAt(id)
    BY DEF StopsAt
<1>2. Held(StopsAt(id))'
    BY <1>1, NextHeld DEF Kept
<1> QED
    BY <1>2 DEF Kept, StopsAt

\* appendEntryLine leaves a trace of the entry.
LEMMA WriteLineKept ==
    ASSUME IInv, NEW p \in Procs, WriteLine(p)
    PROVE  Kept(op[p].id)'
<1>1. /\ manifest # NoManifest /\ mem[p] = manifest
      /\ op[p] \in Op /\ op[p].id \in Id /\ UNCHANGED op
    BY DEF IInv, TypeOK, WriterShape, OpsStarted, WriteLine
<1> DEFINE line == LineOf(op[p])
<1>2. line \in Line /\ op[p].bytes \in Nat /\ line.id = op[p].id
    BY <1>1, LineOfType DEF Op, LineOf
<1>3. segs' = [segs EXCEPT ![manifest.current] =
                  AppendText(@, line, op[p].bytes)]
    BY <1>1 DEF WriteLine
<1> HIDE DEF line
<1>4. Garbled(line) \in Line /\ ~Garbled(line).ok
    BY <1>2 DEF Garbled, Line
<1>5. line \in StopsAt(op[p].id) /\ Garbled(line) \in StopsAt(op[p].id)
    BY <1>2, <1>4 DEF StopsAt
<1>6. Held(StopsAt(op[p].id))'
    <2> DEFINE K == StopsAt(op[p].id)
    <2>1. K' = K
        BY <1>1 DEF StopsAt
    <2> HIDE DEF K
    <2> QED
        BY <1>1, <1>2, <1>3, <1>5, WritesLine DEF K
<1> QED
    BY <1>6 DEF Kept

LEMMA NextTraced == IInv /\ Traced /\ [Next]_vars => Traced'
<1> SUFFICES ASSUME IInv, Traced, [Next]_vars PROVE Traced'
    OBVIOUS
<1> USE DEF Traced
<1>1. \A id : Kept(id) => Kept(id)'
    BY NextKept
<1> HIDE DEF Traced
<1>2. pc \in [Procs -> Steps]
    BY DEF IInv, TypeOK
<1>3. ASSUME UNCHANGED acked, UNCHANGED op,
             \A q \in Procs : pc'[q] \in AfterWrite => pc[q] \in AfterWrite
      PROVE  Traced'
    BY <1>1, <1>3 DEF Traced
<1>4. ASSUME NEW p \in Procs, Begin(p) PROVE Traced'
    <2>1. \A q \in Procs : pc'[q] \in AfterWrite => q # p /\ pc[q] \in AfterWrite
        BY <1>2, <1>4 DEF Begin, Goto, AfterWrite
    <2>2. \A q \in Procs : q # p => op'[q] = op[q]
        BY <1>4 DEF Begin, IInv, TypeOK
    <2>3. UNCHANGED acked
        BY <1>4 DEF Begin
    <2> QED
        BY <1>1, <2>1, <2>2, <2>3 DEF Traced
<1>5. ASSUME NEW p \in Procs, ReadLastHash(p) PROVE Traced'
    <2>1. \A q \in Procs : pc'[q] \in AfterWrite => q # p /\ pc[q] \in AfterWrite
        BY <1>2, <1>5 DEF ReadLastHash, Goto, AfterWrite
    <2>2. \A q \in Procs : q # p => op'[q] = op[q]
        BY <1>5 DEF ReadLastHash, IInv, TypeOK
    <2>3. UNCHANGED acked
        BY <1>5 DEF ReadLastHash
    <2> QED
        BY <1>1, <2>1, <2>2, <2>3 DEF Traced
<1>6. ASSUME NEW p \in Procs, WriteLine(p) PROVE Traced'
    <2>1. Kept(op[p].id)' /\ UNCHANGED <<acked, op>>
        BY <1>6, WriteLineKept DEF WriteLine
    <2>2. \A q \in Procs : q # p => pc'[q] = pc[q]
        BY <1>2, <1>6 DEF WriteLine, Goto
    <2> QED
        BY <1>1, <2>1, <2>2 DEF Traced
<1>7. ASSUME NEW p \in Procs, Finish(p) PROVE Traced'
    <2>1. pc[p] \in AfterWrite /\ acked' = acked \cup {op[p].id} /\ UNCHANGED op
          /\ \A q \in Procs : pc'[q] \in AfterWrite => pc[q] \in AfterWrite
        BY <1>2, <1>7 DEF Finish, Goto, AfterWrite
    <2> QED
        BY <1>1, <2>1 DEF Traced
<1>8. ASSUME NEW p \in Procs,
             LockBusy(p) \/ Acquire(p) \/ LoadManifest(p) \/ InitManifest(p)
      PROVE  Traced'
    <2>1. \A q \in Procs : pc'[q] \in AfterWrite => pc[q] \in AfterWrite
        BY <1>2, <1>8 DEF LockBusy, Acquire, LoadManifest, InitManifest, Goto,
                          AfterWrite
    <2>2. UNCHANGED <<acked, op>>
        BY <1>8 DEF LockBusy, Acquire, LoadManifest, InitManifest
    <2> QED
        BY <1>3, <2>1, <2>2
<1>9. ASSUME NEW p \in Procs, Rotate(p) \/ CommitManifest(p) PROVE Traced'
    <2>1. \A q \in Procs : pc'[q] \in AfterWrite => pc[q] \in AfterWrite
        BY <1>2, <1>9 DEF Rotate, CommitManifest, Goto, AfterWrite
    <2>2. UNCHANGED <<acked, op>>
        BY <1>9 DEF Rotate, CommitManifest
    <2> QED
        BY <1>3, <2>1, <2>2
<1>10. ASSUME NEW p \in Procs,
              \/ IOError(p) \/ ShortWrite(p) \/ Crash(p)
              \/ \E id \in Id : Find(p, id)
       PROVE  Traced'
    <2>1. \A q \in Procs : pc'[q] \in AfterWrite => pc[q] \in AfterWrite
        BY <1>2, <1>10 DEF IOError, ShortWrite, Crash, Find, Goto, AfterWrite
    <2>2. UNCHANGED <<acked, op>>
        BY <1>10 DEF IOError, ShortWrite, Crash, Find
    <2> QED
        BY <1>3, <2>1, <2>2
<1>11. CASE UNCHANGED vars
    BY <1>3, <1>11 DEF vars
<1> QED
    BY <1>4, <1>5, <1>6, <1>7, <1>8, <1>9, <1>10, <1>11 DEF Next, Proceed

\* A trace in the files is one that FindEntryByID stops at.
LEMMA KeptIsSeen ==
    ASSUME TypeOK, NEW id, Kept(id)
    PROVE  FindInLog(id) # "not_found"
<1>1. segs \in Seq(Segment)
    BY DEF TypeOK
<1>2. PICK i \in 1..Len(segs) : \E k \in 1..Len(segs[i].lines) :
          segs[i].lines[k] \in StopsAt(id)
    BY DEF Kept, Held
<1>3. PICK k \in 1..Len(segs[i].lines) : segs[i].lines[k] \in StopsAt(id)
    BY <1>2
<1>4. PICK n \in 1..Len(Log) : Log[n] = segs[i].lines[k]
    BY <1>1, LogHoldsLines DEF Log, LogOf
<1>5. ~Log[n].ok \/ Log[n].id = id
    BY <1>3, <1>4 DEF StopsAt
<1> DEFINE hits == {j \in 1..Len(Log) : Log[j].ok /\ Log[j].id = id}
           bad  == {j \in 1..Len(Log) : ~Log[j].ok}
<1>6. bad = {} => n \in hits
    BY <1>5
<1>7. (\E h \in hits : \A b \in bad : h < b) \/ bad # {}
    BY <1>6
<1> QED
    BY <1>7 DEF FindInLog

\* A recorded entry is found, or the search fails; it is never reported missing,
\* whatever was cut short before it and whichever process asks (FindEntryByID).
THEOREM AckedEntriesFound == Spec => []FindSeesAcked
<1>1. Init => Traced
    BY DEF Init, Traced, AfterWrite
<1>2. IInv /\ Traced /\ [Next]_vars => Traced'
    BY NextTraced
<1>3. IInv /\ Traced => FindSeesAcked
    BY KeptIsSeen DEF IInv, Traced, FindSeesAcked, FindEntryByID
<1> QED
    BY <1>1, <1>2, <1>3, InductiveInvariant, PTL DEF Spec

-----------------------------------------------------------------------------
(***************************************************************************)
(* What a step does to the log.                                            *)
(***************************************************************************)

\* What becomes of the log.
LEMMA LogIsLogOf ==
    /\ Log = LogOf(segs) /\ Log' = LogOf(segs')
BY DEF Log, LogOf

LEMMA LogUntouched ==
    ASSUME IInv, [Next]_vars, NEW p \in Procs,
           \/ UNCHANGED segs
           \/ LoadManifest(p)
           \/ Rotate(p)
    PROVE  Log' = Log
<1>0. segs \in Seq(Segment) /\ Len(segs) \in Nat
    BY DEF IInv, TypeOK
<1>1. CASE UNCHANGED segs
    BY <1>1 DEF Log
<1>2. CASE LoadManifest(p) /\ manifest = NoManifest
    <2>1. NoLinesAfter(segs, 0)
        BY <1>2 DEF IInv, ManifestShape, EmptyAfter, NoLinesAfter
    <2>2. NoLinesAfter(segs', 0) /\ segs' \in Seq(Segment)
        <3>1. IInv'
            BY NextTyping, NextShape DEF IInv, Typing
        <3>2. manifest' = NoManifest
            BY <1>2 DEF LoadManifest
        <3> QED
            BY <3>1, <3>2 DEF IInv, TypeOK, ManifestShape, EmptyAfter, NoLinesAfter
    <2> QED
        BY <1>0, <2>1, <2>2, LogEmpty, LogIsLogOf
<1>3. CASE LoadManifest(p) /\ manifest # NoManifest
    BY <1>1, <1>3 DEF LoadManifest
<1>4. CASE Rotate(p) /\ segs' = Append(segs, EmptySegment)
    <2> DEFINE c == manifest.current
    <2>1. c \in 1..Len(segs) /\ NoLinesAfter(segs, c)
        BY <1>4 DEF Rotate, IInv, WriterShape, ManifestShape, EmptyAfter,
                    NoLinesAfter
    <2>2. /\ segs' \in Seq(Segment) /\ Len(segs') = Len(segs) + 1
          /\ \A i \in 1..Len(segs) : segs'[i] = segs[i]
          /\ segs'[Len(segs) + 1] = EmptySegment
        BY <1>0, <1>4 DEF EmptySegment, Segment
    <2>3. NoLinesAfter(segs', c)
        BY <1>0, <2>1, <2>2 DEF NoLinesAfter, EmptySegment
    <2>4. PICK pre \in Seq(Line) :
              /\ LogOf(segs) = pre \o segs[c].lines
              /\ \A tt \in Seq(Segment) :
                    /\ c <= Len(tt) /\ NoLinesAfter(tt, c)
                    /\ \A i \in 1..(c-1) : tt[i].lines = segs[i].lines
                    => LogOf(tt) = pre \o tt[c].lines
        BY <1>0, <2>1, LogSplit
    <2>5. c <= Len(segs') /\ \A i \in 1..(c-1) : segs'[i].lines = segs[i].lines
        BY <1>0, <2>1, <2>2
    <2>6. LogOf(segs') = pre \o segs'[c].lines
        BY <2>2, <2>3, <2>4, <2>5
    <2> QED
        BY <2>1, <2>2, <2>4, <2>6, LogIsLogOf
<1> QED
    BY <1>1, <1>2, <1>3, <1>4 DEF Rotate

\* The lines of a readable log.
LEMMA WholeLines ==
    ASSUME TypeOK, Whole, NEW i \in 1..Len(segs), NEW k \in 1..Len(segs[i].lines)
    PROVE  segs[i].lines[k].ok /\ segs[i].lines[k].nl
<1>1. PICK n \in 1..Len(LogOf(segs)) : LogOf(segs)[n] = segs[i].lines[k]
    BY LogHoldsLines DEF TypeOK
<1>2. Log[n].ok /\ Log[n].nl
    BY <1>1, LogIsLogOf DEF Whole
<1> QED
    BY <1>1, <1>2, LogIsLogOf

LEMMA AppendConcat ==
    ASSUME NEW T, NEW a \in Seq(T), NEW b \in Seq(T), NEW e \in T
    PROVE  a \o Append(b, e) = Append(a \o b, e)
<1> DEFINE s == a \o Append(b, e)
           t == Append(a \o b, e)
<1>1. s \in Seq(T) /\ Len(s) = Len(a) + (Len(b) + 1)
    OBVIOUS
<1>2. t \in Seq(T) /\ Len(t) = (Len(a) + Len(b)) + 1
    OBVIOUS
<1>3. \A i \in 1..Len(s) : s[i] = t[i]
    OBVIOUS
<1>4. Len(s) = Len(t)
    BY <1>1, <1>2
<1> HIDE DEF s, t
<1>5. s = t
    BY <1>1, <1>2, <1>3, <1>4, SeqEqual
<1> QED
    BY <1>5 DEF s, t

LEMMA LogWritten ==
    ASSUME IInv, Whole, manifest # NoManifest, NEW line \in Line, NEW n \in Nat,
           segs' = [segs EXCEPT ![manifest.current] = AppendText(@, line, n)]
    PROVE  Log' = Append(Log, line)
<1> DEFINE c == manifest.current
<1>1. /\ segs \in Seq(Segment) /\ c \in 1..Len(segs) /\ segs[c] \in Segment
      /\ NoLinesAfter(segs, c) /\ TypeOK
    BY DEF IInv, TypeOK, ManifestShape, EmptyAfter, NoLinesAfter
<1>2. segs[c].lines \in Seq(Line)
    BY <1>1 DEF Segment
<1>3. Len(segs[c].lines) > 0 => segs[c].lines[Len(segs[c].lines)].nl
    BY <1>1, <1>2, WholeLines
<1>4. AppendText(segs[c], line, n).lines = Append(segs[c].lines, line)
    BY <1>3 DEF AppendText
<1>5. AppendText(segs[c], line, n) \in Segment
    BY <1>1, AppendTextType
<1>6. /\ segs' \in Seq(Segment) /\ Len(segs') = Len(segs)
      /\ segs'[c].lines = Append(segs[c].lines, line)
      /\ \A i \in 1..Len(segs) : i # c => segs'[i] = segs[i]
    BY <1>1, <1>4, <1>5
<1>7. NoLinesAfter(segs', c)
    BY <1>1, <1>6 DEF NoLinesAfter
<1>8. PICK pre \in Seq(Line) :
          /\ LogOf(segs) = pre \o segs[c].lines
          /\ \A tt \in Seq(Segment) :
                /\ c <= Len(tt) /\ NoLinesAfter(tt, c)
                /\ \A i \in 1..(c-1) : tt[i].lines = segs[i].lines
                => LogOf(tt) = pre \o tt[c].lines
    BY <1>1, LogSplit
<1>9. c <= Len(segs') /\ \A i \in 1..(c-1) : segs'[i].lines = segs[i].lines
    BY <1>1, <1>6
<1>10. LogOf(segs') = pre \o segs'[c].lines
    BY <1>6, <1>7, <1>8, <1>9
<1>11. pre \o Append(segs[c].lines, line) = Append(pre \o segs[c].lines, line)
    <2> DEFINE old == segs[c].lines
    <2>1. old \in Seq(Line)
        BY <1>2
    <2> HIDE DEF old
    <2>2. pre \o Append(old, line) = Append(pre \o old, line)
        BY <2>1, AppendConcat
    <2> QED
        BY <2>2 DEF old
<1> QED
    BY <1>6, <1>8, <1>10, <1>11, LogIsLogOf

-----------------------------------------------------------------------------
(***************************************************************************)
(* The refinement.  The abstract log takes an entry once, with a predecessor*)
(* that it holds; the writer must therefore carry an id that nobody has used*)
(* and a hash that is in the log, and the manifest must hold such a hash.  *)
(***************************************************************************)

LogIds == {Log[i].id : i \in 1..Len(Log)}

\* An entry is written once and acknowledged once, after it was written.
Fresh ==
    /\ \A id \in LogIds \cup acked : id <= started
    /\ \A p \in Procs : op[p].id <= started
    /\ \A p, q \in Procs : p # q => op[p].id # op[q].id \/ op[p].id = 0
    /\ \A p \in Procs : /\ pc[p] \in BeforeWrite => op[p].id \notin LogIds
                        /\ pc[p] \in AfterWrite => op[p].id \in LogIds
                        /\ pc[p] # "idle" => op[p].id \notin acked

Known == LogIds \cup {NoHash}

\* Every hash a new entry may be linked to is that of an entry in the log.
Named ==
    /\ manifest # NoManifest => manifest.last \in Known
    /\ \A p \in Procs : op[p].prev \in Known
    /\ \A p \in Procs : pc[p] = "commit" => mem[p].last \in Known

\* The invariant under which the mapping holds.
RInv == Whole /\ Fresh /\ Named

LEMMA LogType == TypeOK => Log \in Seq(Line)
BY LogHoldsLines, LogIsLogOf DEF TypeOK

LEMMA LogIdsAppend ==
    ASSUME TypeOK, NEW line \in Line, Log' = Append(Log, line)
    PROVE  LogIds' = LogIds \cup {line.id}
<1>1. Log \in Seq(Line)
    BY LogType
<1>2. /\ Len(Log') = Len(Log) + 1 /\ Len(Log) \in Nat /\ Log'[Len(Log) + 1] = line
      /\ \A i \in 1..Len(Log) : Log'[i] = Log[i]
    BY <1>1
<1> DEFINE A == {Log'[i].id : i \in 1..Len(Log')}
<1>3. \A x \in A : x \in LogIds \cup {line.id}
    BY <1>2 DEF LogIds
<1>4. \A x \in LogIds : x \in A
    BY <1>2 DEF LogIds
<1>5. line.id \in A
    BY <1>2
<1>6. LogIds' = A
    BY DEF LogIds
<1> QED
    BY <1>3, <1>4, <1>5, <1>6

\* Every step leaves the log alone, except that of appendEntryLine.
LEMMA NextLog ==
    ASSUME ShortWrites = FALSE, IInv, Whole, [Next]_vars
    PROVE  \/ Log' = Log /\ ~ \E p \in Procs : WriteLine(p)
           \/ \E p \in Procs : WriteLine(p) /\ Log' = Append(Log, LineOf(op[p]))
<1>1. ASSUME NEW p \in Procs, WriteLine(p)
      PROVE  Log' = Append(Log, LineOf(op[p]))
    <2>1. manifest # NoManifest /\ mem[p] = manifest
        BY <1>1 DEF WriteLine, IInv, WriterShape
    <2>2. op[p] \in Op /\ op[p].id \in Id
        BY <1>1 DEF WriteLine, IInv, TypeOK, OpsStarted
    <2>3. LineOf(op[p]) \in Line /\ op[p].bytes \in Nat
        BY <2>2, LineOfType DEF Op
    <2>4. segs' = [segs EXCEPT ![manifest.current] =
                      AppendText(@, LineOf(op[p]), op[p].bytes)]
        BY <1>1, <2>1 DEF WriteLine
    <2> QED
        BY <2>1, <2>3, <2>4, LogWritten
<1>2. ASSUME NEW p \in Procs, LoadManifest(p) \/ Rotate(p) PROVE Log' = Log
    BY <1>2, LogUntouched
<1>3. ASSUME NEW p \in Procs,
             \/ Begin(p) \/ ReadLastHash(p) \/ LockBusy(p) \/ Acquire(p)
             \/ InitManifest(p) \/ CommitManifest(p) \/ Finish(p)
             \/ IOError(p) \/ Crash(p) \/ \E id \in Id : Find(p, id)
      PROVE  Log' = Log
    BY <1>3 DEF Begin, ReadLastHash, LockBusy, Acquire, InitManifest, Log,
                CommitManifest, Finish, IOError, Crash, Find, disk
<1>4. ASSUME UNCHANGED vars PROVE Log' = Log
    BY <1>4 DEF vars, Log
<1>5. \A p \in Procs : ~ShortWrite(p)
    BY DEF ShortWrite
<1> QED
    BY <1>1, <1>2, <1>3, <1>4, <1>5 DEF Next, Proceed

\* Where the log is left alone, so are its ids.
LEMMA SameIds == Log' = Log => LogIds' = LogIds /\ (Whole => Whole')
BY DEF LogIds, Whole

\* A log of whole lines stays one.
LEMMA NextWhole ==
    ASSUME ShortWrites = FALSE, IInv, Whole, [Next]_vars
    PROVE  Whole'
<1>1. ASSUME NEW p \in Procs, WriteLine(p), Log' = Append(Log, LineOf(op[p]))
      PROVE  Whole'
    <2>1. Log \in Seq(Line)
        BY LogType DEF IInv
    <2>2. LineOf(op[p]).ok /\ LineOf(op[p]).nl
        BY DEF LineOf
    <2>3. \A i \in 1..Len(Log') : \/ Log'[i] = Log[i] /\ i \in 1..Len(Log)
                                  \/ Log'[i] = LineOf(op[p])
        BY <1>1, <2>1
    <2> QED
        BY <2>2, <2>3 DEF Whole
<1> QED
    BY <1>1, NextLog, SameIds

\* Rotate leaves the new entry's hash in the writer's manifest.
LEMMA RotateNames ==
    ASSUME TypeOK, NEW p \in Procs, Rotate(p)
    PROVE  mem'[p].last = op[p].id
<1>1. mem[p] \in Manifest /\ mem \in [Procs -> Manifest]
    BY DEF TypeOK
<1>2. Counted(mem[p], op[p]).last = op[p].id
      /\ Rotated(Counted(mem[p], op[p]), Len(segs) + 1).last = op[p].id
    BY <1>1 DEF Counted, Rotated, Manifest
<1> QED
    BY <1>1, <1>2 DEF Rotate

\* Ids are drawn by Begin, enter the log in WriteLine and acked in Finish.
LEMMA NextFresh ==
    ASSUME ShortWrites = FALSE, IInv, Whole, Fresh, [Next]_vars
    PROVE  Fresh'
<1>0. /\ TypeOK /\ LockInv /\ OpsStarted /\ TypeOK'
      /\ started \in Nat /\ started' \in Nat /\ LogIds \subseteq Nat
      /\ acked \subseteq Nat /\ \A q \in Procs : op[q].id \in Nat
    <2>1. TypeOK /\ LockInv /\ OpsStarted /\ TypeOK'
        BY NextTyping DEF IInv, Typing
    <2>2. \A q \in Procs : op[q] \in Op
        BY <2>1 DEF TypeOK
    <2>3. Log \in Seq(Line)
        BY <2>1, LogType
    <2>4. LogIds \subseteq Nat
        <3>1. \A i \in 1..Len(Log) : Log[i] \in Line
            BY <2>3
        <3> QED
            BY <3>1, ConstantsAssumption DEF LogIds, Line, Id
    <2> QED
        BY <2>1, <2>2, <2>4, ConstantsAssumption DEF TypeOK, Op, Id
<1> USE ConstantsAssumption DEF Goto
<1>1. ASSUME NEW p \in Procs, Begin(p), Log' = Log PROVE Fresh'
    <2>1. LogIds' = LogIds /\ acked' = acked
        BY <1>1, SameIds DEF Begin
    <2>2. started' = started + 1 /\ op'[p].id = started + 1
          /\ \A q \in Procs : q # p => op'[q] = op[q]
        BY <1>0, <1>1 DEF Begin, TypeOK
    <2>3. pc'[p] = "hash" /\ \A q \in Procs : q # p => pc'[q] = pc[q]
        BY <1>0, <1>1 DEF Begin, TypeOK
    <2>4. started + 1 \notin LogIds \cup acked
          /\ \A q \in Procs : op[q].id # started + 1
        BY <1>0 DEF Fresh
    <2>5. \A id \in (LogIds \cup acked)' : id <= started'
        BY <1>0, <2>1, <2>2 DEF Fresh
    <2>6. \A q \in Procs : op'[q].id <= started'
        BY <1>0, <2>2 DEF Fresh
    <2>7. \A q, r \in Procs : q # r => op'[q].id # op'[r].id \/ op'[q].id = 0
        BY <1>0, <2>2, <2>4 DEF Fresh
    <2>8. \A q \in Procs : /\ pc'[q] \in BeforeWrite => op'[q].id \notin LogIds'
                           /\ pc'[q] \in AfterWrite => op'[q].id \in LogIds'
                           /\ pc'[q] # "idle" => op'[q].id \notin acked'
        BY <2>1, <2>2, <2>3, <2>4 DEF Fresh, AfterWrite
    <2> QED
        BY <2>5, <2>6, <2>7, <2>8 DEF Fresh
<1>2. ASSUME Log' = Log, UNCHANGED <<acked, started>>,
             \A q \in Procs : op'[q].id = op[q].id,
             \A q \in Procs : /\ pc'[q] \in BeforeWrite => pc[q] \in BeforeWrite
                              /\ pc'[q] \in AfterWrite => pc[q] \in AfterWrite
                              /\ pc'[q] # "idle" => pc[q] # "idle"
      PROVE  Fresh'
    BY <1>2, SameIds DEF Fresh
<1>3. ASSUME NEW p \in Procs, WriteLine(p), Log' = Append(Log, LineOf(op[p]))
      PROVE  Fresh'
    <2>1. LineOf(op[p]) \in Line /\ LineOf(op[p]).id = op[p].id
        BY <1>0, <1>3, LineOfType DEF WriteLine, TypeOK, OpsStarted, LineOf
    <2>2. LogIds' = LogIds \cup {op[p].id}
        BY <1>0, <1>3, <2>1, LogIdsAppend
    <2>3. UNCHANGED <<op, acked, started>> /\ op[p].id # 0 /\ pc[p] = "write"
        BY <1>0, <1>3 DEF WriteLine, OpsStarted, Id
    <2>4. pc'[p] = "stat" /\ \A q \in Procs : q # p => pc'[q] = pc[q]
        BY <1>0, <1>3 DEF WriteLine, TypeOK
    <2>5. \A q \in Procs : q # p => op[q].id # op[p].id
        BY <2>3 DEF Fresh
    <2>6. \A id \in (LogIds \cup acked)' : id <= started'
        BY <1>0, <2>2, <2>3 DEF Fresh
    <2>7. \A q \in Procs : /\ pc'[q] \in BeforeWrite => op'[q].id \notin LogIds'
                           /\ pc'[q] \in AfterWrite => op'[q].id \in LogIds'
                           /\ pc'[q] # "idle" => op'[q].id \notin acked'
        BY <2>2, <2>3, <2>4, <2>5 DEF Fresh, BeforeWrite
    <2> QED
        BY <2>3, <2>6, <2>7 DEF Fresh
<1>4. ASSUME NEW p \in Procs, Finish(p), Log' = Log PROVE Fresh'
    <2>1. LogIds' = LogIds /\ UNCHANGED <<op, started>>
          /\ acked' = acked \cup {op[p].id} /\ pc[p] = "release"
        BY <1>4, SameIds DEF Finish
    <2>2. pc'[p] = "idle" /\ \A q \in Procs : q # p => pc'[q] = pc[q]
        BY <1>0, <1>4 DEF Finish, TypeOK
    <2>3. op[p].id # 0
        BY <1>0, <2>1 DEF OpsStarted, Id
    <2>4. \A id \in (LogIds \cup acked)' : id <= started'
        BY <2>1 DEF Fresh
    <2>5. \A q \in Procs : /\ pc'[q] \in BeforeWrite => op'[q].id \notin LogIds'
                           /\ pc'[q] \in AfterWrite => op'[q].id \in LogIds'
                           /\ pc'[q] # "idle" => op'[q].id \notin acked'
        BY <2>1, <2>2, <2>3 DEF Fresh, BeforeWrite, AfterWrite
    <2> QED
        BY <2>1, <2>4, <2>5 DEF Fresh
<1>5. ASSUME NEW p \in Procs, Log' = Log,
             \/ ReadLastHash(p) \/ LockBusy(p) \/ Acquire(p) \/ LoadManifest(p)
             \/ InitManifest(p) \/ Rotate(p) \/ CommitManifest(p)
             \/ IOError(p) \/ Crash(p) \/ \E id \in Id : Find(p, id)
      PROVE  Fresh'
    <2>1. UNCHANGED <<acked, started>>
        BY <1>5 DEF ReadLastHash, LockBusy, Acquire, LoadManifest, InitManifest,
                    Rotate, CommitManifest, IOError, Crash, Find
    <2>2. \A q \in Procs : op'[q].id = op[q].id
        <3>1. CASE ReadLastHash(p)
            BY <1>0, <3>1 DEF ReadLastHash, TypeOK, Op
        <3>2. CASE UNCHANGED op
            BY <3>2
        <3> QED
            BY <1>5, <3>1, <3>2 DEF LockBusy, Acquire, LoadManifest,
                InitManifest, Rotate, CommitManifest, IOError, Crash, Find
    <2>3. \A q \in Procs : /\ pc'[q] \in BeforeWrite => pc[q] \in BeforeWrite
                           /\ pc'[q] \in AfterWrite => pc[q] \in AfterWrite
                           /\ pc'[q] # "idle" => pc[q] # "idle"
        <3>1. CASE ReadLastHash(p) \/ LockBusy(p) \/ Acquire(p)
            BY <1>0, <3>1 DEF ReadLastHash, LockBusy, Acquire, TypeOK,
                              BeforeWrite, AfterWrite
        <3>2. CASE LoadManifest(p) \/ InitManifest(p)
            BY <1>0, <3>2 DEF LoadManifest, InitManifest, TypeOK,
                              BeforeWrite, AfterWrite
        <3>3. CASE Rotate(p) \/ CommitManifest(p)
            BY <1>0, <3>3 DEF Rotate, CommitManifest, TypeOK,
                              BeforeWrite, AfterWrite
        <3>4. CASE IOError(p) \/ Crash(p) \/ \E id \in Id : Find(p, id)
            BY <1>0, <3>4 DEF IOError, Crash, Find, TypeOK,
                              BeforeWrite, AfterWrite
        <3> QED
            BY <1>5, <3>1, <3>2, <3>3, <3>4
    <2> QED
        BY <1>2, <1>5, <2>1, <2>2, <2>3
<1>6. CASE UNCHANGED vars
    BY <1>2, <1>6 DEF vars, Log
<1>7. \A p \in Procs : ~ShortWrite(p)
    BY DEF ShortWrite
<1>8. CASE \E p \in Procs : WriteLine(p) /\ Log' = Append(Log, LineOf(op[p]))
    BY <1>3, <1>8
<1>9. CASE Log' = Log /\ ~ \E p \in Procs : WriteLine(p)
    BY <1>1, <1>4, <1>5, <1>6, <1>7, <1>9 DEF Next, Proceed
<1> QED
    BY <1>8, <1>9, NextLog

\* The hashes in the manifest and in the writers' hands are of stored entries.
LEMMA NextNamed ==
    ASSUME ShortWrites = FALSE, IInv, Whole, Fresh, Named, [Next]_vars
    PROVE  Named'
<1>0. TypeOK /\ LockInv /\ OpsStarted /\ WriterShape
    BY DEF IInv
<1>1. Known \subseteq Known'
    <2>1. ASSUME NEW p \in Procs, WriteLine(p), Log' = Append(Log, LineOf(op[p]))
          PROVE  LogIds \subseteq LogIds'
        <3>1. LineOf(op[p]) \in Line
            BY <1>0, <2>1, LineOfType DEF WriteLine, TypeOK, OpsStarted
        <3> QED
            BY <1>0, <2>1, <3>1, LogIdsAppend
    <2>2. LogIds \subseteq LogIds'
        BY <2>1, NextLog, SameIds
    <2> QED
        BY <2>2 DEF NoHash, Known
<1>2. /\ manifest # NoManifest => manifest.last \in Known
      /\ \A q \in Procs : op[q].prev \in Known
      /\ \A q \in Procs : pc[q] = "commit" => mem[q].last \in Known
    BY DEF Named
<1>3. ASSUME manifest' # NoManifest => manifest'.last \in Known',
             \A q \in Procs : op'[q].prev \in Known',
             \A q \in Procs : pc'[q] = "commit" => mem'[q].last \in Known'
      PROVE  Named'
    BY <1>3 DEF Named
<1>4. NoHash \in Known /\ NoHash \in Known'
    BY DEF Known, NoHash
<1> USE DEF Goto
<1>5. ASSUME UNCHANGED manifest, \A q \in Procs : op'[q].prev \in Known \cup {NoHash},
             \A q \in Procs : pc'[q] = "commit" => mem'[q].last \in Known'
      PROVE  Named'
    BY <1>1, <1>2, <1>3, <1>4, <1>5
<1>6. ASSUME NEW p \in Procs, Begin(p) PROVE Named'
    <2>1. \A q \in Procs : pc'[q] = "commit" => pc[q] = "commit"
        BY <1>0, <1>6 DEF Begin, TypeOK
    <2>2. UNCHANGED <<manifest, mem>>
        BY <1>6 DEF Begin, disk
    <2>3. \A q \in Procs : op'[q].prev \in Known \cup {NoHash}
        BY <1>0, <1>2, <1>6 DEF Begin, TypeOK
    <2> QED
        BY <1>1, <1>2, <1>5, <2>1, <2>2, <2>3
<1>7. ASSUME NEW p \in Procs, ReadLastHash(p) PROVE Named'
    <2>1. \A q \in Procs : pc'[q] = "commit" => pc[q] = "commit"
        BY <1>0, <1>7 DEF ReadLastHash, TypeOK
    <2>2. UNCHANGED <<manifest, mem>>
        BY <1>7 DEF ReadLastHash, disk
    <2>3. \A q \in Procs : op'[q].prev \in Known \cup {NoHash}
        <3>1. LastHash \in Known
            BY <1>2, <1>4 DEF LastHash
        <3>2. op'[p].prev = LastHash /\ \A q \in Procs : q # p => op'[q] = op[q]
            BY <1>0, <1>7 DEF ReadLastHash, TypeOK, Op
        <3> QED
            BY <1>2, <3>1, <3>2
    <2> QED
        BY <1>1, <1>2, <1>5, <2>1, <2>2, <2>3
<1>8. ASSUME NEW p \in Procs, InitManifest(p) PROVE Named'
    <2>1. \A q \in Procs : pc'[q] = "commit" => pc[q] = "commit"
        BY <1>0, <1>8 DEF InitManifest, TypeOK
    <2>2. UNCHANGED <<op, mem>> /\ manifest'.last = NoHash
        BY <1>0, <1>8 DEF InitManifest, WriterShape, FreshManifest
    <2> QED
        BY <1>1, <1>2, <1>3, <1>4, <2>1, <2>2
<1>9. ASSUME NEW p \in Procs, CommitManifest(p) PROVE Named'
    <2>1. \A q \in Procs : pc'[q] = "commit" => pc[q] = "commit"
        BY <1>0, <1>9 DEF CommitManifest, TypeOK
    <2>2. UNCHANGED <<op, mem>> /\ mem[p].last \in Known
        BY <1>2, <1>9 DEF CommitManifest
    <2>3. manifest'.last = mem[p].last
        BY <1>0, <1>9 DEF CommitManifest, TypeOK, Manifest
    <2> QED
        BY <1>1, <1>2, <1>3, <2>1, <2>2, <2>3
<1>10. ASSUME NEW p \in Procs, Rotate(p) PROVE Named'
    <2>1. \A q \in Procs : q # p => pc'[q] = pc[q] /\ mem'[q] = mem[q]
        BY <1>0, <1>10 DEF Rotate, TypeOK
    <2>2. UNCHANGED <<op, manifest>> /\ pc[p] = "stat"
        BY <1>10 DEF Rotate
    <2>3. mem'[p].last = op[p].id
        BY <1>0, <1>10, RotateNames
    <2>4. op[p].id \in Known
        BY <2>2 DEF Fresh, AfterWrite, Known
    <2> QED
        BY <1>1, <1>2, <1>5, <2>1, <2>2, <2>3, <2>4
<1>11. ASSUME NEW p \in Procs,
              \/ LockBusy(p) \/ Acquire(p) \/ LoadManifest(p) \/ WriteLine(p)
              \/ Finish(p) \/ IOError(p) \/ Crash(p)
              \/ \E id \in Id : Find(p, id)
       PROVE  Named'
    <2>1. UNCHANGED <<op, manifest>>
        BY <1>11 DEF LockBusy, Acquire, LoadManifest, WriteLine, Finish, IOError,
                     Crash, Find, disk
    <2>2. \A q \in Procs : pc'[q] = "commit" => pc[q] = "commit" /\ mem'[q] = mem[q]
        <3>1. CASE LoadManifest(p)
            BY <1>0, <3>1 DEF LoadManifest, TypeOK
        <3>2. CASE LockBusy(p) \/ Acquire(p) \/ WriteLine(p) \/ Finish(p)
            BY <1>0, <3>2 DEF LockBusy, Acquire, WriteLine, Finish, TypeOK
        <3>3. CASE IOError(p) \/ Crash(p) \/ \E id \in Id : Find(p, id)
            BY <1>0, <3>3 DEF IOError, Crash, Find, TypeOK
        <3> QED
            BY <1>11, <3>1, <3>2, <3>3
    <2> QED
        BY <1>1, <1>2, <1>5, <2>1, <2>2
<1>12. CASE UNCHANGED vars
    BY <1>1, <1>2, <1>5, <1>12 DEF vars
<1>13. \A p \in Procs : ~ShortWrite(p)
    BY DEF ShortWrite
<1> QED
    BY <1>6, <1>7, <1>8, <1>9, <1>10, <1>11, <1>12, <1>13 DEF Next, Proceed

\* The mapping.
LEMMA AbsLogUnchanged == Log' = Log => AbsLog' = AbsLog
BY DEF AbsLog

LEMMA AbsIds == TypeOK => Abstract!Ids = LogIds
<1> SUFFICES ASSUME TypeOK PROVE Abstract!Ids = LogIds
    OBVIOUS
<1>1. Log \in Seq(Line)
    BY LogType
<1>2. Len(AbsLog) = Len(Log) /\ \A i \in 1..Len(Log) : AbsLog[i].id = Log[i].id
    BY <1>1 DEF AbsLog
<1> QED
    BY <1>2 DEF Abstract!Ids, LogIds

\* The mapped log of a log.
LEMMA AbsLogType ==
    ASSUME NEW s \in Seq(Line)
    PROVE  LET a == [i \in 1..Len(s) |-> [id |-> s[i].id, prev |-> s[i].prev]]
           IN  a \in Seq(Abstract!Entry) /\ Len(a) = Len(s)
<1>1. \A i \in 1..Len(s) : s[i] \in Line
    OBVIOUS
<1>2. \A i \in 1..Len(s) :
         [id |-> s[i].id, prev |-> s[i].prev] \in Abstract!Entry
    BY <1>1 DEF Abstract!Entry, Line
<1> QED
    BY <1>2

\* Every step is a step of the abstract log or a stutter.
LEMMA NextImplements ==
    ASSUME ShortWrites = FALSE, IInv, RInv, [Next]_vars
    PROVE  [Abstract!Next]_(Abstract!vars)
<1>0. TypeOK /\ OpsStarted /\ Whole /\ Fresh /\ Named
    BY DEF IInv, RInv
<1>1. ASSUME NEW p \in Procs, WriteLine(p), Log' = Append(Log, LineOf(op[p]))
      PROVE  Abstract!Next
    <2> DEFINE e == [id |-> op[p].id, prev |-> op[p].prev]
    <2>1. op[p].id \in Id /\ op[p] \in Op /\ pc[p] = "write" /\ UNCHANGED acked
        BY <1>0, <1>1 DEF WriteLine, OpsStarted, TypeOK
    <2>2. e \in Abstract!Entry
        BY <2>1 DEF Abstract!Entry, Op
    <2>3. e.id \notin Abstract!Ids /\ e.prev \in Abstract!Ids \cup {NoHash}
        BY <1>0, <2>1, AbsIds DEF Fresh, Named, Known, BeforeWrite
    <2>4. Log \in Seq(Line) /\ LineOf(op[p]) \in Line
        BY <1>0, <2>1, LogType, LineOfType
    <2>5. LineOf(op[p]).id = op[p].id /\ LineOf(op[p]).prev = op[p].prev
        BY DEF LineOf
    <2>6. AbsLog' = Append(AbsLog, e)
        <3>1. Len(Log') = Len(Log) + 1 /\ Len(Log) \in Nat
              /\ Log'[Len(Log) + 1] = LineOf(op[p])
              /\ \A i \in 1..Len(Log) : Log'[i] = Log[i]
            BY <1>1, <2>4
        <3>2. AbsLog' = [i \in 1..Len(Log') |-> [id |-> Log'[i].id, prev |-> Log'[i].prev]]
            BY DEF AbsLog
        <3>3. AbsLog \in Seq(Abstract!Entry) /\ Len(AbsLog) = Len(Log)
            BY <2>4, AbsLogType DEF AbsLog
        <3>4. AbsLog' \in Seq(Abstract!Entry) /\ Len(AbsLog') = Len(Log')
            <4>1. Log' \in Seq(Line)
                BY <1>1, <2>4
            <4> QED
                BY <3>2, <4>1, AbsLogType
        <3>5. Append(AbsLog, e) \in Seq(Abstract!Entry)
              /\ Len(Append(AbsLog, e)) = Len(AbsLog) + 1
            BY <2>2, <3>3
        <3>6. \A i \in 1..Len(Log') : AbsLog'[i] = Append(AbsLog, e)[i]
            <4> SUFFICES ASSUME NEW i \in 1..Len(Log')
                         PROVE  AbsLog'[i] = Append(AbsLog, e)[i]
                OBVIOUS
            <4>1. AbsLog'[i] = [id |-> Log'[i].id, prev |-> Log'[i].prev]
                BY <3>2
            <4>2. CASE i \in 1..Len(Log)
                <5>1. Append(AbsLog, e)[i] = AbsLog[i]
                    BY <2>2, <3>3, <4>2
                <5>2. AbsLog[i] = [id |-> Log[i].id, prev |-> Log[i].prev]
                    BY <4>2 DEF AbsLog
                <5> QED
                    BY <3>1, <4>1, <4>2, <5>1, <5>2
            <4>3. CASE i = Len(Log) + 1
                <5>1. Append(AbsLog, e)[i] = e
                    BY <2>2, <3>3, <4>3
                <5> QED
                    BY <2>5, <3>1, <4>1, <4>3, <5>1
            <4>4. i \in 1..Len(Log) \/ i = Len(Log) + 1
                BY <3>1
            <4> QED
                BY <4>2, <4>3, <4>4
        <3>7. Len(AbsLog') = Len(Append(AbsLog, e))
            BY <3>1, <3>3, <3>4, <3>5
        <3> QED
            BY <3>4, <3>5, <3>6, <3>7, SeqEqual
    <2>7. Abstract!Write(e)
        BY <2>1, <2>3, <2>6 DEF Abstract!Write
    <2> QED
        BY <2>2, <2>3, <2>7 DEF Abstract!Next
<1>2. ASSUME NEW p \in Procs, Finish(p), Log' = Log PROVE Abstract!Next
    <2>1. op[p].id \in Id /\ op[p].id \in LogIds /\ op[p].id \notin acked
        BY <1>0, <1>2 DEF Finish, OpsStarted, Fresh, AfterWrite
    <2>2. Abstract!Ack(op[p].id)
        BY <1>0, <1>2, <2>1, AbsIds, AbsLogUnchanged DEF Abstract!Ack, Finish
    <2> QED
        BY <2>1, <2>2 DEF Abstract!Next
<1>3. ASSUME Log' = Log, UNCHANGED acked PROVE UNCHANGED Abstract!vars
    BY <1>3, AbsLogUnchanged DEF Abstract!vars
<1>4. \A p \in Procs : ~ShortWrite(p)
    BY DEF ShortWrite
<1>5. CASE \E p \in Procs : WriteLine(p) /\ Log' = Append(Log, LineOf(op[p]))
    BY <1>1, <1>5
<1>6. CASE Log' = Log /\ ~ \E p \in Procs : WriteLine(p)
    <2>1. CASE \E p \in Procs : Finish(p)
        BY <1>2, <1>6, <2>1
    <2>2. CASE ~ \E p \in Procs : Finish(p)
        <3>1. UNCHANGED acked
            BY <1>4, <1>6, <2>2 DEF Next, Proceed, vars, Begin, ReadLastHash,
               LockBusy, Acquire, LoadManifest, InitManifest, Rotate,
               CommitManifest, IOError, Crash, Find
        <3> QED
            BY <1>3, <1>6, <3>1
    <2> QED
        BY <2>1, <2>2
<1> QED
    BY <1>0, <1>5, <1>6, NextLog

\* Where lines are written whole the files, the manifest and the flock implement
\* the append-only log: WriteLine is its Write, Finish its Ack, every other step
\* a stutter, whoever crashes or fails in between (AppendEntryAtPath).
THEOREM StoreImplementsLog ==
    ASSUME ShortWrites = FALSE
    PROVE  Spec => ImplementsAppendLog
<1>1. Init => RInv /\ Abstract!Init
    <2> SUFFICES ASSUME Init PROVE RInv /\ Abstract!Init
        OBVIOUS
    <2>1. Log = <<>>
        <3>1. segs \in Seq(Segment) /\ NoLinesAfter(segs, 0)
            BY DEF Init, NoLinesAfter
        <3> QED
            BY <3>1, LogEmpty, LogIsLogOf
    <2>2. LogIds = {} /\ Whole /\ AbsLog = <<>>
        BY <2>1 DEF LogIds, Whole, AbsLog
    <2> QED
        BY <2>2, ConstantsAssumption
        DEF Init, RInv, Fresh, Named, Known, NoOp, BeforeWrite, AfterWrite, NoHash,
            Abstract!Init
<1>2. IInv /\ RInv /\ [Next]_vars => RInv'
    BY NextWhole, NextFresh, NextNamed DEF RInv
<1>3. IInv /\ RInv /\ [Next]_vars => [Abstract!Next]_(Abstract!vars)
    BY NextImplements
<1> QED
    BY <1>1, <1>2, <1>3, InductiveInvariant, PTL
    DEF Spec, ImplementsAppendLog, Abstract!Spec

-----------------------------------------------------------------------------
(***************************************************************************)
(* Breaks of the hash chain.                                               *)
(***************************************************************************)

LastId == IF Log = <<>> THEN NoHash ELSE Log[Len(Log)].id

\* The break that is not in the log yet: the manifest lags behind the last line,
\* and the writer is not about to update it.
Owed(p) == IF pc[p] \in {"stat", "commit"} \/ LastHash = LastId THEN 0 ELSE 1

\* Each fault pays for one break: one that is in the log, or one that is owed.
ChainInv(p) ==
    /\ ~op[p].adv
    /\ pc[p] \in {"wait", "load", "init", "write"} => op[p].prev = LastHash
    /\ Whole =>
          /\ pc[p] \in {"stat", "commit"} => op[p].id = LastId
          /\ pc[p] = "commit" => mem[p].last = op[p].id
          /\ Cardinality(Breaks) + Owed(p) <= faults

Torn == {l \in Line : ~l.ok \/ ~l.nl}

\* The log is whole when the files have no torn line.
LEMMA WholeIsNotTorn == TypeOK => (Whole <=> ~Held(Torn))
<1> SUFFICES ASSUME TypeOK PROVE Whole <=> ~Held(Torn)
    OBVIOUS
<1>1. segs \in Seq(Segment) /\ Log \in Seq(Line)
    BY LogType DEF TypeOK
<1>2. ASSUME Held(Torn) PROVE ~Whole
    <2>1. PICK i \in 1..Len(segs) : \E k \in 1..Len(segs[i].lines) :
              segs[i].lines[k] \in Torn
        BY <1>2 DEF Held
    <2>2. PICK k \in 1..Len(segs[i].lines) : segs[i].lines[k] \in Torn
        BY <2>1
    <2>3. PICK n \in 1..Len(Log) : Log[n] = segs[i].lines[k]
        BY <1>1, LogHoldsLines, LogIsLogOf
    <2> QED
        BY <2>2, <2>3 DEF Whole, Torn
<1>3. ASSUME ~Whole PROVE Held(Torn)
    <2>1. PICK n \in 1..Len(Log) : ~(Log[n].ok /\ Log[n].nl)
        BY <1>3 DEF Whole
    <2>2. Log[n] \in Torn
        BY <1>1, <2>1 DEF Torn
    <2>3. PICK i \in 1..Len(segs) : \E k \in 1..Len(segs[i].lines) :
              Log[n] = segs[i].lines[k]
        BY <1>1, LogHoldsLines, LogIsLogOf
    <2> QED
        BY <2>2, <2>3 DEF Held
<1> QED
    BY <1>2, <1>3

\* A torn store is never repaired.
LEMMA WholeBefore ==
    ASSUME IInv, [Next]_vars, Whole'
    PROVE  Whole
<1>1. TypeOK /\ TypeOK'
    BY NextTyping DEF IInv, Typing
<1>2. Torn' = Torn
    BY DEF Torn
<1>3. Whole' <=> ~Held(Torn)'
    <2>1. (TypeOK => (Whole <=> ~Held(Torn)))'
        BY WholeIsNotTorn, PTL
    <2> QED
        BY <1>1, <2>1
<1>4. \A l \in Line : ~l.ok => l \in Torn
    BY DEF Torn
<1>5. Held(Torn) => Held(Torn)'
    <2> DEFINE K == Torn
    <2> HIDE DEF K
    <2>1. \A l \in Line : ~l.ok => l \in K
        BY <1>4 DEF K
    <2>2. Held(K) => Held(K)'
        BY <2>1, NextHeld
    <2> QED
        BY <1>2, <2>2 DEF K, Held
<1> QED
    BY <1>1, <1>3, <1>5, WholeIsNotTorn

\* A short write leaves a line that is not whole.
LEMMA ShortWriteTears ==
    ASSUME IInv, [Next]_vars, NEW p \in Procs, ShortWrite(p)
    PROVE  ~Whole'
<1>1. TypeOK'
    BY NextTyping DEF IInv, Typing
<1>2. PICK n \in 1..(op[p].bytes - 1) :
        segs' = [segs EXCEPT ![mem[p].current] =
                    AppendText(@, CutLine(op[p], n), n)]
    BY DEF ShortWrite
<1>3. /\ manifest # NoManifest /\ mem[p] = manifest
      /\ op[p] \in Op /\ op[p].id \in Id
    BY DEF ShortWrite, IInv, TypeOK, OpsStarted, WriterShape
<1> DEFINE line == CutLine(op[p], n)
<1>4. n \in Nat /\ line \in Line
    BY <1>3, LineOfType DEF Op
<1>5. ~line.nl
    BY DEF CutLine
<1>6. segs' = [segs EXCEPT ![manifest.current] = AppendText(@, line, n)]
    BY <1>2, <1>3
<1> HIDE DEF line
<1>7. line \in Torn /\ Garbled(line) \in Torn
    BY <1>4, <1>5 DEF Torn, Garbled, Line
<1>8. Held(Torn)'
    <2> DEFINE K == Torn
    <2> HIDE DEF K
    <2>1. line \in K /\ Garbled(line) \in K
        BY <1>7 DEF K
    <2>2. Held(K)'
        BY <1>3, <1>4, <1>6, <2>1, WritesLine
    <2>3. Torn' = Torn
        BY DEF Torn
    <2> QED
        BY <2>2, <2>3 DEF K, Held
<1>9. (TypeOK => (Whole <=> ~Held(Torn)))'
    BY WholeIsNotTorn, PTL
<1> QED
    BY <1>1, <1>8, <1>9

LEMMA BreaksFinite ==
    TypeOK => IsFiniteSet(Breaks) /\ Cardinality(Breaks) \in Nat
<1> SUFFICES ASSUME TypeOK
             PROVE  IsFiniteSet(Breaks) /\ Cardinality(Breaks) \in Nat
    OBVIOUS
<1>1. Len(Log) \in Nat
    BY LogType
<1>2. IsFiniteSet(1..Len(Log))
    BY <1>1, FS_Interval
<1>3. Breaks \in SUBSET (1..Len(Log))
    BY DEF Breaks
<1>4. IsFiniteSet(Breaks)
    BY <1>2, <1>3, FS_Subset
<1> QED
    BY <1>4, FS_CardinalityType

\* A new line breaks the chain when it does not name the one before it.
LEMMA BreaksAppend ==
    ASSUME TypeOK, NEW line \in Line, Log' = Append(Log, line)
    PROVE  /\ line.prev = LastId => Breaks' = Breaks
           /\ line.prev # LastId => Breaks' = Breaks \cup {Len(Log) + 1}
           /\ LastId' = line.id
<1> DEFINE n == Len(Log)
<1>1. Log \in Seq(Line) /\ n \in Nat
    BY LogType
<1>2. Len(Log') = n + 1 /\ Log'[n + 1] = line /\ Log' # <<>>
      /\ \A i \in 1..n : Log'[i] = Log[i]
    BY <1>1
<1> DEFINE Prev(s, i) == IF i = 1 THEN NoHash ELSE s[i - 1].id
<1>3. LastId' = line.id
    BY <1>1, <1>2 DEF LastId
<1>4. Prev(Log', n + 1) = LastId
    BY <1>1, <1>2 DEF LastId
<1>5. \A i \in 1..n : Prev(Log', i) = Prev(Log, i)
    BY <1>1, <1>2
<1>6. Breaks' = {i \in 1..(n + 1) : Log'[i].prev # Prev(Log', i)}
    BY <1>2 DEF Breaks
<1>7. Breaks = {i \in 1..n : Log[i].prev # Prev(Log, i)}
    BY DEF Breaks
<1> HIDE DEF Prev, n
<1>8. \A i : i \in 1..(n + 1) <=> i \in 1..n \/ i = n + 1
    BY <1>1
<1>9. \A i \in 1..n : i \in Breaks' <=> i \in Breaks
    BY <1>2, <1>5, <1>6, <1>7, <1>8
<1>10. n + 1 \in Breaks' <=> line.prev # LastId
    BY <1>2, <1>4, <1>6, <1>8
<1>11. \A i \in Breaks : i \in 1..n
    BY <1>7
<1>12. \A i \in Breaks' : i \in 1..n \/ i = n + 1
    BY <1>6, <1>8
<1>13. line.prev = LastId => Breaks' = Breaks
    BY <1>9, <1>10, <1>11, <1>12
<1>14. line.prev # LastId => Breaks' = Breaks \cup {n + 1}
    BY <1>9, <1>10, <1>11, <1>12
<1> QED
    BY <1>3, <1>13, <1>14 DEF n

\* A break is paid for by the fault that made the manifest lag.
LEMMA NextChain ==
    ASSUME NEW p \in Procs, Procs = {p}, Advisory \subseteq {FALSE},
           IInv, ChainInv(p), [Next]_vars
    PROVE  ChainInv(p)'
<1>0. /\ TypeOK /\ TypeOK' /\ WriterShape /\ OpsStarted
      /\ faults \in Nat /\ faults' \in Nat
      /\ Cardinality(Breaks) \in Nat /\ Cardinality(Breaks') \in Nat
    <2>1. TypeOK /\ TypeOK' /\ WriterShape /\ OpsStarted
        BY NextTyping DEF IInv, Typing
    <2>2. Cardinality(Breaks') \in Nat
        <3>1. (TypeOK => Cardinality(Breaks) \in Nat)'
            BY BreaksFinite, PTL
        <3> QED
            BY <2>1, <3>1
    <2> QED
        BY <2>1, <2>2, BreaksFinite, ConstantsAssumption DEF TypeOK
<1>1. Log' = Log => LastId' = LastId /\ Breaks' = Breaks
    BY DEF LastId, Breaks
<1>2. manifest' = manifest => LastHash' = LastHash
    BY DEF LastHash
<1>3. Whole' => Whole
    BY WholeBefore
<1> USE DEF Goto
<1>4. ASSUME Begin(p) \/ ReadLastHash(p), Log' = Log PROVE ChainInv(p)'
    <2>1. UNCHANGED <<manifest, faults>>
        BY <1>4 DEF Begin, ReadLastHash, disk
    <2>2. CASE Begin(p)
        <3>1. pc'[p] = "hash" /\ pc[p] = "idle"
            BY <1>0, <2>2 DEF Begin, TypeOK
        <3>2. PICK b \in EntryBytes, a \in Advisory :
                op' = [op EXCEPT ![p] = [id |-> started + 1, prev |-> NoHash,
                                         bytes |-> b, adv |-> a]]
            BY <2>2 DEF Begin
        <3>3. op'[p].adv = a
            BY <1>0, <3>2 DEF TypeOK
        <3> QED
            BY <1>1, <1>2, <1>3, <1>4, <2>1, <3>1, <3>3 DEF ChainInv, Owed
    <2>3. CASE ReadLastHash(p)
        <3>1. pc'[p] = "wait" /\ pc[p] = "hash" /\ ~op'[p].adv /\ op'[p].prev = LastHash
            BY <1>0, <2>3 DEF ReadLastHash, TypeOK, Op, ChainInv
        <3> QED
            BY <1>1, <1>2, <1>3, <1>4, <2>1, <3>1 DEF ChainInv, Owed
    <2> QED
        BY <1>4, <2>2, <2>3
<1>5. ASSUME UNCHANGED <<manifest, op, faults>>, Log' = Log,
             pc[p] \in {"stat", "commit"} <=> pc'[p] \in {"stat", "commit"},
             pc'[p] = "commit" => pc[p] = "commit" /\ mem' = mem,
             pc'[p] \in {"wait", "load", "init", "write"} =>
                pc[p] \in {"wait", "load", "init", "write"}
      PROVE  ChainInv(p)'
    BY <1>1, <1>2, <1>3, <1>5 DEF ChainInv, Owed
<1>6. ASSUME LockBusy(p) \/ Acquire(p), Log' = Log PROVE ChainInv(p)'
    <2>1. /\ pc[p] \in {"stat", "commit"} <=> pc'[p] \in {"stat", "commit"}
          /\ pc'[p] # "commit"
          /\ pc'[p] \in {"wait", "load", "init", "write"} =>
                pc[p] \in {"wait", "load", "init", "write"}
        BY <1>0, <1>6 DEF LockBusy, Acquire, ChainInv, TypeOK
    <2>2. UNCHANGED <<manifest, op, faults>>
        BY <1>6 DEF LockBusy, Acquire, disk
    <2> QED
        BY <1>5, <1>6, <2>1, <2>2
<1>7. ASSUME LoadManifest(p) \/ Finish(p) \/ \E id \in Id : Find(p, id), Log' = Log
      PROVE  ChainInv(p)'
    <2>1. /\ pc[p] \in {"stat", "commit"} <=> pc'[p] \in {"stat", "commit"}
          /\ pc'[p] = "commit" => pc[p] = "commit" /\ mem' = mem
          /\ pc'[p] \in {"wait", "load", "init", "write"} =>
                pc[p] \in {"wait", "load", "init", "write"}
        BY <1>0, <1>7 DEF LoadManifest, Finish, Find, TypeOK
    <2>2. UNCHANGED <<manifest, op, faults>>
        BY <1>7 DEF LoadManifest, Finish, Find, disk
    <2> QED
        BY <1>5, <1>7, <2>1, <2>2
<1>8. ASSUME InitManifest(p), Log' = Log PROVE ChainInv(p)'
    <2>1. /\ UNCHANGED <<op, faults>> /\ manifest = NoManifest
          /\ manifest' = FreshManifest /\ pc'[p] = "write" /\ pc[p] = "init"
        BY <1>0, <1>8 DEF InitManifest, WriterShape, TypeOK
    <2>2. LastHash = NoHash /\ LastHash' = NoHash
        BY <2>1 DEF LastHash, FreshManifest
    <2> QED
        BY <1>1, <1>3, <1>8, <2>1, <2>2 DEF ChainInv, Owed
<1>9. ASSUME Rotate(p), Log' = Log PROVE ChainInv(p)'
    <2>1. UNCHANGED <<manifest, op, faults>> /\ pc[p] = "stat" /\ pc'[p] = "commit"
        BY <1>0, <1>9 DEF Rotate, TypeOK
    <2>2. mem'[p].last = op[p].id
        BY <1>0, <1>9, RotateNames
    <2> QED
        BY <1>1, <1>2, <1>3, <1>9, <2>1, <2>2 DEF ChainInv, Owed
<1>10. ASSUME CommitManifest(p), Log' = Log PROVE ChainInv(p)'
    <2>1. UNCHANGED <<op, faults>> /\ pc[p] = "commit" /\ pc'[p] = "release"
        BY <1>0, <1>10 DEF CommitManifest, TypeOK
    <2>2. manifest' \in Manifest /\ manifest'.last = mem[p].last
        <3>1. mem[p] \in Manifest
            BY <1>0 DEF TypeOK
        <3>2. manifest' = [mem[p] EXCEPT !.sealed = @ \ {mem[p].current}]
            BY <1>10 DEF CommitManifest
        <3> QED
            BY <3>1, <3>2 DEF Manifest
    <2>3. LastHash' = mem[p].last
        BY <2>2, NoManifestAssumption DEF LastHash
    <2> QED
        BY <1>1, <1>3, <1>10, <2>1, <2>3 DEF ChainInv, Owed
<1>11. ASSUME WriteLine(p) PROVE ChainInv(p)'
    <2>1. /\ UNCHANGED <<op, faults>> /\ pc[p] = "write" /\ pc'[p] = "stat"
          /\ manifest # NoManifest /\ mem[p] = manifest /\ op[p] \in Op
          /\ op[p].id \in Id
        BY <1>0, <1>11 DEF WriteLine, WriterShape, OpsStarted, TypeOK
    <2> SUFFICES ASSUME Whole' PROVE ChainInv(p)'
        BY <2>1 DEF ChainInv
    <2> DEFINE line == LineOf(op[p])
    <2>2. line \in Line /\ op[p].bytes \in Nat /\ line.id = op[p].id
          /\ line.prev = op[p].prev
        BY <2>1, LineOfType DEF Op, LineOf
    <2>3. segs' = [segs EXCEPT ![manifest.current] =
                      AppendText(@, line, op[p].bytes)]
        BY <1>11, <2>1 DEF WriteLine
    <2> HIDE DEF line
    <2>4. Log' = Append(Log, line)
        BY <1>3, <2>1, <2>2, <2>3, LogWritten
    <2>5. /\ line.prev = LastId => Breaks' = Breaks
          /\ line.prev # LastId => Breaks' = Breaks \cup {Len(Log) + 1}
          /\ LastId' = line.id
        BY <1>0, <2>2, <2>4, BreaksAppend
    <2>6. Cardinality(Breaks \cup {Len(Log) + 1}) <= Cardinality(Breaks) + 1
        <3>1. IsFiniteSet(Breaks) /\ Cardinality(Breaks) \in Nat
            BY <1>0, BreaksFinite
        <3> DEFINE x == Len(Log) + 1
        <3>2. Cardinality(Breaks \cup {x}) =
                 IF x \in Breaks THEN Cardinality(Breaks) ELSE Cardinality(Breaks) + 1
            <4> HIDE DEF x
            <4> QED
                BY <3>1, FS_AddElement
        <3> QED
            BY <3>1, <3>2
    <2>7. line.prev = LastHash /\ ~op[p].adv
          /\ Cardinality(Breaks) + Owed(p) <= faults
        BY <1>3, <2>1, <2>2 DEF ChainInv
    <2>8. Owed(p) = IF line.prev = LastId THEN 0 ELSE 1
        BY <2>1, <2>7 DEF Owed
    <2>9. Cardinality(Breaks') <= faults
        <3>1. CASE line.prev = LastId
            BY <1>0, <2>5, <2>7, <2>8, <3>1
        <3>2. CASE line.prev # LastId
            <4>1. Breaks' = Breaks \cup {Len(Log) + 1}
                BY <2>5, <3>2
            <4>2. Cardinality(Breaks') <= Cardinality(Breaks) + 1
                BY <2>6, <4>1
            <4>3. Cardinality(Breaks) + 1 <= faults
                BY <2>7, <2>8, <3>2
            <4> QED
                BY <1>0, <4>2, <4>3
        <3> QED
            BY <3>1, <3>2
    <2>10. Owed(p)' = 0
        BY <2>1 DEF Owed
    <2> QED
        BY <1>0, <2>1, <2>2, <2>5, <2>7, <2>9, <2>10 DEF ChainInv
<1>12. ASSUME ShortWrite(p) PROVE ChainInv(p)'
    <2>1. ~Whole' /\ UNCHANGED op /\ pc'[p] = "idle"
        BY <1>0, <1>12, ShortWriteTears DEF ShortWrite, TypeOK
    <2> QED
        BY <2>1 DEF ChainInv
<1>13. ASSUME IOError(p) \/ Crash(p), Log' = Log PROVE ChainInv(p)'
    <2>1. UNCHANGED <<op, manifest>> /\ pc'[p] = "idle" /\ faults' = faults + 1
        BY <1>0, <1>13 DEF IOError, Crash, Fault, TypeOK, disk
    <2>2. Owed(p) \in {0, 1} /\ Owed(p)' \in {0, 1}
        BY DEF Owed
    <2> QED
        BY <1>0, <1>1, <1>2, <1>3, <1>13, <2>1, <2>2 DEF ChainInv
<1>14. CASE UNCHANGED vars
    <2>1. Log' = Log /\ UNCHANGED <<pc, mem, manifest, op, faults>>
        BY <1>14 DEF vars, Log
    <2> QED
        BY <1>5, <2>1
<1>15. ~WriteLine(p) /\ ~ShortWrite(p) => Log' = Log
    <2>1. UNCHANGED segs => Log' = Log
        BY DEF Log
    <2>2. LoadManifest(p) \/ Rotate(p) => Log' = Log
        BY LogUntouched
    <2> QED
        BY <2>1, <2>2
        DEF Next, Proceed, vars, Begin, ReadLastHash, LockBusy, Acquire,
            InitManifest, CommitManifest, Finish, Find, IOError, Crash, disk
<1> QED
    BY <1>4, <1>6, <1>7, <1>8, <1>9, <1>10, <1>11, <1>12, <1>13, <1>14, <1>15
    DEF Next, Proceed

\* One process that does not ignore a failed LastHashAtPath leaves at most one
\* wrong previous_hash for each crash or failure: that of the entry after a line
\* whose manifest update was lost.
THEOREM LoneWriterBreaks ==
    ASSUME NEW p, Procs = {p}, Advisory \subseteq {FALSE}
    PROVE  Spec => []OneBreakPerFault
<1>1. Init => ChainInv(p)
    <2> SUFFICES ASSUME Init PROVE ChainInv(p)
        OBVIOUS
    <2>1. Log = <<>>
        <3>1. segs \in Seq(Segment) /\ NoLinesAfter(segs, 0)
            BY DEF Init, NoLinesAfter
        <3> QED
            BY <3>1, LogEmpty, LogIsLogOf
    <2>2. Breaks = {} /\ Cardinality({}) = 0
        BY <2>1, FS_EmptySet DEF Breaks
    <2>3. LastHash = NoHash /\ LastId = NoHash
        BY <2>1 DEF Init, LastHash, LastId
    <2> QED
        BY <2>2, <2>3 DEF Init, ChainInv, Owed, NoOp
<1>2. IInv /\ ChainInv(p) /\ [Next]_vars => ChainInv(p)'
    BY NextChain
<1>3. IInv /\ ChainInv(p) => OneBreakPerFault
    <2> SUFFICES ASSUME IInv, ChainInv(p), Whole
                 PROVE  Cardinality(Breaks) <= faults
        BY DEF OneBreakPerFault
    <2>1. Cardinality(Breaks) \in Nat /\ faults \in Nat
        BY BreaksFinite, ConstantsAssumption DEF IInv, TypeOK
    <2>2. Owed(p) \in {0, 1}
        BY DEF Owed
    <2> QED
        BY <2>1, <2>2 DEF ChainInv
<1> QED
    BY <1>1, <1>2, <1>3, InductiveInvariant, PTL DEF Spec
=============================================================================
