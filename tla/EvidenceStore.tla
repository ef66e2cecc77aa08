--------------------------- MODULE EvidenceStore ---------------------------
(***************************************************************************)
(* The segmented evidence store of pkg/evidence: JSONL segment files, a    *)
(* manifest replaced by rename, and one flock around every access.         *)
(*                                                                         *)
(* A recording operation of a process (lifecycle.Service, the CLI record   *)
(* commands) takes the lock twice: LastHashAtPath reads the hash the new   *)
(* entry will be linked to, AppendEntryAtPath writes the entry.  Between   *)
(* the two the lock is free.  A process may crash at any step, and any     *)
(* file operation may fail; a failed write may leave a prefix of the line. *)
(***************************************************************************)
EXTENDS Naturals, Sequences, SequencesExt

CONSTANTS
    Procs,            \* processes that share one evidence directory
    NoProc,           \* nobody holds the lock
    NoManifest,       \* manifest.json does not exist yet
    EntryBytes,       \* lengths of the JSON lines, newline included
    SegmentMaxBytes,  \* EVIDRA_EVIDENCE_SEGMENT_MAX_BYTES, kept in the manifest
    Advisory,         \* may a failed LastHashAtPath be ignored by an operation?
    MaxEntries,       \* bound: operations started
    ShortWrites,      \* may a failed write leave a prefix of the line?
    MaxFaults         \* bound: crashes and failed file operations

ASSUME ConstantsAssumption ==
    /\ NoProc \notin Procs
    /\ EntryBytes \subseteq Nat \ {0}
    /\ SegmentMaxBytes \in Nat \ {0}
    /\ Advisory \subseteq BOOLEAN
    /\ MaxEntries \in Nat
    /\ ShortWrites \in BOOLEAN
    /\ MaxFaults \in Nat

VARIABLES
    segs,      \* segs[i]: the file segments/evidence-<i>.jsonl
    manifest,  \* manifest.json
    lock,      \* the holder of .evidra.lock
    pc,        \* pc[p]: the step process p is at
    op,        \* op[p]: the entry p is recording
    mem,       \* mem[p]: the manifest p has read and is updating
    cache,     \* cache[p]: ids in p's entryLookupCache
    acked,     \* ids whose AppendEntryAtPath has returned nil
    started,   \* operations started; the last one's entry id
    faults     \* faults so far

disk == <<segs, manifest>>
vars == <<segs, manifest, lock, pc, op, mem, cache, acked, started, faults>>

-----------------------------------------------------------------------------
(* An entry's hash is as unique as its ULID, so the id stands for both, and *)
(* 0 is the empty previous_hash.  A line that was cut short has nl = FALSE; *)
(* ok says whether json.Unmarshal accepts it.                               *)
NoHash == 0
Id     == 1..MaxEntries
Line   == [id: Id, prev: Id \cup {NoHash}, ok: BOOLEAN, nl: BOOLEAN]
Segment  == [lines: Seq(Line), bytes: Nat]
Manifest == [current: Nat \ {0}, sealed: SUBSET Nat, total: Nat,
             last: Id \cup {NoHash}]
ASSUME NoManifestAssumption == NoManifest \notin Manifest
Op == [id: Id \cup {0}, prev: Id \cup {NoHash}, bytes: Nat, adv: BOOLEAN]

EmptySegment  == [lines |-> <<>>, bytes |-> 0]
FreshManifest == [current |-> 1, sealed |-> {}, total |-> 0, last |-> NoHash]
NoOp == [id |-> 0, prev |-> NoHash, bytes |-> 0, adv |-> FALSE]

Locked == {"load", "init", "write", "stat", "commit", "release"}
Steps  == {"idle", "hash", "wait"} \cup Locked

PerSegmentLastHash ==
    IF manifest = NoManifest THEN NoHash
    ELSE IF segs[manifest.current].lines = <<>> THEN NoHash ELSE manifest.last
LastHash == IF manifest = NoManifest THEN NoHash ELSE manifest.last

\* syscall.Flock succeeds when no other open file holds the lock.
NoLocking == TRUE
LockFree  == lock = NoProc

\* The order in which every reader sees the lines: segment by segment.
Log == FlattenSeq([i \in 1..Len(segs) |-> segs[i].lines])

Garbled(l) == [id |-> l.id, prev |-> l.prev, ok |-> FALSE, nl |-> l.nl]

\* A segment after appending text: an unterminated last line swallows it.
TruncatingText(seg, line, n) == [bytes |-> n, lines |-> <<line>>]
AppendText(seg, line, n) ==
    LET k == Len(seg.lines)
    IN  [bytes |-> seg.bytes + n,
         lines |-> IF k > 0 /\ ~seg.lines[k].nl
                   THEN [seg.lines EXCEPT ![k] = Garbled(line)]
                   ELSE Append(seg.lines, line)]

\* More bytes than one segment should hold.
Full(seg) == seg.bytes > SegmentMaxBytes

\* The manifest after entry o.
Counted(m, o) == [m EXCEPT !.total = @ + 1, !.last = o.id]

\* The manifest after rotating to segment next.
Rotated(m, next) ==
    [m EXCEPT !.sealed = @ \cup {m.current}, !.current = next]

\* The line of entry o, and what its first n bytes leave: without the newline
\* alone the text is still valid JSON.
LineOf(o) == [id |-> o.id, prev |-> o.prev, ok |-> TRUE, nl |-> TRUE]
CutLine(o, n) ==
    [id |-> o.id, prev |-> o.prev, ok |-> n = o.bytes - 1, nl |-> FALSE]

TypeOK ==
    /\ segs \in Seq(Segment)
    /\ manifest \in Manifest \cup {NoManifest}
    /\ lock \in Procs \cup {NoProc}
    /\ pc \in [Procs -> Steps]
    /\ op \in [Procs -> Op]
    /\ mem \in [Procs -> Manifest]
    /\ cache \in [Procs -> SUBSET Id]
    /\ acked \subseteq Id
    /\ started \in 0..MaxEntries
    /\ faults \in 0..MaxFaults

Init ==
    /\ segs = <<>>
    /\ manifest = NoManifest
    /\ lock = NoProc
    /\ pc = [p \in Procs |-> "idle"]
    /\ op = [p \in Procs |-> NoOp]
    /\ mem = [p \in Procs |-> FreshManifest]
    /\ cache = [p \in Procs |-> {}]
    /\ acked = {}
    /\ started = 0
    /\ faults = 0

-----------------------------------------------------------------------------
(* Recording one entry.                                                     *)

Goto(p, step) == pc' = [pc EXCEPT ![p] = step]

Begin(p) ==
    /\ pc[p] = "idle"
    /\ started < MaxEntries
    /\ started' = started + 1
    /\ \E b \in EntryBytes, a \in Advisory :
          op' = [op EXCEPT ![p] = [id |-> started + 1, prev |-> NoHash,
                                   bytes |-> b, adv |-> a]]
    /\ Goto(p, "hash")
    /\ UNCHANGED <<disk, lock, mem, cache, acked, faults>>

\* LastHashAtPath, then BuildEntry with the hash it returned.
ReadLastHash(p) ==
    /\ pc[p] = "hash"
    /\ LockFree
    /\ op' = [op EXCEPT ![p].prev = LastHash]
    /\ Goto(p, "wait")
    /\ UNCHANGED <<disk, lock, mem, cache, acked, started, faults>>

\* The deadline of evlock.Acquire passes while somebody, perhaps a reader
\* that is not modelled, holds the lock.  Best-effort callers go on with an
\* empty previous_hash when it was LastHashAtPath that timed out.
LockBusy(p) ==
    /\ \/ pc[p] = "hash" /\ Goto(p, IF op[p].adv THEN "wait" ELSE "idle")
       \/ pc[p] = "wait" /\ Goto(p, "idle")
    /\ UNCHANGED <<disk, lock, op, mem, cache, acked, started, faults>>

Acquire(p) ==
    /\ pc[p] = "wait"
    /\ LockFree
    /\ lock' = p
    /\ Goto(p, "load")
    /\ UNCHANGED <<disk, op, mem, cache, acked, started, faults>>

\* loadOrInitManifest: read the manifest, or create the first segment
\* (os.WriteFile truncates a file that is there) before writing one.
LoadManifest(p) ==
    /\ pc[p] = "load"
    /\ IF manifest # NoManifest
       THEN /\ mem' = [mem EXCEPT ![p] = manifest]
            /\ Goto(p, "write")
            /\ UNCHANGED segs
       ELSE /\ mem' = [mem EXCEPT ![p] = FreshManifest]
            /\ segs' = IF segs = <<>> THEN <<EmptySegment>>
                                      ELSE [segs EXCEPT ![1] = EmptySegment]
            /\ Goto(p, "init")
    /\ UNCHANGED <<manifest, lock, op, cache, acked, started, faults>>

InitManifest(p) ==
    /\ pc[p] = "init"
    /\ manifest' = mem[p]
    /\ Goto(p, "write")
    /\ UNCHANGED <<segs, lock, op, mem, cache, acked, started, faults>>

\* appendEntryLine
WriteLine(p) ==
    /\ pc[p] = "write"
    /\ segs' = [segs EXCEPT ![mem[p].current] =
                   AppendText(@, LineOf(op[p]), op[p].bytes)]
    /\ Goto(p, "stat")
    /\ UNCHANGED <<manifest, lock, op, mem, cache, acked, started, faults>>

\* The manifest after the line, and the rotation of a full segment: the next
\* one is numbered after the last file in the directory.
Rotate(p) ==
    LET m    == Counted(mem[p], op[p])
        next == Len(segs) + 1
    IN  /\ pc[p] = "stat"
        /\ IF Full(segs[m.current])
           THEN /\ segs' = Append(segs, EmptySegment)
                /\ mem' = [mem EXCEPT ![p] = Rotated(m, next)]
           ELSE /\ mem' = [mem EXCEPT ![p] = m]
                /\ UNCHANGED segs
        /\ Goto(p, "commit")
        /\ UNCHANGED <<manifest, lock, op, cache, acked, started, faults>>

\* writeManifestAtomic
CommitManifest(p) ==
    /\ pc[p] = "commit"
    /\ manifest' = [mem[p] EXCEPT !.sealed = @ \ {mem[p].current}]
    /\ Goto(p, "release")
    /\ UNCHANGED <<segs, lock, op, mem, cache, acked, started, faults>>

\* lock.Release, cacheEntryByID, and the operation returns.
Finish(p) ==
    /\ pc[p] = "release"
    /\ lock' = NoProc
    /\ cache' = [cache EXCEPT ![p] = @ \cup {op[p].id}]
    /\ acked' = acked \cup {op[p].id}
    /\ Goto(p, "idle")
    /\ UNCHANGED <<disk, op, mem, started, faults>>

-----------------------------------------------------------------------------
(* FindEntryByID reads line by line until the entry or an unreadable line.  *)

SkipUnreadable(id) ==
    IF \E i \in 1..Len(Log) : Log[i].ok /\ Log[i].id = id
    THEN "found" ELSE "not_found"
FindInLog(id) ==
    LET hits == {i \in 1..Len(Log) : Log[i].ok /\ Log[i].id = id}
        bad  == {i \in 1..Len(Log) : ~Log[i].ok}
    IN  IF \E h \in hits : \A b \in bad : h < b THEN "found"
        ELSE IF bad # {} THEN "error" ELSE "not_found"

FindEntryByID(p, id) == IF id \in cache[p] THEN "found" ELSE FindInLog(id)

Find(p, id) ==
    /\ pc[p] = "idle"
    /\ id \in cache[p] \/ LockFree
    /\ cache' = IF FindEntryByID(p, id) = "found"
                THEN [cache EXCEPT ![p] = @ \cup {id}] ELSE cache
    /\ UNCHANGED <<disk, lock, pc, op, mem, acked, started, faults>>

\* ValidateChainAtPath: parse everything, then check every link.
ValidateChain ==
    \A i \in 1..Len(Log) :
        /\ Log[i].ok
        /\ Log[i].prev = IF i = 1 THEN NoHash ELSE Log[i - 1].id

-----------------------------------------------------------------------------
(* Faults.                                                                  *)

Fault == faults < MaxFaults /\ faults' = faults + 1
KeepLock(p) == UNCHANGED lock
Unlock(p) == lock' = IF lock = p THEN NoProc ELSE lock

\* A file operation fails; the deferred Release runs, the error is returned.
IOError(p) ==
    /\ pc[p] \in Locked \ {"release"}
    /\ Fault
    /\ Unlock(p)
    /\ Goto(p, "idle")
    /\ UNCHANGED <<disk, op, mem, cache, acked, started>>

\* The file system takes only the first n bytes of the line.
ShortWrite(p) ==
    /\ ShortWrites
    /\ pc[p] = "write"
    /\ Fault
    /\ \E n \in 1..(op[p].bytes - 1) :
          segs' = [segs EXCEPT ![mem[p].current] =
                      AppendText(@, CutLine(op[p], n), n)]
    /\ Unlock(p)
    /\ Goto(p, "idle")
    /\ UNCHANGED <<manifest, op, mem, cache, acked, started>>

\* The process dies and is started again; the kernel drops its flock.
Crash(p) ==
    /\ Fault
    /\ Unlock(p)
    /\ Goto(p, "idle")
    /\ cache' = [cache EXCEPT ![p] = {}]
    /\ UNCHANGED <<disk, op, mem, acked, started>>

-----------------------------------------------------------------------------
Proceed(p) ==
    \/ ReadLastHash(p) \/ LockBusy(p) \/ Acquire(p) \/ LoadManifest(p)
    \/ InitManifest(p) \/ WriteLine(p) \/ Rotate(p) \/ CommitManifest(p)
    \/ Finish(p)

Next == \E p \in Procs :
    \/ Begin(p)
    \/ Proceed(p)
    \/ \E id \in Id : Find(p, id)
    \/ IOError(p)
    \/ ShortWrite(p)
    \/ Crash(p)

Spec == Init /\ [][Next]_vars

\* A started call runs to its end; nobody is obliged to call or to crash.
FairSpec == Spec /\ \A p \in Procs : WF_vars(Proceed(p))

-----------------------------------------------------------------------------
(* Properties.                                                              *)

\* The flock excludes: exactly its holder is between Acquire and Release.
LockInv == \A p \in Procs : pc[p] \in Locked <=> lock = p

Whole == \A i \in 1..Len(Log) : Log[i].ok /\ Log[i].nl

\* A report for a recorded prescription may fail, but is never answered with
\* "not found" (which lifecycle records as an unprescribed action), by any
\* process, even when a line before it became unreadable.
FindSeesAcked ==
    LockFree => \A p \in Procs, id \in acked : FindEntryByID(p, id) # "not_found"

Breaks == {i \in 1..Len(Log) :
              Log[i].prev # IF i = 1 THEN NoHash ELSE Log[i - 1].id}

\* A lone strict writer breaks the chain at most once per fault: the entry
\* after a line whose manifest update was lost.
OneBreakPerFault == Whole => Cardinality(Breaks) <= faults

\* "append-only JSONL evidence store with hash-linked chain validation":
\* ValidateChainAtPath accepts the store, whoever records.
ChainValid == ValidateChain

Sealed == IF manifest = NoManifest THEN {} ELSE manifest.sealed

\* A sealed segment stays sealed and is never written again.
SealedImmutable ==
    [][\A i \in Sealed : i \in Sealed' /\ segs'[i] = segs[i]]_vars

\* Complete lines are never rewritten or removed, and nothing is inserted
\* before an existing line in reading order, not even after a crash in the
\* middle of a rotation.
AppendOnly ==
    [][\A i \in 1..Len(segs) :
          /\ i <= Len(segs')
          /\ \A k \in 1..Len(segs[i].lines) :
                segs[i].lines[k].nl =>
                    /\ k <= Len(segs'[i].lines)
                    /\ segs'[i].lines[k] = segs[i].lines[k]
          /\ segs'[i] # segs[i] =>
                \A j \in (i + 1)..Len(segs) : segs[j].lines = <<>>]_vars

\* The lock never stays taken, whoever crashed or failed while holding it.
LockReleased == (lock # NoProc) ~> (lock = NoProc)

\* The inductive strengthening of the invariants above that holds under all
\* faults: where a process is in appendEntryUnlocked, its copy of the manifest
\* is related to the file, and no segment after the current one has a line.
OpsStarted == \A p \in Procs : pc[p] # "idle" => op[p].id \in Id

EmptyAfter(n) == \A i \in 1..Len(segs) : i > n => segs[i].lines = <<>>

ManifestShape ==
    IF manifest = NoManifest THEN EmptyAfter(0)
    ELSE /\ manifest.current \in 1..Len(segs)
         /\ \A i \in manifest.sealed : i \in 1..(manifest.current - 1)
         /\ EmptyAfter(manifest.current)

CommitShape(p) ==
    /\ manifest # NoManifest
    /\ mem[p].current \in manifest.current..Len(segs)
    /\ manifest.sealed \subseteq mem[p].sealed
    /\ \A i \in mem[p].sealed : i \in 1..(mem[p].current - 1)
    /\ EmptyAfter(mem[p].current)

WriterShape == \A p \in Procs :
    /\ pc[p] = "init" => /\ manifest = NoManifest
                          /\ mem[p] = FreshManifest
                          /\ segs # <<>>
    /\ pc[p] \in {"write", "stat"} => manifest # NoManifest /\ mem[p] = manifest
    /\ pc[p] = "commit" => CommitShape(p)

IInv == TypeOK /\ LockInv /\ OpsStarted /\ ManifestShape /\ WriterShape

AbsLog == [i \in 1..Len(Log) |-> [id |-> Log[i].id, prev |-> Log[i].prev]]
Abstract == INSTANCE AppendLog WITH log <- AbsLog

\* Where lines are written whole, the store implements the append-only log,
\* whoever crashes or fails at whatever step of appendEntryUnlocked.
ImplementsAppendLog == Abstract!Spec
=============================================================================
