----------------------------- MODULE RecordSlot -----------------------------
(***************************************************************************)
(* Discovery records: RecordSlot and publish_record_with of                *)
(* src/publication.rs, and the open of a record that is being replaced,    *)
(* src/publication/windows.rs.                                             *)
(*                                                                         *)
(* Each publisher has contents of its own.  What a conditional operation   *)
(* accepts is one record, or none.  Windows is false for a file system     *)
(* whose rename replaces a name in one step; where it is true, the name is *)
(* missing while a rename goes on and an open may be refused.              *)
(*                                                                         *)
(* External: the slot lock, and the disk.  `disk` holds every state of the *)
(* name that a power loss may leave; contents that were never synced are   *)
(* torn by one.                                                            *)
(***************************************************************************)
EXTENDS Integers

CONSTANTS
    Publishers,     \* processes that publish; each is also its contents
    Readers,        \* calls of read()
    DeniedRetries,  \* DENIED_RETRIES
    MaxOps,         \* bound: operations begun
    MaxLosses       \* bound: crashes and power losses

Missing == "missing"
Torn == "torn"
Records == Publishers \union {Missing}
Ops == {"replace", "repair", "replace_if", "remove_if_matches", "remove_if"}

VARIABLES
    windows,
    record,         \* what the name holds
    renaming,       \* the publisher whose rename is in progress, if any
    disk,
    promised,       \* the record a durable publication has returned Ok for
    slot_lock,
    op,             \* operation of each publisher: kind, durable, accepts
    step,           \* where each publisher is
    seen,           \* the record its comparison read
    leftover,       \* a recent temporary file of a crash is in the directory
    reader,         \* calls of read(): see ReadStart
    ops, losses

vars == <<windows, record, renaming, disk, promised, slot_lock, op, step, seen,
          leftover, reader, ops, losses>>

Idle == [kind |-> "replace", durable |-> FALSE, accepts |-> Missing]
ReadCall(at, gone) ==
    [at |-> at, denied |-> 0, rechecked |-> FALSE, gone |-> gone, renames |-> 0,
     misled |-> FALSE]
Reading == ReadCall("done", FALSE)

Init ==
    /\ windows \in BOOLEAN
    /\ record = Missing /\ disk = {Missing} /\ promised = Missing
    /\ renaming = {}
    /\ slot_lock = {}
    /\ op = [p \in Publishers |-> Idle]
    /\ step = [p \in Publishers |-> "idle"]
    /\ seen = [p \in Publishers |-> Missing]
    /\ leftover = FALSE
    /\ reader = [r \in Readers |-> Reading]
    /\ ops = 0 /\ losses = 0

Go(p, to) == step' = [step EXCEPT ![p] = to]
Publishing == {"writing", "syncing", "renaming", "flushing"}

\* The end of an operation: Temporary and the slot lock are dropped.
Finish(p) ==
    /\ Go(p, "idle")
    /\ slot_lock' = {}
    /\ op' = [op EXCEPT ![p] = Idle]
    /\ seen' = [seen EXCEPT ![p] = Missing]

-----------------------------------------------------------------------------
(* RecordSlot.                                                             *)

\* lock(): acquire_until two seconds from now; a holder may outlast them, and
\* the operation is TimedOut.
Lock(p) ==
    /\ step[p] = "idle" /\ ops < MaxOps
    /\ slot_lock = {}
    /\ slot_lock' = {p}
    /\ \E kind \in Ops, durable \in BOOLEAN, accepts \in Records :
          /\ kind \notin {"replace_if", "remove_if"} => accepts = Missing
          /\ op' = [op EXCEPT ![p] = [kind |-> kind, durable |-> durable, accepts |-> accepts]]
    /\ Go(p, "comparing")
    /\ ops' = ops + 1
    /\ UNCHANGED <<windows, record, renaming, disk, promised, seen, leftover, reader, losses>>

\* What the operation does to the record it has read.
Decision(o, p, current) ==
    CASE o.kind = "replace" -> "writing"
      [] o.kind = "repair" -> IF current = p THEN "idle" ELSE "writing"
      [] o.kind = "replace_if" -> IF current = o.accepts THEN "writing" ELSE "idle"
      [] o.kind = "remove_if_matches" -> IF current = p THEN "removing" ELSE "idle"
      [] o.kind = "remove_if" ->
           IF current # Missing /\ current = o.accepts THEN "removing" ELSE "idle"

\* Fault: the lock is released once the record has been compared.
CompareUnlocked(p) ==
    /\ step[p] = "comparing"
    /\ seen' = [seen EXCEPT ![p] = record]
    /\ Go(p, Decision(op[p], p, record))
    /\ slot_lock' = {}
    /\ UNCHANGED <<windows, record, renaming, disk, promised, op, leftover, reader, ops, losses>>

\* The record is read and compared under the lock; read_regular and matches.
Compare(p) ==
    /\ step[p] = "comparing"
    /\ IF Decision(op[p], p, record) = "idle" THEN Finish(p)
       ELSE /\ Go(p, Decision(op[p], p, record))
            /\ seen' = [seen EXCEPT ![p] = record]
            /\ UNCHANGED <<slot_lock, op>>
    /\ UNCHANGED <<windows, record, renaming, disk, promised, leftover, reader, ops, losses>>

\* remove_file
Remove(p) ==
    /\ step[p] = "removing"
    /\ record' = Missing
    /\ disk' = disk \union {Missing}
    /\ promised' = Missing
    /\ Finish(p)
    /\ UNCHANGED <<windows, renaming, leftover, reader, ops, losses>>

-----------------------------------------------------------------------------
(* publish_record_with and replace.                                        *)

\* A new temporary file is created, given its mode and written.
Write(p) ==
    /\ step[p] = "writing"
    /\ Go(p, "syncing")
    /\ UNCHANGED <<windows, record, renaming, disk, promised, slot_lock, op, seen, leftover,
                   reader, ops, losses>>

\* Fault: the contents are not synced before the rename.
SyncedNever(p) == {p, Torn}

\* What a power loss leaves of the contents: sync_all has returned.
Synced(p) == {p}

\* sync_all, then the rename begins.
Rename(p) ==
    /\ step[p] = "syncing"
    /\ Go(p, "renaming")
    /\ renaming' = {p}
    /\ UNCHANGED <<windows, record, disk, promised, slot_lock, op, seen, leftover, reader, ops,
                   losses>>

\* Each call of read() knows how many renames ended during it.
CountRename ==
    reader' = [r \in Readers |->
        IF reader[r].at = "done" THEN reader[r]
        ELSE [reader[r] EXCEPT !.renames = IF @ < 2 THEN @ + 1 ELSE @]]

\* Any step up to the rename may fail; Temporary removes its file.
Fail(p) ==
    /\ step[p] \in {"comparing", "removing", "writing", "syncing", "renaming"}
    /\ Finish(p)
    /\ renaming' = renaming \ {p}
    /\ IF step[p] = "renaming" THEN CountRename ELSE UNCHANGED reader
    /\ UNCHANGED <<windows, record, disk, promised, leftover, ops, losses>>

\* The rename is done; without `durable` the publication returns.
Renamed(p) ==
    /\ step[p] = "renaming"
    /\ renaming' = {}
    /\ record' = p
    /\ disk' = disk \union Synced(p)
    /\ promised' = Missing
    /\ IF op[p].durable THEN Go(p, "flushing") /\ UNCHANGED <<slot_lock, op, seen>> ELSE Finish(p)
    /\ CountRename
    /\ UNCHANGED <<windows, leftover, ops, losses>>

\* The directory sync (Unix) or the flush of the renamed file (Windows): it
\* works and the publication is Ok, or it fails with the record in place.
Flush(p) ==
    /\ step[p] = "flushing"
    /\ \E works \in BOOLEAN :
          /\ disk' = IF works THEN {record} ELSE disk
          /\ promised' = IF works THEN record ELSE promised
    /\ Finish(p)
    /\ UNCHANGED <<windows, record, renaming, leftover, reader, ops, losses>>

-----------------------------------------------------------------------------
(* Crashes.                                                                *)

\* A publisher dies; the kernel releases its lock, its temporary file stays.
Crash(p) ==
    /\ step[p] # "idle" /\ losses < MaxLosses
    /\ Finish(p)
    /\ losses' = losses + 1
    /\ leftover' = (leftover \/ step[p] \in {"syncing", "renaming"})
    /\ renaming' = renaming \ {p}
    /\ IF step[p] = "renaming" THEN CountRename ELSE UNCHANGED reader
    /\ UNCHANGED <<windows, record, disk, promised, ops>>

\* The machine loses power and starts again.
PowerLoss ==
    /\ losses < MaxLosses
    /\ losses' = losses + 1
    /\ record' \in disk
    /\ disk' = {record'}
    /\ step' = [p \in Publishers |-> "idle"]
    /\ op' = [p \in Publishers |-> Idle]
    /\ seen' = [p \in Publishers |-> Missing]
    /\ slot_lock' = {} /\ renaming' = {}
    /\ reader' = [r \in Readers |-> Reading]
    /\ UNCHANGED <<windows, promised, leftover, ops>>

\* FRESH has passed since the crash.
Stale == leftover /\ leftover' = FALSE /\ UNCHANGED
    <<windows, record, renaming, disk, promised, slot_lock, op, step, seen, reader, ops, losses>>

-----------------------------------------------------------------------------
(* RecordSlot::read, without the lock; open_record and retry_open.         *)

Exists == record # Missing /\ (windows => renaming = {})

\* The temporary file of a publication is in the directory.
InProgress == \E p \in Publishers : step[p] \in {"syncing", "renaming"}

TemporaryPresent == leftover \/ InProgress

\* The answers of publishing(): a temporary file shows unless it was created
\* FRESH or longer ago, the clock was set back since, or the directory cannot be
\* read.
Shown == {FALSE, TemporaryPresent}

ReadStart(r) ==
    /\ reader[r].at = "done"
    /\ reader' = [reader EXCEPT ![r] = ReadCall("open", record = Missing)]
    /\ UNCHANGED <<windows, record, renaming, disk, promised, slot_lock, op, step, seen,
                   leftover, ops, losses>>

\* The open succeeds, is refused in a race with a rename, or finds no name.
Open(r) ==
    /\ reader[r].at = "open"
    /\ LET now == [reader[r] EXCEPT !.gone = @ \/ record = Missing]
       IN  reader' = [reader EXCEPT ![r] =
             IF Exists THEN Reading
             ELSE IF windows THEN [now EXCEPT !.at = "missing"] ELSE [now EXCEPT !.at = "none"]]
    /\ UNCHANGED <<windows, record, renaming, disk, promised, slot_lock, op, step, seen,
                   leftover, ops, losses>>

\* ERROR_ACCESS_DENIED is retried at once a few times, then returned.
Denied(r) ==
    /\ reader[r].at = "open" /\ windows /\ renaming # {}
    /\ reader' = [reader EXCEPT ![r] =
          IF @.denied < DeniedRetries THEN [@ EXCEPT !.denied = reader[r].denied + 1]
          ELSE [@ EXCEPT !.at = "denied"]]
    /\ UNCHANGED <<windows, record, renaming, disk, promised, slot_lock, op, step, seen,
                   leftover, ops, losses>>

\* Fault: without a temporary file the first answer stands.
RecheckedAtOnce(r) == TRUE

\* Without a temporary file the record is opened once more.
Rechecked(r) == reader[r].rechecked

\* No name: wait while a publication shows, else look once more.  A call that
\* overlooks a publication in progress is misled.
AfterMissing(r) ==
    /\ reader[r].at = "missing"
    /\ \E shown \in Shown :
          reader' = [reader EXCEPT ![r] =
             IF shown THEN [@ EXCEPT !.at = "waiting", !.rechecked = FALSE]
             ELSE [@ EXCEPT !.at = IF Rechecked(r) THEN "none" ELSE "open",
                            !.rechecked = TRUE,
                            !.misled = reader[r].misled \/ InProgress]]
    /\ UNCHANGED <<windows, record, renaming, disk, promised, slot_lock, op, step, seen,
                   leftover, ops, losses>>

\* backoff::poll: the pause ends before the deadline, or at it.
Paused(r) ==
    /\ reader[r].at = "waiting"
    /\ \E late \in BOOLEAN : reader' = [reader EXCEPT ![r].at = IF late THEN "late" ELSE "open"]
    /\ UNCHANGED <<windows, record, renaming, disk, promised, slot_lock, op, step, seen,
                   leftover, ops, losses>>

\* The call returns; another may follow.
Returned(r) ==
    /\ reader[r].at \in {"none", "late", "denied"}
    /\ reader' = [reader EXCEPT ![r] = Reading]
    /\ UNCHANGED <<windows, record, renaming, disk, promised, slot_lock, op, step, seen,
                   leftover, ops, losses>>

Publish(p) == Write(p) \/ Fail(p) \/ Rename(p) \/ Renamed(p) \/ Flush(p)

Next ==
    \/ \E p \in Publishers : Lock(p) \/ Compare(p) \/ Remove(p) \/ Publish(p) \/ Crash(p)
    \/ \E r \in Readers : ReadStart(r) \/ Open(r) \/ Denied(r) \/ AfterMissing(r)
                            \/ Paused(r) \/ Returned(r)
    \/ PowerLoss \/ Stale

Spec == Init /\ [][Next]_vars

-----------------------------------------------------------------------------
(* Properties.                                                             *)

\* "A reader reads either the old record or the new one, never part of one",
\* also after a power loss; and a durable publication that returned Ok
\* survives one.
RecordsAreWhole ==
    /\ record # Torn
    /\ promised # Missing => disk = {promised}

\* "A successor's publication cannot race between the comparison and unlink":
\* whatever a conditional operation is about to replace or remove is still the
\* record it compared.
ActsOnWhatItRead ==
    \A p \in Publishers :
        step[p] \in {"writing", "syncing", "renaming", "removing"} => record = seen[p]

\* read() reports no record only if there was none at some moment of the call,
\* or it waited until its deadline, or two replacements went by during it, or it
\* took the temporary file of a publication in progress for an old one.
MissingIsReal ==
    \A r \in Readers :
        reader[r].at = "none" => \/ reader[r].gone
                                 \/ reader[r].renames >= 2
                                 \/ reader[r].misled
=============================================================================
