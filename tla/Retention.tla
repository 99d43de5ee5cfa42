------------------------------- MODULE Retention -------------------------------
(***************************************************************************)
(* The file of an invoice and the row that names it.  Uploads of one PDF   *)
(* by one owner meet on one row (unique by owner and file hash); the user  *)
(* may delete a resting invoice; a timer sweeps what was marked or has     *)
(* expired.  PostgreSQL and the storage directory share no transaction, so *)
(* every operation is a sequence of steps that others, a failing call or   *)
(* the death of the process may separate.                                  *)
(*                                                                         *)
(* What the stages do to the row is abstracted to the edges of the state   *)
(* machine, the ones StagePipeline implements (LifecyclePromise); a job of *)
(* an older lifecycle is harmless there and is not kept here.              *)
(***************************************************************************)
EXTENDS Lifecycle, Integers, FiniteSets

CONSTANTS Uploaders, Deleters,  \* HTTP requests in flight at a time
          MaxKey,               \* bound on storage keys, one per lifecycle
          MaxMishaps            \* bound on failing calls and process deaths

ASSUME RetentionAssumption == MaxKey \in Nat \ {0} /\ MaxMishaps \in Nat

VARIABLES row,      \* the row of (owner, hash): id 0 when there is none
          expired,  \* the keys whose expiresAt has passed
          lastKey,  \* the last random key handed out
          files,    \* the keys with a file in the storage directory
          markers,  \* PendingStorageDeletion
          late,     \* history: keys saved when their row no longer lived
          upload, deletion, sweep,   \* where each operation is
          up, mishaps

data == <<row, expired, lastKey, files, markers, late>>
vars == <<data, upload, deletion, sweep, up, mishaps>>

-------------------------------------------------------------------------------
Keys == 1 .. MaxKey

(* What storage and retention tell apart in a status, and the moves that   *)
(* the edges of the state machine make between them.                       *)
Phase == {"UPLOADED", "EXTRACTING_TEXT", "busy", "resting"}

PhaseOf(s) == CASE s \in InFlight("text-extraction") -> s
                [] s \in Resting -> "resting"
                [] OTHER -> "busy"

PhaseEdges == {<<PhaseOf(e[1]), PhaseOf(e[2])>> :
                   e \in LegalTransitions \cup ExhaustionEdges}

(* queued: the text-extraction queue holds a job of this lifecycle.        *)
Row == [id : 0 .. MaxKey, key : 0 .. MaxKey, phase : Phase, queued : BOOLEAN]

Uploaded(id, key) ==
    [id |-> id, key |-> key, phase |-> "UPLOADED", queued |-> FALSE]

NoRow == Uploaded(0, 0)

Upload == [pc : {"idle", "find", "erase", "renew", "save", "enqueue"},
           id : 0 .. MaxKey, key : 0 .. MaxKey]

Deletion == [pc : {"idle", "commit", "erase", "clear"}, key : 0 .. MaxKey]

Sweep == [pc : {"idle", "markers", "clear", "erase", "delete"},
          todo : SUBSET Keys,   \* the markers of this sweep still to process
          key : 0 .. MaxKey]    \* the file being erased

NoUpload == [pc |-> "idle", id |-> 0, key |-> 0]
NoDeletion == [pc |-> "idle", key |-> 0]
NoSweep == [pc |-> "idle", todo |-> {}, key |-> 0]

HasRow(k) == row.id # 0 /\ row.key = k

Live(k) == HasRow(k) /\ k \notin expired

Expired == row.id # 0 /\ row.key \in expired

RetentionTypeOK ==
    /\ row \in Row
    /\ expired \subseteq Keys /\ files \subseteq Keys
    /\ markers \subseteq Keys /\ late \subseteq Keys
    /\ lastKey \in 0 .. MaxKey
    /\ upload \in [Uploaders -> Upload]
    /\ deletion \in [Deleters -> Deletion]
    /\ sweep \in Sweep
    /\ up \in BOOLEAN
    /\ mishaps \in 0 .. MaxMishaps

Init ==
    /\ row = NoRow
    /\ expired = {} /\ lastKey = 0
    /\ files = {} /\ markers = {} /\ late = {}
    /\ upload = [u \in Uploaders |-> NoUpload]
    /\ deletion = [d \in Deleters |-> NoDeletion]
    /\ sweep = NoSweep
    /\ up = TRUE
    /\ mishaps = 0

Fault == mishaps < MaxMishaps /\ mishaps' = mishaps + 1

-------------------------------------------------------------------------------
(* POST /invoices.                                                         *)

At(u, pc) == up /\ upload[u].pc = pc

Goto(u, pc) == upload' = [upload EXCEPT ![u].pc = pc]

(* The request is answered, or goes round findOrCreateInvoice once more:   *)
(* a round is a request of its own.                                        *)
EndUpload(u) == upload' = [upload EXCEPT ![u] = NoUpload]

Save(u, k) == upload' = [upload EXCEPT ![u] = [pc |-> "save", id |-> 0, key |-> k]]

(* The unique (owner, hash) lets one request create the row.               *)
Create(u) ==
    /\ At(u, "idle")
    /\ \/ /\ row.id = 0
          /\ lastKey < MaxKey
          /\ lastKey' = lastKey + 1
          /\ row' = Uploaded(lastKey', lastKey')
          /\ Save(u, lastKey')
       \/ row.id # 0 /\ Goto(u, "find") /\ UNCHANGED <<row, lastKey>>
    /\ UNCHANGED <<expired, files, markers, late, deletion, sweep, up, mishaps>>

(* A live row is returned as it is, unless its file may still be missing.  *)
Find(u) ==
    /\ At(u, "find")
    /\ \/ row.id = 0 /\ EndUpload(u)
       \/ Live(row.key) /\ row.phase # "UPLOADED" /\ EndUpload(u)
       \/ Live(row.key) /\ row.phase = "UPLOADED" /\ Save(u, row.key)
       \/ /\ Expired
          /\ upload' = [upload EXCEPT ![u] =
                            [pc |-> "erase", id |-> row.id, key |-> row.key]]
    /\ UNCHANGED <<data, deletion, sweep, up, mishaps>>

EraseExpired(u) ==
    /\ At(u, "erase")
    /\ \/ /\ files' = files \ {upload[u].key}
          /\ Goto(u, "renew")
          /\ UNCHANGED mishaps
       \/ Fault /\ EndUpload(u) /\ UNCHANGED files
    /\ UNCHANGED <<row, expired, lastKey, markers, late, deletion, sweep, up>>

(* resurrect: the conditional update of the row, with its children.        *)
Renew(u) ==
    /\ At(u, "renew")
    /\ \/ /\ Expired /\ row.id = upload[u].id
          /\ lastKey < MaxKey
          /\ lastKey' = lastKey + 1
          /\ row' = Uploaded(row.id, lastKey')
          /\ Save(u, lastKey')
       \/ /\ ~(Expired /\ row.id = upload[u].id)
          /\ EndUpload(u)
          /\ UNCHANGED <<row, lastKey>>
    /\ UNCHANGED <<expired, files, markers, late, deletion, sweep, up, mishaps>>

(* The bytes go to a temporary file that is renamed to its key, so a save  *)
(* that fails leaves the file of that key as it was.                       *)
SaveFile(u) ==
    /\ At(u, "save")
    /\ \/ /\ files' = files \cup {upload[u].key}
          /\ late' = IF Live(upload[u].key) THEN late
                     ELSE late \cup {upload[u].key}
          /\ Goto(u, "enqueue")
          /\ UNCHANGED mishaps
       \/ Fault /\ EndUpload(u) /\ UNCHANGED <<files, late>>
    /\ UNCHANGED <<row, expired, lastKey, markers, deletion, sweep, up>>

Enqueue(u) ==
    /\ At(u, "enqueue")
    /\ \/ /\ row' = [row EXCEPT !.queued = @ \/ HasRow(upload[u].key)]
          /\ UNCHANGED mishaps
       \/ Fault /\ UNCHANGED row
    /\ EndUpload(u)
    /\ UNCHANGED <<expired, lastKey, files, markers, late, deletion, sweep, up>>

-------------------------------------------------------------------------------
(* The text stage starts from a job; the rest is the state machine's.      *)
Advance ==
    /\ up
    /\ Live(row.key)
    /\ row.phase = "UPLOADED" => row.queued
    /\ \E p \in Phase :
          /\ <<row.phase, p>> \in PhaseEdges
          /\ row' = [row EXCEPT !.phase = p, !.queued = (p = "EXTRACTING_TEXT")]
    /\ UNCHANGED <<expired, lastKey, files, markers, late,
                   upload, deletion, sweep, up, mishaps>>

(* RETENTION_HOURS after its creation.  Hours outlast the two calls of a   *)
(* resurrection: none that found an earlier key is still under way.        *)
Expire ==
    /\ Live(row.key)
    /\ \A u \in Uploaders : upload[u].pc \notin {"erase", "renew"}
    /\ expired' = expired \cup {row.key}
    /\ UNCHANGED <<row, lastKey, files, markers, late,
                   upload, deletion, sweep, up, mishaps>>

-------------------------------------------------------------------------------
(* DELETE /invoices/:id.                                                   *)

AtDeletion(d, pc) == up /\ deletion[d].pc = pc

EndDeletion(d) == deletion' = [deletion EXCEPT ![d] = NoDeletion]

RequestDeletion(d) ==
    /\ AtDeletion(d, "idle")
    /\ Live(row.key)
    /\ row.phase = "resting"
    /\ deletion' = [deletion EXCEPT ![d] = [pc |-> "commit", key |-> row.key]]
    /\ UNCHANGED <<data, upload, sweep, up, mishaps>>

Deletable(d) == HasRow(deletion[d].key) /\ row.phase = "resting"

(* A bug: the marker is kept when the conditional deletion misses the row. *)
MarkRegardless(d) ==
    /\ AtDeletion(d, "commit")
    /\ markers' = markers \cup {deletion[d].key}
    /\ \/ /\ Deletable(d)
          /\ row' = NoRow
          /\ deletion' = [deletion EXCEPT ![d].pc = "erase"]
       \/ ~Deletable(d) /\ EndDeletion(d) /\ UNCHANGED row
    /\ UNCHANGED <<expired, lastKey, files, late, upload, sweep, up, mishaps>>

(* One transaction: the marker and the row, or neither.  It conflicts when *)
(* the key or the status has changed, or the marker is there already; the  *)
(* resting statuses are one phase here, so that it may always conflict.    *)
CommitDeletion(d) ==
    /\ AtDeletion(d, "commit")
    /\ \/ /\ Deletable(d)
          /\ deletion[d].key \notin markers
          /\ markers' = markers \cup {deletion[d].key}
          /\ row' = NoRow
          /\ deletion' = [deletion EXCEPT ![d].pc = "erase"]
       \/ EndDeletion(d) /\ UNCHANGED <<markers, row>>
    /\ UNCHANGED <<expired, lastKey, files, late, upload, sweep, up, mishaps>>

EraseDeleted(d) ==
    /\ AtDeletion(d, "erase")
    /\ \/ /\ files' = files \ {deletion[d].key}
          /\ deletion' = [deletion EXCEPT ![d].pc = "clear"]
          /\ UNCHANGED mishaps
       \/ Fault /\ EndDeletion(d) /\ UNCHANGED files
    /\ UNCHANGED <<row, expired, lastKey, markers, late, upload, sweep, up>>

ClearMarker(d) ==
    /\ AtDeletion(d, "clear")
    /\ \/ markers' = markers \ {deletion[d].key} /\ UNCHANGED mishaps
       \/ Fault /\ UNCHANGED markers
    /\ EndDeletion(d)
    /\ UNCHANGED <<row, expired, lastKey, files, late, upload, sweep, up>>

-------------------------------------------------------------------------------
(* The cleanup timer.                                                      *)

AtSweep(pc) == up /\ sweep.pc = pc

(* isRunning: a tick during a sweep does nothing.                          *)
Tick ==
    /\ AtSweep("idle")
    /\ sweep' = [pc |-> "markers", todo |-> markers, key |-> 0]
    /\ UNCHANGED <<data, upload, deletion, up, mishaps>>

(* A query that fails ends the sweep; "finally" lets the next one run.     *)
SweepFails ==
    /\ AtSweep("markers")
    /\ Fault
    /\ sweep' = NoSweep
    /\ UNCHANGED <<data, upload, deletion, up>>

EraseMarked ==
    /\ AtSweep("markers")
    /\ \E k \in sweep.todo :
          \/ /\ files' = files \ {k}
             /\ sweep' = [sweep EXCEPT !.pc = "clear", !.key = k]
             /\ UNCHANGED mishaps
          \/ /\ Fault
             /\ sweep' = [sweep EXCEPT !.todo = @ \ {k}]
             /\ UNCHANGED files
    /\ UNCHANGED <<row, expired, lastKey, markers, late, upload, deletion, up>>

ClearMarked ==
    /\ AtSweep("clear")
    /\ \/ markers' = markers \ {sweep.key} /\ UNCHANGED mishaps
       \/ Fault /\ UNCHANGED markers
    /\ sweep' = [pc |-> "markers", todo |-> sweep.todo \ {sweep.key}, key |-> 0]
    /\ UNCHANGED <<row, expired, lastKey, files, late, upload, deletion, up>>

(* The snapshot of the expired row.                                        *)
FindExpired ==
    /\ AtSweep("markers")
    /\ sweep.todo = {}
    /\ sweep' = IF Expired THEN [pc |-> "erase", todo |-> {}, key |-> row.key]
                           ELSE NoSweep
    /\ UNCHANGED <<data, upload, deletion, up, mishaps>>

(* A bug: the row is deleted before its file.                              *)
DeleteRowFirst ==
    /\ AtSweep("erase")
    /\ \/ /\ row' = IF HasRow(sweep.key) THEN NoRow ELSE row
          /\ sweep' = [sweep EXCEPT !.pc = "delete"]
          /\ UNCHANGED mishaps
       \/ Fault /\ sweep' = NoSweep /\ UNCHANGED row
    /\ UNCHANGED <<expired, lastKey, files, markers, late, upload, deletion, up>>

EraseSwept ==
    /\ AtSweep("erase")
    /\ \/ /\ files' = files \ {sweep.key}
          /\ sweep' = [sweep EXCEPT !.pc = "delete"]
          /\ UNCHANGED mishaps
       \/ Fault /\ sweep' = NoSweep /\ UNCHANGED files
    /\ UNCHANGED <<row, expired, lastKey, markers, late, upload, deletion, up>>

(* A bug: the row is deleted by its id alone.                              *)
DeleteById ==
    /\ AtSweep("delete")
    /\ row' = NoRow
    /\ sweep' = NoSweep
    /\ UNCHANGED <<expired, lastKey, files, markers, late,
                   upload, deletion, up, mishaps>>

(* A bug: an invoice at work is left for a later sweep.                     *)
DeleteResting ==
    /\ AtSweep("delete")
    /\ row' = IF HasRow(sweep.key) /\ row.phase = "resting" THEN NoRow ELSE row
    /\ sweep' = NoSweep
    /\ UNCHANGED <<expired, lastKey, files, markers, late,
                   upload, deletion, up, mishaps>>

(* The key of the snapshot; its expiresAt never changes.                   *)
DeleteSwept ==
    /\ AtSweep("delete")
    /\ \/ row' = (IF HasRow(sweep.key) THEN NoRow ELSE row) /\ UNCHANGED mishaps
       \/ Fault /\ UNCHANGED row
    /\ sweep' = NoSweep
    /\ UNCHANGED <<expired, lastKey, files, markers, late, upload, deletion, up>>

-------------------------------------------------------------------------------
(* The process dies and is started again.                                  *)
Crash ==
    /\ up
    /\ Fault
    /\ up' = FALSE
    /\ upload' = [u \in Uploaders |-> NoUpload]
    /\ deletion' = [d \in Deleters |-> NoDeletion]
    /\ sweep' = NoSweep
    /\ UNCHANGED data

(* A bug: the text stage is requeued whether or not there is a file.       *)
RestartBlindly ==
    /\ ~up
    /\ up' = TRUE
    /\ row' = [row EXCEPT !.queued = @ \/ Live(row.key)]
    /\ UNCHANGED <<expired, lastKey, files, markers, late,
                   upload, deletion, sweep, mishaps>>

(* An UPLOADED row without its file waits for the next upload.             *)
Restart ==
    /\ ~up
    /\ up' = TRUE
    /\ row' = [row EXCEPT !.queued = @ \/
                  /\ Live(row.key)
                  /\ row.phase \in InFlight("text-extraction")
                  /\ row.phase = "UPLOADED" => row.key \in files]
    /\ UNCHANGED <<expired, lastKey, files, markers, late,
                   upload, deletion, sweep, mishaps>>

UploadStep(u) == \/ Create(u) \/ Find(u) \/ EraseExpired(u) \/ Renew(u)
                 \/ SaveFile(u) \/ Enqueue(u)

DeletionStep(d) == CommitDeletion(d) \/ EraseDeleted(d) \/ ClearMarker(d)

SweepStep == \/ Tick \/ EraseMarked \/ ClearMarked \/ FindExpired
             \/ EraseSwept \/ DeleteSwept

Next ==
    \/ \E u \in Uploaders : UploadStep(u)
    \/ \E d \in Deleters : RequestDeletion(d) \/ DeletionStep(d)
    \/ Advance \/ Expire
    \/ SweepStep \/ SweepFails
    \/ Crash \/ Restart

Spec == Init /\ [][Next]_vars

(* The timer keeps firing and a dead process is started again; nobody has  *)
(* to upload, delete or process anything.                                  *)
FairSpec == Spec /\ WF_vars(SweepStep) /\ WF_vars(Restart)

-------------------------------------------------------------------------------
(* An invoice that has left UPLOADED, and any job that could take it out   *)
(* of it, has its file for as long as it lives: no sweep, deletion or      *)
(* resurrection working from an older snapshot, no second upload and no    *)
(* restart takes it away (getSourceDocument, TextExtractionProcessor).     *)
SourceKept ==
    Live(row.key) /\ (row.phase # "UPLOADED" \/ row.queued)
        => row.key \in files

(* A file that no row names is marked for deletion, whatever failed or     *)
(* died half-way: the file goes before the row in a sweep and before the   *)
(* new key in a resurrection, the marker comes with the deletion.  The one *)
(* exception is a file saved after its invoice had gone (finding).         *)
FilesAreOwned == \A k \in files \ late : HasRow(k) \/ k \in markers

(* What the documents say of an invoice the user deletes before it expires:*)
(* its file has its row, then its marker until it is erased, and is never  *)
(* left behind.                                                            *)
DeletedFilesAreErased == \A k \in files \ expired : HasRow(k) \/ k \in markers

(* A file is marked only when its invoice is gone, so that the sweep never *)
(* erases the file of an invoice the user still has: a deletion that loses *)
(* its row to a correction, a retry or another deletion marks nothing.     *)
MarkedIsGone == \A k \in markers : ~HasRow(k)

(* No sweep, resurrection or deletion removes or re-keys an invoice that   *)
(* is alive and at work, however old the snapshot it acts on.              *)
SparesTheLiving ==
    [][\A k \in Keys : HasRow(k) /\ ~HasRow(k)' =>
           k \in expired \/ row.phase = "resting"]_vars

(* What has expired or was marked is erased, row, file and marker, despite *)
(* failing calls and crashes: cleanup runs again and again (CleanupService)*)
EventuallyErased ==
    \A k \in Keys : (HasRow(k) /\ k \in expired) \/ k \in markers
        ~> ~HasRow(k) /\ k \notin markers /\ k \notin files \ late
===============================================================================
