---------------------------- MODULE RetentionProofs ----------------------------
(***************************************************************************)
(* Retention keeps the files of living invoices and loses track of none,   *)
(* for any number of uploads, deletions, keys and mishaps.  The invariant  *)
(* says what each operation may rely on between its steps; every action    *)
(* has a lemma, with one step for each part of the invariant it can touch. *)
(***************************************************************************)
EXTENDS Retention, TLAPS

(* Every key in use was handed out: nothing has the next one yet.          *)
Bounded ==
    /\ row = NoRow \/ (row.id # 0 /\ row.key \in 1 .. lastKey)
    /\ expired \cup files \cup markers \cup late \cup sweep.todo \subseteq 1 .. lastKey
    /\ \A u \in Uploaders : upload[u].key <= lastKey
    /\ \A d \in Deleters : deletion[d].key <= lastKey
    /\ sweep.key <= lastKey

(* What an upload under way may rely on.  It saves under a key of its own; *)
(* a job is enqueued after its file; a resurrection holds the key of the   *)
(* row it found expired, as long as that row is expired, and has erased    *)
(* its file before it renews the row.                                      *)
UploadsKnow ==
    \A u \in Uploaders :
        /\ upload[u].pc \in {"save", "enqueue"} => upload[u].key # 0
        /\ upload[u].pc = "enqueue" /\ Live(upload[u].key) => upload[u].key \in files
        /\ upload[u].pc \in {"erase", "renew"} =>
               upload[u].key \in expired /\ (Expired => row.key = upload[u].key)
        /\ upload[u].pc = "renew" => upload[u].key \notin files \ late

(* A deletion erases a file when the row has gone, and clears the marker   *)
(* when the file has gone too.                                             *)
DeletionsKnow ==
    \A d \in Deleters :
        /\ deletion[d].pc \in {"erase", "clear"} =>
               deletion[d].key # 0 /\ ~HasRow(deletion[d].key)
        /\ deletion[d].pc = "clear" => deletion[d].key \notin files \ late

(* The sweep works from snapshots: what was marked then has no row, and    *)
(* what had expired then is expired for good.                              *)
SweepKnows ==
    /\ \A k \in sweep.todo : ~HasRow(k)
    /\ sweep.pc = "clear" => ~HasRow(sweep.key) /\ sweep.key \notin files \ late
    /\ sweep.pc \in {"erase", "delete"} => sweep.key \in expired
    /\ sweep.pc = "delete" => sweep.key \notin files \ late

(* The inductive invariant.  SourceKept and FilesAreOwned hold because of  *)
(* what each operation knows between its steps, and are needed for it.     *)
IInv ==
    /\ RetentionTypeOK /\ Bounded
    /\ UploadsKnow /\ DeletionsKnow /\ SweepKnows
    /\ SourceKept /\ FilesAreOwned /\ MarkedIsGone

(* A row that an upload creates or renews is well-typed.                   *)
LEMMA UploadedIsRow == \A id, k \in 0 .. MaxKey : Uploaded(id, k) \in Row
BY DEF Uploaded, Row, Phase

(* A new row has a key that nothing else knows.                            *)
LEMMA CreateKeeps ==
    ASSUME IInv, NEW u \in Uploaders, Create(u)
    PROVE  IInv'
<1>1. RetentionTypeOK'
  <2>1. lastKey' \in 0 .. MaxKey
    BY RetentionAssumption DEF IInv, RetentionTypeOK, Create
  <2>2. row' \in Row
    BY RetentionAssumption, <2>1, UploadedIsRow DEF IInv, RetentionTypeOK, Create
  <2>3. upload' \in [Uploaders -> Upload]
    BY RetentionAssumption DEF IInv, RetentionTypeOK, Row, Upload, Deletion, Sweep,
       Keys, Create, At, Save, Goto
  <2> QED BY <2>1, <2>2, <2>3 DEF IInv, RetentionTypeOK, Create
<1>2. Bounded'
  BY RetentionAssumption DEF IInv, RetentionTypeOK, Bounded, Row, Upload, Deletion,
     Sweep, Keys, NoRow, Uploaded, Create, Save, At, Goto
<1>3. UploadsKnow'
  BY RetentionAssumption DEF IInv, RetentionTypeOK, Bounded, UploadsKnow, Row, Upload,
     Keys, HasRow, Live, Expired, NoRow, Uploaded, Create, Save, At, Goto
<1>4. DeletionsKnow'
  BY RetentionAssumption DEF IInv, RetentionTypeOK, Bounded, UploadsKnow,
     DeletionsKnow, Row, Upload, Deletion, Keys, HasRow, Live, Expired, NoRow,
     Uploaded, Create, Save, At, Goto
<1>5. SweepKnows'
  BY RetentionAssumption DEF IInv, RetentionTypeOK, Bounded, UploadsKnow, SweepKnows,
     Row, Upload, Sweep, Keys, HasRow, Live, Expired, NoRow, Uploaded, Create, Save,
     At, Goto
<1>6. SourceKept'
  BY RetentionAssumption DEF IInv, RetentionTypeOK, SourceKept, Row, Upload, Keys,
     HasRow, Live, Uploaded, Create, Save, At, Goto
<1>7. FilesAreOwned'
  BY RetentionAssumption DEF IInv, RetentionTypeOK, FilesAreOwned, Row, Upload, Keys,
     HasRow, Uploaded, Create, Save, At, Goto
<1>8. MarkedIsGone'
  BY RetentionAssumption DEF IInv, RetentionTypeOK, Bounded, UploadsKnow,
     MarkedIsGone, Row, Upload, Keys, HasRow, Live, Expired, NoRow, Uploaded, Create,
     Save, At, Goto
<1> QED BY <1>1, <1>2, <1>3, <1>4, <1>5, <1>6, <1>7, <1>8 DEF IInv

(* A found row is left alone; a resurrection starts from an expired key.   *)
LEMMA FindKeeps ==
    ASSUME IInv, NEW u \in Uploaders, Find(u)
    PROVE  IInv'
<1>1. RetentionTypeOK'
  BY RetentionAssumption DEF IInv, RetentionTypeOK, Row, Upload, Deletion, Sweep,
     Keys, HasRow, Live, Expired, NoUpload, data, Find, Save, At, EndUpload
<1>2. Bounded'
  BY DEF IInv, RetentionTypeOK, Bounded, UploadsKnow, Row, Upload, Deletion, Sweep,
     Keys, HasRow, Live, Expired, NoRow, Uploaded, NoUpload, data, Find, Save, At,
     EndUpload
<1>3. UploadsKnow'
  BY RetentionAssumption DEF IInv, RetentionTypeOK, Bounded, UploadsKnow, Row, Upload,
     Keys, HasRow, Live, Expired, NoRow, Uploaded, NoUpload, data, Find, Save, At,
     EndUpload
<1>4. DeletionsKnow' /\ SweepKnows' /\ SourceKept' /\ FilesAreOwned' /\ MarkedIsGone'
  BY DEF IInv, DeletionsKnow, SweepKnows, SourceKept, FilesAreOwned, MarkedIsGone,
     HasRow, Live, Expired, data, Find
<1> QED BY <1>1, <1>2, <1>3, <1>4 DEF IInv

(* The file of an expired row goes while the row still names it.           *)
LEMMA EraseExpiredKeeps ==
    ASSUME IInv, NEW u \in Uploaders, EraseExpired(u)
    PROVE  IInv'
<1>1. RetentionTypeOK'
  <2>1. upload' \in [Uploaders -> Upload]
    BY RetentionAssumption DEF IInv, RetentionTypeOK, Row, Upload, Deletion, Sweep,
       Keys, EraseExpired, At, Goto, EndUpload, NoUpload
  <2>2. files' \subseteq Keys
    BY RetentionAssumption DEF IInv, RetentionTypeOK, EraseExpired
  <2>3. mishaps' \in 0 .. MaxMishaps
    BY RetentionAssumption DEF IInv, RetentionTypeOK, EraseExpired, Fault
  <2> QED BY <2>1, <2>2, <2>3 DEF IInv, RetentionTypeOK, EraseExpired
<1>2. Bounded'
  BY RetentionAssumption DEF IInv, RetentionTypeOK, Bounded, Row, Upload, Deletion,
     Sweep, Keys, NoRow, Uploaded, NoUpload, EraseExpired, At, Goto, EndUpload, Fault
<1>3. UploadsKnow'
  BY RetentionAssumption DEF IInv, RetentionTypeOK, UploadsKnow, Row, Upload, Keys,
     HasRow, Live, Expired, NoUpload, EraseExpired, At, Goto, EndUpload, Fault
<1>4. DeletionsKnow'
  BY RetentionAssumption DEF IInv, RetentionTypeOK, DeletionsKnow, Upload, Deletion,
     Keys, HasRow, NoUpload, EraseExpired, At, Goto, EndUpload, Fault
<1>5. SweepKnows'
  BY RetentionAssumption DEF IInv, RetentionTypeOK, SweepKnows, Upload, Sweep, Keys,
     HasRow, NoUpload, EraseExpired, At, Goto, EndUpload, Fault
<1>6. SourceKept'
  BY RetentionAssumption DEF IInv, RetentionTypeOK, UploadsKnow, SourceKept, Row,
     Upload, Keys, HasRow, Live, Expired, NoUpload, EraseExpired, At, Goto, EndUpload,
     Fault
<1>7. FilesAreOwned'
  BY RetentionAssumption DEF IInv, RetentionTypeOK, FilesAreOwned, Upload, Keys,
     HasRow, NoUpload, EraseExpired, At, Goto, EndUpload, Fault
<1>8. MarkedIsGone'
  BY DEF IInv, MarkedIsGone, HasRow, Live, Expired, data, EraseExpired
<1> QED BY <1>1, <1>2, <1>3, <1>4, <1>5, <1>6, <1>7, <1>8 DEF IInv

(* The file of the old key has gone when the row takes a new one.          *)
LEMMA RenewKeeps ==
    ASSUME IInv, NEW u \in Uploaders, Renew(u)
    PROVE  IInv'
<1>1. RetentionTypeOK'
  <2>1. lastKey' \in 0 .. MaxKey
    BY RetentionAssumption DEF IInv, RetentionTypeOK, Renew
  <2>2. row.id \in 0 .. MaxKey
    BY RetentionAssumption DEF IInv, RetentionTypeOK, Row
  <2>3. row' \in Row
    BY RetentionAssumption, <2>1, <2>2, UploadedIsRow DEF IInv, RetentionTypeOK, Renew
  <2>4. upload' \in [Uploaders -> Upload]
    BY RetentionAssumption DEF IInv, RetentionTypeOK, Row, Upload, Deletion, Sweep,
       Keys, Renew, At, Save, EndUpload, NoUpload
  <2> QED BY <2>1, <2>2, <2>3, <2>4 DEF IInv, RetentionTypeOK, Renew
<1>2. Bounded'
  BY RetentionAssumption DEF IInv, RetentionTypeOK, Bounded, Row, Upload, Deletion,
     Sweep, Keys, Expired, NoRow, Uploaded, NoUpload, Renew, At, EndUpload, Save
<1>3. UploadsKnow'
  <2> SUFFICES ASSUME NEW w \in Uploaders
               PROVE  /\ upload'[w].pc \in {"save", "enqueue"} => upload'[w].key # 0
                      /\ upload'[w].pc = "enqueue" /\ Live(upload[w].key)' =>
                             upload'[w].key \in files'
                      /\ upload'[w].pc \in {"erase", "renew"} =>
                             /\ upload'[w].key \in expired'
                             /\ Expired' => row'.key = upload'[w].key
                      /\ upload'[w].pc = "renew" => upload'[w].key \notin files' \ late'
    BY DEF UploadsKnow, Live, HasRow, Expired
  <2>1. CASE w = u
    BY <2>1, RetentionAssumption DEF IInv, RetentionTypeOK, UploadsKnow, Row, Upload,
       Keys, HasRow, Live, Expired, Uploaded, NoUpload, Renew, At, EndUpload, Save
  <2>2. CASE w # u
    BY <2>2, RetentionAssumption DEF IInv, RetentionTypeOK, Bounded, UploadsKnow, Row,
       Upload, Keys, HasRow, Live, Expired, NoRow, Uploaded, NoUpload, Renew, At,
       EndUpload, Save
  <2> QED BY <2>1, <2>2
<1>4. DeletionsKnow'
  BY RetentionAssumption DEF IInv, RetentionTypeOK, Bounded, UploadsKnow,
     DeletionsKnow, Row, Upload, Deletion, Keys, HasRow, Live, Expired, NoRow,
     Uploaded, NoUpload, Renew, At, EndUpload, Save
<1>5. SweepKnows'
  BY RetentionAssumption DEF IInv, RetentionTypeOK, Bounded, UploadsKnow, SweepKnows,
     Row, Upload, Sweep, Keys, HasRow, Live, Expired, NoRow, Uploaded, NoUpload,
     Renew, At, EndUpload, Save
<1>6. SourceKept'
  BY RetentionAssumption DEF IInv, RetentionTypeOK, SourceKept, Row, Upload, Keys,
     HasRow, Live, Expired, Uploaded, NoUpload, Renew, At, EndUpload, Save
<1>7. FilesAreOwned'
  BY RetentionAssumption DEF IInv, RetentionTypeOK, UploadsKnow, FilesAreOwned, Row,
     Upload, Keys, HasRow, Live, Expired, Uploaded, NoUpload, Renew, At, EndUpload,
     Save
<1>8. MarkedIsGone'
  BY RetentionAssumption DEF IInv, RetentionTypeOK, Bounded, UploadsKnow,
     MarkedIsGone, Row, Upload, Keys, HasRow, Live, Expired, NoRow, Uploaded,
     NoUpload, Renew, At, EndUpload, Save
<1> QED BY <1>1, <1>2, <1>3, <1>4, <1>5, <1>6, <1>7, <1>8 DEF IInv

(* A file saved after its row had gone is remembered as late.              *)
LEMMA SaveFileKeeps ==
    ASSUME IInv, NEW u \in Uploaders, SaveFile(u)
    PROVE  IInv'
<1>1. RetentionTypeOK'
  BY RetentionAssumption DEF IInv, RetentionTypeOK, UploadsKnow, Row, Upload,
     Deletion, Sweep, Keys, HasRow, Live, Expired, NoUpload, SaveFile, At, Goto,
     EndUpload, Fault
<1>2. Bounded'
  BY RetentionAssumption DEF IInv, RetentionTypeOK, Bounded, UploadsKnow, Row, Upload,
     Deletion, Sweep, Keys, HasRow, Live, Expired, NoRow, Uploaded, NoUpload,
     SaveFile, At, Goto, EndUpload, Fault
<1>3. UploadsKnow'
  BY RetentionAssumption DEF IInv, RetentionTypeOK, UploadsKnow, Row, Upload, Keys,
     HasRow, Live, Expired, NoUpload, SaveFile, At, Goto, EndUpload, Fault
<1>4. DeletionsKnow'
  BY RetentionAssumption DEF IInv, RetentionTypeOK, DeletionsKnow, Upload, Deletion,
     Keys, HasRow, Live, NoUpload, SaveFile, At, Goto, EndUpload, Fault
<1>5. SweepKnows'
  BY RetentionAssumption DEF IInv, RetentionTypeOK, SweepKnows, Upload, Sweep, Keys,
     HasRow, Live, NoUpload, SaveFile, At, Goto, EndUpload, Fault
<1>6. SourceKept'
  BY RetentionAssumption DEF IInv, RetentionTypeOK, SourceKept, Row, Upload, Keys,
     HasRow, Live, NoUpload, SaveFile, At, Goto, EndUpload, Fault
<1>7. FilesAreOwned'
  BY RetentionAssumption DEF IInv, RetentionTypeOK, FilesAreOwned, Upload, Keys,
     HasRow, Live, NoUpload, SaveFile, At, Goto, EndUpload, Fault
<1>8. MarkedIsGone'
  BY DEF IInv, MarkedIsGone, HasRow, Live, Expired, data, SaveFile
<1> QED BY <1>1, <1>2, <1>3, <1>4, <1>5, <1>6, <1>7, <1>8 DEF IInv

(* A live row gets its job when its file is there.                         *)
LEMMA EnqueueKeeps ==
    ASSUME IInv, NEW u \in Uploaders, Enqueue(u)
    PROVE  IInv'
<1>1. RetentionTypeOK'
  <2>1. row' \in Row
    BY RetentionAssumption DEF IInv, RetentionTypeOK, Row, Enqueue, HasRow
  <2>2. mishaps' \in 0 .. MaxMishaps
    BY RetentionAssumption DEF IInv, RetentionTypeOK, Enqueue, Fault
  <2>3. upload' \in [Uploaders -> Upload]
    BY RetentionAssumption DEF IInv, RetentionTypeOK, Row, Upload, Deletion, Sweep,
       Keys, Enqueue, EndUpload, NoUpload
  <2> QED BY <2>1, <2>2, <2>3 DEF IInv, RetentionTypeOK, Enqueue
<1>2. Bounded'
  BY RetentionAssumption DEF IInv, RetentionTypeOK, Bounded, Row, Upload, Deletion,
     Sweep, Keys, HasRow, NoRow, Uploaded, NoUpload, Enqueue, At, EndUpload, Fault
<1>3. UploadsKnow'
  BY RetentionAssumption DEF IInv, RetentionTypeOK, UploadsKnow, Row, Upload, Keys,
     HasRow, Live, Expired, NoUpload, Enqueue, At, EndUpload, Fault
<1>4. DeletionsKnow'
  BY RetentionAssumption DEF IInv, RetentionTypeOK, DeletionsKnow, Row, Upload,
     Deletion, Keys, HasRow, NoUpload, Enqueue, At, EndUpload, Fault
<1>5. SweepKnows'
  BY RetentionAssumption DEF IInv, RetentionTypeOK, SweepKnows, Row, Upload, Sweep,
     Keys, HasRow, NoUpload, Enqueue, At, EndUpload, Fault
<1>6. SourceKept'
  BY RetentionAssumption DEF IInv, RetentionTypeOK, UploadsKnow, SourceKept, Row,
     Upload, Keys, HasRow, Live, Expired, NoUpload, Enqueue, At, EndUpload, Fault
<1>7. FilesAreOwned'
  BY RetentionAssumption DEF IInv, RetentionTypeOK, FilesAreOwned, Row, Upload, Keys,
     HasRow, NoUpload, Enqueue, At, EndUpload, Fault
<1>8. MarkedIsGone'
  BY RetentionAssumption DEF IInv, RetentionTypeOK, MarkedIsGone, Row, Upload, Keys,
     HasRow, NoUpload, Enqueue, At, EndUpload, Fault
<1> QED BY <1>1, <1>2, <1>3, <1>4, <1>5, <1>6, <1>7, <1>8 DEF IInv

(* A deletion request changes nothing but itself.                          *)
LEMMA RequestDeletionKeeps ==
    ASSUME IInv, NEW d \in Deleters, RequestDeletion(d)
    PROVE  IInv'
<1>1. RetentionTypeOK'
  BY RetentionAssumption DEF IInv, RetentionTypeOK, Row, Upload, Deletion, Sweep,
     Keys, HasRow, Live, data, RequestDeletion, AtDeletion
<1>2. Bounded'
  BY DEF IInv, RetentionTypeOK, Bounded, Row, Upload, Deletion, Sweep, Keys, HasRow,
     Live, NoRow, Uploaded, data, RequestDeletion, AtDeletion
<1>3. DeletionsKnow'
  BY DEF IInv, RetentionTypeOK, DeletionsKnow, Deletion, Keys, HasRow, Live, data,
     RequestDeletion, AtDeletion
<1>4. UploadsKnow' /\ SweepKnows' /\ SourceKept' /\ FilesAreOwned' /\ MarkedIsGone'
  BY DEF IInv, UploadsKnow, SweepKnows, SourceKept, FilesAreOwned, MarkedIsGone,
     HasRow, Live, Expired, data, RequestDeletion
<1> QED BY <1>1, <1>2, <1>3, <1>4 DEF IInv

(* The marker takes over the file from the row.                            *)
LEMMA CommitDeletionKeeps ==
    ASSUME IInv, NEW d \in Deleters, CommitDeletion(d)
    PROVE  IInv'
<1>1. RetentionTypeOK'
  <2>1. row' \in Row
    BY RetentionAssumption, UploadedIsRow DEF IInv, RetentionTypeOK, NoRow,
       CommitDeletion
  <2>2. markers' \subseteq Keys
    BY RetentionAssumption DEF IInv, RetentionTypeOK, Row, Keys, CommitDeletion,
       Deletable, HasRow, Bounded, NoRow, Uploaded
  <2>3. deletion' \in [Deleters -> Deletion]
    BY RetentionAssumption DEF IInv, RetentionTypeOK, Row, Upload, Deletion, Sweep,
       Keys, CommitDeletion, EndDeletion, NoDeletion
  <2> QED BY <2>1, <2>2, <2>3 DEF IInv, RetentionTypeOK, CommitDeletion
<1>2. Bounded'
  BY DEF IInv, RetentionTypeOK, Bounded, Row, Upload, Deletion, Sweep, Keys, HasRow,
     NoRow, Uploaded, NoDeletion, CommitDeletion, AtDeletion, EndDeletion, Deletable
<1>3. UploadsKnow'
  BY DEF IInv, RetentionTypeOK, UploadsKnow, Row, Upload, Deletion, Keys, HasRow,
     Live, Expired, NoRow, Uploaded, NoDeletion, CommitDeletion, AtDeletion,
     EndDeletion, Deletable
<1>4. DeletionsKnow'
  BY RetentionAssumption DEF IInv, RetentionTypeOK, Bounded, DeletionsKnow, Row,
     Deletion, Keys, HasRow, NoRow, Uploaded, NoDeletion, CommitDeletion, AtDeletion,
     EndDeletion, Deletable
<1>5. SweepKnows'
  BY DEF IInv, RetentionTypeOK, SweepKnows, Row, Deletion, Sweep, Keys, HasRow, NoRow,
     Uploaded, NoDeletion, CommitDeletion, AtDeletion, EndDeletion, Deletable
<1>6. SourceKept'
  BY DEF IInv, RetentionTypeOK, SourceKept, Row, Deletion, Keys, HasRow, Live, NoRow,
     Uploaded, NoDeletion, CommitDeletion, AtDeletion, EndDeletion, Deletable
<1>7. FilesAreOwned'
  BY DEF IInv, RetentionTypeOK, FilesAreOwned, Row, Deletion, Keys, HasRow, NoRow,
     Uploaded, NoDeletion, CommitDeletion, AtDeletion, EndDeletion, Deletable
<1>8. MarkedIsGone'
  BY DEF IInv, RetentionTypeOK, MarkedIsGone, Row, Deletion, Keys, HasRow, NoRow,
     Uploaded, NoDeletion, CommitDeletion, AtDeletion, EndDeletion, Deletable
<1> QED BY <1>1, <1>2, <1>3, <1>4, <1>5, <1>6, <1>7, <1>8 DEF IInv

(* The file of a deleted row goes, its marker stays.                       *)
LEMMA EraseDeletedKeeps ==
    ASSUME IInv, NEW d \in Deleters, EraseDeleted(d)
    PROVE  IInv'
<1>1. RetentionTypeOK'
  BY RetentionAssumption DEF IInv, RetentionTypeOK, Row, Upload, Deletion, Sweep,
     Keys, NoDeletion, EraseDeleted, AtDeletion, EndDeletion, Fault
<1>2. Bounded'
  BY RetentionAssumption DEF IInv, RetentionTypeOK, Bounded, Row, Upload, Deletion,
     Sweep, Keys, NoRow, Uploaded, NoDeletion, EraseDeleted, AtDeletion, EndDeletion,
     Fault
<1>3. UploadsKnow'
  BY RetentionAssumption DEF IInv, RetentionTypeOK, UploadsKnow, DeletionsKnow, Row,
     Upload, Deletion, Keys, HasRow, Live, Expired, NoDeletion, EraseDeleted,
     AtDeletion, EndDeletion, Fault
<1>4. DeletionsKnow'
  BY RetentionAssumption DEF IInv, RetentionTypeOK, DeletionsKnow, Deletion, Keys,
     HasRow, NoDeletion, EraseDeleted, AtDeletion, EndDeletion, Fault
<1>5. SweepKnows'
  BY RetentionAssumption DEF IInv, RetentionTypeOK, SweepKnows, Deletion, Sweep, Keys,
     HasRow, NoDeletion, EraseDeleted, AtDeletion, EndDeletion, Fault
<1>6. SourceKept'
  BY RetentionAssumption DEF IInv, RetentionTypeOK, DeletionsKnow, SourceKept, Row,
     Deletion, Keys, HasRow, Live, NoDeletion, EraseDeleted, AtDeletion, EndDeletion,
     Fault
<1>7. FilesAreOwned'
  BY RetentionAssumption DEF IInv, RetentionTypeOK, FilesAreOwned, Deletion, Keys,
     HasRow, NoDeletion, EraseDeleted, AtDeletion, EndDeletion, Fault
<1>8. MarkedIsGone'
  BY DEF IInv, MarkedIsGone, HasRow, Live, Expired, data, EraseDeleted
<1> QED BY <1>1, <1>2, <1>3, <1>4, <1>5, <1>6, <1>7, <1>8 DEF IInv

(* The marker goes when there is no file for it to find.                   *)
LEMMA ClearMarkerKeeps ==
    ASSUME IInv, NEW d \in Deleters, ClearMarker(d)
    PROVE  IInv'
<1>1. RetentionTypeOK'
  BY RetentionAssumption DEF IInv, RetentionTypeOK, Bounded, DeletionsKnow, Row,
     Upload, Deletion, Sweep, Keys, HasRow, NoRow, Uploaded, NoDeletion, ClearMarker,
     AtDeletion, EndDeletion, Fault
<1>2. Bounded'
  BY RetentionAssumption DEF IInv, RetentionTypeOK, Bounded, Row, Upload, Deletion,
     Sweep, Keys, NoRow, Uploaded, NoDeletion, ClearMarker, AtDeletion, EndDeletion,
     Fault
<1>3. DeletionsKnow'
  BY RetentionAssumption DEF IInv, RetentionTypeOK, DeletionsKnow, Deletion, Keys,
     HasRow, NoDeletion, ClearMarker, AtDeletion, EndDeletion, Fault
<1>4. FilesAreOwned'
  BY RetentionAssumption DEF IInv, RetentionTypeOK, DeletionsKnow, FilesAreOwned,
     Deletion, Keys, HasRow, NoDeletion, ClearMarker, AtDeletion, EndDeletion, Fault
<1>5. MarkedIsGone'
  BY RetentionAssumption DEF IInv, RetentionTypeOK, MarkedIsGone, Deletion, Keys,
     HasRow, NoDeletion, ClearMarker, AtDeletion, EndDeletion, Fault
<1>6. UploadsKnow' /\ SweepKnows' /\ SourceKept'
  BY DEF IInv, UploadsKnow, SweepKnows, SourceKept, HasRow, Live, Expired, data,
     ClearMarker
<1> QED BY <1>1, <1>2, <1>3, <1>4, <1>5, <1>6 DEF IInv

(* The stages move a row whose file is there.                              *)
LEMMA AdvanceKeeps ==
    ASSUME IInv, Advance
    PROVE  IInv'
<1>1. RetentionTypeOK'
  BY RetentionAssumption DEF IInv, RetentionTypeOK, Row, Upload, Deletion, Sweep,
     Keys, HasRow, Live, Advance
<1>2. Bounded'
  BY DEF IInv, RetentionTypeOK, Bounded, Row, Upload, Deletion, Sweep, Keys, HasRow,
     Live, NoRow, Uploaded, Advance
<1>3. UploadsKnow'
  BY DEF IInv, RetentionTypeOK, UploadsKnow, Row, Upload, Keys, HasRow, Live, Expired,
     Advance
<1>4. DeletionsKnow'
  BY DEF IInv, RetentionTypeOK, DeletionsKnow, Row, Deletion, Keys, HasRow, Live,
     Advance
<1>5. SweepKnows'
  BY DEF IInv, RetentionTypeOK, SweepKnows, Row, Sweep, Keys, HasRow, Live, Advance
<1>6. SourceKept'
  BY DEF IInv, RetentionTypeOK, SourceKept, Row, Keys, HasRow, Live, Advance
<1>7. FilesAreOwned'
  BY DEF IInv, RetentionTypeOK, FilesAreOwned, Row, Keys, HasRow, Live, Advance
<1>8. MarkedIsGone'
  BY DEF IInv, RetentionTypeOK, MarkedIsGone, Row, Keys, HasRow, Live, Advance
<1> QED BY <1>1, <1>2, <1>3, <1>4, <1>5, <1>6, <1>7, <1>8 DEF IInv

(* What has expired is not alive, and no resurrection holds another key.   *)
LEMMA ExpireKeeps ==
    ASSUME IInv, Expire
    PROVE  IInv'
<1>1. RetentionTypeOK'
  BY RetentionAssumption DEF IInv, RetentionTypeOK, Bounded, Row, Upload, Deletion,
     Sweep, Keys, HasRow, Live, NoRow, Uploaded, Expire
<1>2. Bounded'
  BY DEF IInv, RetentionTypeOK, Bounded, Row, Upload, Deletion, Sweep, Keys, HasRow,
     Live, NoRow, Uploaded, Expire
<1>3. UploadsKnow'
  BY DEF IInv, RetentionTypeOK, UploadsKnow, Row, Upload, Keys, HasRow, Live, Expired,
     Expire
<1>4. SweepKnows'
  BY DEF IInv, RetentionTypeOK, SweepKnows, Sweep, Keys, HasRow, Live, Expire
<1>5. SourceKept'
  BY DEF IInv, RetentionTypeOK, SourceKept, Row, Keys, HasRow, Live, Expire
<1>6. DeletionsKnow' /\ FilesAreOwned' /\ MarkedIsGone'
  BY DEF IInv, DeletionsKnow, FilesAreOwned, MarkedIsGone, HasRow, Live, Expired,
     data, Expire
<1> QED BY <1>1, <1>2, <1>3, <1>4, <1>5, <1>6 DEF IInv

(* The markers of the snapshot belong to no row.                           *)
LEMMA TickKeeps ==
    ASSUME IInv, Tick
    PROVE  IInv'
<1>1. RetentionTypeOK'
  BY RetentionAssumption DEF IInv, RetentionTypeOK, Row, Upload, Deletion, Sweep,
     Keys, data, Tick, AtSweep
<1>2. Bounded'
  BY DEF IInv, RetentionTypeOK, Bounded, Row, Upload, Deletion, Sweep, Keys, NoRow,
     Uploaded, data, Tick, AtSweep
<1>3. SweepKnows'
  BY DEF IInv, SweepKnows, MarkedIsGone, HasRow, data, Tick
<1>4. UploadsKnow' /\ DeletionsKnow' /\ SourceKept' /\ FilesAreOwned' /\ MarkedIsGone'
  BY DEF IInv, UploadsKnow, DeletionsKnow, SourceKept, FilesAreOwned, MarkedIsGone,
     HasRow, Live, Expired, data, Tick
<1> QED BY <1>1, <1>2, <1>3, <1>4 DEF IInv

(* A failing query ends the sweep and leaves the data alone.               *)
LEMMA SweepFailsKeeps ==
    ASSUME IInv, SweepFails
    PROVE  IInv'
<1>1. RetentionTypeOK'
  BY RetentionAssumption DEF IInv, RetentionTypeOK, Row, Upload, Deletion, Sweep,
     Keys, NoSweep, data, SweepFails, AtSweep, Fault
<1>2. Bounded'
  BY RetentionAssumption DEF IInv, RetentionTypeOK, Bounded, Row, Upload, Deletion,
     Sweep, Keys, NoRow, Uploaded, NoSweep, data, SweepFails, AtSweep, Fault
<1>3. SweepKnows'
  BY RetentionAssumption DEF IInv, RetentionTypeOK, SweepKnows, Sweep, Keys, HasRow,
     NoSweep, data, SweepFails, AtSweep, Fault
<1>4. UploadsKnow' /\ DeletionsKnow' /\ SourceKept' /\ FilesAreOwned' /\ MarkedIsGone'
  BY DEF IInv, UploadsKnow, DeletionsKnow, SourceKept, FilesAreOwned, MarkedIsGone,
     HasRow, Live, Expired, data, SweepFails
<1> QED BY <1>1, <1>2, <1>3, <1>4 DEF IInv

(* A marked file has no row, and keeps its marker until it is gone.        *)
LEMMA EraseMarkedKeeps ==
    ASSUME IInv, EraseMarked
    PROVE  IInv'
<1>1. PICK k \in sweep.todo :
          /\ \/ /\ files' = files \ {k}
                /\ sweep' = [sweep EXCEPT !.pc = "clear", !.key = k]
                /\ mishaps' = mishaps
             \/ /\ mishaps < MaxMishaps /\ mishaps' = mishaps + 1
                /\ sweep' = [sweep EXCEPT !.todo = @ \ {k}]
                /\ files' = files
          /\ UNCHANGED <<row, expired, lastKey, markers, late, upload, deletion, up>>
          /\ sweep.pc = "markers"
  BY DEF EraseMarked, AtSweep, Fault
<1>2. RetentionTypeOK'
  <2>1. k \in Keys /\ files' \subseteq Keys
    BY <1>1 DEF IInv, RetentionTypeOK, Sweep
  <2>2. sweep' \in Sweep
    <3>1. CASE sweep' = [sweep EXCEPT !.pc = "clear", !.key = k]
      <4>1. sweep' = [pc |-> "clear", todo |-> sweep.todo, key |-> k]
        BY <3>1 DEF IInv, RetentionTypeOK, Sweep
      <4>2. sweep.todo \subseteq Keys /\ k \in 0 .. MaxKey
        BY <2>1, RetentionAssumption DEF IInv, RetentionTypeOK, Sweep, Keys
      <4> QED BY <4>1, <4>2 DEF Sweep
    <3>2. CASE sweep' = [sweep EXCEPT !.todo = @ \ {k}]
      BY <3>2 DEF IInv, RetentionTypeOK, Sweep
    <3> QED BY <1>1, <3>1, <3>2
  <2>3. mishaps' \in 0 .. MaxMishaps
    BY <1>1, RetentionAssumption DEF IInv, RetentionTypeOK
  <2> QED BY <1>1, <2>1, <2>2, <2>3 DEF IInv, RetentionTypeOK
<1>3. Bounded'
  <2>1. k \in 1 .. lastKey
    BY DEF IInv, Bounded
  <2>2. sweep'.todo \subseteq sweep.todo /\ sweep'.key \in {sweep.key, k}
    BY <1>1 DEF IInv, RetentionTypeOK, Sweep
  <2>3. files' \subseteq files
    BY <1>1
  <2> QED BY <1>1, <2>1, <2>2, <2>3 DEF IInv, Bounded, RetentionTypeOK, NoRow, Uploaded
<1>4. UploadsKnow'
  BY <1>1, RetentionAssumption DEF IInv, RetentionTypeOK, UploadsKnow, SweepKnows,
     Row, Upload, Sweep, Keys, HasRow, Live, Expired
<1>5. DeletionsKnow'
  BY <1>1, RetentionAssumption DEF IInv, RetentionTypeOK, DeletionsKnow, Deletion,
     Sweep, Keys, HasRow
<1>6. SweepKnows'
  <2>1. CASE sweep' = [sweep EXCEPT !.pc = "clear", !.key = k] /\ files' = files \ {k}
    BY <1>1, <2>1, RetentionAssumption DEF IInv, RetentionTypeOK, UploadsKnow,
       SweepKnows, Row, Upload, Sweep, Keys, HasRow, Live, Expired
  <2>2. CASE sweep' = [sweep EXCEPT !.todo = @ \ {k}] /\ files' = files
    BY <1>1, <2>2, RetentionAssumption DEF IInv, RetentionTypeOK, UploadsKnow,
       SweepKnows, Row, Upload, Sweep, Keys, HasRow, Live, Expired
  <2> QED BY <1>1, <2>1, <2>2
<1>7. SourceKept'
  BY <1>1, RetentionAssumption DEF IInv, RetentionTypeOK, SweepKnows, SourceKept, Row,
     Sweep, Keys, HasRow, Live
<1>8. FilesAreOwned'
  BY <1>1, RetentionAssumption DEF IInv, RetentionTypeOK, FilesAreOwned, Sweep, Keys,
     HasRow
<1>9. MarkedIsGone'
  BY <1>1 DEF IInv, MarkedIsGone, HasRow, Live, Expired, data, EraseMarked
<1> QED BY <1>2, <1>3, <1>4, <1>5, <1>6, <1>7, <1>8, <1>9 DEF IInv

(* The sweep clears the marker of a file it has erased.                    *)
LEMMA ClearMarkedKeeps ==
    ASSUME IInv, ClearMarked
    PROVE  IInv'
<1>1. RetentionTypeOK'
  BY RetentionAssumption DEF IInv, RetentionTypeOK, Bounded, SweepKnows, Row, Upload,
     Deletion, Sweep, Keys, HasRow, NoRow, Uploaded, ClearMarked, AtSweep, Fault
<1>2. Bounded'
  BY RetentionAssumption DEF IInv, RetentionTypeOK, Bounded, Row, Upload, Deletion,
     Sweep, Keys, NoRow, Uploaded, ClearMarked, AtSweep, Fault
<1>3. SweepKnows'
  BY RetentionAssumption DEF IInv, RetentionTypeOK, SweepKnows, Sweep, Keys, HasRow,
     ClearMarked, AtSweep, Fault
<1>4. FilesAreOwned'
  BY RetentionAssumption DEF IInv, RetentionTypeOK, SweepKnows, FilesAreOwned, Sweep,
     Keys, HasRow, ClearMarked, AtSweep, Fault
<1>5. MarkedIsGone'
  BY RetentionAssumption DEF IInv, RetentionTypeOK, MarkedIsGone, Sweep, Keys, HasRow,
     ClearMarked, AtSweep, Fault
<1>6. UploadsKnow' /\ DeletionsKnow' /\ SourceKept'
  BY DEF IInv, UploadsKnow, DeletionsKnow, SourceKept, HasRow, Live, Expired, data,
     ClearMarked
<1> QED BY <1>1, <1>2, <1>3, <1>4, <1>5, <1>6 DEF IInv

(* The sweep turns to the key of an expired row.                           *)
LEMMA FindExpiredKeeps ==
    ASSUME IInv, FindExpired
    PROVE  IInv'
<1>1. RetentionTypeOK'
  BY RetentionAssumption DEF IInv, RetentionTypeOK, Row, Upload, Deletion, Sweep,
     Keys, Expired, NoSweep, data, FindExpired, AtSweep
<1>2. Bounded'
  BY DEF IInv, RetentionTypeOK, Bounded, Row, Upload, Deletion, Sweep, Keys, Expired,
     NoRow, Uploaded, NoSweep, data, FindExpired, AtSweep
<1>3. SweepKnows'
  BY DEF IInv, RetentionTypeOK, SweepKnows, Sweep, Keys, HasRow, Expired, NoSweep,
     data, FindExpired, AtSweep
<1>4. UploadsKnow' /\ DeletionsKnow' /\ SourceKept' /\ FilesAreOwned' /\ MarkedIsGone'
  BY DEF IInv, UploadsKnow, DeletionsKnow, SourceKept, FilesAreOwned, MarkedIsGone,
     HasRow, Live, Expired, data, FindExpired
<1> QED BY <1>1, <1>2, <1>3, <1>4 DEF IInv

(* The file of an expired row goes while the row, if it is still there,    *)
(* names it; an invoice that lives has another key.                        *)
LEMMA EraseSweptKeeps ==
    ASSUME IInv, EraseSwept
    PROVE  IInv'
<1>1. RetentionTypeOK'
  BY RetentionAssumption DEF IInv, RetentionTypeOK, Row, Upload, Deletion, Sweep,
     Keys, NoSweep, EraseSwept, AtSweep, Fault
<1>2. Bounded'
  BY RetentionAssumption DEF IInv, RetentionTypeOK, Bounded, Row, Upload, Deletion,
     Sweep, Keys, NoRow, Uploaded, NoSweep, EraseSwept, AtSweep, Fault
<1>3. UploadsKnow'
  BY RetentionAssumption DEF IInv, RetentionTypeOK, UploadsKnow, SweepKnows, Row,
     Upload, Sweep, Keys, HasRow, Live, Expired, NoSweep, EraseSwept, AtSweep, Fault
<1>4. DeletionsKnow'
  BY RetentionAssumption DEF IInv, RetentionTypeOK, DeletionsKnow, Deletion, Sweep,
     Keys, HasRow, NoSweep, EraseSwept, AtSweep, Fault
<1>5. SweepKnows'
  BY RetentionAssumption DEF IInv, RetentionTypeOK, SweepKnows, Sweep, Keys, HasRow,
     NoSweep, EraseSwept, AtSweep, Fault
<1>6. SourceKept'
  BY RetentionAssumption DEF IInv, RetentionTypeOK, SweepKnows, SourceKept, Row,
     Sweep, Keys, HasRow, Live, NoSweep, EraseSwept, AtSweep, Fault
<1>7. FilesAreOwned'
  BY RetentionAssumption DEF IInv, RetentionTypeOK, FilesAreOwned, Sweep, Keys,
     HasRow, NoSweep, EraseSwept, AtSweep, Fault
<1>8. MarkedIsGone'
  BY DEF IInv, MarkedIsGone, HasRow, Live, Expired, data, EraseSwept
<1> QED BY <1>1, <1>2, <1>3, <1>4, <1>5, <1>6, <1>7, <1>8 DEF IInv

(* A row is deleted under the expired key only, when its file has gone.    *)
LEMMA DeleteSweptKeeps ==
    ASSUME IInv, DeleteSwept
    PROVE  IInv'
<1>1. RetentionTypeOK'
  <2>1. row' \in Row
    BY RetentionAssumption, UploadedIsRow DEF IInv, RetentionTypeOK, NoRow, DeleteSwept
  <2>2. mishaps' \in 0 .. MaxMishaps
    BY RetentionAssumption DEF IInv, RetentionTypeOK, DeleteSwept, Fault
  <2>3. sweep' \in Sweep
    BY RetentionAssumption DEF IInv, RetentionTypeOK, Row, Upload, Deletion, Sweep,
       Keys, DeleteSwept, NoSweep
  <2> QED BY <2>1, <2>2, <2>3 DEF IInv, RetentionTypeOK, DeleteSwept
<1>2. Bounded'
  BY RetentionAssumption DEF IInv, RetentionTypeOK, Bounded, Row, Upload, Deletion,
     Sweep, Keys, HasRow, NoRow, Uploaded, NoSweep, DeleteSwept, AtSweep, Fault
<1>3. UploadsKnow'
  BY RetentionAssumption DEF IInv, RetentionTypeOK, UploadsKnow, Row, Upload, Sweep,
     Keys, HasRow, Live, Expired, NoRow, Uploaded, NoSweep, DeleteSwept, AtSweep,
     Fault
<1>4. DeletionsKnow'
  BY RetentionAssumption DEF IInv, RetentionTypeOK, DeletionsKnow, Row, Deletion,
     Sweep, Keys, HasRow, NoRow, Uploaded, NoSweep, DeleteSwept, AtSweep, Fault
<1>5. SweepKnows'
  BY RetentionAssumption DEF IInv, RetentionTypeOK, SweepKnows, Row, Sweep, Keys,
     HasRow, NoRow, Uploaded, NoSweep, DeleteSwept, AtSweep, Fault
<1>6. SourceKept'
  BY RetentionAssumption DEF IInv, RetentionTypeOK, SourceKept, Row, Sweep, Keys,
     HasRow, Live, NoRow, Uploaded, NoSweep, DeleteSwept, AtSweep, Fault
<1>7. FilesAreOwned'
  BY RetentionAssumption DEF IInv, RetentionTypeOK, SweepKnows, FilesAreOwned, Row,
     Sweep, Keys, HasRow, NoRow, Uploaded, NoSweep, DeleteSwept, AtSweep, Fault
<1>8. MarkedIsGone'
  BY RetentionAssumption DEF IInv, RetentionTypeOK, MarkedIsGone, Row, Sweep, Keys,
     HasRow, NoRow, Uploaded, NoSweep, DeleteSwept, AtSweep, Fault
<1> QED BY <1>1, <1>2, <1>3, <1>4, <1>5, <1>6, <1>7, <1>8 DEF IInv

(* A death forgets the operations and leaves the data alone.               *)
LEMMA CrashKeeps ==
    ASSUME IInv, Crash
    PROVE  IInv'
<1>1. RetentionTypeOK'
  <2>1. upload' \in [Uploaders -> Upload] /\ deletion' \in [Deleters -> Deletion]
    BY RetentionAssumption DEF Upload, Deletion, NoUpload, NoDeletion, Crash
  <2>2. sweep' \in Sweep /\ mishaps' \in 0 .. MaxMishaps
    BY RetentionAssumption DEF IInv, RetentionTypeOK, Row, Upload, Deletion, Sweep,
       Keys, Crash, Fault, NoSweep
  <2> QED BY <2>1, <2>2 DEF IInv, RetentionTypeOK, Crash, data
<1>2. Bounded'
  BY RetentionAssumption DEF IInv, RetentionTypeOK, Bounded, Row, Upload, Deletion,
     Sweep, Keys, NoRow, Uploaded, NoUpload, NoDeletion, NoSweep, data, Crash, Fault
<1>3. UploadsKnow'
  BY RetentionAssumption DEF IInv, RetentionTypeOK, UploadsKnow, Row, Upload,
     Deletion, Sweep, Keys, HasRow, Live, Expired, NoUpload, NoDeletion, NoSweep,
     data, Crash, Fault
<1>4. DeletionsKnow'
  BY RetentionAssumption DEF IInv, RetentionTypeOK, DeletionsKnow, Upload, Deletion,
     Sweep, Keys, HasRow, NoUpload, NoDeletion, NoSweep, data, Crash, Fault
<1>5. SweepKnows'
  BY RetentionAssumption DEF IInv, RetentionTypeOK, SweepKnows, Upload, Deletion,
     Sweep, Keys, HasRow, NoUpload, NoDeletion, NoSweep, data, Crash, Fault
<1>6. SourceKept' /\ FilesAreOwned' /\ MarkedIsGone'
  BY DEF IInv, SourceKept, FilesAreOwned, MarkedIsGone, HasRow, Live, Expired, data,
     Crash
<1> QED BY <1>1, <1>2, <1>3, <1>4, <1>5, <1>6 DEF IInv

(* A restart requeues an UPLOADED row only when its file is there.         *)
LEMMA RestartKeeps ==
    ASSUME IInv, Restart
    PROVE  IInv'
<1>1. RetentionTypeOK'
  BY RetentionAssumption DEF IInv, RetentionTypeOK, Row, Upload, Deletion, Sweep,
     Keys, HasRow, Live, Restart
<1>2. Bounded'
  <2>1. row'.id = row.id /\ row'.key = row.key
    BY DEF IInv, RetentionTypeOK, Row, Restart
  <2>2. CASE row = NoRow
    <3>1. row' = NoRow
      BY <2>2 DEF Restart, Live, HasRow, NoRow, Uploaded
    <3> QED BY <3>1 DEF IInv, Bounded, Restart
  <2>3. CASE row # NoRow
    BY <2>1, <2>3 DEF IInv, Bounded, Restart
  <2> QED BY <2>2, <2>3
<1>3. UploadsKnow'
  BY DEF IInv, RetentionTypeOK, UploadsKnow, Row, Upload, Keys, HasRow, Live, Expired,
     Restart
<1>4. DeletionsKnow'
  BY DEF IInv, RetentionTypeOK, DeletionsKnow, Row, Deletion, Keys, HasRow, Live,
     Restart
<1>5. SweepKnows'
  BY DEF IInv, RetentionTypeOK, SweepKnows, Row, Sweep, Keys, HasRow, Live, Restart
<1>6. SourceKept'
  BY DEF IInv, RetentionTypeOK, SourceKept, Row, Keys, HasRow, Live, Restart
<1>7. FilesAreOwned'
  BY DEF IInv, RetentionTypeOK, FilesAreOwned, Row, Keys, HasRow, Live, Restart
<1>8. MarkedIsGone'
  BY DEF IInv, RetentionTypeOK, MarkedIsGone, Row, Keys, HasRow, Live, Restart
<1> QED BY <1>1, <1>2, <1>3, <1>4, <1>5, <1>6, <1>7, <1>8 DEF IInv

(* Every step keeps the inductive invariant.                               *)
LEMMA Keeps == IInv /\ [Next]_vars => IInv'
<1> SUFFICES ASSUME IInv, [Next]_vars PROVE IInv'
  OBVIOUS
<1>1. ASSUME NEW u \in Uploaders, UploadStep(u) PROVE IInv'
  BY <1>1, CreateKeeps, FindKeeps, EraseExpiredKeeps, RenewKeeps, SaveFileKeeps,
     EnqueueKeeps
     DEF UploadStep
<1>2. ASSUME NEW d \in Deleters, RequestDeletion(d) \/ DeletionStep(d) PROVE IInv'
  BY <1>2, RequestDeletionKeeps, CommitDeletionKeeps, EraseDeletedKeeps,
     ClearMarkerKeeps
     DEF DeletionStep
<1>3. CASE SweepStep \/ SweepFails
  BY <1>3, TickKeeps, EraseMarkedKeeps, ClearMarkedKeeps, FindExpiredKeeps,
     EraseSweptKeeps, DeleteSweptKeeps, SweepFailsKeeps DEF SweepStep
<1>4. CASE UNCHANGED vars
  BY <1>4 DEF vars, data, IInv, RetentionTypeOK, Bounded, UploadsKnow, DeletionsKnow,
              SweepKnows, SourceKept, FilesAreOwned, MarkedIsGone, HasRow, Live, Expired
<1> QED BY <1>1, <1>2, <1>3, <1>4, AdvanceKeeps, ExpireKeeps, CrashKeeps,
           RestartKeeps DEF Next

(* It holds when there is nothing yet.                                     *)
LEMMA Starts == Init => IInv
BY RetentionAssumption
   DEF Init, IInv, RetentionTypeOK, Row, Phase, Upload, Deletion, Sweep, Keys, Uploaded,
       NoRow, NoUpload, NoDeletion, NoSweep, Bounded, UploadsKnow, DeletionsKnow,
       SweepKnows, SourceKept, FilesAreOwned, MarkedIsGone, HasRow, Live, Expired

(* It holds in every state, for any number of uploads, deletions, keys and *)
(* mishaps.                                                                *)
THEOREM RetentionInvariant == Spec => []IInv
BY Starts, Keeps, PTL DEF Spec

(* Every variable keeps its type.                                          *)
THEOREM RetentionTypeCorrect == Spec => []RetentionTypeOK
BY RetentionInvariant, PTL DEF IInv

(* An invoice that has left UPLOADED, or that a job could take out of it,  *)
(* has its file as long as it lives.                                       *)
THEOREM SourceIsKept == Spec => []SourceKept
BY RetentionInvariant, PTL DEF IInv

(* A file that no row names is marked for deletion, except one saved after *)
(* its invoice had gone.                                                   *)
THEOREM FilesAreAlwaysOwned == Spec => []FilesAreOwned
BY RetentionInvariant, PTL DEF IInv

(* A marker is only ever set for a key whose row is gone, so that no sweep *)
(* erases the file of an invoice the user still has.                       *)
THEOREM MarkedAreGone == Spec => []MarkedIsGone
BY RetentionInvariant, PTL DEF IInv

(* An invoice that is alive and at work keeps its row and its key: who     *)
(* takes it away holds an expired key, or finds the row at rest.           *)
THEOREM LivingIsSpared == Spec => SparesTheLiving
<1> DEFINE Spares == \A k \in Keys : HasRow(k) /\ ~HasRow(k)' =>
                         k \in expired \/ row.phase = "resting"
<1>1. IInv /\ [Next]_vars => [Spares]_vars
  <2> SUFFICES ASSUME IInv, Next, NEW k \in Keys, HasRow(k), ~HasRow(k)'
               PROVE  k \in expired \/ row.phase = "resting"
    OBVIOUS
  <2>1. ASSUME NEW u \in Uploaders, UploadStep(u)
        PROVE  k \in expired \/ row.phase = "resting"
    BY <2>1 DEF UploadStep, Create, Find, EraseExpired, Renew, SaveFile, Enqueue,
                HasRow, Expired, data, IInv, RetentionTypeOK, Row
  <2>2. ASSUME NEW d \in Deleters, RequestDeletion(d) \/ DeletionStep(d)
        PROVE  k \in expired \/ row.phase = "resting"
    BY <2>2 DEF DeletionStep, RequestDeletion, CommitDeletion, Deletable, EraseDeleted,
                ClearMarker, HasRow, data
  <2>3. CASE SweepStep \/ SweepFails
    BY <2>3 DEF SweepStep, SweepFails, Tick, EraseMarked, ClearMarked, FindExpired,
                EraseSwept, DeleteSwept, AtSweep, HasRow, data, IInv, SweepKnows
  <2>4. CASE Advance \/ Expire \/ Crash \/ Restart
    BY <2>4 DEF Advance, Expire, Crash, Restart, HasRow, data, IInv, RetentionTypeOK,
       Row
  <2> QED BY <2>1, <2>2, <2>3, <2>4 DEF Next
<1> QED BY <1>1, RetentionInvariant, PTL DEF Spec, SparesTheLiving

=============================================================================
