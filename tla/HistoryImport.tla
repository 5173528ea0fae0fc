------------------------------ MODULE HistoryImport ------------------------------
(***************************************************************************)
(* One Android batch of the history importer, from the upload of the       *)
(* encrypted database to the attached media                                *)
(* (src/infra/imports/whatsapp-history-import.service.ts).                 *)
(*                                                                         *)
(* A request holds the lock its instance has for the batch (withBatchLock) *)
(* from reading the manifest to writing it back: `hand` is that lock with  *)
(* the manifest as the request will write it.  Instances do not exclude    *)
(* each other and jobs only lock what they publish, so a write may put     *)
(* back what somebody else changed.  The files are written before the      *)
(* manifest.  Progress that only moves counters is not a step; the cut-off *)
(* is after the last message and the backup refers to media.               *)
(***************************************************************************)
EXTENDS Integers, Sequences, FiniteSets

CONSTANTS
  Instances,
  Front,         \* bound: the instances requests reach; the others run jobs
  BackupMessages, \* individual messages of the backup
  Divergent,     \* those the tenant already has with another content
  DbUploads,     \* upload sessions of the database
  MediaUploads,  \* upload sessions of the ZIP of the Media folder
  Chunks,        \* Chunks[u]: the blocks of an upload
  Nil,
  MaxCrashes,    \* bound: processes that die
  MaxDetours     \* bound: failures of a job, cancellations, expiries and the like

ASSUME BackupIsRows ==
  /\ Divergent \subseteq BackupMessages /\ IsFiniteSet(BackupMessages)
  /\ Front \subseteq Instances
  /\ DbUploads \cap MediaUploads = {}
  /\ Chunks \in [DbUploads \cup MediaUploads -> Nat \ {0}]
  /\ {MaxCrashes, MaxDetours} \subseteq Nat

ASSUME NilIsNoValue ==
  /\ Nil \notin Instances \cup DbUploads \cup MediaUploads \cup {"dead"}
  /\ Nil \notin {"uploading", "validating", "ready", "processing", "completed", "failed"}
  /\ \A D \in SUBSET BackupMessages :
       Nil # D /\ \A f \in [D -> {Nil, "keep-existing", "use-backup"}] : Nil # f
  /\ "dead" \notin Instances

VARIABLES
  man,       \* whatsapp_history_import_states: the manifest
  lease,     \* its lease: who, and whether it runs
  uploads,   \* upload.json and the bytes of each upload session
  disk,      \* what the comparison left in the batch's directory
  history,   \* what the tenant has of each message
  accepted,  \* messages whose other content was accepted as it is
  attached,  \* messages whose media were linked
  hand, flow, task, again, barred,
             \* per instance: its lock, a completion on its way, its jobs,
             \* media jobs asked for again, whether it has seen the cancellation
  spent      \* how much of each bound is used up

files == <<uploads, disk>>
tenant == <<history, accepted, attached>>
memory == <<hand, flow, task, again, barred>>
historyVars == <<man, lease, files, tenant, memory, spent>>

Uploads == DbUploads \cup MediaUploads
Jobs == {<<"preview", Nil>>, <<"import", Nil>>}
          \cup ({"validate", "media"} \X MediaUploads)
BatchStatuses == {"draft", "applying", "applied", "failed", "cancelled", "expired"}
Resolutions == {"keep-existing", "use-backup"}

Unlocked == [op |-> "idle"]
NoTask == [stage |-> "none"]
Scheduled == [stage |-> "scheduled"]
Unleased == [owner |-> Nil, live |-> FALSE]
Fresh == [status |-> "fresh", file |-> <<>>, received |-> 0]
Gone == [Fresh EXCEPT !.status = "gone"]
EmptyDisk == [db |-> FALSE, ids |-> Nil, refs |-> FALSE, div |-> Nil]

----------------------------------------------------------------------------
(* The manifest                                                            *)

(* durableStatus: what the recovery looks at.  An upload hides what else   *)
(* the draft is doing.                                                     *)
DraftStatus(m) ==
  IF m.db = "uploading" THEN "uploading"
  ELSE IF m.db = "processing" THEN "validating"
  ELSE IF m.media \in {"uploading", "validating"} THEN m.media
  ELSE IF m.media = "processing" THEN "draft"
  ELSE IF m.cmp = "processing" THEN "processing"
  ELSE IF m.pending > 0 THEN "awaiting-divergence-resolution"
  ELSE IF m.backup THEN "ready" ELSE "draft"

DurableStatus(m) ==
  CASE m.status = "draft" -> DraftStatus(m)
    [] m.status = "applied" ->
         IF m.media \in {"validating", "processing"} THEN "processing-media" ELSE "completed"
    [] OTHER -> m.status

(* What the resume functions look for in a manifest.                       *)
Due(j, m) ==
  \/ j[1] = "preview" /\ m.status = "draft" /\ m.cmp = "processing"
  \/ j[1] = "import" /\ m.status = "applying" /\ m.cutoff
  \/ /\ j[1] = "validate" /\ m.status \in {"draft", "applied"}
     /\ m.media = "validating" /\ m.mid = j[2]
  \/ j[1] = "media" /\ m.status = "applied" /\ m.media = "processing" /\ m.mid = j[2]

(* A job whose key its instance holds is not started by it again.          *)
Resumed(t, jobs, m) ==
  [j \in Jobs |-> IF j \in jobs /\ Due(j, m) /\ t[j] = NoTask THEN Scheduled ELSE t[j]]

(* writeManifest refuses a batch that was cancelled; it looks before it    *)
(* writes, so a cancellation in between does not stop it.                  *)
Cancelled(i) == i \in barred \/ man.status = "cancelled"

(* A write renews the lease if its instance has it.                        *)
Written(i, m) ==
  /\ man' = m
  /\ lease' = IF lease.owner = i THEN [lease EXCEPT !.live = TRUE] ELSE lease

(* A process that ends leaves its lease to run out.                        *)
Stopped(i) ==
  /\ hand' = [hand EXCEPT ![i] = Unlocked]
  /\ flow' = [flow EXCEPT ![i] = Nil]
  /\ task' = [task EXCEPT ![i] = [j \in Jobs |-> NoTask]]
  /\ again' = [again EXCEPT ![i] = {}]
  /\ barred' = barred \ {i}

(* The messages media can be linked to.                                    *)
Attachable == {m \in BackupMessages : history[m] # "absent"}

(* What the bounds cap.                                                    *)
Stray ==
  /\ spent.detours < MaxDetours
  /\ spent' = [spent EXCEPT !.detours = @ + 1]

----------------------------------------------------------------------------
(* Requests                                                                *)

(* The lock is taken and the manifest read; it will be written as `new`,   *)
(* and then the jobs of `then` are resumed.                                *)
Take(i, op, up, new, then) ==
  /\ hand[i] = Unlocked
  /\ hand' = [hand EXCEPT ![i] = [op |-> op, up |-> up, new |-> new, then |-> then,
                                  early |-> ~Cancelled(i)]]
  /\ UNCHANGED <<man, lease, task, again>>

(* createAndroidDatabaseUpload: a failed session is taken up again; a new  *)
(* one replaces what did not lead to a backup.                             *)
CreateDatabaseUpload(i) ==
  \E u \in DbUploads :
    /\ man.status = "draft" /\ ~man.backup
    /\ \/ /\ man.db = "failed" /\ man.did = u /\ uploads[u] # Gone
          /\ uploads' = [uploads EXCEPT ![u].status = "uploading"]
       \/ /\ man.db \in {Nil, "failed", "completed"} /\ uploads[u] = Fresh
          /\ uploads' = [v \in Uploads |->
               IF v = u THEN [Fresh EXCEPT !.status = "uploading"]
               ELSE IF v = man.did THEN Gone ELSE uploads[v]]
    /\ Take(i, "create", u, [man EXCEPT !.db = "uploading", !.did = u], {})
    /\ UNCHANGED <<disk, tenant, flow, barred, spent>>

(* createAndroidMediaUpload: a session that failed half way is taken up    *)
(* again; the ZIP of another that failed or is ready is replaced.          *)
CreateMediaUpload(i) ==
  \E u \in MediaUploads :
    /\ man.backup /\ man.status \in {"draft", "failed", "applied"}
    /\ \/ /\ man.media = "failed" /\ man.mid = u
          /\ uploads[u] # Gone /\ uploads[u].received < Chunks[u]
          /\ uploads' = [uploads EXCEPT ![u].status = "uploading"]
       \/ /\ man.media \notin {"uploading", "processing"} /\ uploads[u] = Fresh
          /\ uploads' = [v \in Uploads |->
               IF v = u THEN [Fresh EXCEPT !.status = "uploading"]
               ELSE IF v = man.mid /\ man.media \in {"failed", "ready"} THEN Gone
               ELSE uploads[v]]
    /\ Take(i, "create", u, [man EXCEPT !.media = "uploading", !.mid = u], {})
    /\ UNCHANGED <<disk, tenant, flow, barred, spent>>

(* A block is taken when the file has the bytes the record says; the slip  *)
(* trusts the record.                                                      *)
WholeByRecord(u) == TRUE
Whole(u) == Len(uploads[u].file) = uploads[u].received

Receiving(u) ==
  /\ uploads[u].status = "uploading"
  /\ IF u \in DbUploads
     THEN man.status = "draft" /\ ~man.backup /\ man.db # Nil /\ man.did = u
     ELSE man.backup /\ man.status \in {"draft", "failed", "applied"}

AddChunk(i) ==
  \E u \in Uploads :
    /\ Receiving(u) /\ Whole(u) /\ uploads[u].received < Chunks[u]
    /\ Take(i, "append", u, [man |-> man, n |-> uploads[u].received + 1], {})
    /\ UNCHANGED <<files, tenant, flow, barred, spent>>

AppendChunk(i) ==
  /\ hand[i].op = "append"
  /\ IF uploads[hand[i].up] = Gone
     THEN hand' = [hand EXCEPT ![i] = Unlocked] /\ UNCHANGED uploads
     ELSE /\ uploads' = [uploads EXCEPT ![hand[i].up].file = Append(@, hand[i].new.n)]
          /\ hand' = [hand EXCEPT ![i].op = "record"]
  /\ UNCHANGED <<man, lease, disk, tenant, flow, task, again, barred, spent>>

(* The record is written whole, as the request read it; the manifest only  *)
(* when it is about this session.                                          *)
RecordChunk(i) ==
  LET u == hand[i].up
      of == hand[i].new
  IN  /\ hand[i].op = "record"
      /\ uploads' = [uploads EXCEPT ![u].status = "uploading", ![u].received = of.n]
      /\ hand' = [hand EXCEPT ![i] = IF u \in {of.man.did, of.man.mid}
                                     THEN [@ EXCEPT !.op = "chunk", !.new = of.man] ELSE Unlocked]
      /\ UNCHANGED <<man, lease, disk, tenant, flow, task, again, barred, spent>>

(* completeAndroidDatabaseUpload: under the lock the session is closed, in *)
(* a second lock the backup is decrypted, in a third one the session       *)
(* completed or failed.                                                    *)
CompleteDatabaseUpload(i) ==
  \E u \in DbUploads :
    /\ flow[i] = Nil
    /\ man.status = "draft" /\ ~man.backup /\ man.db # Nil /\ man.did = u
    /\ uploads[u].status \notin {"fresh", "gone"}
    /\ Whole(u) /\ uploads[u].received = Chunks[u]
    /\ uploads' = [uploads EXCEPT ![u].status = "processing"]
    /\ Take(i, "complete", u, [man EXCEPT !.db = "processing"], {})
    /\ UNCHANGED <<disk, tenant, flow, barred, spent>>

(* addAndroidBackup.                                                       *)
Decrypt(i) ==
  /\ flow[i] # Nil /\ flow[i].next = "decrypt"
  /\ man.status = "draft" /\ uploads[flow[i].up] # Gone
  /\ disk' = [disk EXCEPT !.db = TRUE]
  /\ Take(i, "backup", flow[i].up,
          [man EXCEPT !.backup = TRUE, !.cmp = "processing", !.pending = 0, !.div = FALSE,
                      !.cutoff = FALSE, !.media = Nil, !.mid = Nil,
                      !.db = IF @ = "processing" THEN @ ELSE Nil],
          {<<"preview", Nil>>})
  /\ UNCHANGED <<uploads, tenant, flow, barred, spent>>

DecryptFails(i) ==
  /\ flow[i] # Nil /\ flow[i].next = "decrypt" /\ hand[i] = Unlocked
  /\ disk' = [disk EXCEPT !.db = FALSE]
  /\ flow' = [flow EXCEPT ![i].next = "failed"]
  /\ IF man.status # "draft" \/ uploads[flow[i].up] = Gone THEN UNCHANGED spent ELSE Stray
  /\ UNCHANGED <<man, lease, uploads, tenant, hand, task, again, barred>>

CloseDatabaseUpload(i) ==
  /\ flow[i] # Nil /\ flow[i].next \in {"completed", "failed"} /\ hand[i] = Unlocked
  /\ LET u == flow[i].up
         mine == man.db # Nil /\ man.did = u
     IN  /\ uploads' = [uploads EXCEPT ![u] =
              IF flow[i].next = "completed"
              THEN IF mine THEN @ ELSE Gone
              ELSE IF mine THEN [@ EXCEPT !.status = "failed"] ELSE @]
         /\ IF mine
            THEN Take(i, "close", u, [man EXCEPT !.db = flow[i].next], {})
            ELSE UNCHANGED <<man, lease, hand, task, again>>
  /\ flow' = [flow EXCEPT ![i] = Nil]
  /\ UNCHANGED <<disk, tenant, barred, spent>>

(* resolveAndroidDivergence: the file of decisions is written whole, the   *)
(* count of what is open goes into the manifest.                           *)
Open(div) == {d \in DOMAIN div : div[d] = Nil}

ResolveDivergence(i) ==
  /\ man.status = "draft" /\ man.backup /\ man.cmp = "ready" /\ disk.div # Nil
  /\ \E d \in DOMAIN disk.div, r \in Resolutions :
       LET div == [disk.div EXCEPT ![d] = r]
       IN  /\ IF disk.div[d] = Nil THEN UNCHANGED spent ELSE Stray
           /\ disk' = [disk EXCEPT !.div = div]
           /\ Take(i, "resolve", Nil, [man EXCEPT !.pending = Cardinality(Open(div))], {})
  /\ UNCHANGED <<uploads, tenant, flow, barred>>

(* completeAndroidMediaUpload.                                             *)
CompleteMediaUpload(i) ==
  \E u \in MediaUploads :
    /\ man.backup /\ man.status \in {"draft", "failed", "applied"}
    /\ uploads[u].received = Chunks[u]
    /\ uploads[u].status \notin {"gone", "completed", "ready", "validating"}
    /\ uploads' = [uploads EXCEPT ![u].status = "validating"]
    /\ Take(i, "validating", u, [man EXCEPT !.media = "validating", !.mid = u],
            {<<"validate", u>>})
    /\ UNCHANGED <<disk, tenant, flow, barred, spent>>

(* addAndroidMediaArchive: a ZIP that is linked while the request waits.   *)
AddMediaArchive(i) ==
  /\ man.backup /\ man.status = "applied"
  /\ Stray
  /\ attached' = attached \cup Attachable
  /\ Take(i, "archive", Nil, [man EXCEPT !.media = "completed", !.mid = Nil], {})
  /\ UNCHANGED <<files, history, accepted, flow, barred>>

(* apply: the decisions are looked up in the file, not in the count.       *)
Settled == IF disk.div = Nil THEN ~man.div ELSE Open(disk.div) = {}

Apply(i) ==
  /\ man.backup /\ man.status # "applied" /\ man.cmp = "ready" /\ Settled
  /\ man.media = "ready"
  /\ IF man.status = "applying" THEN Stray ELSE UNCHANGED spent
  /\ Take(i, "apply", Nil, [man EXCEPT !.status = "applying", !.cutoff = TRUE],
          {<<"import", Nil>>})
  /\ UNCHANGED <<files, tenant, flow, barred>>

(* cancel and cancelUpload.                                                *)
Cancel(i) ==
  /\ man.status \notin {"applied", "cancelled"}
  /\ barred' = barred \cup {i}
  /\ spent.detours < MaxDetours
  /\ spent' = [spent EXCEPT !.detours = @ + 1, !.cancelled = TRUE]
  /\ Take(i, "cancel", Nil, [man EXCEPT !.status = "cancelled"], {})
  /\ UNCHANGED <<files, tenant, flow>>

CancelUpload(i) ==
  \E u \in Uploads :
    /\ uploads[u].status \notin {"fresh", "gone", "completed"}
    /\ Stray
    /\ Take(i, "drop", u,
            IF u = man.did THEN [man EXCEPT !.db = Nil, !.did = Nil]
            ELSE IF u = man.mid THEN [man EXCEPT !.media = "failed", !.mid = Nil]
            ELSE man, {})
    /\ UNCHANGED <<files, tenant, flow, barred>>

(* The manifest is written, what must follow it is done and the lock let   *)
(* go of.  A job that published is ending.                                 *)
Published(i, t) ==
  IF <<hand[i].op, hand[i].up>> \in Jobs
  THEN [t EXCEPT ![<<hand[i].op, hand[i].up>>] = [stage |-> "ending"]] ELSE t

Commit(i) ==
  LET h == hand[i]
  IN  /\ h.op \notin {"idle", "append", "record", "cancel"}
      /\ h.early \/ ~Cancelled(i)
      /\ Written(i, h.new)
      /\ hand' = [hand EXCEPT ![i] = Unlocked]
      /\ task' = [task EXCEPT ![i] = Published(i, Resumed(@, h.then, h.new))]
      /\ again' = [again EXCEPT ![i] =
           @ \cup IF h.op = "validate" THEN {j \in h.then : task[i][j] # NoTask} ELSE {}]
      /\ uploads' = IF h.op \in {"media", "drop"} \/ (h.op = "close" /\ h.new.db = "completed")
                    THEN [uploads EXCEPT ![h.up] = Gone] ELSE uploads
      /\ flow' = [flow EXCEPT ![i] =
           IF h.op = "complete" THEN [next |-> "decrypt", up |-> h.up]
           ELSE IF h.op = "backup" THEN [next |-> "completed", up |-> h.up] ELSE @]
      /\ UNCHANGED <<disk, tenant, barred, spent>>

(* A cancelled batch has no lease and no directory.                        *)
CommitCancel(i) ==
  /\ hand[i].op = "cancel"
  /\ man' = hand[i].new
  /\ lease' = Unleased
  /\ uploads' = [u \in Uploads |-> IF uploads[u] = Fresh THEN Fresh ELSE Gone]
  /\ disk' = EmptyDisk
  /\ hand' = [hand EXCEPT ![i] = Unlocked]
  /\ UNCHANGED <<tenant, flow, task, again, barred, spent>>

Refuse(i) ==
  /\ hand[i].op \notin {"idle", "append", "record", "cancel"}
  /\ ~hand[i].early \/ Cancelled(i)
  /\ hand' = [hand EXCEPT ![i] = Unlocked]
  /\ flow' = [flow EXCEPT ![i] = Nil]
  /\ task' = [task EXCEPT ![i] = Published(i, @)]
  /\ UNCHANGED <<man, lease, files, tenant, again, barred, spent>>

(* Whoever finds the lock taken waits for it.                              *)
Request(i) ==
  /\ hand[i] = Unlocked
  /\ \/ CreateDatabaseUpload(i) \/ CreateMediaUpload(i) \/ AddChunk(i)
     \/ CompleteDatabaseUpload(i) \/ CompleteMediaUpload(i) \/ AddMediaArchive(i)
     \/ ResolveDivergence(i) \/ Apply(i) \/ Cancel(i) \/ CancelUpload(i)

Locked(i) ==
  \/ AppendChunk(i) \/ RecordChunk(i) \/ Commit(i) \/ CommitCancel(i) \/ Refuse(i)
  \/ Decrypt(i) \/ DecryptFails(i) \/ CloseDatabaseUpload(i)

----------------------------------------------------------------------------
(* Jobs: runClaimedJob                                                     *)

Failing == [stage |-> "fail"]
Becomes(i, j, t) == task' = [task EXCEPT ![i][j] = t]
Ends(i, j) == Becomes(i, j, [stage |-> "ending"])

(* claimBatch; who does not get the batch gives the job up.  The slip does *)
(* not look at the end of a lease.                                         *)
ClaimableWhenFree(i) ==
  /\ DurableStatus(man) \notin {"completed", "cancelled", "expired"}
  /\ lease.owner = Nil
BatchClaimable(i) ==
  /\ DurableStatus(man) \notin {"completed", "cancelled", "expired"}
  /\ ~lease.live

ClaimBatch(i, j) ==
  /\ task[i][j] = Scheduled
  /\ IF BatchClaimable(i)
     THEN /\ lease' = [owner |-> i, live |-> TRUE]
          /\ Becomes(i, j, [stage |-> "claimed", snap |-> man, early |-> ~Cancelled(i)])
     ELSE Becomes(i, j, NoTask) /\ UNCHANGED lease
  /\ UNCHANGED <<man, files, tenant, hand, flow, again, barred, spent>>

(* A job whose first or last write is refused rejects a promise nobody     *)
(* handles, which ends the process after the lease was returned.           *)
Perish(i) ==
  /\ Stopped(i)
  /\ lease' = IF lease.owner = i THEN Unleased ELSE lease
  /\ UNCHANGED <<man, files, tenant, spent>>

(* The manifest is written back as it was read, with one more attempt.     *)
Start(i, j) ==
  LET t == task[i][j]
  IN  /\ t.stage = "claimed"
      /\ \/ /\ t.early \/ ~Cancelled(i)
            /\ Written(i, t.snap)
            /\ Becomes(i, j, [stage |-> "run"])
            /\ UNCHANGED <<files, tenant, hand, flow, again, barred, spent>>
         \/ /\ ~t.early \/ Cancelled(i)
            /\ Perish(i)

(* runAndroidPreview: what is new and what diverges goes into the files    *)
(* first.                                                                  *)
Diverging == {d \in Divergent : history[d] = "existing" /\ d \notin accepted}

Compare(i, j) ==
  /\ j[1] = "preview" /\ task[i][j].stage = "run"
  /\ \/ ~Due(j, man) /\ Ends(i, j) /\ UNCHANGED disk
     \/ /\ Due(j, man) /\ disk.db
        /\ disk' = [disk EXCEPT !.ids = {m \in BackupMessages : history[m] = "absent"},
                                !.refs = TRUE,
                                !.div = [d \in Diverging |-> Nil]]
        /\ Becomes(i, j, [stage |-> "publish", found |-> Cardinality(Diverging)])
     \/ Due(j, man) /\ ~disk.db /\ Becomes(i, j, Failing) /\ UNCHANGED disk
  /\ UNCHANGED <<man, lease, uploads, tenant, hand, flow, again, barred, spent>>

PublishPreview(i, j) ==
  LET t == task[i][j]
  IN  /\ j[1] = "preview" /\ t.stage \in {"publish", "fail"} /\ hand[i] = Unlocked
      /\ IF man.backup /\ man.status = "draft"
         THEN Take(i, j[1], j[2],
                   IF t.stage = "publish"
                   THEN [man EXCEPT !.cmp = "ready", !.pending = t.found, !.div = t.found > 0]
                   ELSE [man EXCEPT !.cmp = "failed", !.pending = 0, !.div = FALSE], {})
         ELSE /\ Ends(i, j)
              /\ UNCHANGED <<man, lease, hand, again>>
      /\ UNCHANGED <<files, tenant, flow, barred, spent>>

(* runAndroidImport works on the manifest it read and writes it, without   *)
(* the lock, after the decisions and after every block of messages.  Any   *)
(* of its steps may fail.                                                  *)
Load(i, j) ==
  /\ j[1] = "import" /\ task[i][j].stage = "run"
  /\ Becomes(i, j,
       IF man.cutoff /\ disk.db /\ disk.ids # Nil /\ Settled
       THEN [stage |-> "carry", snap |-> man, ids |-> disk.ids,
             div |-> IF disk.div = Nil THEN <<>> ELSE disk.div]
       ELSE Failing)
  /\ UNCHANGED <<man, lease, files, tenant, hand, flow, again, barred, spent>>

Saving(i, j, t) == Becomes(i, j, [t EXCEPT !.stage = IF Cancelled(i) THEN "late" ELSE "save"])

CarryOut(i, j) ==
  LET t == task[i][j]
  IN  /\ j[1] = "import" /\ t.stage = "carry"
      /\ IF DOMAIN t.div = {}
         THEN Saving(i, j, t) /\ UNCHANGED <<history, accepted>>
         ELSE \E d \in DOMAIN t.div :
                /\ Becomes(i, j, [t EXCEPT !.div = [e \in DOMAIN @ \ {d} |-> @[e]]])
                /\ IF t.div[d] = "keep-existing"
                   THEN accepted' = accepted \cup {d} /\ UNCHANGED history
                   ELSE /\ history' = [history EXCEPT ![d] = "backup"]
                        /\ accepted' = accepted \ {d}
      /\ UNCHANGED <<man, lease, files, attached, hand, flow, again, barred, spent>>

(* The blocks of messages that are new; then the ZIP is handed over.  The  *)
(* slip goes on to it whatever became of the blocks.                       *)
ImportedSome(t) == TRUE
ImportedAll(t) == t.ids \subseteq {m \in BackupMessages : history[m] # "absent"}

ImportChunk(i, j) ==
  LET t == task[i][j]
  IN  /\ j[1] = "import" /\ t.stage = "chunk"
      /\ \E m \in t.ids :
           /\ history[m] = "absent"
           /\ history' = [history EXCEPT ![m] = "backup"]
      /\ Saving(i, j, t)
      /\ UNCHANGED <<man, lease, files, accepted, attached,
                     hand, flow, again, barred, spent>>

HandOver(i, j) ==
  LET t == task[i][j]
      u == t.snap.mid
  IN  /\ j[1] = "import" /\ t.stage = "chunk"
      /\ ImportedAll(t)
      /\ IF t.snap.media = "ready"
         THEN IF uploads[u].status = "ready" /\ uploads[u].received = Chunks[u]
              THEN /\ uploads' = [uploads EXCEPT ![u].status = "processing"]
                   /\ Saving(i, j, [t EXCEPT !.snap.status = "applied",
                                             !.snap.media = "processing"])
              ELSE Becomes(i, j, Failing) /\ UNCHANGED uploads
         ELSE Saving(i, j, [t EXCEPT !.snap.status = "applied"]) /\ UNCHANGED uploads
      /\ UNCHANGED <<man, lease, disk, tenant, hand, flow, again, barred, spent>>

(* The write of the import: the batch goes on, or is applied.              *)
Save(i, j) ==
  LET t == task[i][j]
      media == {<<"media", t.snap.mid>>} \cap Jobs
  IN  /\ j[1] = "import" /\ t.stage \in {"save", "late"}
      /\ \/ /\ t.stage = "save" \/ ~Cancelled(i)
            /\ Written(i, t.snap)
            /\ IF t.snap.status = "applied"
               THEN /\ task' = [task EXCEPT ![i] =
                         [Resumed(@, media, t.snap) EXCEPT ![j] = [stage |-> "ending"]]]
                    /\ again' = [again EXCEPT ![i] =
                         @ \cup {k \in media : Due(k, t.snap) /\ task[i][k] # NoTask}]
               ELSE Becomes(i, j, [t EXCEPT !.stage = "chunk"]) /\ UNCHANGED again
         \/ /\ t.stage = "late" \/ Cancelled(i)
            /\ Becomes(i, j, Failing)
            /\ UNCHANGED <<man, lease, again>>
      /\ UNCHANGED <<files, tenant, hand, flow, barred, spent>>

(* What cannot be finished is read again and written back as failed.       *)
GiveImportUp(i, j) ==
  /\ j[1] = "import" /\ task[i][j].stage = "fail"
  /\ Becomes(i, j, [stage |-> "failed", snap |-> [man EXCEPT !.status = "failed"],
                    early |-> ~Cancelled(i)])
  /\ UNCHANGED <<man, lease, files, tenant, hand, flow, again, barred, spent>>

SaveFailure(i, j) ==
  LET t == task[i][j]
  IN  /\ t.stage = "failed"
      /\ \/ /\ t.early \/ ~Cancelled(i)
            /\ Written(i, t.snap)
            /\ Ends(i, j)
            /\ UNCHANGED <<files, tenant, hand, flow, again, barred, spent>>
         \/ /\ ~t.early \/ Cancelled(i)
            /\ Perish(i)

(* previewArchive and attachArchive: not the size that was announced.      *)
Incomplete(u) == Len(uploads[u].file) # Chunks[u]

(* runAndroidMediaValidationJob.                                           *)
Validate(i, j) ==
  LET u == j[2]
  IN  /\ j[1] = "validate" /\ task[i][j].stage = "run"
      /\ IF ~Due(j, man) \/ uploads[u].status \notin {"validating", "gone"}
         THEN Ends(i, j)
         ELSE Becomes(i, j, IF Incomplete(u) \/ (man.status = "draft" /\ ~disk.refs)
                            THEN Failing ELSE [stage |-> "publish"])
      /\ UNCHANGED <<man, lease, files, tenant, hand, flow, again, barred, spent>>

(* runAndroidMediaJob and attachArchive: the batch must be applied and the  *)
(* ZIP of the announced size; linking is idempotent.                        *)
Attach(i, j) ==
  /\ j[1] = "media" /\ task[i][j].stage = "run"
  /\ IF man.status # "applied" \/ Incomplete(j[2])
     THEN Becomes(i, j, Failing) /\ UNCHANGED attached
     ELSE /\ attached' = attached \cup Attachable
          /\ Becomes(i, j, [stage |-> "publish"])
  /\ UNCHANGED <<man, lease, files, history, accepted, hand, flow, again, barred, spent>>

(* Any of them may fail while it works.                                    *)
Fails(i, j) ==
  /\ IF j[1] = "import" THEN task[i][j].stage \in {"carry", "chunk"}
     ELSE task[i][j].stage = "run" /\ Due(j, man)
  /\ Becomes(i, j, Failing)
  /\ Stray
  /\ UNCHANGED <<man, lease, files, tenant, hand, flow, again, barred>>

(* What came out of the ZIP is published under the lock, when the manifest *)
(* still speaks of the session.                                            *)
MediaResult(j, stage) ==
  CASE stage = "fail" -> [man EXCEPT !.media = "failed"]
    [] stage = "publish" /\ j[1] = "media" -> [man EXCEPT !.media = "completed", !.mid = Nil]
    [] stage = "publish" /\ j[1] = "validate" ->
         [man EXCEPT !.media = IF man.status = "applied" THEN "processing" ELSE "ready"]

PublishMedia(i, j) ==
  LET t == task[i][j]
      u == j[2]
      mine == man.backup /\ man.mid = u
                /\ (j[1] = "validate" /\ t.stage = "publish" => man.media = "validating")
      new == MediaResult(j, t.stage)
  IN  /\ j[1] \in {"validate", "media"} /\ t.stage \in {"publish", "fail"} /\ hand[i] = Unlocked
      /\ uploads' =
           IF uploads[u] = Gone THEN uploads
           ELSE IF t.stage = "fail" THEN [uploads EXCEPT ![u].status = "failed"]
           ELSE IF j[1] = "validate"
                THEN IF mine THEN [uploads EXCEPT ![u].status = new.media] ELSE uploads
                ELSE IF mine THEN uploads ELSE [uploads EXCEPT ![u] = Gone]
      /\ IF mine
         THEN Take(i, j[1], u, new,
                   IF t.stage = "publish" THEN {<<"media", u>>} ELSE {})
         ELSE Ends(i, j) /\ UNCHANGED <<man, lease, hand, again>>
      /\ UNCHANGED <<disk, tenant, flow, barred, spent>>

(* releaseBatch goes by instance.  Then every other job the manifest asks  *)
(* for is resumed, and this one if it was asked for again.                 *)
Release(i, j) ==
  /\ task[i][j].stage = "ending"
  /\ lease' = IF lease.owner = i THEN Unleased ELSE lease
  /\ Becomes(i, j, [stage |-> "released"])
  /\ UNCHANGED <<man, files, tenant, hand, flow, again, barred, spent>>

Resume(i, j) ==
  LET others == Resumed(task[i], Jobs \ {j}, man)
      mine == IF j \in again[i] /\ Due(j, man) THEN Scheduled ELSE NoTask
  IN  /\ task[i][j].stage = "released"
      /\ task' = [task EXCEPT ![i] = [others EXCEPT ![j] = mine]]
      /\ again' = [again EXCEPT ![i] = @ \ {j}]
      /\ UNCHANGED <<man, lease, files, tenant, hand, flow, barred, spent>>

Job(i, j) ==
  /\ task[i][j] # NoTask
  /\ \/ ClaimBatch(i, j) \/ Start(i, j) \/ Compare(i, j) \/ PublishPreview(i, j)
     \/ Load(i, j) \/ CarryOut(i, j) \/ ImportChunk(i, j) \/ HandOver(i, j)
     \/ Save(i, j) \/ GiveImportUp(i, j) \/ SaveFailure(i, j)
     \/ Validate(i, j) \/ Attach(i, j) \/ PublishMedia(i, j)
     \/ Fails(i, j) \/ Release(i, j) \/ Resume(i, j)

----------------------------------------------------------------------------
(* Timers and faults                                                       *)

(* recoverDurableJobs: what is to be done and nobody holds.                *)
Recover(i) ==
  /\ DurableStatus(man) \in {"validating", "processing", "applying", "processing-media"}
  /\ ~lease.live
  /\ \E j \in Jobs : Due(j, man) /\ task[i][j] = NoTask
  /\ task' = [task EXCEPT ![i] = Resumed(@, Jobs, man)]
  /\ UNCHANGED <<man, lease, files, tenant, hand, flow, again, barred, spent>>

(* cleanupExpiredImports, without the lock: a batch that is too old loses  *)
(* its directory, and a session that is too old its own.                   *)
CleanUp ==
  /\ DurableStatus(man) \in {"draft", "uploading", "validating", "ready", "failed"}
  /\ man' = [man EXCEPT !.status = "expired"]
  /\ uploads' = [u \in Uploads |-> IF uploads[u] = Fresh THEN Fresh ELSE Gone]
  /\ disk' = EmptyDisk
  /\ Stray
  /\ UNCHANGED <<lease, tenant, memory>>

ExpireUpload(u) ==
  /\ uploads[u] \notin {Fresh, Gone}
  /\ uploads' = [uploads EXCEPT ![u] = Gone]
  /\ Stray
  /\ UNCHANGED <<man, lease, disk, tenant, memory>>

InstanceDies(i) ==
  /\ spent.crashes < MaxCrashes
  /\ spent' = [spent EXCEPT !.crashes = @ + 1]
  /\ Stopped(i)
  /\ lease' = IF lease.owner = i THEN [lease EXCEPT !.owner = "dead"] ELSE lease
  /\ UNCHANGED <<man, files, tenant>>

(* The lease of a dead process runs out; a living one renews it, three     *)
(* times in its length.                                                    *)
Lapse ==
  /\ lease.live /\ lease.owner = "dead"
  /\ lease' = [lease EXCEPT !.live = FALSE]
  /\ UNCHANGED <<man, files, tenant, memory, spent>>

HistoryInit ==
  /\ man = [status |-> "draft", backup |-> FALSE, db |-> Nil, did |-> Nil,
            cmp |-> Nil, pending |-> 0, div |-> FALSE, cutoff |-> FALSE,
            media |-> Nil, mid |-> Nil]
  /\ lease = Unleased
  /\ uploads = [u \in Uploads |-> Fresh]
  /\ disk = EmptyDisk
  /\ history = [m \in BackupMessages |-> IF m \in Divergent THEN "existing" ELSE "absent"]
  /\ accepted = {} /\ attached = {}
  /\ hand = [i \in Instances |-> Unlocked]
  /\ flow = [i \in Instances |-> Nil]
  /\ task = [i \in Instances |-> [j \in Jobs |-> NoTask]]
  /\ again = [i \in Instances |-> {}]
  /\ barred = {}
  /\ spent = [crashes |-> 0, detours |-> 0, cancelled |-> FALSE]

HistoryNext ==
  \/ \E i \in Front : Request(i)
  \/ \E i \in Instances : Locked(i) \/ Recover(i) \/ InstanceDies(i)
  \/ \E i \in Instances, j \in Jobs : Job(i, j)
  \/ CleanUp \/ Lapse \/ \E u \in Uploads : ExpireUpload(u)

(* A process goes on with what it began, the recovery timer fires, a lease *)
(* nobody renews runs out.                                                 *)
Fairness ==
  /\ \A i \in Instances :
       /\ WF_historyVars(Locked(i)) /\ WF_historyVars(Recover(i))
       /\ WF_historyVars(\E j \in Jobs : Job(i, j))
  /\ WF_historyVars(Lapse)

HistorySpec == HistoryInit /\ [][HistoryNext]_historyVars /\ Fairness

----------------------------------------------------------------------------
(* Properties                                                              *)

SessionStatuses ==
  {"fresh", "uploading", "processing", "validating", "ready", "failed", "gone"}

(* The manifest, the sessions and what the tenant has are of the values    *)
(* the code gives them.                                                    *)
HistoryTypeOK ==
  /\ man.status \in BatchStatuses
  /\ man.did \in DbUploads \cup {Nil} /\ man.mid \in MediaUploads \cup {Nil}
  /\ man.pending \in 0..Cardinality(Divergent)
  /\ lease.owner \in Instances \cup {Nil, "dead"}
  /\ \A u \in Uploads :
       /\ uploads[u].status \in SessionStatuses
       /\ uploads[u].received \in 0..Chunks[u]
  /\ history \in [BackupMessages -> {"absent", "existing", "backup"}]
  /\ accepted \subseteq Divergent
  /\ \A i \in Instances : hand[i] # Unlocked /\ hand[i].op \in {"preview", "validate", "media"} =>
       task[i][<<hand[i].op, hand[i].up>>].stage \in {"publish", "fail"}

(* A batch that is applied has brought every message of the backup, and    *)
(* carried out a decision about every one that diverged                    *)
(* (runAndroidImport).                                                     *)
ImportIsComplete ==
  man.status = "applied" =>
    /\ \A m \in BackupMessages : history[m] # "absent"
    /\ \A d \in Divergent : history[d] = "backup" \/ d \in accepted

(* What a session says it received are the blocks of the client, in order  *)
(* and once each, whatever crashed between the bytes and their record,     *)
(* unless nothing is left of the file.                                     *)
ReceivedIsPrefix ==
  \A u \in Uploads :
    LET up == uploads[u] IN
    \/ up.file = <<>>
    \/ up.received <= Len(up.file) /\ \A k \in 1..up.received : up.file[k] = k

(* The media are linked after the last message was brought: what the ZIP   *)
(* has for a message that is not there yet is deleted with it.             *)
MediaAfterMessages ==
  man.media = "completed" => attached = BackupMessages

(* Two jobs never work on the batch at a time, unless somebody cancelled   *)
(* it, which frees its lease: what one writes the other would undo.        *)
AtWork == {w \in Instances \X Jobs :
              task[w[1]][w[2]].stage \notin {"none", "scheduled", "released"}}
OneJobAtATime == ~spent.cancelled => Cardinality(AtWork) <= 1

(* The jobs of a batch do their work one after the other and in order, on   *)
(* values of their types.                                                  *)
JobsAreOrderly ==
  HistoryTypeOK /\ ImportIsComplete /\ MediaAfterMessages /\ OneJobAtATime

(* An import that was started comes to an end, whatever process dies.      *)
ImportSettles == (man.status = "applying") ~> (man.status # "applying")
=============================================================================
