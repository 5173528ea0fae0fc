------------------------------ MODULE PackageImport ------------------------------
(***************************************************************************)
(* The package importer: batches of legacy conversations that are applied, *)
(* resumed, reconciled and rolled back while the tenant goes on talking    *)
(* (src/infra/imports/whatsapp-import.service.ts).                         *)
(*                                                                         *)
(* A worker is one run of apply or rollback.  apply validates the package, *)
(* claims the batch and writes each conversation in a READ COMMITTED       *)
(* transaction: what it reads, the drift check included, is one step, what *)
(* it writes up to the commit another.  A unique key makes the second      *)
(* writer fail.  rollback is one serializable transaction.                 *)
(***************************************************************************)
EXTENDS Integers, FiniteSets, Sequences

CONSTANTS
  Workers,      \* runs of the importer
  Phones,       \* contacts of the channel, one conversation each
  Exts,         \* external conversation identifiers
  PhoneOf,      \* the phone of an external conversation
  Messages,     \* external message identifiers
  Batches,
  Absent,       \* what is not there
  Package,      \* Package[b][e]: the messages batch b brings for e
  MaxRuns,      \* bound: runs of apply and rollback
  MaxActivity   \* bound: real messages

(* The row of a conversation: its identifier, its version, and whose the   *)
(* rest of it is: a batch's or the live conversation's.                    *)
ConvRow == [id : Nat \ {0}, version : Nat \ {0}, content : Batches \cup {"live"}]

ASSUME PackagesAreRows ==
  /\ PhoneOf \in [Exts -> Phones]
  /\ \A b \in Batches : DOMAIN Package[b] \subseteq Exts /\ DOMAIN Package[b] # {}
  /\ \A b \in Batches : \A e \in DOMAIN Package[b] : Package[b][e] \subseteq Messages
  /\ {MaxRuns, MaxActivity} \subseteq Nat
  /\ IsFiniteSet(Messages) /\ "live" \notin Batches

ASSUME AbsentIsNoRow ==
  /\ Absent \notin Workers \cup Batches \cup ConvRow
  /\ Absent \notin {"applying", "applied", "failed", "rolled-back"}
  /\ Absent \notin [conv : Nat, batch : Batches] \cup [conv : Nat, after : SUBSET Batches]

VARIABLES
  batch,    \* whatsapp_import_batches
  cut,      \* the batches whose cut-off instant has passed
  conv,     \* the conversation of each phone
  ref,      \* external references of conversations
  mref,     \* external references of messages: the batch that made them
  rows,     \* imported messages
  live,     \* real messages
  records,  \* whatsapp_import_records, in order of appliedAt
  job,      \* what each worker is doing
  runs, made, raced
            \* runs started; conversations created; records written over a
            \* conversation that had changed since the transaction read it

importVars == <<batch, cut, conv, ref, mref, rows, live, records, job, runs, made, raced>>
data == <<conv, ref, mref, rows, live, records, made, raced>>

Idle == [op |-> "idle"]
Unclaimed == [status |-> Absent, claim |-> Absent, leased |-> FALSE, counts |-> <<0, 0>>]

----------------------------------------------------------------------------
(* Rows                                                                    *)

AppliedOf(b) ==
  {k \in DOMAIN records : records[k].batch = b /\ records[k].status = "applied"}

(* The rows of the package this batch has already applied.                 *)
RecordedApplied(b, e) == \E k \in AppliedOf(b) : records[k].ext = e

(* The unique key of the records: a rolled back record still holds it.     *)
Recorded(b, e) == \E k \in DOMAIN records : records[k].batch = b /\ records[k].ext = e

(* The conversation an identifier refers to, as it is now.                 *)
Referenced(e) ==
  LET c == conv[PhoneOf[e]] IN c # Absent /\ ref[e] # Absent /\ c.id = ref[e].conv

(* assertNoDriftSinceLastImport: a conversation that was imported before   *)
(* is only imported again as the last import left it; the slip checks      *)
(* nothing.                                                                *)
UnchangedAlways(e) == TRUE
Unchanged(e) ==
  LET of == {k \in DOMAIN records : /\ records[k].conv = ref[e].conv
                                    /\ records[k].status = "applied"}
      last == CHOOSE k \in of : \A l \in of : l <= k
  IN  ref[e] # Absent =>
        /\ of # {}
        /\ conv[PhoneOf[e]] = records[last].after
        /\ ~\E l \in live : l.conv = ref[e].conv /\ l.seen >= last

(* prepare: what the package says against what the tenant has.             *)
ValidConversation(e) ==
  /\ ref[e] # Absent => Referenced(e)
  /\ Unchanged(e)

ValidMessage(m, e) ==
  IF mref[m] # Absent
  THEN rows[m] # Absent /\ ref[e] # Absent /\ rows[m].conv = ref[e].conv
  ELSE rows[m] = Absent

Valid(b) ==
  \A e \in DOMAIN Package[b] :
    /\ ValidConversation(e)
    /\ \A m \in Package[b][e] : ValidMessage(m, e)

(* A batch whose run is over.                                              *)
Released(b, status) ==
  [batch[b] EXCEPT !.status = status, !.claim = Absent, !.leased = FALSE]

----------------------------------------------------------------------------
(* apply                                                                   *)

Available(w) == job[w] = Idle /\ runs < MaxRuns

Run(w, task) ==
  /\ runs' = runs + 1
  /\ job' = [job EXCEPT ![w] = task]

(* The run validates and looks at the batch; a batch that is applied is    *)
(* answered with what it did, which changes nothing.                       *)
StartApply(w, b) ==
  /\ Available(w)
  /\ b \in cut
  /\ Valid(b)
  /\ \/ batch[b].status \in {Absent, "failed"}
     \/ batch[b].status = "applying" /\ ~batch[b].leased
  /\ Run(w, [op |-> "claim", b |-> b, new |-> batch[b].status = Absent])
  /\ UNCHANGED <<batch, cut, data>>

(* The batch is created, or taken over from a run that failed or whose     *)
(* lease is over.                                                          *)
Claimable(b) ==
  \/ batch[b].status = "failed"
  \/ batch[b].status = "applying" /\ ~batch[b].leased

Claim(w) ==
  LET b == job[w].b
  IN  /\ job[w].op = "claim"
      /\ IF IF job[w].new THEN batch[b].status = Absent ELSE Claimable(b)
         THEN /\ batch' = [batch EXCEPT ![b] =
                   [@ EXCEPT !.status = "applying", !.claim = w, !.leased = TRUE]]
              /\ job' = [job EXCEPT ![w] = [op |-> "apply", b |-> b, done |-> {}]]
         ELSE job' = [job EXCEPT ![w] = Idle] /\ UNCHANGED batch
      /\ UNCHANGED <<cut, runs, data>>

(* The loop over the rows: the lease is renewed by its owner, a row that   *)
(* has its record is skipped, the transaction of another one opens.        *)
ReadConversation(w) ==
  \E e \in DOMAIN Package[job[w].b] :
    LET b == job[w].b
    IN  /\ e \notin job[w].done
        /\ IF batch[b].claim # w
           THEN job' = [job EXCEPT ![w] = [op |-> "fail", b |-> b]] /\ UNCHANGED batch
           ELSE /\ batch' = [batch EXCEPT ![b].leased = TRUE]
                /\ job' = [job EXCEPT ![w] =
                     IF RecordedApplied(b, e)
                     THEN [op |-> "apply", b |-> b, done |-> @.done \cup {e}]
                     ELSE IF ~Unchanged(e) \/ (ref[e] # Absent /\ ~Referenced(e))
                          THEN [op |-> "fail", b |-> b]
                          ELSE [op |-> "write", b |-> b, done |-> @.done, e |-> e,
                                conv |-> conv[PhoneOf[e]], ref |-> ref[e]]]
        /\ UNCHANGED <<cut, runs, data>>

(* What the writes of the transaction run into: unique keys, a row that is *)
(* gone, a message of another conversation.                                *)
CollidesMessage(m, now) ==
  \/ mref[m] # Absent /\ (rows[m] = Absent \/ now = Absent)
  \/ mref[m] # Absent /\ rows[m] # Absent /\ now # Absent /\ rows[m].conv # now.id
  \/ mref[m] = Absent /\ rows[m] # Absent

Collides(j) ==
  LET now == conv[PhoneOf[j.e]]
  IN  \/ (j.conv = Absent) # (now = Absent)
      \/ j.conv # Absent /\ now # Absent /\ j.conv.id # now.id
      \/ j.ref = Absent /\ ref[j.e] # Absent
      \/ Recorded(j.b, j.e)
      \/ \E m \in Package[j.b][j.e] : CollidesMessage(m, now)

(* The row a conversation becomes; `content` stands for what the package   *)
(* says of its contact, its steps and its quote request.                   *)
Imported(j) ==
  LET now == conv[PhoneOf[j.e]]
  IN  IF now = Absent
      THEN [id |-> made + 1, version |-> 1, content |-> j.b]
      ELSE [now EXCEPT !.version = @ + 1, !.content = j.b]

NewMessages(j) == {m \in Package[j.b][j.e] : mref[m] = Absent}

(* What the rollback and the next import will go by.                       *)
RecordOf(j) ==
  [batch |-> j.b, ext |-> j.e, conv |-> Imported(j).id, before |-> j.conv,
   after |-> Imported(j), msgs |-> NewMessages(j), newRef |-> j.ref = Absent,
   status |-> "applied"]

(* applyConversation: the row, its references, the messages that are new   *)
(* and the record with the snapshots, in one transaction.                  *)
WriteConversation(w) ==
  LET j == job[w]
      p == PhoneOf[j.e]
      after == Imported(j)
  IN  IF Collides(j)
      THEN /\ job' = [job EXCEPT ![w] = [op |-> "fail", b |-> j.b]]
           /\ UNCHANGED <<batch, cut, runs, data>>
      ELSE /\ conv' = [conv EXCEPT ![p] = after]
           /\ made' = IF conv[p] = Absent THEN made + 1 ELSE made
           /\ ref' = IF j.ref = Absent
                     THEN [ref EXCEPT ![j.e] = [conv |-> after.id, batch |-> j.b]]
                     ELSE ref
           /\ mref' = [m \in Messages |-> IF m \in NewMessages(j) THEN j.b ELSE mref[m]]
           /\ rows' = [m \in Messages |->
                IF m \in NewMessages(j) THEN [conv |-> after.id, after |-> cut] ELSE rows[m]]
           /\ records' = Append(records, RecordOf(j))
           /\ raced' = IF j.conv = conv[p] /\ j.ref = ref[j.e] THEN raced
                       ELSE raced \cup {Len(records) + 1}
           /\ job' = [job EXCEPT ![w] =
                [op |-> "apply", b |-> j.b, done |-> j.done \cup {j.e}]]
           /\ UNCHANGED <<batch, cut, live, runs>>

(* The counts the reconciliation will expect, taken from the database, so  *)
(* that what an earlier run of the batch wrote is counted; the slip counts *)
(* what this run wrote, having skipped the rest.                           *)
CountsOfLast(b) ==
  <<Cardinality(AppliedOf(b)),
    IF records = <<>> THEN 0 ELSE Cardinality(records[Len(records)].msgs)>>
Counts(b) ==
  <<Cardinality(AppliedOf(b)), Cardinality({m \in Messages : mref[m] = b})>>

Finish(w) ==
  LET b == job[w].b
  IN  /\ job[w].done = DOMAIN Package[b]
      /\ IF batch[b].status = "applying" /\ batch[b].claim = w
         THEN /\ batch' = [batch EXCEPT ![b] =
                   [Released(b, "applied") EXCEPT !.counts = Counts(b)]]
              /\ job' = [job EXCEPT ![w] = Idle]
         ELSE job' = [job EXCEPT ![w] = [op |-> "fail", b |-> b]] /\ UNCHANGED batch
      /\ UNCHANGED <<cut, runs, data>>

(* The catch of apply: the batch fails if it is still this run's.          *)
FailApply(w) ==
  LET b == job[w].b
  IN  /\ job[w].op = "fail"
      /\ batch' = IF batch[b].status = "applying" /\ batch[b].claim = w
                  THEN [batch EXCEPT ![b] = Released(b, "failed")]
                  ELSE batch
      /\ job' = [job EXCEPT ![w] = Idle]
      /\ UNCHANGED <<cut, runs, data>>

(* A conversation cannot be written: a PDF, an owner, the database.        *)
Interrupt(w) ==
  /\ job[w].op \in {"apply", "write"}
  /\ job' = [job EXCEPT ![w] = [op |-> "fail", b |-> job[w].b]]
  /\ UNCHANGED <<batch, cut, runs, data>>

----------------------------------------------------------------------------
(* reconcile                                                               *)

Present(c) == \E p \in Phones : conv[p] # Absent /\ conv[p].id = c
ReferencedBy(b) == {m \in Messages : mref[m] = b}

(* A reference of the batch that no applied record of it created.          *)
Unowned(b) ==
  \/ \E e \in Exts : /\ ref[e] # Absent /\ ref[e].batch = b
                     /\ ~\E k \in AppliedOf(b) : records[k].ext = e /\ records[k].newRef
  \/ \E m \in ReferencedBy(b) : ~\E k \in AppliedOf(b) : m \in records[k].msgs

Drifted(k) ==
  Present(records[k].conv) /\ conv[PhoneOf[records[k].ext]] # records[k].after

Issues(b) ==
  {issue \in {"conversation", "message", "owner", "reference", "drift", "counts"} :
     CASE issue = "conversation" -> \E k \in AppliedOf(b) : ~Present(records[k].conv)
       [] issue = "message" -> \E m \in ReferencedBy(b) : rows[m] = Absent
       [] issue = "owner" -> \E k \in AppliedOf(b) : \E m \in records[k].msgs :
                                rows[m] = Absent \/ rows[m].conv # records[k].conv
       [] issue = "reference" -> Unowned(b)
       [] issue = "drift" -> \E k \in AppliedOf(b) : Drifted(k)
       [] OTHER -> batch[b].counts #
                     <<Cardinality(AppliedOf(b)),
                       Cardinality({m \in ReferencedBy(b) : rows[m] # Absent})>>}

----------------------------------------------------------------------------
(* rollback                                                                *)

StartRollback(w, b) ==
  /\ Available(w)
  /\ batch[b].status = "applied"
  /\ batch[b].claim = Absent \/ ~batch[b].leased
  /\ Run(w, [op |-> "rollback", b |-> b])
  /\ batch' = [batch EXCEPT ![b].claim = w, ![b].leased = TRUE]
  /\ UNCHANGED <<cut, data>>

(* collectRollbackBlockers: real or foreign messages after the cut-off, or *)
(* a conversation that is not as the record left it; the slip forgets them  *)
(* all.                                                                    *)
BlockedNever(b) == FALSE
BlockedByMessages(b) ==
  \E k \in AppliedOf(b) :
    \/ \E l \in live : l.conv = records[k].conv /\ b \in l.after
    \/ \E m \in Messages \ records[k].msgs :
         rows[m] # Absent /\ rows[m].conv = records[k].conv /\ b \in rows[m].after
Blocked(b) ==
  \/ BlockedByMessages(b)
  \/ \E k \in AppliedOf(b) : conv[PhoneOf[records[k].ext]] # records[k].after

(* What a conversation was before the first of the records; the version    *)
(* comes back with the rest.                                               *)
Restored(p, of) ==
  LET mine == {k \in of : PhoneOf[records[k].ext] = p}
  IN  IF mine = {} THEN conv[p]
      ELSE records[CHOOSE k \in mine : \A l \in mine : k <= l].before

(* rollbackRecord for every record: what the batch created goes, what it   *)
(* updated becomes what it was.                                            *)
Undo(b) ==
  LET of == AppliedOf(b)
      gone == {records[k].conv : k \in {l \in of : records[l].before = Absent}}
      msgs == UNION {records[k].msgs : k \in of}
  IN  /\ conv' = [p \in Phones |-> Restored(p, of)]
      /\ ref' = [e \in Exts |->
           IF \E k \in of : records[k].ext = e /\ records[k].newRef THEN Absent ELSE ref[e]]
      /\ mref' = [m \in Messages |-> IF m \in msgs THEN Absent ELSE mref[m]]
      /\ rows' = [m \in Messages |->
           IF m \in msgs \/ (rows[m] # Absent /\ rows[m].conv \in gone)
           THEN Absent ELSE rows[m]]
      /\ live' = {l \in live : l.conv \notin gone}
      /\ records' = [k \in DOMAIN records |->
           IF k \in of THEN [records[k] EXCEPT !.status = "rolled-back"] ELSE records[k]]
      /\ UNCHANGED <<made, raced>>

Rollback(w) ==
  LET b == job[w].b
  IN  /\ job[w].op = "rollback"
      /\ batch[b].status = "applied" /\ batch[b].claim = w /\ ~Blocked(b)
      /\ Undo(b)
      /\ batch' = [batch EXCEPT ![b] = Released(b, "rolled-back")]
      /\ job' = [job EXCEPT ![w] = Idle]
      /\ UNCHANGED <<cut, runs>>

(* The transaction is refused or aborted: the claim is released.           *)
FailRollback(w) ==
  LET b == job[w].b
  IN  /\ job[w].op = "rollback"
      /\ batch' = IF batch[b].status = "applied" /\ batch[b].claim = w
                  THEN [batch EXCEPT ![b] = Released(b, "applied")]
                  ELSE batch
      /\ job' = [job EXCEPT ![w] = Idle]
      /\ UNCHANGED <<cut, runs, data>>

----------------------------------------------------------------------------
(* Around the importer                                                     *)

(* The operator fixes the cut-off of a batch.                              *)
Cut(b) ==
  /\ b \notin cut
  /\ cut' = cut \cup {b}
  /\ UNCHANGED <<batch, job, runs, data>>

(* A real message arrives: the webhook writes it and the conversation.     *)
Activity(p) ==
  LET now == IF conv[p] = Absent THEN [id |-> made + 1, version |-> 1, content |-> "live"]
             ELSE [conv[p] EXCEPT !.version = @ + 1, !.content = "live"]
  IN  /\ Cardinality(live) < MaxActivity
      /\ conv' = [conv EXCEPT ![p] = now]
      /\ made' = IF conv[p] = Absent THEN made + 1 ELSE made
      /\ live' = live \cup {[conv |-> now.id, after |-> cut, seen |-> Len(records)]}
      /\ UNCHANGED <<batch, cut, ref, mref, rows, records, job, runs, raced>>

(* Five minutes without a renewal.                                         *)
Expire(b) ==
  /\ batch[b].leased
  /\ batch' = [batch EXCEPT ![b].leased = FALSE]
  /\ UNCHANGED <<cut, job, runs, data>>

Crash(w) ==
  /\ job[w] # Idle
  /\ job' = [job EXCEPT ![w] = Idle]
  /\ UNCHANGED <<batch, cut, runs, data>>

ImportInit ==
  /\ batch = [b \in Batches |-> Unclaimed]
  /\ cut = {}
  /\ conv = [p \in Phones |-> Absent]
  /\ ref = [e \in Exts |-> Absent]
  /\ mref = [m \in Messages |-> Absent]
  /\ rows = [m \in Messages |-> Absent]
  /\ live = {}
  /\ records = <<>>
  /\ job = [w \in Workers |-> Idle]
  /\ runs = 0 /\ made = 0
  /\ raced = {}

ImportNext ==
  \/ \E w \in Workers :
       \/ \E b \in Batches : StartApply(w, b) \/ StartRollback(w, b)
       \/ Claim(w) \/ Interrupt(w) \/ FailApply(w) \/ Rollback(w)
       \/ FailRollback(w) \/ Crash(w)
       \/ job[w].op = "apply" /\ (ReadConversation(w) \/ Finish(w))
       \/ job[w].op = "write" /\ WriteConversation(w)
  \/ \E b \in Batches : Cut(b) \/ Expire(b)
  \/ \E p \in Phones : Activity(p)

ImportSpec == ImportInit /\ [][ImportNext]_importVars

(* A conversation whose import was begun is written, or the run fails.     *)
FairImportSpec ==
  /\ ImportSpec
  /\ \A w \in Workers : WF_importVars(job[w].op = "write" /\ WriteConversation(w))

----------------------------------------------------------------------------
(* Properties                                                              *)

Conversations ==
  [id : 1 .. made, version : Nat \ {0}, content : Batches \cup {"live"}]

(* Batches, conversations and records have the shape of the schema, only a *)
(* batch that is applied or rolled back is claimed, and a reference points *)
(* to a conversation that was created.                                     *)
ImportTypeOK ==
  /\ \A b \in Batches :
       /\ batch[b].status \in {Absent, "applying", "applied", "failed", "rolled-back"}
       /\ batch[b].claim \in Workers \cup {Absent}
       /\ batch[b].leased \in BOOLEAN
       /\ batch[b].claim # Absent => batch[b].status \in {"applying", "applied"}
  /\ cut \subseteq Batches
  /\ \A p \in Phones : conv[p] \in Conversations \cup {Absent}
  /\ \A e \in Exts : ref[e] # Absent => ref[e].conv \in 1 .. made
  /\ \A m \in Messages : mref[m] \in Batches \cup {Absent}
  /\ \A k \in DOMAIN records :
       /\ records[k].before \in Conversations \cup {Absent}
       /\ records[k].after \in Conversations
       /\ records[k].status \in {"applied", "rolled-back"}
  /\ raced \subseteq DOMAIN records

(* No record was written over a conversation that had changed since it was *)
(* read.                                                                   *)
Unraced(c) == \A k \in raced : records[k].conv # c

(* Whatever failed, crashed or was rolled back in between, an applied      *)
(* batch is complete: every conversation of its package has its record,    *)
(* and unless it was raced every message is in that conversation.          *)
AppliedIsComplete ==
  \A b \in Batches :
    batch[b].status = "applied" =>
      \A e \in DOMAIN Package[b] :
        \E k \in AppliedOf(b) :
          /\ records[k].ext = e
          /\ Unraced(records[k].conv) =>
                \A m \in Package[b][e] : rows[m] # Absent /\ rows[m].conv = records[k].conv

(* However many runs it took to apply a batch, its reconciliation finds it  *)
(* valid, unless one of its conversations was raced or something happened  *)
(* to that conversation: another import or a real message.                 *)
AppliedReconciles ==
  \A b \in Batches :
    batch[b].status = "applied" /\ (\A k \in AppliedOf(b) : Unraced(records[k].conv)) =>
      \A issue \in Issues(b) :
        /\ issue = "drift"
        /\ \E l \in AppliedOf(b) :
             \/ \E i \in live : i.conv = records[l].conv
             \/ \E k \in DOMAIN records : k # l /\ records[k].conv = records[l].conv

(* Nothing of a batch that was rolled back is left or comes back: no run   *)
(* that lost its claim meanwhile writes for it.                            *)
RolledBackIsGone ==
  \A b \in Batches :
    batch[b].status = "rolled-back" =>
      AppliedOf(b) = {} /\ \A m \in Messages : mref[m] # b

(* What a batch reports is true of the database, for values of their types. *)
ReportIsTrue ==
  ImportTypeOK /\ AppliedIsComplete /\ AppliedReconciles /\ RolledBackIsGone

(* A rollback removes only what its batch created, in the reverse order of *)
(* the application: a real message stays, and a record stays while a later *)
(* one of its conversation is applied, unless the conversation was raced.  *)
RollbackKeepsActivity ==
  [][/\ live \subseteq live'
     /\ \A k, l \in DOMAIN records :
          (/\ records[k].status = "applied" /\ records'[k].status = "rolled-back"
           /\ k < l /\ records[l].status = "applied"
           /\ records[l].conv = records[k].conv /\ Unraced(records[k].conv))
            => records'[l].status = "rolled-back"]_importVars

(* A conversation that went on after its import is not overwritten by the  *)
(* next import, unless the activity falls between the read and the write.  *)
ImportKeepsActivity ==
  [][LET n == Len(records')
     IN  n > Len(records) /\ n \notin raced' =>
           \/ records'[n].newRef
           \/ conv[PhoneOf[records'[n].ext]].content # "live"]_importVars

(* What a serializable transaction for each conversation, which the        *)
(* documentation speaks of, would give: no activity is overwritten at all. *)
ImportIsSerializable ==
  [][LET n == Len(records')
     IN  n > Len(records) =>
           \/ records'[n].newRef
           \/ conv[PhoneOf[records'[n].ext]].content # "live"]_importVars

=============================================================================
