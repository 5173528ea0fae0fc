----------------------------- MODULE DocumentDossier -----------------------------
(***************************************************************************)
(* The document dossier of one employee: its requests, their items and the *)
(* versions submitted for each item, under concurrent HTTP requests        *)
(* (src/application/use-cases/documents/document-management.use-case.ts).  *)
(*                                                                         *)
(* A worker is one HTTP request.  It reads (and may wait for the review    *)
(* agent), then opens a transaction in which it writes item rows, derives  *)
(* the status of every request it touched from the rows it can see, and    *)
(* commits.  The database runs READ COMMITTED: a transaction sees what is  *)
(* committed and its own writes, a written row is locked until the end of  *)
(* the transaction, and a unique key makes the second writer fail.  The    *)
(* statements of one transaction up to its last read are one step, its     *)
(* last write and the commit another; an approval writes its own row, and  *)
(* reads the open requirements of the type, in a step before these.        *)
(***************************************************************************)
EXTENDS DocumentWorkflow, Sequences, SequencesExt

CONSTANTS
  Workers,       \* HTTP requests in progress at the same time
  Types,         \* document types of the catalogue
  Conditional,   \* the types that apply only to some profiles
  Files,         \* contents of a set of files
  Commands,      \* the idempotency keys clients use
  MaxOperations, \* bound: HTTP requests in a behaviour
  MaxRequests,   \* bound: requests of the employee
  MaxItems,      \* bound: items of the employee
  MaxVersions    \* bound: versions submitted for an item

\* Some document is asked of everybody; the command of a request that no client
\* sent is none of theirs.
ASSUME DossierAssumption ==
  /\ IsFiniteSet(Types)
  /\ Conditional \subseteq Types /\ Conditional # Types
  /\ "fresh" \notin Commands
  /\ {MaxOperations, MaxRequests, MaxItems, MaxVersions} \subseteq Nat

VARIABLES
  profile,   \* what the employee's record says of the conditional types
  requests,  \* document_requests, in order of creation
  items,     \* document_request_items with their submissions
  job,       \* what each worker is doing
  spent,     \* operations started
  skewed     \* requests whose status was derived while another transaction
             \* changed their items

vars == <<profile, requests, items, job, spent, skewed>>

Profiles == {"not-applicable", "pending-confirmation", "applicable"}
Idle == [phase |-> "idle"]

----------------------------------------------------------------------------
(* Rows                                                                    *)

ApplicableTypes(p) ==
  {t \in Types : t \in Conditional => p # "not-applicable"}

(* An undecided conditional document is asked for but not required.        *)
RequirementOf(type, p) ==
  IF type \in Conditional /\ p = "pending-confirmation"
  THEN "optional" ELSE "required"

(* `request` is an index of requests; 0 stands for the request the same    *)
(* transaction creates.                                                    *)
NewItem(request, type, requirement) ==
  [request |-> request, type |-> type, requirement |-> requirement,
   status |-> "pending-upload", version |-> 0, manual |-> FALSE,
   subs |-> <<>>]

ItemsOf(table, r) == {i \in DOMAIN table : table[i].request = r}

(* The latest submission that was not cancelled, 0 if there is none.       *)
Previous(item) ==
  LET live == {k \in DOMAIN item.subs : item.subs[k].status # "cancelled"}
  IN  IF live = {} THEN 0
      ELSE CHOOSE k \in live : \A l \in live : l <= k

CommandedNever(cmd) == FALSE   \* the slip of a command without a unique key
Commanded(cmd) ==
  \E i \in DOMAIN items : \E k \in DOMAIN items[i].subs :
    items[i].subs[k].cmd = cmd

Reviewed(cmd) ==
  \E i \in DOMAIN items : \E k \in DOMAIN items[i].subs :
    \E d \in items[i].subs[k].decisions : d[1] = cmd

(* A profile synchronisation creates with a random command.                *)
Requested(cmd) ==
  cmd \in Commands /\ \E r \in DOMAIN requests : requests[r].cmd = cmd

----------------------------------------------------------------------------
(* Transactions                                                            *)

InTransaction(v) == job[v].phase = "commit"

(* An approval has decided its item and read what else it settles.         *)
Settling(v) == job[v].phase = "settle"

(* The rows another transaction holds.                                     *)
Locked(w) ==
  UNION {DOMAIN job[v].rows : v \in {u \in Workers \ {w} : InTransaction(u)}}
    \cup {job[v].item : v \in {u \in Workers \ {w} : Settling(u)}}

(* A position or a command another open transaction has taken: the second  *)
(* insert waits for it.                                                    *)
AddsTo(r) ==
  {v \in Workers : InTransaction(v)
     /\ \E n \in DOMAIN job[v].added : job[v].added[n].request = r}

Pending(table, cmd) ==
  /\ cmd \in Commands
  /\ \E v \in Workers : InTransaction(v) /\ job[v].key = <<table, cmd>>

(* A row the transaction writes, and a row as it sees it: what it wrote,   *)
(* or what is committed.                                                   *)
Written(i, row) == [n \in {i} |-> row]
Current(rows, i) == IF i \in DOMAIN rows THEN rows[i] ELSE items[i]

(* The items of request r as the transaction sees them.                    *)
Seen(r, rows, added) ==
  {Current(rows, i) : i \in ItemsOf(items, r)}
    \cup {added[n] : n \in {m \in DOMAIN added : added[m].request = r}}

StatusSeen(r, rows, added) ==
  DerivedStatus({[status |-> x.status, requirement |-> x.requirement] :
                   x \in Seen(r, rows, added)})

(* The transaction has written its rows and derived the statuses; what it  *)
(* does to completedAt is "set" (by an approval), "clear" or "keep".       *)
Hold(w, rows, added, touched, key, completion) ==
  /\ DOMAIN rows \cap Locked(w) = {}
  /\ job' = [job EXCEPT ![w] =
       [phase |-> "commit", op |-> job[w].op, rows |-> rows, added |-> added,
        key |-> key, completion |-> completion, stale |-> {},
        missed |-> IF Settling(w) THEN job[w].missed ELSE {},
        state |-> [r \in touched |-> StatusSeen(r, rows, added)]]]
  /\ UNCHANGED <<profile, requests, items, spent, skewed>>

Fail(w) ==
  /\ job' = [job EXCEPT ![w] = Idle]
  /\ UNCHANGED <<profile, requests, items, spent, skewed>>

(* completedAt after the commit.                                           *)
Completed(r, status, completion) ==
  CASE completion = "set" -> status = "approved"
    [] completion = "clear" -> FALSE
    [] completion = "keep" -> requests[r].completed

(* The last write of the transaction and its commit.  `stale` collects the *)
(* requests other transactions commit to while one is open: it has derived *)
(* their status without what they commit.  `missed` (observed) collects    *)
(* those they commit to after an approval read what else it settles.       *)
Commit(w) ==
  LET j == job[w]
      creates == \E n \in DOMAIN j.added : j.added[n].request = 0
      placed == [n \in DOMAIN j.added |->
                   IF j.added[n].request = 0
                   THEN [j.added[n] EXCEPT !.request = Len(requests) + 1]
                   ELSE j.added[n]]
      touched == DOMAIN j.state \cup (IF creates THEN {Len(requests) + 1} ELSE {})
      updated == [r \in DOMAIN requests |->
                    IF r \in DOMAIN j.state
                    THEN [requests[r] EXCEPT
                            !.status = j.state[r],
                            !.completed = Completed(r, j.state[r], j.completion)]
                    ELSE requests[r]]
  IN  /\ j.phase = "commit"
      /\ Len(items) + Len(placed) <= MaxItems
      /\ creates => Len(requests) < MaxRequests
      /\ items' = [i \in DOMAIN items |-> Current(j.rows, i)] \o placed
      /\ requests' =
           IF creates
           THEN Append(updated, [status |-> "pending-upload", completed |-> FALSE,
                                 cmd |-> j.key[2]])
           ELSE updated
      /\ skewed' = (skewed \ DOMAIN j.state) \cup (j.stale \cap DOMAIN j.state)
      /\ job' = [v \in Workers |->
           IF v = w THEN Idle
           ELSE IF InTransaction(v) THEN [job[v] EXCEPT !.stale = @ \cup touched]
           ELSE IF Settling(v) THEN [job[v] EXCEPT !.missed = @ \cup touched]
           ELSE job[v]]
      /\ UNCHANGED <<profile, spent>>

(* The connection, the database or the process fails before the commit: a  *)
(* timeout, a deadlock, a unique key, a restart.                           *)
Abort(w) == job[w].phase # "idle" /\ Fail(w)

(* A worker starts an operation with what it has read.                     *)
Start(w, task) ==
  /\ job[w].phase = "idle" /\ spent < MaxOperations
  /\ spent' = spent + 1
  /\ job' = [job EXCEPT ![w] = task]
  /\ UNCHANGED <<profile, requests, items, skewed>>

Working(w, op) == job[w].phase = "work" /\ job[w].op = op

----------------------------------------------------------------------------
(* upload: a new version of an item.                                       *)

Uploadable ==
  {"pending-upload", "pending-human-review", "resubmission-required",
   "rejected", "expired"}

(* The same files as the latest version: refused when that version was     *)
(* refused, answered with that version otherwise.                          *)
Repeated(item, file) ==
  LET p == Previous(item)
  IN  p # 0 /\ item.subs[p].kept /\ item.subs[p].file = file

ReadUpload(w) ==
  \E i \in DOMAIN items, cmd \in Commands, file \in Files :
    /\ ~Commanded(cmd)
    /\ items[i].status \in Uploadable
    /\ Len(items[i].subs) < MaxVersions
    /\ ~Repeated(items[i], file)
    /\ Start(w, [phase |-> "work", op |-> "upload", item |-> i,
                 seen |-> items[i], cmd |-> cmd, file |-> file])

(* The row is only written if it still has the version and the status     *)
(* read; the slip is an update by primary key alone.                       *)
StillThere(item, seen) == TRUE
StillCurrent(item, seen) ==
  item.version = seen.version /\ item.status = seen.status

NextVersion(j) == j.seen.version + 1

NewVersion(j) ==
  LET replaced == [k \in DOMAIN items[j.item].subs |->
        LET s == items[j.item].subs[k]
        IN  IF j.seen.status = "pending-human-review"
               /\ s.version = j.seen.version /\ s.status = "pending-human-review"
            THEN [s EXCEPT !.status = "cancelled"] ELSE s]
  IN  [items[j.item] EXCEPT
         !.version = @ + 1,
         !.status = "submitted",
         !.subs = Append(replaced,
           [version |-> NextVersion(j), file |-> j.file, cmd |-> j.cmd,
            status |-> "submitted", kept |-> TRUE, done |-> FALSE,
            decisions |-> {}])]

WriteUpload(w) ==
  LET j == job[w]
  IN  /\ Working(w, "upload")
      /\ j.item \notin Locked(w) /\ ~Pending("submission", j.cmd)
      /\ IF StillCurrent(items[j.item], j.seen) /\ ~Commanded(j.cmd)
         THEN Hold(w, Written(j.item, NewVersion(j)), <<>>, {items[j.item].request},
                   <<"submission", j.cmd>>, "keep")
         ELSE Fail(w)

----------------------------------------------------------------------------
(* completeSubmission: the review agent proposes data while nothing is     *)
(* locked, then the submission and its item wait for a person.             *)

ReadComplete(w) ==
  \E i \in DOMAIN items : \E k \in DOMAIN items[i].subs :
    /\ ~items[i].subs[k].done
    /\ "automatic-validation" \in ItemTransitions[items[i].subs[k].status]
    /\ Start(w, [phase |-> "work", op |-> "complete", item |-> i, sub |-> k])

(* What the review leads to, whatever the agent said.                      *)
Validated == "pending-human-review"

WriteComplete(w) ==
  LET j == job[w]
  IN  /\ Working(w, "complete")
      /\ Hold(w, Written(j.item, [items[j.item] EXCEPT
                   !.status = Validated,
                   !.subs[j.sub].status = Validated,
                   !.subs[j.sub].done = TRUE]),
              <<>>, {items[j.item].request}, <<"none", 0>>, "keep")

----------------------------------------------------------------------------
(* deleteSubmission: the current version is removed, its files with it.    *)

ReadDelete(w) ==
  \E i \in DOMAIN items : \E k \in DOMAIN items[i].subs :
    /\ items[i].subs[k].version = items[i].version
    /\ items[i].subs[k].status \notin {"cancelled", "waived"}
    /\ Start(w, [phase |-> "work", op |-> "delete", item |-> i, sub |-> k])

WriteDelete(w) ==
  LET j == job[w]
  IN  /\ Working(w, "delete")
      /\ Hold(w, Written(j.item, [items[j.item] EXCEPT
                   !.status = "pending-upload",
                   !.subs[j.sub].status = "cancelled",
                   !.subs[j.sub].kept = FALSE]),
              <<>>, {items[j.item].request}, <<"none", 0>>, "clear")

----------------------------------------------------------------------------
(* review: a person decides on a submission.                               *)

Decisions == {"approved", "rejected", "resubmission-required"}
Open == ItemStatuses \ {"approved", "waived", "cancelled"}

ReadReview(w) ==
  \E i \in DOMAIN items, cmd \in Commands, decision \in Decisions :
    \E k \in DOMAIN items[i].subs :
      /\ ~Reviewed(cmd)
      /\ decision \in ItemTransitions[items[i].subs[k].status]
      /\ Start(w, [phase |-> "work", op |-> "review", item |-> i, sub |-> k,
                   cmd |-> cmd, decision |-> decision,
                   others |-> <<>>, missed |-> {}])

(* The open requirements of the same type in the requests that are not     *)
(* cancelled; the slip stays in the dossier of the decided item.           *)
DuplicatesInDossier(i) ==
  {d \in DOMAIN items \ {i} :
     /\ items[d].type = items[i].type
     /\ items[d].status \in Open
     /\ items[d].request = items[i].request}
Duplicates(i) ==
  {d \in DOMAIN items \ {i} :
     /\ items[d].type = items[i].type
     /\ items[d].status \in Open
     /\ requests[items[d].request].status # "cancelled"}

(* The configuration is written back as it was read, the manual policy     *)
(* with it.                                                                *)
Satisfied(item, manual) ==
  [item EXCEPT
     !.status = "waived", !.manual = manual,
     !.subs = [k \in DOMAIN @ |->
        IF @[k].status \in Open \ {"pending-upload"}
        THEN [@[k] EXCEPT !.status = "cancelled"] ELSE @[k]]]

(* Every request with a row the review wrote; the slip recalculates only   *)
(* the request of the decided item.                                        *)
AffectedOwn(rows, i) == {items[i].request}
Affected(rows, i) == {items[d].request : d \in rows \cup {i}}

(* An approval has written its submission and its item, and reads the      *)
(* duplicates; it writes them one by one, whatever they are by then.       *)
OpenReview(w) ==
  LET j == job[w]
  IN  /\ Working(w, "review") /\ j.decision = "approved"
      /\ j.item \notin Locked(w)
      /\ job' = [job EXCEPT
           ![w].phase = "settle",
           ![w].others = [d \in Duplicates(j.item) |-> items[d].manual]]
      /\ UNCHANGED <<profile, requests, items, spent, skewed>>

WriteReview(w) ==
  LET j == job[w]
      decided == [items[j.item] EXCEPT
                    !.status = j.decision,
                    !.subs[j.sub].status = j.decision,
                    !.subs[j.sub].decisions = @ \cup {<<j.cmd, j.decision>>}]
  IN  /\ Settling(w) \/ (Working(w, "review") /\ j.decision # "approved")
      /\ ~Pending("review", j.cmd)
      /\ IF Reviewed(j.cmd) THEN Fail(w)
         ELSE Hold(w, [i \in DOMAIN j.others \cup {j.item} |->
                         IF i = j.item THEN decided ELSE Satisfied(items[i], j.others[i])],
                   <<>>, Affected(DOMAIN j.others, j.item), <<"review", j.cmd>>, "set")

----------------------------------------------------------------------------
(* setRequestItemPolicy and addRequestItem: what the personnel department  *)
(* asks for by hand.                                                       *)

ReadPolicy(w) ==
  \E i \in DOMAIN items, policy \in {"required", "optional", "waived"} :
    Start(w, [phase |-> "work", op |-> "policy", item |-> i,
              seen |-> items[i], policy |-> policy])

WritePolicy(w) ==
  LET j == job[w]
      status == IF j.policy = "waived" THEN "waived"
                ELSE IF j.seen.status \in {"waived", "cancelled"}
                     THEN "pending-upload" ELSE j.seen.status
  IN  /\ Working(w, "policy")
      /\ Hold(w, Written(j.item, [items[j.item] EXCEPT
                   !.status = status, !.manual = TRUE,
                   !.requirement = IF j.policy = "required"
                                   THEN "required" ELSE "optional"]),
              <<>>, {items[j.item].request}, <<"none", 0>>, "keep")

ReadAdd(w) ==
  \E r \in DOMAIN requests, t \in Types, q \in {"required", "optional"} :
    /\ \A i \in ItemsOf(items, r) : items[i].type # t
    /\ Start(w, [phase |-> "work", op |-> "add", added |-> NewItem(r, t, q)])

WriteAdd(w) ==
  LET j == job[w]
  IN  /\ Working(w, "add")
      /\ AddsTo(j.added.request) = {}
      /\ Hold(w, <<>>, <<j.added>>, {j.added.request}, <<"none", 0>>, "keep")

----------------------------------------------------------------------------
(* createRequest, renew and createBatchRequests.                           *)

Create(w, cmd, added) ==
  /\ ~Pending("request", cmd)
  /\ IF Requested(cmd) THEN Fail(w)
     ELSE Hold(w, <<>>, added, {}, <<"request", cmd>>, "keep")

Checklist(p) ==
  LET types == SetToSeq(ApplicableTypes(p))
  IN  [n \in DOMAIN types |-> NewItem(0, types[n], RequirementOf(types[n], p))]

ReadCreate(w) ==
  \E cmd \in Commands :
    /\ ~Requested(cmd)
    /\ Start(w, [phase |-> "work", op |-> "create", cmd |-> cmd])

WriteCreate(w) ==
  Working(w, "create") /\ Create(w, job[w].cmd, Checklist(profile))

(* The renewal copies the configuration of the item, the manual policy     *)
(* with it.                                                                *)
ReadRenew(w) ==
  \E i \in DOMAIN items, cmd \in Commands :
    /\ items[i].status \in {"approved", "expired"}
    /\ ~Requested(cmd)
    /\ Start(w, [phase |-> "work", op |-> "renew", cmd |-> cmd,
                 added |-> [NewItem(0, items[i].type, "required")
                              EXCEPT !.manual = items[i].manual]])

WriteRenew(w) ==
  Working(w, "renew") /\ Create(w, job[w].cmd, <<job[w].added>>)

ReadBatch(w) ==
  \E cmd \in Commands, types \in SUBSET Types \ {{}} :
    Start(w, [phase |-> "work", op |-> "batch", cmd |-> cmd, types |-> types])

Dossiers == {r \in DOMAIN requests : requests[r].status # "cancelled"}

(* The item of a type in a request, as the last one of the map.            *)
ItemOfType(r, t) ==
  LET found == {i \in ItemsOf(items, r) : items[i].type = t}
  IN  CHOOSE i \in found : \A n \in found : n <= i

Reopened(item) ==
  [item EXCEPT !.status = "pending-upload", !.requirement = "required",
               !.manual = FALSE]

(* The oldest dossier takes the types it lacks and re-opens those that are *)
(* settled; a new dossier is only created when there is none.              *)
WriteBatch(w) ==
  LET j == job[w]
      types == j.types \cap ApplicableTypes(profile)
      new(ts, r) == LET seq == SetToSeq(ts)
                    IN  [n \in DOMAIN seq |-> NewItem(r, seq[n], "required")]
  IN  /\ Working(w, "batch")
      /\ ~Pending("request", j.cmd)
      /\ IF Requested(j.cmd) \/ types = {} THEN Fail(w)
         ELSE IF Dossiers = {} THEN Create(w, j.cmd, new(types, 0))
         ELSE LET r == CHOOSE x \in Dossiers : \A y \in Dossiers : x <= y
                  present == {items[i].type : i \in ItemsOf(items, r)}
                  settled == {i \in {ItemOfType(r, t) : t \in types \cap present} :
                                items[i].status \in {"approved", "waived", "cancelled"}}
                  lacking == types \ present
              IN  /\ lacking # {} => AddsTo(r) = {}
                  /\ Hold(w, [i \in settled |-> Reopened(items[i])],
                          new(lacking, r), {r}, <<"none", 0>>, "clear")

----------------------------------------------------------------------------
(* updateUser then synchronizeEmployeeDocuments: the profile is saved in   *)
(* its own transaction, then the latest dossier is recalculated from what  *)
(* was read before the second transaction opened.                          *)

SaveProfile(w, p) ==
  /\ job[w].phase = "idle" /\ spent < MaxOperations /\ p # profile
  /\ profile' = p
  /\ spent' = spent + 1
  /\ job' = [job EXCEPT ![w] = [phase |-> "saved", op |-> "sync"]]
  /\ UNCHANGED <<requests, items, skewed>>

ReadSync(w) ==
  LET latest == CHOOSE x \in Dossiers : \A y \in Dossiers : y <= x
  IN  /\ job[w].phase = "saved"
      /\ job' = [job EXCEPT ![w] =
           IF Dossiers = {}
           THEN [phase |-> "work", op |-> "create", cmd |-> "fresh"]
           ELSE [phase |-> "work", op |-> "sync", request |-> latest,
                 profile |-> profile,
                 seen |-> [i \in ItemsOf(items, latest) |-> items[i]]]]
      /\ UNCHANGED <<profile, requests, items, spent, skewed>>

(* What the profile makes of an item as it was read; the configuration is  *)
(* written back as it was read.                                            *)
Synchronized(i, j) ==
  LET read == j.seen[i]
      applies == read.type \in ApplicableTypes(j.profile)
      untouched == read.subs = <<>>
  IN  IF ~applies /\ read.status = "pending-upload" /\ untouched
      THEN [items[i] EXCEPT !.status = "cancelled"]
      ELSE IF applies /\ read.status = "cancelled" /\ untouched
      THEN [items[i] EXCEPT !.status = "pending-upload"]
      ELSE IF applies /\ read.type \in Conditional /\ ~read.manual
      THEN [items[i] EXCEPT !.requirement = RequirementOf(read.type, j.profile),
                            !.manual = FALSE]
      ELSE items[i]

WriteSync(w) ==
  LET j == job[w]
      known == {j.seen[i].type : i \in DOMAIN j.seen}
      lacking == SetToSeq(ApplicableTypes(j.profile) \ known)
      added == [n \in DOMAIN lacking |->
                  NewItem(j.request, lacking[n], RequirementOf(lacking[n], j.profile))]
      written == {i \in DOMAIN j.seen : Synchronized(i, j) # items[i]}
      moved == ItemsOf(items, j.request) # DOMAIN j.seen
  IN  /\ Working(w, "sync")
      /\ added # <<>> => AddsTo(j.request) = {}
      /\ IF added # <<>> /\ moved THEN Fail(w)   \* the position is taken
         ELSE Hold(w, [i \in written |-> Synchronized(i, j)], added,
                   {j.request}, <<"none", 0>>, "keep")

----------------------------------------------------------------------------
(* Specification: the employee has the dossier of the admission, and       *)
(* perhaps one a client asked for before this behaviour.                   *)

Admission ==
  [status |-> "pending-upload", completed |-> FALSE, cmd |-> "fresh"]

Init ==
  /\ profile = "not-applicable"
  /\ LET dossier(r) == [n \in DOMAIN Checklist(profile) |->
                          [Checklist(profile)[n] EXCEPT !.request = r]]
     IN  \/ requests = <<Admission>> /\ items = dossier(1)
         \/ requests = <<Admission, Admission>> /\ items = dossier(1) \o dossier(2)
  /\ job = [w \in Workers |-> Idle]
  /\ spent = 0
  /\ skewed = {}

Next ==
  \E w \in Workers :
    \/ ReadUpload(w) \/ WriteUpload(w)
    \/ ReadComplete(w) \/ WriteComplete(w)
    \/ ReadDelete(w) \/ WriteDelete(w)
    \/ ReadReview(w) \/ OpenReview(w) \/ WriteReview(w)
    \/ ReadPolicy(w) \/ WritePolicy(w)
    \/ ReadAdd(w) \/ WriteAdd(w)
    \/ ReadCreate(w) \/ WriteCreate(w)
    \/ ReadRenew(w) \/ WriteRenew(w)
    \/ ReadBatch(w) \/ WriteBatch(w)
    \/ (\E p \in Profiles : SaveProfile(w, p)) \/ ReadSync(w) \/ WriteSync(w)
    \/ Commit(w) \/ Abort(w)

Spec == Init /\ [][Next]_vars

----------------------------------------------------------------------------
(* Properties                                                              *)

SubmissionRows ==
  [version : 1 .. MaxVersions, file : Files, cmd : Commands,
   status : ItemStatuses, kept : BOOLEAN, done : BOOLEAN,
   decisions : SUBSET (Commands \X Decisions)]

(* Every row is one the schema allows, and no item has more versions than  *)
(* the submissions that are kept for it.                                   *)
TypeOK ==
  /\ profile \in Profiles
  /\ \A r \in DOMAIN requests :
       /\ requests[r].status \in RequestStatuses
       /\ requests[r].completed \in BOOLEAN
  /\ \A i \in DOMAIN items :
       /\ items[i].request \in DOMAIN requests
       /\ items[i].type \in Types
       /\ items[i].requirement \in Requirements
       /\ items[i].status \in ItemStatuses
       /\ items[i].manual \in BOOLEAN
       /\ \A k \in DOMAIN items[i].subs : items[i].subs[k] \in SubmissionRows
  /\ \A w \in Workers : job[w].phase \in {"idle", "saved", "work", "settle", "commit"}
  /\ skewed \subseteq DOMAIN requests

(* A request has the status of its items, whichever operations, of several *)
(* requests of the employee, came before: only a transaction that          *)
(* overlapped another one on the same request may leave it behind.         *)
StatusFollowsItems ==
  \A r \in DOMAIN requests \ skewed :
    requests[r].status = StatusSeen(r, <<>>, <<>>)

(* What the documentation says of an approval: the dossiers it affects     *)
(* are recalculated, so that one with an approved document has the status  *)
(* of its items.                                                           *)
ApprovalRecalculates ==
  \A r \in DOMAIN requests :
    (\E i \in ItemsOf(items, r) : items[i].status = "approved") =>
      requests[r].status = StatusSeen(r, <<>>, <<>>)

(* A command has one effect however often and however concurrently it is   *)
(* sent: one submission, one review, one request.  A batch that is merged  *)
(* into a dossier there is has none of these: it does not store its        *)
(* command, and sent again it is merged again.                             *)
OneEffectPerCommand ==
  \A cmd \in Commands :
    LET made == {x \in (DOMAIN items) \X (1 .. MaxVersions) :
                   x[2] \in DOMAIN items[x[1]].subs}
    IN  /\ Cardinality({x \in made : items[x[1]].subs[x[2]].cmd = cmd}) <= 1
        /\ Cardinality({r \in DOMAIN requests : requests[r].cmd = cmd}) <= 1
        /\ Cardinality({y \in made \X ({cmd} \X Decisions) :
              y[2] \in items[y[1][1]].subs[y[1][2]].decisions}) <= 1

(* Versions are never overwritten: each submission of an item keeps the    *)
(* number it was given, and the item's counter is the last of them.        *)
VersionsAreKept ==
  \A i \in DOMAIN items :
    /\ items[i].version = Len(items[i].subs)
    /\ \A k \in DOMAIN items[i].subs : items[i].subs[k].version = k

(* Nothing is approved without a person: an approved item has a submission *)
(* that a reviewer approved, whatever the agent proposed.                  *)
ApprovedByPerson ==
  \A i \in DOMAIN items :
    items[i].status = "approved" =>
      \E k \in DOMAIN items[i].subs :
        \E d \in items[i].subs[k].decisions : d[2] = "approved"

(* What the dossier tells of its documents is what happened to them, for   *)
(* values of their types; of commands, what OneEffectPerCommand says.      *)
HistoryIsTrue ==
  TypeOK /\ OneEffectPerCommand /\ VersionsAreKept /\ ApprovedByPerson

Committing(w, op) ==
  /\ InTransaction(w) /\ job[w].op = op
  /\ job'[w] = Idle /\ items' # items

(* A new version never replaces a document a reviewer has meanwhile        *)
(* approved: between the read of the upload and its transaction the item   *)
(* may have been decided.                                                  *)
UploadKeepsApproval ==
  [][\A w \in Workers, i \in DOMAIN items :
       Committing(w, "upload") /\ i \in DOMAIN job[w].rows
         => items[i].status \in Uploadable]_vars

(* An approval settles the type in every dossier of the employee: no other *)
(* requirement of that type is left open, except in requests another       *)
(* transaction changed meanwhile.                                          *)
ApprovalSettlesType ==
  [][\A w \in Workers, i, d \in DOMAIN items :
       (/\ Committing(w, "review") /\ i \in DOMAIN job[w].rows
        /\ job[w].rows[i].status = "approved"
        /\ d # i /\ items[d].type = items[i].type
        /\ requests[items[d].request].status # "cancelled"
        /\ items[d].request \notin job[w].stale \cup job[w].missed)
         => items'[d].status \notin Open]_vars

=============================================================================
