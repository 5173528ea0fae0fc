-------------------------- MODULE DocumentDossier_proofs --------------------------
(***************************************************************************)
(* Proofs about DocumentDossier, for every number of requests in progress, *)
(* document types, files, commands, dossiers, items and versions.          *)
(***************************************************************************)
EXTENDS DocumentDossier, FiniteSetTheorems, SequenceTheorems, WellFoundedInduction, TLAPS

\* Rows as the schema has them.
Item ==
    [request : Nat, type : Types, requirement : Requirements, status : ItemStatuses,
     version : Nat, manual : BOOLEAN, subs : Seq(SubmissionRows)]
Request ==
    [status : RequestStatuses, completed : BOOLEAN, cmd : Commands \cup {"fresh"}]

HasApproval(item) ==
    \E k \in DOMAIN item.subs : \E d \in item.subs[k].decisions : d[2] = "approved"

\* An item whose counter, submissions and decisions belong together.
Sound(item) ==
    /\ item \in Item
    /\ item.version = Len(item.subs)
    /\ \A k \in DOMAIN item.subs : item.subs[k].version = k
    /\ item.status = "approved" => HasApproval(item)

Blank(item) ==
    /\ item \in Item /\ item.subs = <<>> /\ item.version = 0
    /\ item.status = "pending-upload"

\* What later operations leave of an item: its place, its submissions and
\* what was decided on them.
Continues(old, new) ==
    /\ new.request = old.request /\ new.type = old.type
    /\ \A k \in DOMAIN old.subs :
         /\ k \in DOMAIN new.subs
         /\ new.subs[k].cmd = old.subs[k].cmd
         /\ old.subs[k].decisions \subseteq new.subs[k].decisions

TablesInv ==
    /\ profile \in Profiles
    /\ requests \in Seq(Request)
    /\ items \in Seq(Item)
    /\ \A i \in DOMAIN items : Sound(items[i]) /\ items[i].request \in DOMAIN requests
    /\ skewed \subseteq DOMAIN requests
    /\ DOMAIN job = Workers

\* The item, and the submission, a request is about.
Aims(j) == j.item \in DOMAIN items
AimsAtSub(j) == Aims(j) /\ j.sub \in DOMAIN items[j.item].subs

\* What an approval settles is what was open when it read, or since changed.
ReviewFields == {"phase", "op", "item", "sub", "cmd", "decision", "others", "missed"}
ReviewOK(j) ==
    /\ DOMAIN j = ReviewFields /\ AimsAtSub(j)
    /\ j.cmd \in Commands /\ j.decision \in Decisions
    /\ DOMAIN j.others \subseteq DOMAIN items \ {j.item}
    /\ \A d \in DOMAIN j.others : j.others[d] \in BOOLEAN
SettlesAll(j) ==
    \A d \in DOMAIN items \ ({j.item} \cup DOMAIN j.others) :
        items[d].type = items[j.item].type =>
            \/ items[d].status \notin Open
            \/ requests[items[d].request].status = "cancelled"
            \/ items[d].request \in j.missed

\* What a request goes on with after it has read.
WorkOK(j) ==
    \/ j = Idle
    \/ j.phase = "saved"
    \/ j.phase = "settle" /\ j.op = "review" /\ ReviewOK(j) /\ SettlesAll(j)
    \/ /\ j.phase = "work"
       /\ \/ /\ j.op = "upload" /\ Aims(j)
             /\ j.cmd \in Commands /\ j.file \in Files
             /\ j.seen.status \in Uploadable
             /\ j.seen.version \in Nat /\ j.seen.version < MaxVersions
          \/ j.op \in {"complete", "delete"} /\ AimsAtSub(j)
          \/ j.op = "review" /\ ReviewOK(j) /\ DOMAIN j.others = {}
          \/ /\ j.op = "policy" /\ Aims(j)
             /\ j.seen.status \in ItemStatuses
             /\ j.seen.status = "approved" => HasApproval(items[j.item])
          \/ j.op = "add" /\ Blank(j.added) /\ j.added.request \in DOMAIN requests
          \/ j.op = "create" /\ j.cmd \in Commands \cup {"fresh"}
          \/ j.op = "renew" /\ j.cmd \in Commands /\ Blank(j.added) /\ j.added.request = 0
          \/ j.op = "batch" /\ j.cmd \in Commands /\ j.types \subseteq Types
          \/ /\ j.op = "sync" /\ j.request \in DOMAIN requests
             /\ j.profile \in Profiles
             /\ DOMAIN j.seen \subseteq ItemsOf(items, j.request)

\* A submission or a decision a transaction adds bears its command; it adds one.
AddedSub(rows, i, k) == i \in DOMAIN rows /\ k \in DOMAIN rows[i].subs \ DOMAIN items[i].subs
AddedDecisions(rows, i, k) ==
    rows[i].subs[k].decisions
      \ (IF k \in DOMAIN items[i].subs THEN items[i].subs[k].decisions ELSE {})

RowsOK(rows, touched) ==
    /\ DOMAIN rows \subseteq DOMAIN items
    /\ \A i \in DOMAIN rows :
         /\ Sound(rows[i]) /\ Continues(items[i], rows[i])
         /\ items[i].request \in touched

KeyedOK(rows, key) ==
    /\ \A i \in DOMAIN rows : \A k \in DOMAIN rows[i].subs :
         /\ k \notin DOMAIN items[i].subs => key = <<"submission", rows[i].subs[k].cmd>>
         /\ \A d \in AddedDecisions(rows, i, k) : key = <<"review", d[1]>>
    /\ \A i, j \in DOMAIN rows : \A k \in DOMAIN rows[i].subs, l \in DOMAIN rows[j].subs :
         /\ k \notin DOMAIN items[i].subs /\ l \notin DOMAIN items[j].subs => i = j /\ k = l
         /\ \A d \in AddedDecisions(rows, i, k), e \in AddedDecisions(rows, j, l) :
              i = j /\ k = l /\ d = e

AddedOK(added, touched, key) ==
    /\ added \in Seq(Item)
    /\ \A n \in DOMAIN added :
         /\ Blank(added[n])
         /\ added[n].request = 0 => key[1] = "request"
         /\ added[n].request # 0 => added[n].request \in touched

\* The command of a transaction has had no effect yet.
Unspent(key) ==
    \/ key = <<"none", 0>>
    \/ \E cmd \in Commands : key = <<"submission", cmd>> /\ ~Commanded(cmd)
    \/ \E cmd \in Commands : key = <<"review", cmd>> /\ ~Reviewed(cmd)
    \/ \E cmd \in Commands \cup {"fresh"} : key = <<"request", cmd>> /\ ~Requested(cmd)

\* What an approval leaves open of its type is in a request that is cancelled
\* or was changed meanwhile.
SettlesOK(rows, stale) ==
    \A i \in DOMAIN rows : rows[i].status = "approved" =>
        \A d \in DOMAIN items \ {i} :
            items[d].type = items[i].type =>
                \/ d \in DOMAIN rows /\ rows[d].status \notin Open
                \/ d \notin DOMAIN rows /\ items[d].status \notin Open
                \/ requests[items[d].request].status = "cancelled"
                \/ items[d].request \in stale

\* A transaction that has written its rows and not committed.
TransactionOK(j) ==
    /\ DOMAIN j = {"phase", "op", "rows", "added", "key", "completion", "stale", "missed", "state"}
    /\ DOMAIN j.state \subseteq DOMAIN requests
    /\ RowsOK(j.rows, DOMAIN j.state)
    /\ KeyedOK(j.rows, j.key)
    /\ AddedOK(j.added, DOMAIN j.state, j.key)
    /\ Unspent(j.key)
    /\ j.completion \in {"set", "clear", "keep"}
    /\ \A r \in DOMAIN j.state \ j.stale : j.state[r] = StatusSeen(r, j.rows, j.added)
    /\ \A r \in DOMAIN j.state : j.state[r] \in RequestStatuses
    /\ j.op = "upload" => \A i \in DOMAIN j.rows : items[i].status \in Uploadable
    /\ j.op = "review" => SettlesOK(j.rows, j.stale \cup j.missed)

JobsInv ==
    \A w \in Workers :
        IF job[w].phase = "commit" THEN TransactionOK(job[w]) ELSE WorkOK(job[w])

\* Rows are locked by one transaction, and a unique key is taken by one.
LocksInv ==
    \A v, w \in Workers :
        v # w /\ InTransaction(v) /\ InTransaction(w) =>
            /\ DOMAIN job[v].rows \cap DOMAIN job[w].rows = {}
            /\ job[v].key = job[w].key =>
                   job[v].key = <<"none", 0>> \/ job[v].key[2] \notin Commands

OneEffectInv ==
    /\ \A i, j \in DOMAIN items :
         \A k \in DOMAIN items[i].subs, l \in DOMAIN items[j].subs :
           /\ items[i].subs[k].cmd = items[j].subs[l].cmd => i = j /\ k = l
           /\ \A d \in items[i].subs[k].decisions, e \in items[j].subs[l].decisions :
                d[1] = e[1] => i = j /\ k = l /\ d = e
    /\ \A r, s \in DOMAIN requests :
         requests[r].cmd = requests[s].cmd /\ requests[r].cmd \in Commands => r = s

DossierInv == TablesInv /\ JobsInv /\ LocksInv /\ OneEffectInv /\ StatusFollowsItems
-------------------------------------------------------------------------------
(* Functions, sequences and statuses.                                      *)

LEMMA SetToSeqIsSeq ==
    ASSUME NEW S, IsFiniteSet(S)
    PROVE  /\ SetToSeq(S) \in Seq(S)
           /\ S # {} => Len(SetToSeq(S)) > 0
<1>1. Cardinality(S) \in Nat /\ ExistsBijection(1 .. Cardinality(S), S)
  BY FS_CardinalityType
<1>2. \E f \in [1 .. Cardinality(S) -> S] : IsInjective(f)
  BY <1>1 DEF ExistsBijection, Bijection, Injection
<1>3. SetToSeq(S) \in [1 .. Cardinality(S) -> S]
  BY <1>2 DEF SetToSeq
<1>4. Len(SetToSeq(S)) = Cardinality(S)
  BY <1>1, <1>3
<1>5. QED
  BY <1>1, <1>3, <1>4, FS_EmptySet

LEMMA DerivedStatusType == \A S : DerivedStatus(S) \in RequestStatuses
  BY DEF DerivedStatus, RequestStatuses, ItemStatuses

LEMMA PendingStatus ==
    ASSUME NEW S, S # {}, \A x \in S : x.status = "pending-upload"
    PROVE  DerivedStatus(S) = "pending-upload"
<1>1. Judged(S) # {} /\ Judged(S) \subseteq S
  BY DEF Judged
<1>2. {x.status : x \in Judged(S)} = {"pending-upload"}
  BY <1>1
<1>3. QED
  BY <1>2 DEF DerivedStatus

\* The items of a request as committed.
Rows(table, r) ==
    {[status |-> table[i].status, requirement |-> table[i].requirement] : i \in ItemsOf(table, r)}

LEMMA StatusCommitted ==
    \A r : StatusSeen(r, <<>>, <<>>) = DerivedStatus(Rows(items, r))
<1> TAKE r
<1>1. Seen(r, <<>>, <<>>) = {items[i] : i \in ItemsOf(items, r)}
  BY DEF Seen, Current, ItemsOf
<1>2. {[status |-> x.status, requirement |-> x.requirement] : x \in Seen(r, <<>>, <<>>)}
         = Rows(items, r)
  BY <1>1 DEF Rows
<1>3. QED
  BY <1>2 DEF StatusSeen
-------------------------------------------------------------------------------
(* The first state.                                                        *)

LEMMA ApplicableFinite ==
    \A p : /\ IsFiniteSet(ApplicableTypes(p)) /\ ApplicableTypes(p) \subseteq Types
           /\ ApplicableTypes(p) # {}
<1> TAKE p
<1>1. ApplicableTypes(p) \in SUBSET Types /\ ApplicableTypes(p) # {}
  BY DossierAssumption DEF ApplicableTypes
<1>2. QED
  BY <1>1, FS_Subset, DossierAssumption

LEMMA NewItemBlank ==
    \A r \in Nat, t \in Types, q \in Requirements :
        Blank(NewItem(r, t, q)) /\ NewItem(r, t, q).request = r
  BY DEF Blank, NewItem, Item, ItemStatuses

LEMMA RequirementType == \A t, p : RequirementOf(t, p) \in Requirements
  BY DEF RequirementOf, Requirements

\* The new items of a request, one for each of some types.
LEMMA ItemsFor ==
    ASSUME NEW S \in SUBSET Types, NEW r \in Nat, NEW q \in [S -> Requirements]
    PROVE  LET seq == SetToSeq(S)
               new == [n \in DOMAIN seq |-> NewItem(r, seq[n], q[seq[n]])]
           IN  /\ new \in Seq(Item)
               /\ \A n \in DOMAIN new : Blank(new[n]) /\ new[n].request = r
               /\ S # {} => DOMAIN new # {}
<1> DEFINE seq == SetToSeq(S)
           new == [n \in DOMAIN seq |-> NewItem(r, seq[n], q[seq[n]])]
<1>1. IsFiniteSet(S)
  BY FS_Subset, DossierAssumption
<1>2. seq \in Seq(S) /\ (S # {} => Len(seq) > 0)
  BY <1>1, SetToSeqIsSeq
<1> HIDE DEF seq
<1>3. \A n \in DOMAIN seq : seq[n] \in S
  BY <1>2
<1>4. \A n \in DOMAIN new : Blank(new[n]) /\ new[n].request = r
  BY <1>3, NewItemBlank
<1>5. DOMAIN new = 1 .. Len(seq) /\ Len(seq) \in Nat
  BY <1>2
<1>6. new \in [1 .. Len(seq) -> Item]
  BY <1>4, <1>5 DEF Blank
<1>7. new \in Seq(Item)
  BY <1>5, <1>6
<1>8. S # {} => DOMAIN new # {}
  <2> HIDE DEF new
  <2>1. S # {} => 1 \in DOMAIN new
    BY <1>2, <1>5
  <2>2. QED
    BY <2>1
<1>9. QED
  BY <1>4, <1>7, <1>8 DEF seq

LEMMA ChecklistItems ==
    ASSUME NEW p
    PROVE  /\ Checklist(p) \in Seq(Item) /\ DOMAIN Checklist(p) # {}
           /\ \A n \in DOMAIN Checklist(p) :
                Blank(Checklist(p)[n]) /\ Checklist(p)[n].request = 0
<1> DEFINE S == ApplicableTypes(p)
           q == [t \in S |-> RequirementOf(t, p)]
           seq == SetToSeq(S)
           new == [n \in DOMAIN seq |-> NewItem(0, seq[n], q[seq[n]])]
<1>1. S \in SUBSET Types /\ S # {} /\ IsFiniteSet(S)
  BY ApplicableFinite
<1>2. q \in [S -> Requirements]
  BY RequirementType
<1>3. /\ new \in Seq(Item) /\ DOMAIN new # {}
      /\ \A n \in DOMAIN new : Blank(new[n]) /\ new[n].request = 0
  <2> HIDE DEF q, S
  <2>1. QED
    BY <1>1, <1>2, ItemsFor
<1>4. \A n \in DOMAIN seq : seq[n] \in S
  <2>1. seq \in Seq(S)
    BY <1>1, SetToSeqIsSeq
  <2> HIDE DEF seq, S
  <2>2. QED
    BY <2>1
<1>5. Checklist(p) = new
  BY <1>4 DEF Checklist
<1>6. QED
  BY <1>3, <1>5

\* The checklist as the items of a request.
LEMMA DossierItems ==
    ASSUME NEW list \in Seq(Item), NEW r \in Nat, \A n \in DOMAIN list : Blank(list[n])
    PROVE  LET d == [n \in DOMAIN list |-> [list[n] EXCEPT !.request = r]]
           IN  /\ d \in Seq(Item) /\ Len(d) = Len(list) /\ DOMAIN d = DOMAIN list
               /\ \A n \in DOMAIN list : Blank(d[n]) /\ d[n].request = r
<1> DEFINE d == [n \in DOMAIN list |-> [list[n] EXCEPT !.request = r]]
<1>1. DOMAIN list = 1 .. Len(list) /\ Len(list) \in Nat
  OBVIOUS
<1>2. ASSUME NEW n \in DOMAIN list PROVE Blank(d[n]) /\ d[n].request = r
  <2> DEFINE x == list[n]
  <2>1. Blank(x) /\ d[n] = [x EXCEPT !.request = r]
    OBVIOUS
  <2> HIDE DEF x, d
  <2>2. QED
    BY <2>1 DEF Blank, Item
<1>3. d \in [1 .. Len(list) -> Item] /\ DOMAIN d = DOMAIN list
  BY <1>1, <1>2 DEF Blank
<1> HIDE DEF d
<1>4. d \in Seq(Item) /\ Len(d) = Len(list)
  BY <1>1, <1>3
<1>5. QED
  BY <1>2, <1>3, <1>4 DEF d

\* Two requests of the same items, one after the other.
LEMMA TwoDossiers ==
    ASSUME NEW one \in Seq(Item), NEW two \in Seq(Item), Len(one) = Len(two), Len(one) > 0,
           \A n \in DOMAIN one : Blank(one[n]) /\ one[n].request = 1,
           \A n \in DOMAIN two : Blank(two[n]) /\ two[n].request = 2
    PROVE  LET both == one \o two
           IN  /\ both \in Seq(Item)
               /\ \A n \in DOMAIN both : Blank(both[n]) /\ both[n].request \in {1, 2}
               /\ \A r \in {1, 2} : \E n \in DOMAIN both : both[n].request = r
<1> DEFINE both == one \o two
           m == Len(one)
<1>1. /\ m \in Nat /\ m > 0 /\ DOMAIN one = 1 .. m /\ DOMAIN two = 1 .. m
  OBVIOUS
<1>2. /\ both \in Seq(Item) /\ DOMAIN both = 1 .. m + m
      /\ \A n \in 1 .. m + m : both[n] = IF n <= m THEN one[n] ELSE two[n - m]
  <2>1. /\ both \in Seq(Item) /\ Len(both) = Len(one) + Len(two)
        /\ \A n \in 1 .. Len(one) + Len(two) :
             both[n] = IF n <= Len(one) THEN one[n] ELSE two[n - Len(one)]
    BY ConcatProperties, Zenon
  <2>2. DOMAIN both = 1 .. Len(both)
    <3> HIDE DEF both
    <3>1. QED
      BY <2>1
  <2> HIDE DEF both
  <2>3. Len(two) = m
    OBVIOUS
  <2>4. QED
    BY <2>1, <2>2, <2>3
<1>3. /\ \A n \in 1 .. m : Blank(one[n]) /\ one[n].request = 1
      /\ \A n \in 1 .. m : Blank(two[n]) /\ two[n].request = 2
  BY <1>1
<1> HIDE DEF both, m
<1>4. ASSUME NEW n \in 1 .. m + m PROVE Blank(both[n]) /\ both[n].request \in {1, 2}
  <2>1. CASE n <= m
    <3>1. n \in 1 .. m /\ both[n] = one[n]
      BY <1>1, <1>2, <2>1
    <3>2. QED
      BY <1>3, <3>1
  <2>2. CASE ~(n <= m)
    <3>1. n - m \in 1 .. m /\ both[n] = two[n - m]
      BY <1>1, <1>2, <2>2
    <3>2. QED
      BY <1>3, <3>1
  <2>3. QED
    BY <2>1, <2>2
<1>5. /\ 1 \in 1 .. m /\ 1 \in 1 .. m + m /\ 1 + m \in 1 .. m + m
      /\ 1 <= m /\ ~(1 + m <= m) /\ (1 + m) - m = 1
  BY <1>1
<1>6. both[1] = one[1] /\ both[1 + m] = two[1]
  BY <1>2, <1>5
<1>7. \A r \in {1, 2} : \E n \in DOMAIN both : both[n].request = r
  <2>1. both[1].request = 1 /\ both[1 + m].request = 2
    BY <1>5, <1>6, <1>3
  <2>2. QED
    BY <1>2, <1>5, <2>1
<1>8. QED
  BY <1>2, <1>4, <1>7 DEF both

LEMMA InitInv == Init => DossierInv
<1> SUFFICES ASSUME Init PROVE DossierInv
  OBVIOUS
<1> DEFINE list == Checklist(profile)
           one == [n \in DOMAIN list |-> [list[n] EXCEPT !.request = 1]]
           two == [n \in DOMAIN list |-> [list[n] EXCEPT !.request = 2]]
           both == one \o two
<1>1. /\ list \in Seq(Item) /\ DOMAIN list # {}
      /\ \A n \in DOMAIN list : Blank(list[n])
  BY ChecklistItems
<1>2. /\ \/ requests = <<Admission>> /\ items = one
         \/ requests = <<Admission, Admission>> /\ items = both
      /\ job = [w \in Workers |-> Idle] /\ skewed = {} /\ profile = "not-applicable"
  BY Zenon DEF Init
<1> HIDE DEF list
<1>3. DOMAIN list = 1 .. Len(list) /\ Len(list) \in Nat /\ Len(list) > 0 /\ 1 \in DOMAIN list
  BY <1>1
<1>4. /\ one \in Seq(Item) /\ Len(one) = Len(list) /\ DOMAIN one = DOMAIN list
      /\ \A n \in DOMAIN list : Blank(one[n]) /\ one[n].request = 1
  BY <1>1, DossierItems
<1>5. /\ two \in Seq(Item) /\ Len(two) = Len(list) /\ DOMAIN two = DOMAIN list
      /\ \A n \in DOMAIN list : Blank(two[n]) /\ two[n].request = 2
  BY <1>1, DossierItems
<1> HIDE DEF one, two
<1>6. /\ both \in Seq(Item)
      /\ \A n \in DOMAIN both : Blank(both[n]) /\ both[n].request \in {1, 2}
      /\ \A r \in {1, 2} : \E n \in DOMAIN both : both[n].request = r
  <2>1. /\ one \in Seq(Item) /\ two \in Seq(Item) /\ Len(one) = Len(two) /\ Len(one) > 0
        /\ \A n \in DOMAIN one : Blank(one[n]) /\ one[n].request = 1
        /\ \A n \in DOMAIN two : Blank(two[n]) /\ two[n].request = 2
    BY <1>3, <1>4, <1>5
  <2>2. QED
    BY <2>1, TwoDossiers, Zenon
<1> HIDE DEF both
<1>7. Admission \in Request /\ Admission.cmd = "fresh" /\ Admission.status = "pending-upload"
  BY DEF Admission, Request, RequestStatuses, ItemStatuses
<1> HIDE DEF Admission
<1>8. /\ requests \in Seq(Request)
      /\ \/ DOMAIN requests = {1} /\ items = one
         \/ DOMAIN requests = {1, 2} /\ items = both
      /\ \A r \in DOMAIN requests : requests[r] = Admission
  <2>1. CASE requests = <<Admission>> /\ items = one
    BY <1>7, <2>1
  <2>2. CASE requests = <<Admission, Admission>> /\ items = both
    BY <1>7, <2>2
  <2>3. QED
    BY <1>2, <2>1, <2>2
<1>9. /\ items \in Seq(Item)
      /\ \A n \in DOMAIN items : Blank(items[n]) /\ items[n].request \in DOMAIN requests
      /\ \A r \in DOMAIN requests : \E n \in DOMAIN items : items[n].request = r
  <2>1. CASE DOMAIN requests = {1} /\ items = one
    BY <1>3, <1>4, <2>1
  <2>2. CASE DOMAIN requests = {1, 2} /\ items = both
    BY <1>6, <2>2
  <2>3. QED
    BY <1>8, <2>1, <2>2
<1>10. TablesInv
  BY <1>2, <1>8, <1>9 DEF TablesInv, Sound, Blank, Profiles
<1>11. JobsInv /\ LocksInv
  BY <1>2 DEF JobsInv, LocksInv, InTransaction, Idle, WorkOK
<1>12. OneEffectInv
  <2>1. \A i \in DOMAIN items : DOMAIN items[i].subs = {}
    BY <1>9 DEF Blank
  <2>2. \A r \in DOMAIN requests : requests[r].cmd \notin Commands
    BY <1>7, <1>8, DossierAssumption
  <2>3. QED
    BY <2>1, <2>2 DEF OneEffectInv
<1>13. StatusFollowsItems
  <2> SUFFICES ASSUME NEW r \in DOMAIN requests
               PROVE  requests[r].status = StatusSeen(r, <<>>, <<>>)
    BY DEF StatusFollowsItems
  <2>1. Rows(items, r) # {}
    BY <1>9 DEF Rows, ItemsOf
  <2>2. \A x \in Rows(items, r) : x.status = "pending-upload"
    BY <1>9 DEF Rows, ItemsOf, Blank
  <2>3. StatusSeen(r, <<>>, <<>>) = "pending-upload"
    BY <2>1, <2>2, PendingStatus, StatusCommitted
  <2>4. QED
    BY <1>7, <1>8, <2>3
<1>14. QED
  BY <1>10, <1>11, <1>12, <1>13 DEF DossierInv
-------------------------------------------------------------------------------
(* Steps that leave the tables alone.                                      *)

LEMMA Still ==
    ASSUME UNCHANGED <<requests, items>>
    PROVE  \A j : /\ WorkOK(j) => WorkOK(j)'
                  /\ TransactionOK(j) => TransactionOK(j)'
<1> TAKE j
<1>1. WorkOK(j) => WorkOK(j)'
  BY DEF WorkOK, Aims, AimsAtSub, ReviewOK, SettlesAll
<1>2. \A rows, touched : RowsOK(rows, touched) => RowsOK(rows, touched)'
  BY DEF RowsOK
<1>3. \A rows, key : KeyedOK(rows, key) => KeyedOK(rows, key)'
  BY DEF KeyedOK, AddedDecisions
<1>4. \A added, touched, key : AddedOK(added, touched, key) => AddedOK(added, touched, key)'
  BY DEF AddedOK
<1>5. \A key : Unspent(key) => Unspent(key)'
  BY DEF Unspent, Commanded, Reviewed, Requested
<1>6. \A rows, stale : SettlesOK(rows, stale) => SettlesOK(rows, stale)'
  BY DEF SettlesOK
<1>7. \A r, rows, added : StatusSeen(r, rows, added)' = StatusSeen(r, rows, added)
  BY DEF StatusSeen, Seen, Current, ItemsOf
<1>8. TransactionOK(j) => TransactionOK(j)'
  BY <1>2, <1>3, <1>4, <1>5, <1>6, <1>7 DEF TransactionOK
<1>9. QED
  BY <1>1, <1>8

LEMMA StillTables ==
    ASSUME DossierInv, UNCHANGED <<requests, items, skewed>>, profile' \in Profiles,
           DOMAIN job' = Workers
    PROVE  TablesInv' /\ OneEffectInv' /\ StatusFollowsItems'
<1>1. TablesInv' /\ OneEffectInv'
  BY DEF DossierInv, TablesInv, OneEffectInv
<1>2. StatusFollowsItems'
  BY DEF DossierInv, StatusFollowsItems, StatusSeen, Seen, Current, ItemsOf
<1>3. QED
  BY <1>1, <1>2

LEMMA AsideStep ==
    ASSUME DossierInv, NEW w \in Workers, NEW t,
           UNCHANGED <<requests, items, skewed>>, profile' \in Profiles,
           job' = [job EXCEPT ![w] = t], t.phase # "commit", WorkOK(t)
    PROVE  DossierInv'
<1>1. DOMAIN job = Workers /\ DOMAIN job' = Workers
  BY DEF DossierInv, TablesInv
<1>2. job'[w] = t /\ \A v \in Workers \ {w} : job'[v] = job[v]
  BY <1>1
<1>3. JobsInv'
  <2> SUFFICES ASSUME NEW v \in Workers
               PROVE  IF job'[v].phase = "commit" THEN TransactionOK(job[v])' ELSE WorkOK(job[v])'
    BY DEF JobsInv
  <2>1. CASE v = w
    BY <1>2, <2>1, Still
  <2>2. CASE v # w
    BY <1>2, <2>2, Still DEF DossierInv, JobsInv
  <2>3. QED
    BY <2>1, <2>2
<1>4. LocksInv'
  BY <1>2 DEF DossierInv, LocksInv, InTransaction
<1>5. QED
  BY <1>1, <1>3, <1>4, StillTables DEF DossierInv
LEMMA StartStep ==
    ASSUME DossierInv, NEW w \in Workers, NEW t, Start(w, t), t.phase # "commit", WorkOK(t)
    PROVE  DossierInv'
<1>1. profile' \in Profiles
  BY DEF Start, DossierInv, TablesInv
<1>2. QED
  BY <1>1, AsideStep DEF Start

LEMMA FailStep ==
    ASSUME DossierInv, NEW w \in Workers, Fail(w)
    PROVE  DossierInv'
<1>1. profile' \in Profiles /\ WorkOK(Idle) /\ Idle.phase # "commit"
  BY DEF Fail, DossierInv, TablesInv, WorkOK, Idle
<1>2. QED
  BY <1>1, AsideStep DEF Fail

\* A transaction that has written its rows.
LEMMA HoldStep ==
    ASSUME DossierInv, NEW w \in Workers, NEW rows, NEW added, NEW touched, NEW key,
           NEW completion \in {"set", "clear", "keep"},
           Hold(w, rows, added, touched, key, completion),
           touched \subseteq DOMAIN requests,
           RowsOK(rows, touched), KeyedOK(rows, key), AddedOK(added, touched, key),
           Unspent(key),
           \A v \in Workers : InTransaction(v) /\ job[v].key = key =>
               key = <<"none", 0>> \/ key[2] \notin Commands,
           job[w].op = "upload" => \A i \in DOMAIN rows : items[i].status \in Uploadable,
           job[w].op = "review" =>
               SettlesOK(rows, IF Settling(w) THEN job[w].missed ELSE {})
    PROVE  DossierInv'
<1> DEFINE t == [phase |-> "commit", op |-> job[w].op, rows |-> rows, added |-> added,
                 key |-> key, completion |-> completion, stale |-> {},
                 missed |-> IF Settling(w) THEN job[w].missed ELSE {},
                 state |-> [r \in touched |-> StatusSeen(r, rows, added)]]
<1>1. /\ DOMAIN job = Workers /\ job' = [job EXCEPT ![w] = t]
      /\ UNCHANGED <<profile, requests, items, spent, skewed>>
      /\ DOMAIN rows \cap Locked(w) = {}
  BY DEF Hold, DossierInv, TablesInv
<1>2. TransactionOK(t)
  <2>1. \A r \in touched : t.state[r] = StatusSeen(r, rows, added) /\ t.state[r] \in RequestStatuses
    BY DerivedStatusType DEF StatusSeen
  <2>2. /\ DOMAIN t.state = touched /\ t.rows = rows /\ t.added = added /\ t.key = key
        /\ t.completion = completion /\ t.op = job[w].op
        /\ t.stale \cup t.missed = IF Settling(w) THEN job[w].missed ELSE {}
    OBVIOUS
  <2>3. DOMAIN t = {"phase", "op", "rows", "added", "key", "completion", "stale", "missed", "state"}
    OBVIOUS
  <2> HIDE DEF t
  <2>4. QED
    BY <2>1, <2>2, <2>3 DEF TransactionOK
<1>3. t.phase = "commit" /\ t.rows = rows /\ t.key = key
  OBVIOUS
<1> HIDE DEF t
<1>4. job'[w] = t /\ \A v \in Workers \ {w} : job'[v] = job[v]
  BY <1>1
<1>5. JobsInv'
  <2> SUFFICES ASSUME NEW v \in Workers
               PROVE  IF job'[v].phase = "commit" THEN TransactionOK(job[v])' ELSE WorkOK(job[v])'
    BY DEF JobsInv
  <2>1. CASE v = w
    BY <1>1, <1>2, <1>3, <1>4, <2>1, Still
  <2>2. CASE v # w
    BY <1>1, <1>4, <2>2, Still DEF DossierInv, JobsInv
  <2>3. QED
    BY <2>1, <2>2
<1>6. LocksInv'
  <2>1. \A v \in Workers \ {w} : InTransaction(v) =>
            /\ DOMAIN job[v].rows \cap DOMAIN rows = {}
            /\ job[v].key = key => key = <<"none", 0>> \/ key[2] \notin Commands
    BY <1>1 DEF Locked
  <2>2. \A v \in Workers : InTransaction(v)' <=> v = w \/ InTransaction(v)
    BY <1>3, <1>4 DEF InTransaction
  <2>3. QED
    BY <1>3, <1>4, <2>1, <2>2 DEF LocksInv, DossierInv
<1>7. QED
  BY <1>1, <1>5, <1>6, StillTables DEF DossierInv, TablesInv

(* What transactions write.                                                *)

\* A row that keeps its place, its submissions and their decisions.
Alike(old, new) ==
    /\ new.request = old.request /\ new.type = old.type
    /\ DOMAIN new.subs = DOMAIN old.subs
    /\ \A k \in DOMAIN old.subs :
         /\ new.subs[k].cmd = old.subs[k].cmd
         /\ new.subs[k].decisions = old.subs[k].decisions

LEMMA AlikeRows ==
    ASSUME NEW rows, NEW touched, NEW key, DOMAIN rows \subseteq DOMAIN items,
           \A i \in DOMAIN rows : /\ Sound(rows[i]) /\ Alike(items[i], rows[i])
                                  /\ items[i].request \in touched
    PROVE  RowsOK(rows, touched) /\ KeyedOK(rows, key)
<1>1. RowsOK(rows, touched)
  BY DEF RowsOK, Alike, Continues
<1>2. \A i \in DOMAIN rows : \A k \in DOMAIN rows[i].subs :
          k \in DOMAIN items[i].subs /\ AddedDecisions(rows, i, k) = {}
  BY DEF Alike, AddedDecisions
<1>3. KeyedOK(rows, key)
  BY <1>2 DEF KeyedOK
<1>4. QED
  BY <1>1, <1>3

LEMMA NoRows ==
    \A touched, key, stale :
        RowsOK(<<>>, touched) /\ KeyedOK(<<>>, key) /\ SettlesOK(<<>>, stale)
  BY DEF RowsOK, KeyedOK, SettlesOK

LEMMA NoneAdded == \A touched, key : AddedOK(<<>>, touched, key)
  BY DEF AddedOK

LEMMA NoKey == Unspent(<<"none", 0>>)
  BY DEF Unspent

-------------------------------------------------------------------------------
(* The transactions, one by one.                                           *)

LEMMA WorkFacts ==
    ASSUME DossierInv, NEW w \in Workers, NEW op, Working(w, op)
    PROVE  WorkOK(job[w]) /\ job[w].phase = "work" /\ job[w].op = op
  BY DEF Working, DossierInv, JobsInv

LEMMA ItemFacts ==
    ASSUME DossierInv, NEW i \in DOMAIN items
    PROVE  /\ Sound(items[i]) /\ items[i] \in Item
           /\ items[i].request \in DOMAIN requests
  BY DEF DossierInv, TablesInv, Sound

LEMMA SubsFacts ==
    ASSUME NEW x, Sound(x)
    PROVE  /\ x \in Item /\ x.subs \in Seq(SubmissionRows) /\ Len(x.subs) \in Nat
           /\ x.version = Len(x.subs) /\ DOMAIN x.subs = 1 .. Len(x.subs)
           /\ \A k \in DOMAIN x.subs : x.subs[k] \in SubmissionRows /\ x.subs[k].version = k
<1>1. x \in Item /\ x.version = Len(x.subs) /\ \A k \in DOMAIN x.subs : x.subs[k].version = k
  BY DEF Sound
<1>2. x.subs \in Seq(SubmissionRows)
  BY <1>1 DEF Item
<1>3. \A k \in DOMAIN x.subs : x.subs[k] \in SubmissionRows
  BY <1>2
<1>4. QED
  BY <1>1, <1>2, <1>3

Changed(x, v, st, ss) == [x EXCEPT !.version = v, !.status = st, !.subs = ss]

LEMMA ItemChanged ==
    ASSUME NEW x \in Item, NEW v \in Nat, NEW st \in ItemStatuses, NEW ss \in Seq(SubmissionRows)
    PROVE  LET new == Changed(x, v, st, ss)
           IN  /\ new \in Item /\ new.version = v /\ new.status = st /\ new.subs = ss
               /\ new.request = x.request /\ new.type = x.type
<1> DEFINE S == Seq(SubmissionRows)
<1>1. ss \in S /\ x \in [request : Nat, type : Types, requirement : Requirements,
          status : ItemStatuses, version : Nat, manual : BOOLEAN, subs : S]
  BY DEF Item
<1> HIDE DEF S
<1>2. [x EXCEPT !.version = v, !.status = st, !.subs = ss] \in
          [request : Nat, type : Types, requirement : Requirements,
           status : ItemStatuses, version : Nat, manual : BOOLEAN, subs : S]
  BY <1>1
<1>3. QED
  BY <1>1, <1>2 DEF S, Item, Changed

LEMMA WrittenRow ==
    \A i, x : DOMAIN Written(i, x) = {i} /\ Written(i, x)[i] = x
  BY DEF Written

LEMMA NotPending ==
    ASSUME NEW table, NEW cmd, ~Pending(table, cmd)
    PROVE  \A v \in Workers : InTransaction(v) /\ job[v].key = <<table, cmd>> => cmd \notin Commands
  BY DEF Pending

\* The version an upload appends.
LEMMA NewVersionRow ==
    ASSUME NEW j, Aims(j), Sound(items[j.item]), j.cmd \in Commands, j.file \in Files,
           j.seen.version < MaxVersions, items[j.item].version = j.seen.version
    PROVE  /\ Sound(NewVersion(j)) /\ Continues(items[j.item], NewVersion(j))
           /\ DOMAIN NewVersion(j).subs = 1 .. Len(items[j.item].subs) + 1
           /\ NewVersion(j).subs[Len(items[j.item].subs) + 1].cmd = j.cmd
           /\ NewVersion(j).subs[Len(items[j.item].subs) + 1].decisions = {}
           /\ \A k \in DOMAIN items[j.item].subs :
                NewVersion(j).subs[k].decisions = items[j.item].subs[k].decisions
<1> DEFINE x == items[j.item]
           n == Len(x.subs)
           replaced == [k \in DOMAIN x.subs |->
              LET s == x.subs[k]
              IN  IF j.seen.status = "pending-human-review"
                     /\ s.version = j.seen.version /\ s.status = "pending-human-review"
                  THEN [s EXCEPT !.status = "cancelled"] ELSE s]
           last == [version |-> NextVersion(j), file |-> j.file, cmd |-> j.cmd,
                    status |-> "submitted", kept |-> TRUE, done |-> FALSE, decisions |-> {}]
<1>1. /\ x \in Item /\ x.subs \in Seq(SubmissionRows) /\ n \in Nat /\ x.version = n
      /\ DOMAIN x.subs = 1 .. n
      /\ \A k \in 1 .. n : x.subs[k] \in SubmissionRows /\ x.subs[k].version = k
  <2> HIDE DEF x
  <2>1. Sound(x)
    BY DEF x
  <2>2. QED
    BY <2>1, SubsFacts
<1>2. \A k \in 1 .. n : /\ replaced[k] \in SubmissionRows /\ replaced[k].version = k
                        /\ replaced[k].cmd = x.subs[k].cmd
                        /\ replaced[k].decisions = x.subs[k].decisions
  <2> SUFFICES ASSUME NEW k \in 1 .. n
               PROVE  /\ replaced[k] \in SubmissionRows /\ replaced[k].version = k
                      /\ replaced[k].cmd = x.subs[k].cmd
                      /\ replaced[k].decisions = x.subs[k].decisions
    OBVIOUS
  <2> DEFINE s == x.subs[k]
  <2>1. s \in SubmissionRows /\ s.version = k
    BY <1>1
  <2>2. replaced[k] = s \/ replaced[k] = [s EXCEPT !.status = "cancelled"]
    BY <1>1
  <2> HIDE DEF s, replaced
  <2>3. QED
    BY <2>1, <2>2 DEF SubmissionRows, ItemStatuses, s
<1>3. replaced \in Seq(SubmissionRows) /\ Len(replaced) = n
  <2>1. replaced \in [1 .. n -> SubmissionRows]
    BY <1>1, <1>2
  <2> HIDE DEF replaced
  <2>2. QED
    BY <1>1, <2>1
<1>4. last \in SubmissionRows /\ last.version = n + 1 /\ last.cmd = j.cmd /\ last.decisions = {}
  BY <1>1, DossierAssumption DEF SubmissionRows, ItemStatuses, NextVersion
<1>5. NewVersion(j) = [x EXCEPT !.version = @ + 1, !.status = "submitted",
                                !.subs = Append(replaced, last)]
  BY DEF NewVersion
<1> HIDE DEF replaced, last
<1>6. /\ Append(replaced, last) \in Seq(SubmissionRows)
      /\ Len(Append(replaced, last)) = n + 1
      /\ \A k \in 1 .. n : Append(replaced, last)[k] = replaced[k]
      /\ Append(replaced, last)[n + 1] = last
  BY <1>1, <1>3, <1>4
<1>7. /\ NewVersion(j) \in Item /\ NewVersion(j).subs = Append(replaced, last)
      /\ NewVersion(j).version = n + 1 /\ NewVersion(j).status = "submitted"
      /\ NewVersion(j).request = x.request /\ NewVersion(j).type = x.type
  <2> HIDE DEF x
  <2>1. "submitted" \in ItemStatuses /\ n + 1 \in Nat
    BY <1>1 DEF ItemStatuses
  <2>2. NewVersion(j) = [x EXCEPT !.version = n + 1, !.status = "submitted",
                                  !.subs = Append(replaced, last)]
    BY <1>1, <1>5
  <2>3. NewVersion(j) = Changed(x, n + 1, "submitted", Append(replaced, last))
    BY <2>2 DEF Changed
  <2> DEFINE ss == Append(replaced, last)
             m == n + 1
  <2>4. ss \in Seq(SubmissionRows) /\ m \in Nat /\ x \in Item
    BY <1>1, <1>6
  <2> HIDE DEF ss, m
  <2>5. LET new == Changed(x, m, "submitted", ss)
        IN  /\ new \in Item /\ new.version = m /\ new.status = "submitted" /\ new.subs = ss
            /\ new.request = x.request /\ new.type = x.type
    BY <2>1, <2>4, ItemChanged
  <2>6. QED
    BY <2>3, <2>5 DEF ss, m
<1>8. DOMAIN NewVersion(j).subs = 1 .. n + 1
  BY <1>6, <1>7
<1>9. Sound(NewVersion(j))
  BY <1>1, <1>2, <1>4, <1>6, <1>7, <1>8 DEF Sound
<1>10. Continues(x, NewVersion(j))
  BY <1>1, <1>2, <1>6, <1>7, <1>8 DEF Continues
<1>11. QED
  BY <1>1, <1>2, <1>4, <1>6, <1>7, <1>8, <1>9, <1>10

LEMMA WriteUploadStep ==
    ASSUME DossierInv, NEW w \in Workers, WriteUpload(w) PROVE DossierInv'
<1> DEFINE j == job[w]
           i == j.item
           key == <<"submission", j.cmd>>
           rows == Written(i, NewVersion(j))
           touched == {items[i].request}
<1>1. CASE Fail(w)
  BY <1>1, FailStep
<1>2. CASE /\ StillCurrent(items[i], j.seen) /\ ~Commanded(j.cmd)
           /\ Hold(w, rows, <<>>, touched, key, "keep")
  <2>1. WorkOK(j) /\ j.phase = "work" /\ j.op = "upload" /\ ~Pending("submission", j.cmd)
    BY WorkFacts DEF WriteUpload
  <2>2. /\ i \in DOMAIN items /\ Aims(j) /\ j.cmd \in Commands /\ j.file \in Files
        /\ j.seen.status \in Uploadable /\ j.seen.version < MaxVersions
    BY <2>1 DEF WorkOK, Idle, Aims
  <2>3. Sound(items[i]) /\ items[i].request \in DOMAIN requests
    BY <2>2, ItemFacts
  <2>4. items[i].version = j.seen.version /\ items[i].status \in Uploadable
    BY <1>2, <2>2 DEF StillCurrent
  <2> DEFINE new == NewVersion(j)
             n == Len(items[i].subs)
  <2>5. /\ Sound(new) /\ Continues(items[i], new)
        /\ DOMAIN new.subs = 1 .. n + 1 /\ new.subs[n + 1].cmd = j.cmd
        /\ new.subs[n + 1].decisions = {}
        /\ \A k \in DOMAIN items[i].subs : new.subs[k].decisions = items[i].subs[k].decisions
    BY <2>2, <2>3, <2>4, NewVersionRow
  <2>6. DOMAIN items[i].subs = 1 .. n /\ n \in Nat
    BY <2>3 DEF Sound, Item
  <2>7. DOMAIN rows = {i} /\ rows[i] = new
    BY WrittenRow
  <2>8. RowsOK(rows, touched)
    BY <2>2, <2>5, <2>7 DEF RowsOK
  <2>9. \A k \in DOMAIN rows[i].subs :
            /\ AddedDecisions(rows, i, k) = {}
            /\ k \notin DOMAIN items[i].subs => k = n + 1 /\ rows[i].subs[k].cmd = j.cmd
    <3> SUFFICES ASSUME NEW k \in 1 .. n + 1
                 PROVE  /\ AddedDecisions(rows, i, k) = {}
                        /\ k \notin DOMAIN items[i].subs => k = n + 1 /\ new.subs[k].cmd = j.cmd
      BY <2>5, <2>7
    <3> HIDE DEF rows, new
    <3>1. CASE k \in 1 .. n
      BY <2>5, <2>6, <2>7, <3>1 DEF AddedDecisions
    <3>2. CASE k = n + 1
      BY <2>5, <2>6, <2>7, <3>2 DEF AddedDecisions
    <3>3. QED
      BY <2>6, <3>1, <3>2
  <2>10. KeyedOK(rows, key)
    BY <2>7, <2>9 DEF KeyedOK
  <2>11. Unspent(key)
    BY <1>2, <2>2 DEF Unspent
  <2>12. \A v \in Workers : InTransaction(v) /\ job[v].key = key => j.cmd \notin Commands
    BY <2>1, NotPending
  <2> HIDE DEF rows, touched
  <2>13. touched \subseteq DOMAIN requests /\ \A d \in DOMAIN rows : items[d].status \in Uploadable
    BY <2>3, <2>4, <2>7 DEF touched
  <2>14. QED
    BY <1>2, <2>1, <2>8, <2>10, <2>11, <2>12, <2>13, NoneAdded, HoldStep
<1>3. QED
  BY <1>1, <1>2 DEF WriteUpload
\* One submission of an item is changed, and its status with it.
Marked(x, k, s, st) == [x EXCEPT !.status = st, !.subs = [x.subs EXCEPT ![k] = s]]

LEMMA SubmissionMarked ==
    ASSUME NEW x, Sound(x), NEW k \in DOMAIN x.subs, NEW s \in SubmissionRows,
           s.version = k, NEW st \in ItemStatuses
    PROVE  LET new == Marked(x, k, s, st)
           IN  /\ st # "approved" \/ HasApproval(new) => Sound(new)
               /\ new.request = x.request /\ new.type = x.type /\ new.status = st
               /\ DOMAIN new.subs = DOMAIN x.subs /\ new.subs[k] = s
               /\ \A l \in DOMAIN x.subs \ {k} : new.subs[l] = x.subs[l]
<1> DEFINE ss == [x.subs EXCEPT ![k] = s]
           new == Marked(x, k, s, st)
<1>1. /\ x \in Item /\ x.subs \in Seq(SubmissionRows) /\ x.version = Len(x.subs)
      /\ \A l \in DOMAIN x.subs : x.subs[l].version = l
  BY SubsFacts
<1>2. /\ ss \in Seq(SubmissionRows) /\ Len(ss) = Len(x.subs) /\ DOMAIN ss = DOMAIN x.subs
      /\ ss[k] = s /\ \A l \in DOMAIN x.subs \ {k} : ss[l] = x.subs[l]
  BY <1>1
<1> HIDE DEF ss
<1>3. x.version \in Nat
  BY <1>1 DEF Item
<1>4. new = Changed(x, x.version, st, ss)
  BY <1>1 DEF Marked, Changed, Item, ss
<1>5. /\ new \in Item /\ new.version = x.version /\ new.status = st /\ new.subs = ss
      /\ new.request = x.request /\ new.type = x.type
  BY <1>1, <1>2, <1>3, <1>4, ItemChanged
<1> HIDE DEF new
<1>6. st # "approved" \/ HasApproval(new) => Sound(new)
  <2>1. \A l \in DOMAIN new.subs : new.subs[l].version = l
    BY <1>1, <1>2, <1>5
  <2>2. QED
    BY <1>1, <1>2, <1>5, <2>1 DEF Sound
<1>7. QED
  BY <1>2, <1>5, <1>6 DEF new

\* A transaction that changes one submission without a decision.
LEMMA MarkStep ==
    ASSUME DossierInv, NEW w \in Workers, NEW i \in DOMAIN items,
           NEW k \in DOMAIN items[i].subs, NEW s \in SubmissionRows,
           s.version = k, s.cmd = items[i].subs[k].cmd,
           s.decisions = items[i].subs[k].decisions,
           NEW st \in ItemStatuses \ {"approved"},
           NEW completion \in {"set", "clear", "keep"},
           job[w].op \notin {"upload", "review"},
           Hold(w, Written(i, Marked(items[i], k, s, st)), <<>>, {items[i].request},
                <<"none", 0>>, completion)
    PROVE  DossierInv'
<1> DEFINE new == Marked(items[i], k, s, st)
           rows == Written(i, new)
<1>1. Sound(items[i]) /\ items[i].request \in DOMAIN requests
  BY ItemFacts
<1>2. Sound(new) /\ Alike(items[i], new)
  BY <1>1, SubmissionMarked DEF Alike
<1>3. DOMAIN rows = {i} /\ rows[i] = new
  BY WrittenRow
<1> HIDE DEF new, rows
<1>4. RowsOK(rows, {items[i].request}) /\ KeyedOK(rows, <<"none", 0>>)
  BY <1>2, <1>3, AlikeRows
<1>5. Hold(w, rows, <<>>, {items[i].request}, <<"none", 0>>, completion)
  BY DEF rows, new
<1>6. QED
  BY <1>1, <1>4, <1>5, NoneAdded, NoKey, HoldStep

LEMMA WriteCompleteStep ==
    ASSUME DossierInv, NEW w \in Workers, WriteComplete(w) PROVE DossierInv'
<1> DEFINE i == job[w].item
           k == job[w].sub
           x == items[i]
           s == [x.subs[k] EXCEPT !.status = Validated, !.done = TRUE]
<1>1. WorkOK(job[w]) /\ job[w].phase = "work" /\ job[w].op = "complete"
  BY WorkFacts DEF WriteComplete
<1>2. i \in DOMAIN items /\ k \in DOMAIN x.subs
  BY <1>1 DEF WorkOK, Idle, Aims, AimsAtSub
<1>3. Sound(x)
  BY <1>2, ItemFacts
<1>4. /\ x \in Item /\ x.subs \in Seq(SubmissionRows)
      /\ x.subs[k] \in SubmissionRows /\ x.subs[k].version = k
  BY <1>2, <1>3, SubsFacts
<1>5. /\ s \in SubmissionRows /\ s.version = k /\ s.cmd = x.subs[k].cmd
      /\ s.decisions = x.subs[k].decisions
  BY <1>4 DEF SubmissionRows, Validated, ItemStatuses
<1>6. [x EXCEPT !.status = Validated, !.subs[k].status = Validated, !.subs[k].done = TRUE]
        = Marked(x, k, s, Validated)
  BY <1>2, <1>4 DEF Marked, Item, SubmissionRows
<1>7. Hold(w, Written(i, Marked(x, k, s, Validated)), <<>>, {x.request}, <<"none", 0>>, "keep")
  BY <1>6 DEF WriteComplete
<1>8. Validated \in ItemStatuses \ {"approved"}
  BY DEF Validated, ItemStatuses
<1> HIDE DEF s
<1>9. QED
  BY <1>1, <1>2, <1>5, <1>7, <1>8, MarkStep

LEMMA WriteDeleteStep ==
    ASSUME DossierInv, NEW w \in Workers, WriteDelete(w) PROVE DossierInv'
<1> DEFINE i == job[w].item
           k == job[w].sub
           x == items[i]
           s == [x.subs[k] EXCEPT !.status = "cancelled", !.kept = FALSE]
<1>1. WorkOK(job[w]) /\ job[w].phase = "work" /\ job[w].op = "delete"
  BY WorkFacts DEF WriteDelete
<1>2. i \in DOMAIN items /\ k \in DOMAIN x.subs
  BY <1>1 DEF WorkOK, Idle, Aims, AimsAtSub
<1>3. Sound(x)
  BY <1>2, ItemFacts
<1>4. /\ x \in Item /\ x.subs \in Seq(SubmissionRows)
      /\ x.subs[k] \in SubmissionRows /\ x.subs[k].version = k
  BY <1>2, <1>3, SubsFacts
<1>5. /\ s \in SubmissionRows /\ s.version = k /\ s.cmd = x.subs[k].cmd
      /\ s.decisions = x.subs[k].decisions
  BY <1>4 DEF SubmissionRows, ItemStatuses
<1>6. [x EXCEPT !.status = "pending-upload", !.subs[k].status = "cancelled", !.subs[k].kept = FALSE]
        = Marked(x, k, s, "pending-upload")
  BY <1>2, <1>4 DEF Marked, Item, SubmissionRows
<1>7. Hold(w, Written(i, Marked(x, k, s, "pending-upload")), <<>>, {x.request},
           <<"none", 0>>, "clear")
  BY <1>6 DEF WriteDelete
<1>8. "pending-upload" \in ItemStatuses \ {"approved"}
  BY DEF ItemStatuses
<1> HIDE DEF s
<1>9. QED
  BY <1>1, <1>2, <1>5, <1>7, <1>8, MarkStep
LEMMA SatisfiedRow ==
    ASSUME NEW y, Sound(y), NEW m \in BOOLEAN
    PROVE  /\ Sound(Satisfied(y, m)) /\ Alike(y, Satisfied(y, m))
           /\ Satisfied(y, m).status = "waived"
<1> DEFINE x == [y EXCEPT !.manual = m]
<1>0. Sound(x) /\ Alike(y, x)
  <2>1. y \in Item
    BY DEF Sound
  <2>2. /\ x \in Item /\ x.request = y.request /\ x.type = y.type /\ x.version = y.version
        /\ x.status = y.status /\ x.subs = y.subs
    BY <2>1 DEF Item
  <2> HIDE DEF x
  <2>3. QED
    BY <2>2 DEF Sound, Alike, HasApproval
<1> DEFINE ss == [k \in DOMAIN x.subs |->
                    IF x.subs[k].status \in Open \ {"pending-upload"}
                    THEN [x.subs[k] EXCEPT !.status = "cancelled"] ELSE x.subs[k]]
<1>1. /\ x \in Item /\ x.subs \in Seq(SubmissionRows) /\ x.version = Len(x.subs)
      /\ DOMAIN x.subs = 1 .. Len(x.subs) /\ Len(x.subs) \in Nat
      /\ \A k \in DOMAIN x.subs : x.subs[k] \in SubmissionRows /\ x.subs[k].version = k
  <2> HIDE DEF x
  <2>1. QED
    BY <1>0, SubsFacts
<1>2. \A k \in DOMAIN x.subs :
        /\ ss[k] \in SubmissionRows /\ ss[k].version = k
        /\ ss[k].cmd = x.subs[k].cmd /\ ss[k].decisions = x.subs[k].decisions
  <2> SUFFICES ASSUME NEW k \in DOMAIN x.subs
               PROVE  /\ ss[k] \in SubmissionRows /\ ss[k].version = k
                      /\ ss[k].cmd = x.subs[k].cmd /\ ss[k].decisions = x.subs[k].decisions
    OBVIOUS
  <2> DEFINE s == x.subs[k]
  <2>1. s \in SubmissionRows /\ s.version = k
    BY <1>1
  <2>2. ss[k] = s \/ ss[k] = [s EXCEPT !.status = "cancelled"]
    OBVIOUS
  <2> HIDE DEF s, ss
  <2>3. QED
    BY <2>1, <2>2 DEF SubmissionRows, ItemStatuses, s
<1>3. DOMAIN ss = DOMAIN x.subs
  OBVIOUS
<1>4. ss \in Seq(SubmissionRows) /\ Len(ss) = Len(x.subs)
  <2>1. ss \in [1 .. Len(x.subs) -> SubmissionRows]
    BY <1>1, <1>2
  <2> HIDE DEF ss
  <2>2. QED
    BY <1>1, <2>1
<1>5. Satisfied(y, m) = Changed(x, x.version, "waived", ss)
  <2>1. y \in Item
    BY DEF Sound
  <2>2. ss = [k \in DOMAIN y.subs |->
                IF y.subs[k].status \in Open \ {"pending-upload"}
                THEN [y.subs[k] EXCEPT !.status = "cancelled"] ELSE y.subs[k]]
    BY <2>1 DEF Item
  <2> HIDE DEF ss
  <2>3. QED
    BY <2>1, <2>2 DEF Satisfied, Changed, Item
<1> HIDE DEF x
<1> HIDE DEF ss
<1>6. x.version \in Nat /\ "waived" \in ItemStatuses
  BY <1>1 DEF ItemStatuses
<1> DEFINE new == Changed(x, x.version, "waived", ss)
<1>7. /\ new \in Item /\ new.version = x.version /\ new.status = "waived" /\ new.subs = ss
      /\ new.request = x.request /\ new.type = x.type
  BY <1>1, <1>4, <1>6, ItemChanged
<1> HIDE DEF new
<1>8. Sound(new) /\ Alike(y, new)
  <2>1. Sound(new) /\ Alike(x, new)
    BY <1>1, <1>2, <1>3, <1>4, <1>7 DEF Sound, Alike
  <2>2. QED
    BY <1>0, <2>1 DEF Alike
<1>9. QED
  BY <1>5, <1>7, <1>8 DEF new

\* An approval has read what it settles.
LEMMA OpenReviewStep ==
    ASSUME DossierInv, NEW w \in Workers, OpenReview(w) PROVE DossierInv'
<1> DEFINE j == job[w]
           f == [d \in Duplicates(j.item) |-> items[d].manual]
           t == [j EXCEPT !.phase = "settle", !.others = f]
<1>1. /\ WorkOK(j) /\ j.phase = "work" /\ j.op = "review"
      /\ UNCHANGED <<profile, requests, items, spent, skewed>>
      /\ DOMAIN job = Workers /\ job' = [job EXCEPT ![w].phase = "settle", ![w].others = f]
  BY WorkFacts DEF OpenReview, DossierInv, TablesInv
<1>2. ReviewOK(j)
  BY <1>1 DEF WorkOK, Idle
<1>3. job' = [job EXCEPT ![w] = t]
  BY <1>1, <1>2 DEF ReviewOK, ReviewFields
<1> HIDE DEF j
<1>4. /\ t.phase = "settle" /\ t.op = "review" /\ t.others = f
      /\ t.item = j.item /\ t.sub = j.sub /\ t.cmd = j.cmd /\ t.decision = j.decision
      /\ DOMAIN t = ReviewFields
  BY <1>1, <1>2 DEF ReviewOK, ReviewFields, j
<1> HIDE DEF t
<1>5. DOMAIN f \subseteq DOMAIN items \ {j.item}
  BY DEF Duplicates
<1>6. \A d \in DOMAIN f : f[d] \in BOOLEAN
  BY <1>5, ItemFacts DEF Item
<1>7. ReviewOK(t)
  BY <1>2, <1>4, <1>5, <1>6 DEF ReviewOK, AimsAtSub, Aims
<1>8. SettlesAll(t)
  <2>1. DOMAIN f = Duplicates(j.item)
    OBVIOUS
  <2> HIDE DEF f
  <2>2. QED
    BY <1>4, <2>1 DEF SettlesAll, Duplicates
<1>9. WorkOK(t) /\ t.phase # "commit"
  BY <1>4, <1>7, <1>8 DEF WorkOK
<1>10. profile' \in Profiles
  BY <1>1 DEF DossierInv, TablesInv
<1>11. QED
  BY <1>1, <1>3, <1>9, <1>10, AsideStep

LEMMA WriteReviewStep ==
    ASSUME DossierInv, NEW w \in Workers, WriteReview(w) PROVE DossierInv'
<1> DEFINE j == job[w]
           i == j.item
           k == j.sub
           x == items[i]
           st == j.decision
           others == DOMAIN j.others
           missed == IF Settling(w) THEN j.missed ELSE {}
           s == [x.subs[k] EXCEPT !.status = st, !.decisions = @ \cup {<<j.cmd, st>>}]
           decided == Marked(x, k, s, st)
           rows == [d \in others \cup {i} |-> IF d = i THEN decided
                                          ELSE Satisfied(items[d], j.others[d])]
           touched == Affected(others, i)
           key == <<"review", j.cmd>>
<1>1. /\ ReviewOK(j) /\ j.op = "review" /\ ~Pending("review", j.cmd)
      /\ st = "approved" => Settling(w) /\ SettlesAll(j)
  <2>1. ~Pending("review", j.cmd)
    BY Zenon DEF WriteReview
  <2>2. CASE Settling(w)
    <3>1. WorkOK(j)
      BY <2>2 DEF Settling, DossierInv, JobsInv
    <3>2. QED
      BY <2>1, <2>2, <3>1 DEF Settling, WorkOK, Idle
  <2>3. CASE ~Settling(w)
    <3>1. Working(w, "review") /\ st # "approved"
      BY <2>3, Zenon DEF WriteReview
    <3>2. WorkOK(j) /\ j.phase = "work" /\ j.op = "review"
      BY <3>1, WorkFacts
    <3>3. QED
      BY <2>1, <3>1, <3>2 DEF WorkOK, Idle
  <2>4. QED
    BY <2>2, <2>3
<1>2. /\ i \in DOMAIN items /\ k \in DOMAIN x.subs
      /\ j.cmd \in Commands /\ st \in Decisions /\ st \in ItemStatuses
  BY <1>1 DEF ReviewOK, Aims, AimsAtSub, Decisions, ItemStatuses
<1>3. Sound(x)
  BY <1>2, ItemFacts
<1>4. /\ x \in Item /\ x.subs \in Seq(SubmissionRows)
      /\ x.subs[k] \in SubmissionRows /\ x.subs[k].version = k
  BY <1>2, <1>3, SubsFacts
<1>5. /\ s \in SubmissionRows /\ s.version = k /\ s.cmd = x.subs[k].cmd
      /\ s.decisions = x.subs[k].decisions \cup {<<j.cmd, st>>}
  <2> DEFINE S == SUBSET (Commands \X Decisions)
             old == x.subs[k]
             D == old.decisions \cup {<<j.cmd, st>>}
  <2>1. old \in [version : 1 .. MaxVersions, file : Files, cmd : Commands, status : ItemStatuses,
                 kept : BOOLEAN, done : BOOLEAN, decisions : S]
    BY <1>4 DEF SubmissionRows
  <2>2. <<j.cmd, st>> \in Commands \X Decisions
    BY <1>2
  <2>3. old.decisions \in S
    BY <2>1
  <2>4. D \in S
    BY <2>2, <2>3
  <2>5. s = [old EXCEPT !.status = st, !.decisions = D]
    BY <2>1
  <2> HIDE DEF S, D, s, old
  <2>6. /\ s \in [version : 1 .. MaxVersions, file : Files, cmd : Commands, status : ItemStatuses,
                  kept : BOOLEAN, done : BOOLEAN, decisions : S]
        /\ s.version = old.version /\ s.cmd = old.cmd /\ s.decisions = D
    BY <1>2, <2>1, <2>4, <2>5
  <2>7. QED
    BY <1>4, <2>6 DEF SubmissionRows, S, D, old
<1>6. [x EXCEPT !.status = st, !.subs[k].status = st,
                !.subs[k].decisions = @ \cup {<<j.cmd, st>>}] = decided
  BY <1>2, <1>4 DEF Marked, Item, SubmissionRows
<1>7. Fail(w) \/ (~Reviewed(j.cmd) /\ Hold(w, rows, <<>>, touched, key, "set"))
  <2>1. CASE Reviewed(j.cmd)
    BY <2>1 DEF WriteReview
  <2>2. CASE ~Reviewed(j.cmd)
    BY <1>6, <2>2 DEF WriteReview
  <2>3. QED
    BY <2>1, <2>2
<1> HIDE DEF s
<1>8. /\ st # "approved" \/ HasApproval(decided) => Sound(decided)
      /\ decided.request = x.request /\ decided.type = x.type /\ decided.status = st
      /\ DOMAIN decided.subs = DOMAIN x.subs /\ decided.subs[k] = s
      /\ \A l \in DOMAIN x.subs \ {k} : decided.subs[l] = x.subs[l]
  BY <1>2, <1>3, <1>5, SubmissionMarked
<1> HIDE DEF decided
<1>9. Sound(decided)
  <2>1. CASE st = "approved"
    <3>1. <<j.cmd, st>> \in decided.subs[k].decisions /\ k \in DOMAIN decided.subs
      BY <1>2, <1>5, <1>8
    <3>2. HasApproval(decided)
      BY <2>1, <3>1 DEF HasApproval
    <3>3. QED
      BY <1>8, <3>2
  <2>2. QED
    BY <1>8, <2>1
<1>10. \A l \in DOMAIN x.subs : /\ decided.subs[l].cmd = x.subs[l].cmd
                                /\ x.subs[l].decisions \subseteq decided.subs[l].decisions
                                /\ decided.subs[l].decisions \subseteq
                                      x.subs[l].decisions
                                        \cup (IF l = k THEN {<<j.cmd, st>>} ELSE {})
  BY <1>2, <1>5, <1>8
<1>11. others \subseteq DOMAIN items \ {i} /\ \A d \in others : j.others[d] \in BOOLEAN
  BY <1>1 DEF ReviewOK
<1> DEFINE sat(d) == Satisfied(items[d], j.others[d])
<1>12. \A d \in others :
          Sound(sat(d)) /\ Alike(items[d], sat(d)) /\ sat(d).status = "waived"
  <2> SUFFICES ASSUME NEW d \in others
               PROVE  Sound(sat(d)) /\ Alike(items[d], sat(d)) /\ sat(d).status = "waived"
    OBVIOUS
  <2>1. Sound(items[d]) /\ j.others[d] \in BOOLEAN
    BY <1>11, ItemFacts
  <2>2. QED
    BY <2>1, SatisfiedRow
<1>13. /\ DOMAIN rows = others \cup {i} /\ rows[i] = decided
       /\ \A d \in others : rows[d] = sat(d)
  BY <1>11
<1>14. touched = {items[d].request : d \in others \cup {i}}
  BY DEF Affected
<1>15. touched \subseteq DOMAIN requests
  BY <1>2, <1>11, <1>14, ItemFacts
<1> HIDE DEF sat
<1>16. SettlesOK(rows, missed)
  <2> SUFFICES ASSUME NEW n \in DOMAIN rows, rows[n].status = "approved",
                      NEW d \in DOMAIN items \ {n}, items[d].type = items[n].type
               PROVE  \/ d \in DOMAIN rows /\ rows[d].status \notin Open
                      \/ d \notin DOMAIN rows /\ items[d].status \notin Open
                      \/ requests[items[d].request].status = "cancelled"
                      \/ items[d].request \in missed
    BY DEF SettlesOK
  <2>1. n = i /\ st = "approved"
    BY <1>8, <1>12, <1>13
  <2>2. SettlesAll(j) /\ missed = j.missed
    BY <1>1, <2>1
  <2>3. CASE d \in others
    BY <1>12, <1>13, <2>3 DEF Open
  <2>4. CASE d \notin others
    BY <1>8, <1>13, <2>1, <2>2, <2>4 DEF SettlesAll
  <2>5. QED
    BY <2>3, <2>4
<1> HIDE DEF rows, touched, others, missed
<1>17. RowsOK(rows, touched)
  <2> SUFFICES ASSUME NEW d \in DOMAIN rows
               PROVE  /\ d \in DOMAIN items /\ Sound(rows[d]) /\ Continues(items[d], rows[d])
                      /\ items[d].request \in touched
    BY DEF RowsOK
  <2>1. CASE d = i
    BY <1>2, <1>8, <1>9, <1>10, <1>13, <1>14, <2>1 DEF Continues
  <2>2. CASE d \in others
    BY <1>11, <1>12, <1>13, <1>14, <2>2 DEF Continues, Alike
  <2>3. QED
    BY <1>13, <2>1, <2>2
<1>18. \A d \in DOMAIN rows : \A l \in DOMAIN rows[d].subs :
          /\ l \in DOMAIN items[d].subs
          /\ AddedDecisions(rows, d, l) \subseteq
                IF d = i /\ l = k THEN {<<j.cmd, st>>} ELSE {}
  <2> SUFFICES ASSUME NEW d \in DOMAIN rows, NEW l \in DOMAIN rows[d].subs
               PROVE  /\ l \in DOMAIN items[d].subs
                      /\ AddedDecisions(rows, d, l) \subseteq
                            IF d = i /\ l = k THEN {<<j.cmd, st>>} ELSE {}
    OBVIOUS
  <2>1. CASE d = i
    BY <1>8, <1>10, <1>13, <2>1 DEF AddedDecisions
  <2>2. CASE d \in others
    BY <1>11, <1>12, <1>13, <2>2 DEF AddedDecisions, Alike
  <2>3. QED
    BY <1>13, <2>1, <2>2
<1>19. KeyedOK(rows, key)
  <2>1. \A d \in DOMAIN rows : \A l \in DOMAIN rows[d].subs :
            \A e \in AddedDecisions(rows, d, l) : d = i /\ l = k /\ e = <<j.cmd, st>>
    BY <1>18
  <2>2. <<j.cmd, st>>[1] = j.cmd
    OBVIOUS
  <2>3. QED
    BY <1>18, <2>1, <2>2 DEF KeyedOK
<1>20. CASE ~Reviewed(j.cmd) /\ Hold(w, rows, <<>>, touched, key, "set")
  <2>1. Unspent(key)
    BY <1>2, <1>20 DEF Unspent
  <2>2. \A v \in Workers : InTransaction(v) /\ job[v].key = key => j.cmd \notin Commands
    BY <1>1, NotPending
  <2>3. QED
    <3>1. job[w].op = "review" /\ "set" \in {"set", "clear", "keep"}
      BY <1>1
    <3>2. SettlesOK(rows, IF Settling(w) THEN job[w].missed ELSE {})
      BY <1>16 DEF missed
    <3>3. job[w].op # "upload"
      BY <3>1
    <3>4. AddedOK(<<>>, touched, key)
      BY NoneAdded
    <3>5. \A v \in Workers : InTransaction(v) /\ job[v].key = key =>
              key = <<"none", 0>> \/ key[2] \notin Commands
      BY <2>2
    <3> HIDE DEF key
    <3>6. QED
      BY <1>15, <1>17, <1>19, <1>20, <2>1, <3>1, <3>2, <3>3, <3>4, <3>5, HoldStep
<1>21. QED
  BY <1>7, <1>20, FailStep
\* The configuration of an item and its status are changed.
Configured(x, st, m, q) == [x EXCEPT !.status = st, !.manual = m, !.requirement = q]

LEMMA ConfiguredRow ==
    ASSUME NEW x, Sound(x), NEW st \in ItemStatuses, NEW m \in BOOLEAN, NEW q \in Requirements,
           st = "approved" => HasApproval(x)
    PROVE  Sound(Configured(x, st, m, q)) /\ Alike(x, Configured(x, st, m, q))
<1> DEFINE new == Configured(x, st, m, q)
           S == Seq(SubmissionRows)
<1>1. x \in [request : Nat, type : Types, requirement : Requirements, status : ItemStatuses,
             version : Nat, manual : BOOLEAN, subs : S]
  BY DEF Sound, Item
<1> HIDE DEF S
<1>2. /\ new \in [request : Nat, type : Types, requirement : Requirements, status : ItemStatuses,
                  version : Nat, manual : BOOLEAN, subs : S]
      /\ new.subs = x.subs /\ new.version = x.version /\ new.status = st
      /\ new.request = x.request /\ new.type = x.type
  BY <1>1 DEF Configured
<1>3. new \in Item
  BY <1>2 DEF Item, S
<1> HIDE DEF new
<1>4. Sound(new) /\ Alike(x, new)
  BY <1>2, <1>3 DEF Sound, Alike, HasApproval
<1>5. QED
  BY <1>4 DEF new

LEMMA WritePolicyStep ==
    ASSUME DossierInv, NEW w \in Workers, WritePolicy(w) PROVE DossierInv'
<1> DEFINE j == job[w]
           i == j.item
           x == items[i]
           status == IF j.policy = "waived" THEN "waived"
                     ELSE IF j.seen.status \in {"waived", "cancelled"}
                          THEN "pending-upload" ELSE j.seen.status
           q == IF j.policy = "required" THEN "required" ELSE "optional"
           new == Configured(x, status, TRUE, q)
           rows == Written(i, new)
<1>1. WorkOK(j) /\ j.phase = "work" /\ j.op = "policy"
  BY WorkFacts DEF WritePolicy
<1>2. /\ i \in DOMAIN items /\ j.seen.status \in ItemStatuses
      /\ j.seen.status = "approved" => HasApproval(x)
  BY <1>1 DEF WorkOK, Idle, Aims
<1>3. Sound(x) /\ x.request \in DOMAIN requests
  BY <1>2, ItemFacts
<1>4. Hold(w, rows, <<>>, {x.request}, <<"none", 0>>, "keep")
  BY DEF WritePolicy, Configured
<1>5. status \in ItemStatuses /\ (status = "approved" => HasApproval(x)) /\ q \in Requirements
  BY <1>2 DEF ItemStatuses, Requirements
<1> HIDE DEF status, q
<1>6. Sound(new) /\ Alike(x, new)
  BY <1>3, <1>5, ConfiguredRow
<1>7. DOMAIN rows = {i} /\ rows[i] = new
  BY WrittenRow
<1> HIDE DEF new, rows
<1>8. RowsOK(rows, {x.request}) /\ KeyedOK(rows, <<"none", 0>>)
  BY <1>2, <1>6, <1>7, AlikeRows
<1>9. QED
  BY <1>1, <1>3, <1>4, <1>8, NoneAdded, NoKey, HoldStep

LEMMA WriteAddStep ==
    ASSUME DossierInv, NEW w \in Workers, WriteAdd(w) PROVE DossierInv'
<1> DEFINE j == job[w]
           r == j.added.request
           added == <<j.added>>
<1>1. WorkOK(j) /\ j.phase = "work" /\ j.op = "add"
  BY WorkFacts DEF WriteAdd
<1>2. Blank(j.added) /\ r \in DOMAIN requests
  BY <1>1 DEF WorkOK, Idle
<1>3. r # 0
  BY <1>2 DEF DossierInv, TablesInv
<1>4. AddedOK(added, {r}, <<"none", 0>>)
  BY <1>2, <1>3 DEF AddedOK, Blank
<1>5. Hold(w, <<>>, added, {r}, <<"none", 0>>, "keep")
  BY DEF WriteAdd
<1> HIDE DEF added
<1>6. QED
  BY <1>1, <1>2, <1>4, <1>5, NoRows, NoKey, HoldStep

LEMMA CreateStep ==
    ASSUME DossierInv, NEW w \in Workers, NEW cmd \in Commands \cup {"fresh"},
           NEW added \in Seq(Item),
           \A n \in DOMAIN added : Blank(added[n]) /\ added[n].request = 0,
           job[w].op \notin {"upload", "review"}, Create(w, cmd, added)
    PROVE  DossierInv'
<1> DEFINE key == <<"request", cmd>>
<1>1. CASE Fail(w)
  BY <1>1, FailStep
<1>2. CASE ~Requested(cmd) /\ Hold(w, <<>>, added, {}, key, "keep")
  <2>1. Unspent(key) /\ AddedOK(added, {}, key)
    BY <1>2 DEF Unspent, AddedOK
  <2>2. \A v \in Workers : InTransaction(v) /\ job[v].key = key => cmd \notin Commands
    BY NotPending DEF Create
  <2>3. QED
    BY <1>2, <2>1, <2>2, NoRows, HoldStep
<1>3. QED
  BY <1>1, <1>2 DEF Create

LEMMA WriteCreateStep ==
    ASSUME DossierInv, NEW w \in Workers, WriteCreate(w) PROVE DossierInv'
<1>1. WorkOK(job[w]) /\ job[w].phase = "work" /\ job[w].op = "create"
  BY WorkFacts DEF WriteCreate
<1>2. job[w].cmd \in Commands \cup {"fresh"}
  BY <1>1 DEF WorkOK, Idle
<1>3. QED
  BY <1>1, <1>2, ChecklistItems, CreateStep DEF WriteCreate

LEMMA WriteRenewStep ==
    ASSUME DossierInv, NEW w \in Workers, WriteRenew(w) PROVE DossierInv'
<1> DEFINE added == <<job[w].added>>
<1>1. WorkOK(job[w]) /\ job[w].phase = "work" /\ job[w].op = "renew"
  BY WorkFacts DEF WriteRenew
<1>2. job[w].cmd \in Commands /\ Blank(job[w].added) /\ job[w].added.request = 0
  BY <1>1 DEF WorkOK, Idle
<1>3. added \in Seq(Item) /\ \A n \in DOMAIN added : Blank(added[n]) /\ added[n].request = 0
  BY <1>2 DEF Blank
<1>4. Create(w, job[w].cmd, added)
  BY DEF WriteRenew
<1> HIDE DEF added
<1>5. QED
  BY <1>1, <1>2, <1>3, <1>4, CreateStep

(* Sets of numbers up to n have a least and a greatest element.            *)

\* Of sets of numbers up to n, one contains no other.
Minimal(d, T) == \A e \in T : e \subseteq d => e = d

LEMMA SmallestSet ==
    ASSUME NEW n \in Nat, NEW T \in SUBSET (SUBSET (1 .. n)), T # {}
    PROVE  \E d \in T : Minimal(d, T)
<1>1. ASSUME NEW e \in T PROVE IsFiniteSet(e)
  <2>1. e \subseteq 1 .. n /\ IsFiniteSet(1 .. n)
    BY FS_Interval
  <2>2. QED
    BY <2>1, FS_Subset
<1>2. T \subseteq FiniteSubsetsOf(1 .. n)
  BY <1>1 DEF FiniteSubsetsOf
<1>3. PICK d \in T : \A e \in T : <<e, d>> \notin StrictSubsetOrdering(1 .. n)
  BY <1>2, FS_StrictSubsetOrderingWellFounded, WFMin, Zenon
<1>4. ASSUME NEW e \in T, e \subseteq d PROVE e = d
  <2>1. <<e, d>> \in (SUBSET (1 .. n)) \X (SUBSET (1 .. n))
    OBVIOUS
  <2>2. <<e, d>> \notin StrictSubsetOrdering(1 .. n)
    BY <1>3
  <2>3. QED
    BY <1>4, <2>1, <2>2 DEF StrictSubsetOrdering
<1>5. QED
  BY <1>4 DEF Minimal

LEMMA Least ==
    ASSUME NEW n \in Nat, NEW S \in SUBSET (1 .. n), S # {}
    PROVE  \E x \in S : \A y \in S : x <= y
<1> DEFINE T == {1 .. x : x \in S}
<1>0. \A x \in S : 1 .. x \in SUBSET (1 .. n)
  OBVIOUS
<1>1. T \in SUBSET (SUBSET (1 .. n)) /\ T # {}
  BY <1>0
<1>2. PICK d \in T : Minimal(d, T)
  <2> HIDE DEF T
  <2>1. QED
    BY <1>1, SmallestSet
<1>3. PICK x \in S : d = 1 .. x
  OBVIOUS
<1>4. ASSUME NEW y \in S, y < x PROVE FALSE
  <2>1. (1 .. y) \subseteq d /\ x \in d /\ x \notin 1 .. y
    BY <1>3, <1>4
  <2>2. QED
    BY <1>2, <2>1 DEF Minimal
<1>5. QED
  BY <1>4

LEMMA Greatest ==
    ASSUME NEW n \in Nat, NEW S \in SUBSET (1 .. n), S # {}
    PROVE  \E x \in S : \A y \in S : y <= x
<1> DEFINE T == {x .. n : x \in S}
<1>0. \A x \in S : x .. n \in SUBSET (1 .. n)
  OBVIOUS
<1>1. T \in SUBSET (SUBSET (1 .. n)) /\ T # {}
  BY <1>0
<1>2. PICK d \in T : Minimal(d, T)
  <2> HIDE DEF T
  <2>1. QED
    BY <1>1, SmallestSet
<1>3. PICK x \in S : d = x .. n
  OBVIOUS
<1>4. ASSUME NEW y \in S, x < y PROVE FALSE
  <2>1. (y .. n) \subseteq d /\ x \in d /\ x \notin y .. n
    BY <1>3, <1>4
  <2>2. QED
    BY <1>2, <2>1 DEF Minimal
<1>5. QED
  BY <1>4
LEMMA DossierNumbers ==
    ASSUME DossierInv
    PROVE  /\ Len(requests) \in Nat /\ DOMAIN requests = 1 .. Len(requests)
           /\ Len(items) \in Nat /\ DOMAIN items = 1 .. Len(items)
           /\ Dossiers \subseteq 1 .. Len(requests)
           /\ \A r : ItemsOf(items, r) \subseteq 1 .. Len(items)
  BY DEF DossierInv, TablesInv, Dossiers, ItemsOf

\* The rows that are re-opened are items of the request.
LEMMA ItemOfTypeIn ==
    ASSUME DossierInv, NEW r, NEW t \in {items[i].type : i \in ItemsOf(items, r)}
    PROVE  ItemOfType(r, t) \in ItemsOf(items, r)
<1> DEFINE found == {i \in ItemsOf(items, r) : items[i].type = t}
<1>1. found # {} /\ found \in SUBSET (1 .. Len(items)) /\ Len(items) \in Nat
  BY DossierNumbers
<1>2. ItemOfType(r, t) = CHOOSE i \in found : \A n \in found : n <= i
  BY DEF ItemOfType
<1>3. found \subseteq ItemsOf(items, r)
  OBVIOUS
<1> HIDE DEF found
<1>4. \E i \in found : \A n \in found : n <= i
  BY <1>1, Greatest
<1>5. ItemOfType(r, t) \in found
  BY <1>2, <1>4
<1>6. QED
  BY <1>3, <1>5

LEMMA ReopenedRow ==
    ASSUME NEW x, Sound(x)
    PROVE  Sound(Reopened(x)) /\ Alike(x, Reopened(x))
<1>1. Reopened(x) = Configured(x, "pending-upload", FALSE, "required")
  BY DEF Reopened, Configured, Sound, Item
<1>2. "pending-upload" \in ItemStatuses /\ "required" \in Requirements
  BY DEF ItemStatuses, Requirements
<1>3. QED
  BY <1>1, <1>2, ConfiguredRow

\* Required items of a request.
LEMMA RequiredItems ==
    ASSUME NEW S \in SUBSET Types, NEW r \in Nat
    PROVE  LET seq == SetToSeq(S)
               new == [n \in DOMAIN seq |-> NewItem(r, seq[n], "required")]
           IN  /\ new \in Seq(Item)
               /\ \A n \in DOMAIN new : Blank(new[n]) /\ new[n].request = r
<1> DEFINE q == [t \in S |-> "required"]
           seq == SetToSeq(S)
           new == [n \in DOMAIN seq |-> NewItem(r, seq[n], q[seq[n]])]
<1>1. q \in [S -> Requirements]
  BY DEF Requirements
<1>2. \A n \in DOMAIN seq : seq[n] \in S
  <2>1. seq \in Seq(S)
    BY FS_Subset, DossierAssumption, SetToSeqIsSeq
  <2> HIDE DEF seq
  <2>2. QED
    BY <2>1
<1>3. new = [n \in DOMAIN seq |-> NewItem(r, seq[n], "required")]
  BY <1>2
<1> HIDE DEF q
<1>4. new \in Seq(Item) /\ \A n \in DOMAIN new : Blank(new[n]) /\ new[n].request = r
  BY <1>1, ItemsFor
<1>5. QED
  BY <1>3, <1>4

LEMMA WriteBatchStep ==
    ASSUME DossierInv, NEW w \in Workers, WriteBatch(w) PROVE DossierInv'
<1> DEFINE j == job[w]
           types == j.types \cap ApplicableTypes(profile)
           new(ts, r) == LET seq == SetToSeq(ts)
                         IN  [n \in DOMAIN seq |-> NewItem(r, seq[n], "required")]
           first == CHOOSE x \in Dossiers : \A y \in Dossiers : x <= y
           present == {items[i].type : i \in ItemsOf(items, first)}
           settled == {i \in {ItemOfType(first, t) : t \in types \cap present} :
                          items[i].status \in {"approved", "waived", "cancelled"}}
           lacking == types \ present
           rows == [i \in settled |-> Reopened(items[i])]
           added == new(lacking, first)
           key == <<"none", 0>>
<1>1. WorkOK(j) /\ j.phase = "work" /\ j.op = "batch"
  BY WorkFacts DEF WriteBatch
<1>2. j.cmd \in Commands /\ types \in SUBSET Types /\ lacking \in SUBSET Types
  BY <1>1, ApplicableFinite DEF WorkOK, Idle
<1>3. \/ Fail(w)
      \/ Create(w, j.cmd, new(types, 0))
      \/ Dossiers # {} /\ Hold(w, rows, added, {first}, key, "clear")
  BY DEF WriteBatch
<1>4. CASE Create(w, j.cmd, new(types, 0))
  <2> DEFINE all == new(types, 0)
  <2>1. all \in Seq(Item) /\ \A n \in DOMAIN all : Blank(all[n]) /\ all[n].request = 0
    <3> HIDE DEF types
    <3>1. QED
      BY <1>2, RequiredItems
  <2> HIDE DEF all, types
  <2>2. Create(w, j.cmd, all)
    BY <1>4 DEF all
  <2>3. QED
    BY <1>1, <1>2, <2>1, <2>2, CreateStep
<1>5. CASE Dossiers # {} /\ Hold(w, rows, added, {first}, key, "clear")
  <2>1. first \in Dossiers
    <3>1. \E x \in Dossiers : \A y \in Dossiers : x <= y
      BY <1>5, DossierNumbers, Least
    <3>2. QED
      BY <3>1
  <2>2. first \in DOMAIN requests /\ first \in Nat /\ first # 0
    <3> HIDE DEF first
    <3>1. first \in 1 .. Len(requests) /\ Len(requests) \in Nat
      BY <2>1, DossierNumbers
    <3>2. QED
      BY <3>1, DossierNumbers
  <2>3. settled \subseteq ItemsOf(items, first)
    <3> HIDE DEF first
    <3>1. QED
      BY ItemOfTypeIn
  <2> HIDE DEF first, lacking
  <2>4. added \in Seq(Item) /\ \A n \in DOMAIN added : Blank(added[n]) /\ added[n].request = first
    BY <1>2, <2>2, RequiredItems
  <2> HIDE DEF added
  <2>5. AddedOK(added, {first}, key)
    BY <2>2, <2>4 DEF AddedOK
  <2> HIDE DEF settled
  <2>6. \A i \in settled : i \in DOMAIN items /\ items[i].request = first
    BY <2>3 DEF ItemsOf
  <2>7. \A i \in settled : Sound(rows[i]) /\ Alike(items[i], rows[i])
    BY <2>6, ItemFacts, ReopenedRow
  <2>8. DOMAIN rows = settled
    OBVIOUS
  <2> HIDE DEF rows
  <2>9. RowsOK(rows, {first}) /\ KeyedOK(rows, key)
    BY <2>6, <2>7, <2>8, AlikeRows
  <2>10. QED
    BY <1>1, <1>5, <2>2, <2>5, <2>9, NoKey, HoldStep
<1>6. QED
  BY <1>3, <1>4, <1>5, FailStep

\* The items of a request for what a profile asks.
ForProfile(S, r, p) ==
    LET seq == SetToSeq(S)
    IN  [n \in DOMAIN seq |-> NewItem(r, seq[n], RequirementOf(seq[n], p))]

LEMMA ProfiledItems ==
    ASSUME NEW S \in SUBSET Types, NEW r \in Nat, NEW p
    PROVE  /\ ForProfile(S, r, p) \in Seq(Item)
           /\ \A n \in DOMAIN ForProfile(S, r, p) :
                Blank(ForProfile(S, r, p)[n]) /\ ForProfile(S, r, p)[n].request = r
<1> DEFINE q == [t \in S |-> RequirementOf(t, p)]
           seq == SetToSeq(S)
           new == [n \in DOMAIN seq |-> NewItem(r, seq[n], q[seq[n]])]
<1>1. q \in [S -> Requirements]
  BY RequirementType
<1>2. \A n \in DOMAIN seq : seq[n] \in S
  <2>1. seq \in Seq(S)
    BY FS_Subset, DossierAssumption, SetToSeqIsSeq
  <2> HIDE DEF seq
  <2>2. QED
    BY <2>1
<1>3. ForProfile(S, r, p) = new
  BY <1>2 DEF ForProfile
<1> HIDE DEF q
<1>4. new \in Seq(Item) /\ \A n \in DOMAIN new : Blank(new[n]) /\ new[n].request = r
  BY <1>1, ItemsFor
<1>5. QED
  BY <1>3, <1>4

LEMMA SynchronizedRow ==
    ASSUME NEW j, NEW i \in DOMAIN items, Sound(items[i])
    PROVE  Sound(Synchronized(i, j)) /\ Alike(items[i], Synchronized(i, j))
<1> DEFINE x == items[i]
           q == RequirementOf(j.seen[i].type, j.profile)
<1>1. \/ Synchronized(i, j) = [x EXCEPT !.status = "cancelled"]
      \/ Synchronized(i, j) = [x EXCEPT !.status = "pending-upload"]
      \/ Synchronized(i, j) = [x EXCEPT !.requirement = q, !.manual = FALSE]
      \/ Synchronized(i, j) = x
  BY DEF Synchronized
<1>2. /\ x.status \in ItemStatuses /\ x.manual \in BOOLEAN /\ x.requirement \in Requirements
      /\ x.status = "approved" => HasApproval(x)
  BY DEF Sound, Item
<1>3. q \in Requirements /\ {"cancelled", "pending-upload"} \subseteq ItemStatuses
  BY RequirementType DEF ItemStatuses
<1>4. /\ [x EXCEPT !.status = "cancelled"]
            = Configured(x, "cancelled", x.manual, x.requirement)
      /\ [x EXCEPT !.status = "pending-upload"]
            = Configured(x, "pending-upload", x.manual, x.requirement)
      /\ [x EXCEPT !.requirement = q, !.manual = FALSE] = Configured(x, x.status, FALSE, q)
      /\ x = Configured(x, x.status, x.manual, x.requirement)
  BY DEF Configured, Sound, Item
<1> HIDE DEF q
<1>5. \E st \in ItemStatuses, m \in BOOLEAN, p \in Requirements :
          /\ st = "approved" => HasApproval(x)
          /\ Synchronized(i, j) = Configured(x, st, m, p)
  <2> HIDE DEF x
  <2>1. CASE Synchronized(i, j) = [x EXCEPT !.status = "cancelled"]
    <3>1. Synchronized(i, j) = Configured(x, "cancelled", x.manual, x.requirement)
      BY <1>4, <2>1
    <3>2. QED
      BY <1>2, <1>3, <3>1
  <2>2. CASE Synchronized(i, j) = [x EXCEPT !.status = "pending-upload"]
    <3>1. Synchronized(i, j) = Configured(x, "pending-upload", x.manual, x.requirement)
      BY <1>4, <2>2
    <3>2. QED
      BY <1>2, <1>3, <3>1
  <2>3. CASE Synchronized(i, j) = [x EXCEPT !.requirement = q, !.manual = FALSE]
    <3>1. Synchronized(i, j) = Configured(x, x.status, FALSE, q)
      BY <1>4, <2>3
    <3>2. QED
      BY <1>2, <1>3, <3>1
  <2>4. CASE Synchronized(i, j) = x
    <3>1. Synchronized(i, j) = Configured(x, x.status, x.manual, x.requirement)
      BY <1>4, <2>4
    <3>2. QED
      BY <1>2, <3>1
  <2>5. QED
    BY <1>1, <2>1, <2>2, <2>3, <2>4
<1>6. QED
  BY <1>5, ConfiguredRow

LEMMA WriteSyncStep ==
    ASSUME DossierInv, NEW w \in Workers, WriteSync(w) PROVE DossierInv'
<1> DEFINE j == job[w]
           r == j.request
           known == {j.seen[i].type : i \in DOMAIN j.seen}
           S == ApplicableTypes(j.profile) \ known
           lacking == SetToSeq(S)
           added == ForProfile(S, r, j.profile)
           written == {i \in DOMAIN j.seen : Synchronized(i, j) # items[i]}
           rows == [i \in written |-> Synchronized(i, j)]
           key == <<"none", 0>>
<1>1. WorkOK(j) /\ j.phase = "work" /\ j.op = "sync"
  BY WorkFacts DEF WriteSync
<1>2. r \in DOMAIN requests /\ DOMAIN j.seen \subseteq ItemsOf(items, r)
  BY <1>1 DEF WorkOK, Idle
<1>3. Fail(w) \/ Hold(w, rows, added, {r}, key, "keep")
  BY DEF WriteSync, ForProfile
<1>4. r \in Nat /\ r # 0
  BY <1>2, DossierNumbers
<1>5. S \in SUBSET Types /\ IsFiniteSet(S)
  BY ApplicableFinite, FS_Subset, DossierAssumption
<1>6. added \in Seq(Item) /\ \A n \in DOMAIN added : Blank(added[n]) /\ added[n].request = r
  <2> DEFINE p == j.profile
  <2> HIDE DEF r, S, p
  <2>1. QED
    BY <1>4, <1>5, ProfiledItems
<1> HIDE DEF added
<1>7. AddedOK(added, {r}, key)
  BY <1>4, <1>6 DEF AddedOK
<1>8. \A i \in written : i \in DOMAIN items /\ items[i].request = r
  BY <1>2 DEF ItemsOf
<1>9. DOMAIN rows = written /\ \A i \in written : rows[i] = Synchronized(i, j)
  OBVIOUS
<1> HIDE DEF rows, written
<1>10. \A i \in written : Sound(rows[i]) /\ Alike(items[i], rows[i])
  BY <1>8, <1>9, ItemFacts, SynchronizedRow
<1>11. RowsOK(rows, {r}) /\ KeyedOK(rows, key)
  BY <1>8, <1>9, <1>10, AlikeRows
<1>12. CASE Hold(w, rows, added, {r}, key, "keep")
  BY <1>1, <1>2, <1>7, <1>11, <1>12, NoKey, HoldStep
<1>13. QED
  BY <1>3, <1>12, FailStep
-------------------------------------------------------------------------------
(* The reads.                                                              *)

LEMMA ReadSubmissionSteps ==
    ASSUME DossierInv, NEW w \in Workers,
           ReadUpload(w) \/ ReadComplete(w) \/ ReadDelete(w) \/ ReadReview(w)
    PROVE  DossierInv'
<1>1. CASE ReadUpload(w)
  <2>1. PICK i \in DOMAIN items, cmd \in Commands, file \in Files :
            /\ items[i].status \in Uploadable /\ Len(items[i].subs) < MaxVersions
            /\ Start(w, [phase |-> "work", op |-> "upload", item |-> i,
                         seen |-> items[i], cmd |-> cmd, file |-> file])
    BY <1>1 DEF ReadUpload
  <2> DEFINE t == [phase |-> "work", op |-> "upload", item |-> i,
                   seen |-> items[i], cmd |-> cmd, file |-> file]
  <2>2. items[i].version = Len(items[i].subs) /\ Len(items[i].subs) \in Nat
    BY ItemFacts, SubsFacts
  <2>3. WorkOK(t) /\ t.phase # "commit"
    BY <2>1, <2>2 DEF WorkOK, Aims
  <2> HIDE DEF t
  <2>4. Start(w, t)
    BY <2>1 DEF t
  <2>5. QED
    BY <2>3, <2>4, StartStep
<1>2. CASE ReadComplete(w) \/ ReadDelete(w)
  <2>1. PICK i \in DOMAIN items, op \in {"complete", "delete"} : \E k \in DOMAIN items[i].subs :
            Start(w, [phase |-> "work", op |-> op, item |-> i, sub |-> k])
    BY <1>2 DEF ReadComplete, ReadDelete
  <2>2. PICK k \in DOMAIN items[i].subs :
            Start(w, [phase |-> "work", op |-> op, item |-> i, sub |-> k])
    BY <2>1
  <2> DEFINE t == [phase |-> "work", op |-> op, item |-> i, sub |-> k]
  <2>3. WorkOK(t) /\ t.phase # "commit"
    BY DEF WorkOK, Aims, AimsAtSub
  <2> HIDE DEF t
  <2>4. Start(w, t)
    BY <2>2 DEF t
  <2>5. QED
    BY <2>3, <2>4, StartStep
<1>3. CASE ReadReview(w)
  <2> DEFINE t(i, k, cmd, decision) ==
               [phase |-> "work", op |-> "review", item |-> i, sub |-> k,
                cmd |-> cmd, decision |-> decision, others |-> <<>>, missed |-> {}]
  <2>1. PICK i \in DOMAIN items, cmd \in Commands, decision \in Decisions :
            \E k \in DOMAIN items[i].subs : Start(w, t(i, k, cmd, decision))
    BY <1>3 DEF ReadReview
  <2>2. PICK k \in DOMAIN items[i].subs : Start(w, t(i, k, cmd, decision))
    BY <2>1
  <2> DEFINE u == t(i, k, cmd, decision)
  <2>3. /\ u.phase = "work" /\ u.op = "review" /\ u.item = i /\ u.sub = k /\ u.cmd = cmd
        /\ u.decision = decision /\ DOMAIN u.others = {} /\ DOMAIN u = ReviewFields
    BY DEF ReviewFields
  <2>4. Start(w, u)
    BY <2>2
  <2> HIDE DEF u, t
  <2>5. WorkOK(u) /\ u.phase # "commit"
    BY <2>3 DEF WorkOK, ReviewOK, Aims, AimsAtSub
  <2>6. QED
    BY <2>4, <2>5, StartStep
<1>4. QED
  BY <1>1, <1>2, <1>3

LEMMA ReadRequestSteps ==
    ASSUME DossierInv, NEW w \in Workers,
           \/ ReadPolicy(w) \/ ReadAdd(w) \/ ReadCreate(w) \/ ReadRenew(w) \/ ReadBatch(w)
    PROVE  DossierInv'
<1>1. CASE ReadPolicy(w)
  <2>1. PICK i \in DOMAIN items, policy \in {"required", "optional", "waived"} :
            Start(w, [phase |-> "work", op |-> "policy", item |-> i,
                      seen |-> items[i], policy |-> policy])
    BY <1>1 DEF ReadPolicy
  <2> DEFINE t == [phase |-> "work", op |-> "policy", item |-> i,
                   seen |-> items[i], policy |-> policy]
  <2>2. Sound(items[i]) /\ items[i] \in Item
    BY ItemFacts
  <2>3. WorkOK(t) /\ t.phase # "commit"
    BY <2>2 DEF WorkOK, Aims, Sound, Item
  <2> HIDE DEF t
  <2>4. Start(w, t)
    BY <2>1 DEF t
  <2>5. QED
    BY <2>3, <2>4, StartStep
<1>2. CASE ReadAdd(w)
  <2>1. PICK r \in DOMAIN requests, t \in Types, q \in {"required", "optional"} :
            Start(w, [phase |-> "work", op |-> "add", added |-> NewItem(r, t, q)])
    BY <1>2 DEF ReadAdd
  <2>2. r \in Nat
    BY DossierNumbers
  <2> DEFINE new == NewItem(r, t, q)
             x == [phase |-> "work", op |-> "add", added |-> new]
  <2>3. Blank(new) /\ new.request = r
    BY <2>2, NewItemBlank DEF Requirements
  <2> HIDE DEF new
  <2>4. WorkOK(x) /\ x.phase # "commit"
    BY <2>3 DEF WorkOK
  <2> HIDE DEF x
  <2>5. Start(w, x)
    BY <2>1 DEF x, new
  <2>6. QED
    BY <2>4, <2>5, StartStep
<1>3. CASE ReadCreate(w)
  <2>1. PICK cmd \in Commands : Start(w, [phase |-> "work", op |-> "create", cmd |-> cmd])
    BY <1>3 DEF ReadCreate
  <2> DEFINE t == [phase |-> "work", op |-> "create", cmd |-> cmd]
  <2>2. WorkOK(t) /\ t.phase # "commit"
    BY DEF WorkOK
  <2> HIDE DEF t
  <2>3. Start(w, t)
    BY <2>1 DEF t
  <2>4. QED
    BY <2>2, <2>3, StartStep
<1>4. CASE ReadRenew(w)
  <2>1. PICK i \in DOMAIN items, cmd \in Commands :
            Start(w, [phase |-> "work", op |-> "renew", cmd |-> cmd,
                      added |-> [NewItem(0, items[i].type, "required")
                                   EXCEPT !.manual = items[i].manual]])
    BY <1>4 DEF ReadRenew
  <2>2. items[i].type \in Types /\ items[i].manual \in BOOLEAN
    BY ItemFacts DEF Item
  <2> DEFINE new == [NewItem(0, items[i].type, "required") EXCEPT !.manual = items[i].manual]
             t == [phase |-> "work", op |-> "renew", cmd |-> cmd, added |-> new]
  <2>3. Blank(new) /\ new.request = 0
    <3> DEFINE ty == items[i].type
               m == items[i].manual
    <3>1. new = [request |-> 0, type |-> ty, requirement |-> "required",
                 status |-> "pending-upload", version |-> 0, manual |-> m, subs |-> <<>>]
      BY DEF NewItem
    <3>2. ty \in Types /\ m \in BOOLEAN
      BY <2>2
    <3> HIDE DEF new, ty, m
    <3>3. QED
      BY <3>1, <3>2 DEF Blank, Item, Requirements, ItemStatuses
  <2> HIDE DEF new
  <2>4. WorkOK(t) /\ t.phase # "commit"
    BY <2>3 DEF WorkOK
  <2> HIDE DEF t
  <2>5. Start(w, t)
    BY <2>1 DEF t, new
  <2>6. QED
    BY <2>4, <2>5, StartStep
<1>5. CASE ReadBatch(w)
  <2>1. PICK cmd \in Commands, types \in SUBSET Types \ {{}} :
            Start(w, [phase |-> "work", op |-> "batch", cmd |-> cmd, types |-> types])
    BY <1>5 DEF ReadBatch
  <2> DEFINE t == [phase |-> "work", op |-> "batch", cmd |-> cmd, types |-> types]
  <2>2. WorkOK(t) /\ t.phase # "commit"
    BY DEF WorkOK
  <2> HIDE DEF t
  <2>3. Start(w, t)
    BY <2>1 DEF t
  <2>4. QED
    BY <2>2, <2>3, StartStep
<1>6. QED
  BY <1>1, <1>2, <1>3, <1>4, <1>5

LEMMA ProfileSteps ==
    ASSUME DossierInv, NEW w \in Workers,
           (\E p \in Profiles : SaveProfile(w, p)) \/ ReadSync(w)
    PROVE  DossierInv'
<1>1. CASE \E p \in Profiles : SaveProfile(w, p)
  <2> DEFINE t == [phase |-> "saved", op |-> "sync"]
  <2>1. /\ profile' \in Profiles /\ job' = [job EXCEPT ![w] = t]
        /\ UNCHANGED <<requests, items, skewed>>
    BY <1>1 DEF SaveProfile
  <2>2. WorkOK(t) /\ t.phase # "commit"
    BY DEF WorkOK
  <2> HIDE DEF t
  <2>3. QED
    BY <2>1, <2>2, AsideStep
<1>2. CASE ReadSync(w)
  <2> DEFINE latest == CHOOSE x \in Dossiers : \A y \in Dossiers : y <= x
             new == [phase |-> "work", op |-> "create", cmd |-> "fresh"]
             seen == [i \in ItemsOf(items, latest) |-> items[i]]
             sync == [phase |-> "work", op |-> "sync", request |-> latest,
                      profile |-> profile, seen |-> seen]
             t == IF Dossiers = {} THEN new ELSE sync
  <2>1. /\ profile' \in Profiles /\ profile \in Profiles /\ job' = [job EXCEPT ![w] = t]
        /\ UNCHANGED <<requests, items, skewed>>
    BY <1>2 DEF ReadSync, DossierInv, TablesInv
  <2>2. WorkOK(new) /\ new.phase # "commit"
    BY DEF WorkOK
  <2>3. ASSUME Dossiers # {} PROVE WorkOK(sync) /\ sync.phase # "commit"
    <3>1. \E x \in Dossiers : \A y \in Dossiers : y <= x
      BY <2>3, DossierNumbers, Greatest
    <3>2. latest \in Dossiers
      BY <3>1
    <3> HIDE DEF latest
    <3>3. latest \in DOMAIN requests
      BY <3>2 DEF Dossiers
    <3>4. DOMAIN seen \subseteq ItemsOf(items, latest)
      OBVIOUS
    <3> HIDE DEF seen
    <3>5. QED
      BY <2>1, <3>3, <3>4 DEF WorkOK
  <2> HIDE DEF new, sync
  <2>4. WorkOK(t) /\ t.phase # "commit"
    BY <2>2, <2>3
  <2> HIDE DEF t
  <2>5. QED
    BY <2>1, <2>4, AsideStep
<1>3. QED
  BY <1>1, <1>2
-------------------------------------------------------------------------------
(* The commit.                                                             *)

\* The row a transaction inserts.
Placed(x) ==
    IF x.request = 0 THEN [x EXCEPT !.request = Len(requests) + 1] ELSE x

Creates(j) == \E n \in DOMAIN j.added : j.added[n].request = 0

LEMMA PlacedRow ==
    ASSUME DossierInv, NEW x, Blank(x)
    PROVE  /\ Blank(Placed(x))
           /\ Placed(x).request = IF x.request = 0 THEN Len(requests) + 1 ELSE x.request
<1> DEFINE n == Len(requests) + 1
<1>1. n \in Nat
  BY DossierNumbers
<1> HIDE DEF n
<1>2. Placed(x) = IF x.request = 0 THEN [x EXCEPT !.request = n] ELSE x
  BY DEF Placed, n
<1> DEFINE S == Seq(SubmissionRows)
<1>3. x \in [request : Nat, type : Types, requirement : Requirements, status : ItemStatuses,
             version : Nat, manual : BOOLEAN, subs : S]
  BY DEF Blank, Item
<1> HIDE DEF S
<1>4. LET y == [x EXCEPT !.request = n]
      IN  /\ y \in [request : Nat, type : Types, requirement : Requirements,
                    status : ItemStatuses, version : Nat, manual : BOOLEAN, subs : S]
          /\ y.request = n /\ y.subs = x.subs /\ y.version = x.version /\ y.status = x.status
  BY <1>1, <1>3
<1>5. CASE x.request = 0
  BY <1>2, <1>4, <1>5 DEF Blank, Item, S, n
<1>6. CASE x.request # 0
  BY <1>2, <1>6 DEF n
<1>7. QED
  BY <1>5, <1>6

LEMMA CommitItems ==
    ASSUME DossierInv, NEW w \in Workers, Commit(w)
    PROVE  /\ TransactionOK(job[w]) /\ InTransaction(w)
           /\ DOMAIN items' = 1 .. Len(items) + Len(job[w].added)
           /\ \A i \in DOMAIN items : i \in DOMAIN items' /\ items'[i] = Current(job[w].rows, i)
           /\ \A n \in DOMAIN job[w].added :
                /\ Len(items) + n \in DOMAIN items' \ DOMAIN items
                /\ items'[Len(items) + n] = Placed(job[w].added[n])
           /\ \A i \in DOMAIN items' \ DOMAIN items :
                \E n \in DOMAIN job[w].added : i = Len(items) + n
<1> DEFINE j == job[w]
           old == [i \in DOMAIN items |-> Current(j.rows, i)]
           placed == [n \in DOMAIN j.added |-> Placed(j.added[n])]
           S == {old[i] : i \in DOMAIN old} \cup {placed[n] : n \in DOMAIN placed}
<1>1. TransactionOK(j) /\ InTransaction(w)
  <2>1. job[w].phase = "commit"
    BY Zenon DEF Commit
  <2>2. QED
    BY <2>1 DEF DossierInv, JobsInv, InTransaction
<1>2. items' = old \o placed
  <2>1. items' = old \o [n \in DOMAIN j.added |->
                   IF j.added[n].request = 0
                   THEN [j.added[n] EXCEPT !.request = Len(requests) + 1]
                   ELSE j.added[n]]
    BY Zenon DEF Commit
  <2>2. QED
    BY <2>1, Zenon DEF Placed
<1>3. j.added \in Seq(Item)
  BY <1>1 DEF TransactionOK, AddedOK
<1>4. /\ Len(items) \in Nat /\ DOMAIN items = 1 .. Len(items)
      /\ Len(j.added) \in Nat /\ DOMAIN j.added = 1 .. Len(j.added)
  BY <1>3, DossierNumbers
<1>5. old \in Seq(S) /\ Len(old) = Len(items) /\ placed \in Seq(S) /\ Len(placed) = Len(j.added)
  BY <1>4
<1> DEFINE m == Len(items)
           l == Len(j.added)
<1>6. /\ \A i \in 1 .. m : old[i] = Current(j.rows, i)
      /\ \A n \in 1 .. l : placed[n] = Placed(j.added[n])
  BY <1>4
<1> HIDE DEF old, placed, m, l, S
<1>7. /\ DOMAIN items' = 1 .. m + l
      /\ \A i \in 1 .. m : items'[i] = old[i]
      /\ \A n \in 1 .. l : items'[m + n] = placed[n]
  <2>1. /\ Len(items') = m + l
        /\ \A i \in 1 .. m + l : items'[i] = IF i <= m THEN old[i] ELSE placed[i - m]
    <3>1. Len(old) = m /\ Len(placed) = l /\ old \in Seq(S) /\ placed \in Seq(S)
      BY <1>5 DEF m, l
    <3>2. /\ Len(old \o placed) = Len(old) + Len(placed)
          /\ \A i \in 1 .. Len(old) + Len(placed) : (old \o placed)[i] =
                IF i <= Len(old) THEN old[i] ELSE placed[i - Len(old)]
      BY <3>1, ConcatProperties, Zenon
    <3>3. QED
      BY <1>2, <3>1, <3>2, Zenon
  <2>2. m \in Nat /\ l \in Nat
    BY <1>4 DEF m, l
  <2>3. DOMAIN items' = 1 .. Len(items')
    BY <1>2, <1>5, ConcatProperties
  <2>4. \A i \in 1 .. m : items'[i] = old[i]
    BY <2>1, <2>2
  <2>5. ASSUME NEW n \in 1 .. l PROVE items'[m + n] = placed[n]
    <3>1. m + n \in 1 .. m + l /\ ~(m + n <= m) /\ (m + n) - m = n
      BY <2>2
    <3>2. QED
      BY <2>1, <3>1
  <2>6. QED
    BY <2>1, <2>3, <2>4, <2>5
<1>8. m \in Nat /\ l \in Nat /\ DOMAIN items = 1 .. m /\ DOMAIN j.added = 1 .. l
  BY <1>4 DEF m, l
<1>9. \A i \in (1 .. m + l) \ (1 .. m) : i - m \in 1 .. l /\ i = m + (i - m)
  BY <1>8
<1>10. \A n \in 1 .. l : m + n \in (1 .. m + l) \ (1 .. m)
  BY <1>8
<1>11. \A i \in 1 .. m : i \in 1 .. m + l
  BY <1>8
<1>12. \A i \in DOMAIN items : i \in DOMAIN items' /\ items'[i] = Current(j.rows, i)
  BY <1>6, <1>7, <1>8, <1>11
<1>13. \A n \in DOMAIN j.added :
          m + n \in DOMAIN items' \ DOMAIN items /\ items'[m + n] = Placed(j.added[n])
  BY <1>6, <1>7, <1>8, <1>10
<1>14. \A i \in DOMAIN items' \ DOMAIN items : \E n \in DOMAIN j.added : i = m + n
  BY <1>7, <1>8, <1>9
<1>15. QED
  BY <1>1, <1>7, <1>12, <1>13, <1>14 DEF m, l

LEMMA CommitRequests ==
    ASSUME DossierInv, NEW w \in Workers, Commit(w)
    PROVE  /\ requests' \in Seq(Request)
           /\ DOMAIN requests \subseteq DOMAIN requests'
           /\ \A r \in DOMAIN requests :
                /\ requests'[r].cmd = requests[r].cmd
                /\ r \notin DOMAIN job[w].state => requests'[r] = requests[r]
                /\ r \in DOMAIN job[w].state => requests'[r].status = job[w].state[r]
           /\ Len(requests) + 1 \notin DOMAIN requests
           /\ DOMAIN requests' \ DOMAIN requests
                = IF Creates(job[w]) THEN {Len(requests) + 1} ELSE {}
           /\ Creates(job[w]) =>
                /\ requests'[Len(requests) + 1].status = "pending-upload"
                /\ requests'[Len(requests) + 1].cmd = job[w].key[2]
                /\ \E cmd : job[w].key = <<"request", cmd>>
<1> DEFINE j == job[w]
           m == Len(requests)
           updated == [r \in DOMAIN requests |->
                         IF r \in DOMAIN j.state
                         THEN [requests[r] EXCEPT
                                 !.status = j.state[r],
                                 !.completed = Completed(r, j.state[r], j.completion)]
                         ELSE requests[r]]
           new == [status |-> "pending-upload", completed |-> FALSE, cmd |-> j.key[2]]
<1>1. TransactionOK(j)
  BY CommitItems
<1>2. m \in Nat /\ DOMAIN requests = 1 .. m /\ requests \in Seq(Request)
  BY DossierNumbers DEF DossierInv, TablesInv
<1>3. requests' = IF Creates(j) THEN Append(updated, new) ELSE updated
  BY Zenon DEF Commit, Creates
<1>4. ASSUME NEW r \in DOMAIN requests
      PROVE  /\ updated[r] \in Request /\ updated[r].cmd = requests[r].cmd
             /\ r \notin DOMAIN j.state => updated[r] = requests[r]
             /\ r \in DOMAIN j.state => updated[r].status = j.state[r]
  <2>1. requests[r] \in Request
    BY <1>2
  <2>2. CASE r \notin DOMAIN j.state
    BY <2>1, <2>2
  <2>3. CASE r \in DOMAIN j.state
    <3> DEFINE st == j.state[r]
               c == Completed(r, st, j.completion)
    <3>1. st \in RequestStatuses
      BY <1>1, <2>3 DEF TransactionOK
    <3>2. c \in BOOLEAN
      <4>1. requests[r].completed \in BOOLEAN /\ j.completion \in {"set", "clear", "keep"}
        BY <1>1, <2>1 DEF TransactionOK, Request
      <4> HIDE DEF st
      <4>2. QED
        BY <4>1 DEF Completed
    <3>3. updated[r] = [requests[r] EXCEPT !.status = st, !.completed = c]
      BY <2>3
    <3> HIDE DEF st, c, updated
    <3>4. QED
      BY <2>1, <2>3, <3>1, <3>2, <3>3 DEF Request, st
  <2>4. QED
    BY <2>2, <2>3
<1>5. updated \in Seq(Request) /\ Len(updated) = m /\ DOMAIN updated = 1 .. m
  <2>1. DOMAIN updated = 1 .. m
    BY <1>2
  <2>2. updated = [r \in 1 .. m |-> updated[r]]
    BY <1>2
  <2> HIDE DEF updated, m
  <2>3. updated \in [1 .. m -> Request]
    BY <1>2, <1>4, <2>1, <2>2
  <2>4. QED
    BY <1>2, <2>1, <2>3
<1> HIDE DEF updated
<1>6. m + 1 \notin DOMAIN requests
  BY <1>2
<1>7. CASE ~Creates(j)
  BY <1>2, <1>3, <1>4, <1>5, <1>6, <1>7
<1>8. CASE Creates(j)
  <2>1. PICK n \in DOMAIN j.added : j.added[n].request = 0
    BY <1>8 DEF Creates
  <2>2. j.key[1] = "request" /\ Unspent(j.key)
    BY <1>1, <2>1 DEF TransactionOK, AddedOK
  <2>3. \E cmd \in Commands \cup {"fresh"} : j.key = <<"request", cmd>>
    BY <2>2 DEF Unspent
  <2>4. j.key[2] \in Commands \cup {"fresh"}
    BY <2>3
  <2>5. new \in Request
    BY <2>4 DEF Request, RequestStatuses, ItemStatuses
  <2>6. new.status = "pending-upload" /\ new.cmd = j.key[2]
    OBVIOUS
  <2> HIDE DEF new
  <2>7. /\ Append(updated, new) \in Seq(Request) /\ Len(Append(updated, new)) = m + 1
        /\ \A r \in 1 .. m : Append(updated, new)[r] = updated[r]
        /\ Append(updated, new)[m + 1] = new
    BY <1>2, <1>5, <2>5
  <2>8. /\ requests' \in Seq(Request) /\ DOMAIN requests' = 1 .. m + 1
        /\ \A r \in 1 .. m : requests'[r] = updated[r]
        /\ requests'[m + 1] = new
    BY <1>2, <1>3, <1>8, <2>7
  <2>9. (1 .. m + 1) \ (1 .. m) = {m + 1} /\ 1 .. m \subseteq 1 .. m + 1
    BY <1>2
  <2> HIDE DEF m
  <2>10. QED
    BY <1>2, <1>4, <1>6, <1>8, <2>3, <2>6, <2>8, <2>9 DEF m
<1>9. QED
  BY <1>7, <1>8

\* What the commit leaves of an item, and what it adds.
LEMMA CommitRows ==
    ASSUME DossierInv, NEW w \in Workers, Commit(w)
    PROVE  /\ DOMAIN job[w].rows \subseteq DOMAIN items
           /\ \A i \in DOMAIN items :
                /\ i \in DOMAIN items' /\ Sound(items'[i]) /\ Continues(items[i], items'[i])
                /\ i \in DOMAIN job[w].rows => /\ items'[i] = job[w].rows[i]
                                               /\ items[i].request \in DOMAIN job[w].state
                /\ i \notin DOMAIN job[w].rows => items'[i] = items[i]
           /\ \A i \in DOMAIN items' \ DOMAIN items :
                /\ Blank(items'[i])
                /\ \/ items'[i].request \in DOMAIN job[w].state
                   \/ Creates(job[w]) /\ items'[i].request = Len(requests) + 1
<1> DEFINE j == job[w]
<1>1. TransactionOK(j)
  BY CommitItems
<1>2. RowsOK(j.rows, DOMAIN j.state) /\ AddedOK(j.added, DOMAIN j.state, j.key)
  BY <1>1 DEF TransactionOK
<1>3. DOMAIN j.rows \subseteq DOMAIN items
  BY <1>2 DEF RowsOK
<1>4. ASSUME NEW i \in DOMAIN items
      PROVE  /\ i \in DOMAIN items' /\ Sound(items'[i]) /\ Continues(items[i], items'[i])
             /\ i \in DOMAIN j.rows => /\ items'[i] = j.rows[i]
                                       /\ items[i].request \in DOMAIN j.state
             /\ i \notin DOMAIN j.rows => items'[i] = items[i]
  <2>1. i \in DOMAIN items' /\ items'[i] = Current(j.rows, i)
    BY CommitItems
  <2>2. CASE i \in DOMAIN j.rows
    BY <1>2, <2>1, <2>2 DEF Current, RowsOK
  <2>3. CASE i \notin DOMAIN j.rows
    <3>1. items'[i] = items[i]
      BY <2>1, <2>3 DEF Current
    <3>2. Sound(items[i])
      BY ItemFacts
    <3>3. Continues(items[i], items[i])
      BY DEF Continues
    <3>4. QED
      BY <2>1, <2>3, <3>1, <3>2, <3>3
  <2>4. QED
    BY <2>2, <2>3
<1>5. ASSUME NEW i \in DOMAIN items' \ DOMAIN items
      PROVE  /\ Blank(items'[i])
             /\ \/ items'[i].request \in DOMAIN j.state
                \/ Creates(j) /\ items'[i].request = Len(requests) + 1
  <2>1. PICK n \in DOMAIN j.added : i = Len(items) + n
    BY CommitItems
  <2>2. items'[i] = Placed(j.added[n])
    BY <2>1, CommitItems
  <2>3. /\ Blank(j.added[n])
        /\ j.added[n].request # 0 => j.added[n].request \in DOMAIN j.state
    BY <1>2 DEF AddedOK
  <2>4. /\ Blank(Placed(j.added[n]))
        /\ Placed(j.added[n]).request
             = IF j.added[n].request = 0 THEN Len(requests) + 1 ELSE j.added[n].request
    BY <2>3, PlacedRow
  <2>5. QED
    BY <2>2, <2>3, <2>4 DEF Creates
<1>6. QED
  BY <1>3, <1>4, <1>5

LEMMA CommitJobs ==
    ASSUME DossierInv, NEW w \in Workers, Commit(w)
    PROVE  /\ DOMAIN job' = Workers /\ job'[w] = Idle
           /\ \A v \in Workers \ {w} :
                /\ ~InTransaction(v) /\ ~Settling(v) => job'[v] = job[v]
                /\ InTransaction(v) =>
                     /\ DOMAIN job'[v] = DOMAIN job[v] /\ job'[v].phase = "commit"
                     /\ job'[v].op = job[v].op /\ job'[v].rows = job[v].rows
                     /\ job'[v].added = job[v].added /\ job'[v].key = job[v].key
                     /\ job'[v].completion = job[v].completion
                     /\ job'[v].state = job[v].state /\ job'[v].missed = job[v].missed
                     /\ job[v].stale \subseteq job'[v].stale
                     /\ DOMAIN job[w].state \subseteq job'[v].stale
                     /\ Creates(job[w]) => Len(requests) + 1 \in job'[v].stale
<1> DEFINE more == IF Creates(job[w]) THEN {Len(requests) + 1} ELSE {}
           st == DOMAIN job[w].state
<1>1. job' = [v \in Workers |->
               IF v = w THEN Idle
               ELSE IF InTransaction(v) THEN [job[v] EXCEPT !.stale = @ \cup (st \cup more)]
               ELSE IF Settling(v) THEN [job[v] EXCEPT !.missed = @ \cup (st \cup more)]
               ELSE job[v]]
  BY Zenon DEF Commit, Creates
<1>2. Creates(job[w]) => Len(requests) + 1 \in more
  OBVIOUS
<1> HIDE DEF more
<1>3. ASSUME NEW v \in Workers, InTransaction(v)
      PROVE  {"phase", "op", "rows", "added", "key", "completion", "stale", "missed", "state"} = DOMAIN job[v]
             /\ job[v].phase = "commit"
  BY <1>3 DEF InTransaction, DossierInv, JobsInv, TransactionOK
<1> HIDE DEF st
<1>4. ASSUME NEW v \in Workers \ {w}, InTransaction(v)
      PROVE  /\ DOMAIN job'[v] = DOMAIN job[v] /\ job'[v].phase = "commit"
             /\ job'[v].op = job[v].op /\ job'[v].rows = job[v].rows
             /\ job'[v].added = job[v].added /\ job'[v].key = job[v].key
             /\ job'[v].completion = job[v].completion
             /\ job'[v].state = job[v].state /\ job'[v].missed = job[v].missed
             /\ job'[v].stale = job[v].stale \cup st \cup more
  <2>1. job'[v] = [job[v] EXCEPT !.stale = job[v].stale \cup st \cup more]
    BY <1>1, <1>4
  <2> DEFINE x == job[v]
             b == job[v].stale \cup st \cup more
  <2>2. /\ {"phase", "op", "rows", "added", "key", "completion", "stale", "missed", "state"} = DOMAIN x
        /\ x.phase = "commit"
    BY <1>3, <1>4
  <2>3. job'[v] = [x EXCEPT !.stale = b]
    BY <2>1
  <2> HIDE DEF x, b
  <2>4. /\ DOMAIN [x EXCEPT !.stale = b] = DOMAIN x
        /\ [x EXCEPT !.stale = b].phase = "commit"
        /\ [x EXCEPT !.stale = b].op = x.op /\ [x EXCEPT !.stale = b].rows = x.rows
        /\ [x EXCEPT !.stale = b].added = x.added /\ [x EXCEPT !.stale = b].key = x.key
        /\ [x EXCEPT !.stale = b].completion = x.completion
        /\ [x EXCEPT !.stale = b].state = x.state
        /\ [x EXCEPT !.stale = b].missed = x.missed
        /\ [x EXCEPT !.stale = b].stale = b
    BY <2>2
  <2>5. QED
    BY <2>3, <2>4 DEF x, b
<1>5. QED
  BY <1>1, <1>2, <1>4 DEF st

\* The requests a commit changes or creates.
Touched(j) == DOMAIN j.state \cup (IF Creates(j) THEN {Len(requests) + 1} ELSE {})

LEMMA CommitMissed ==
    ASSUME DossierInv, NEW w \in Workers, Commit(w), NEW v \in Workers \ {w}, Settling(v)
    PROVE  job'[v] = [job[v] EXCEPT !.missed = @ \cup Touched(job[w])]
<1> DEFINE touched == Touched(job[w])
<1>1. job' = [u \in Workers |->
               IF u = w THEN Idle
               ELSE IF InTransaction(u) THEN [job[u] EXCEPT !.stale = @ \cup touched]
               ELSE IF Settling(u) THEN [job[u] EXCEPT !.missed = @ \cup touched]
               ELSE job[u]]
  BY Zenon DEF Commit, Creates, Touched
<1> HIDE DEF touched
<1>2. job'[v] = [job[v] EXCEPT !.missed = @ \cup touched]
  BY <1>1 DEF Settling, InTransaction
<1>3. QED
  BY <1>2 DEF touched

\* Submissions and decisions are the ones there were, or bear the command of
\* the transaction, which had no effect yet.
LEMMA CommitEffects ==
    ASSUME DossierInv, NEW w \in Workers, Commit(w),
           NEW i \in DOMAIN items', NEW k \in DOMAIN items'[i].subs
    PROVE  LET s == items'[i].subs[k]
               old == i \in DOMAIN items /\ k \in DOMAIN items[i].subs
           IN  /\ \/ old /\ items[i].subs[k].cmd = s.cmd
                  \/ /\ i \in DOMAIN job[w].rows /\ k \in DOMAIN job[w].rows[i].subs
                     /\ job[w].rows[i].subs[k] = s /\ ~old
                     /\ job[w].key = <<"submission", s.cmd>> /\ ~Commanded(s.cmd)
               /\ \A d \in s.decisions :
                    \/ old /\ d \in items[i].subs[k].decisions
                    \/ /\ i \in DOMAIN job[w].rows /\ k \in DOMAIN job[w].rows[i].subs
                       /\ d \in AddedDecisions(job[w].rows, i, k)
                       /\ job[w].key = <<"review", d[1]>> /\ ~Reviewed(d[1])
<1> DEFINE j == job[w]
           s == items'[i].subs[k]
<1>1. KeyedOK(j.rows, j.key) /\ Unspent(j.key)
  BY CommitItems DEF TransactionOK
<1>2. CASE i \notin DOMAIN items
  <2>1. items'[i].subs = <<>>
    BY <1>2, CommitRows DEF Blank
  <2>2. QED
    BY <2>1
<1>3. CASE i \in DOMAIN items /\ i \notin DOMAIN j.rows
  BY <1>3, CommitRows
<1>4. CASE i \in DOMAIN items /\ i \in DOMAIN j.rows
  <2>1. items'[i] = j.rows[i] /\ Continues(items[i], j.rows[i])
    BY <1>4, CommitRows
  <2>2. \A c : j.key = <<"submission", c>> => ~Commanded(c)
    BY <1>1 DEF Unspent
  <2>3. \A c : j.key = <<"review", c>> => ~Reviewed(c)
    BY <1>1 DEF Unspent
  <2>4. \/ k \in DOMAIN items[i].subs /\ items[i].subs[k].cmd = s.cmd
        \/ k \notin DOMAIN items[i].subs /\ j.key = <<"submission", s.cmd>>
    BY <1>1, <1>4, <2>1 DEF Continues, KeyedOK
  <2>5. ASSUME NEW d \in s.decisions
        PROVE  \/ k \in DOMAIN items[i].subs /\ d \in items[i].subs[k].decisions
               \/ d \in AddedDecisions(j.rows, i, k) /\ j.key = <<"review", d[1]>>
    <3>1. \/ k \in DOMAIN items[i].subs /\ d \in items[i].subs[k].decisions
          \/ d \in AddedDecisions(j.rows, i, k)
      BY <2>1 DEF AddedDecisions
    <3>2. QED
      BY <1>1, <1>4, <2>1, <3>1 DEF KeyedOK
  <2>6. QED
    BY <1>4, <2>1, <2>2, <2>3, <2>4, <2>5
<1>5. QED
  BY <1>2, <1>3, <1>4

\* No other transaction touches a request than those whose status the commit
\* writes and the one it creates.
LEMMA CommitElsewhere ==
    ASSUME DossierInv, NEW w \in Workers, Commit(w),
           NEW r \in DOMAIN requests, r \notin DOMAIN job[w].state
    PROVE  /\ ItemsOf(items, r)' = ItemsOf(items, r)
           /\ \A i \in ItemsOf(items, r) : items'[i] = items[i]
           /\ \A rows, added : StatusSeen(r, rows, added)' = StatusSeen(r, rows, added)
<1>1. r # Len(requests) + 1
  BY CommitRequests
<1>2. \A i \in DOMAIN items' \ DOMAIN items : items'[i].request # r
  BY <1>1, CommitRows
<1>3. \A i \in DOMAIN items : i \in DOMAIN items' /\ items'[i].request = items[i].request
  BY CommitRows DEF Continues
<1>4. ItemsOf(items, r)' = ItemsOf(items, r)
  BY <1>2, <1>3 DEF ItemsOf
<1>5. \A i \in ItemsOf(items, r) : items'[i] = items[i]
  BY CommitRows DEF ItemsOf
<1>6. \A rows, added : Seen(r, rows, added)' = Seen(r, rows, added)
  BY <1>4, <1>5 DEF Seen, Current
<1>7. QED
  BY <1>4, <1>5, <1>6 DEF StatusSeen

LEMMA CommitTables ==
    ASSUME DossierInv, NEW w \in Workers, Commit(w) PROVE TablesInv'
<1>1. profile' \in Profiles
  <2>1. profile' = profile
    BY Zenon DEF Commit
  <2>2. QED
    BY <2>1 DEF DossierInv, TablesInv
<1>2. requests' \in Seq(Request) /\ DOMAIN requests \subseteq DOMAIN requests'
      /\ (Creates(job[w]) => Len(requests) + 1 \in DOMAIN requests')
  BY CommitRequests
<1>3. DOMAIN job[w].state \subseteq DOMAIN requests
  BY CommitItems DEF TransactionOK
<1>4. \A i \in DOMAIN items' : Sound(items'[i]) /\ items'[i].request \in DOMAIN requests'
  <2>1. ASSUME NEW i \in DOMAIN items
        PROVE  Sound(items'[i]) /\ items'[i].request \in DOMAIN requests'
    BY <1>2, ItemFacts, CommitRows DEF Continues
  <2>2. ASSUME NEW i \in DOMAIN items' \ DOMAIN items
        PROVE  Sound(items'[i]) /\ items'[i].request \in DOMAIN requests'
    <3>1. /\ Blank(items'[i])
          /\ \/ items'[i].request \in DOMAIN job[w].state
             \/ Creates(job[w]) /\ items'[i].request = Len(requests) + 1
      BY CommitRows
    <3>2. QED
      BY <1>2, <1>3, <3>1 DEF Sound, Blank
  <2>3. QED
    BY <2>1, <2>2
<1>5. items' \in Seq(Item)
  <2>1. \A i \in DOMAIN items' : items'[i] \in Item
    BY <1>4 DEF Sound
  <2>2. items' = [i \in 1 .. Len(items') |-> items'[i]] /\ Len(items') \in Nat
    <3> DEFINE old == [i \in DOMAIN items |-> Current(job[w].rows, i)]
               placed == [n \in DOMAIN job[w].added |-> Placed(job[w].added[n])]
               S == {old[i] : i \in DOMAIN old} \cup {placed[n] : n \in DOMAIN placed}
    <3>1. items' = old \o [n \in DOMAIN job[w].added |->
                   IF job[w].added[n].request = 0
                   THEN [job[w].added[n] EXCEPT !.request = Len(requests) + 1]
                   ELSE job[w].added[n]]
      BY Zenon DEF Commit
    <3>2. items' = old \o placed
      BY <3>1, Zenon DEF Placed
    <3>3. job[w].added \in Seq(Item)
      BY CommitItems DEF TransactionOK, AddedOK
    <3>4. old \in Seq(S) /\ placed \in Seq(S)
      BY <3>3, DossierNumbers
    <3> HIDE DEF old, placed, S
    <3>5. items' \in Seq(S)
      BY <3>2, <3>4, ConcatProperties
    <3>6. QED
      BY <3>5
  <2>3. DOMAIN items' = 1 .. Len(items')
    BY <2>2
  <2>4. QED
    BY <2>1, <2>2, <2>3
<1>6. skewed' \subseteq DOMAIN requests'
  <2>1. skewed' = (skewed \ DOMAIN job[w].state) \cup (job[w].stale \cap DOMAIN job[w].state)
    BY Zenon DEF Commit
  <2>2. QED
    BY <1>2, <1>3, <2>1 DEF DossierInv, TablesInv
<1>7. QED
  BY <1>1, <1>2, <1>4, <1>5, <1>6, CommitJobs DEF TablesInv

LEMMA CommitOneEffect ==
    ASSUME DossierInv, NEW w \in Workers, Commit(w) PROVE OneEffectInv'
<1> DEFINE j == job[w]
           rows == j.rows
<1>1. KeyedOK(rows, j.key) /\ Unspent(j.key) /\ RowsOK(rows, DOMAIN j.state)
  BY CommitItems DEF TransactionOK
<1>2. ASSUME NEW a \in DOMAIN items', NEW b \in DOMAIN items',
             NEW k \in DOMAIN items'[a].subs, NEW l \in DOMAIN items'[b].subs,
             items'[a].subs[k].cmd = items'[b].subs[l].cmd
      PROVE  a = b /\ k = l
  <2> DEFINE c == items'[a].subs[k].cmd
             oldA == a \in DOMAIN items /\ k \in DOMAIN items[a].subs /\ items[a].subs[k].cmd = c
             oldB == b \in DOMAIN items /\ l \in DOMAIN items[b].subs /\ items[b].subs[l].cmd = c
             newA == /\ a \in DOMAIN rows /\ k \in DOMAIN rows[a].subs
                     /\ ~(a \in DOMAIN items /\ k \in DOMAIN items[a].subs) /\ ~Commanded(c)
             newB == /\ b \in DOMAIN rows /\ l \in DOMAIN rows[b].subs
                     /\ ~(b \in DOMAIN items /\ l \in DOMAIN items[b].subs) /\ ~Commanded(c)
  <2>1. oldA \/ newA
    BY CommitEffects
  <2>2. oldB \/ newB
    BY <1>2, CommitEffects
  <2>3. oldA \/ oldB => Commanded(c)
    BY DEF Commanded
  <2>4. CASE oldA /\ oldB
    BY <2>4 DEF DossierInv, OneEffectInv
  <2>5. CASE newA /\ newB
    <3>1. k \notin DOMAIN items[a].subs /\ l \notin DOMAIN items[b].subs
      BY <1>1, <2>5 DEF RowsOK
    <3>2. QED
      BY <1>1, <2>5, <3>1 DEF KeyedOK
  <2>6. QED
    BY <2>1, <2>2, <2>3, <2>4, <2>5
<1>3. ASSUME NEW a \in DOMAIN items', NEW b \in DOMAIN items',
             NEW k \in DOMAIN items'[a].subs, NEW l \in DOMAIN items'[b].subs,
             NEW d \in items'[a].subs[k].decisions, NEW e \in items'[b].subs[l].decisions,
             d[1] = e[1]
      PROVE  a = b /\ k = l /\ d = e
  <2> DEFINE oldA == /\ a \in DOMAIN items /\ k \in DOMAIN items[a].subs
                     /\ d \in items[a].subs[k].decisions
             oldB == /\ b \in DOMAIN items /\ l \in DOMAIN items[b].subs
                     /\ e \in items[b].subs[l].decisions
             newA == /\ a \in DOMAIN rows /\ k \in DOMAIN rows[a].subs
                     /\ d \in AddedDecisions(rows, a, k) /\ ~Reviewed(d[1])
             newB == /\ b \in DOMAIN rows /\ l \in DOMAIN rows[b].subs
                     /\ e \in AddedDecisions(rows, b, l) /\ ~Reviewed(d[1])
  <2>1. oldA \/ newA
    BY CommitEffects
  <2>2. oldB \/ newB
    BY <1>3, CommitEffects
  <2>3. oldA \/ oldB => Reviewed(d[1])
    BY <1>3 DEF Reviewed
  <2>4. CASE oldA /\ oldB
    BY <1>3, <2>4 DEF DossierInv, OneEffectInv
  <2>5. CASE newA /\ newB
    BY <1>1, <2>5 DEF KeyedOK
  <2>6. QED
    BY <2>1, <2>2, <2>3, <2>4, <2>5
<1>4. ASSUME NEW r \in DOMAIN requests', NEW s \in DOMAIN requests',
             requests'[r].cmd = requests'[s].cmd, requests'[r].cmd \in Commands
      PROVE  r = s
  <2> DEFINE c == requests'[r].cmd
             new == Len(requests) + 1
  <2>1. \A x \in DOMAIN requests' :
            \/ x \in DOMAIN requests /\ requests'[x].cmd = requests[x].cmd
            \/ x = new /\ Creates(j) /\ x \notin DOMAIN requests
    BY CommitRequests
  <2>2. Creates(j) => requests'[new].cmd = j.key[2] /\ \E cmd : j.key = <<"request", cmd>>
    BY CommitRequests
  <2>3. \A cmd : j.key = <<"request", cmd>> => ~Requested(cmd)
    BY <1>1 DEF Unspent
  <2> HIDE DEF new
  <2>4. CASE r \in DOMAIN requests /\ s \in DOMAIN requests
    BY <1>4, <2>1, <2>4, CommitRequests DEF DossierInv, OneEffectInv
  <2>5. CASE r = new /\ s = new
    BY <2>5
  <2>6. ASSUME NEW x \in DOMAIN requests, requests[x].cmd = requests'[new].cmd,
               Creates(j), requests'[new].cmd \in Commands
        PROVE  FALSE
    BY <2>2, <2>3, <2>6 DEF Requested
  <2>7. QED
    BY <1>4, <2>1, <2>4, <2>5, <2>6
<1>5. QED
  BY <1>2, <1>3, <1>4 DEF OneEffectInv

LEMMA CommitStatus ==
    ASSUME DossierInv, NEW w \in Workers, Commit(w) PROVE StatusFollowsItems'
<1> DEFINE j == job[w]
           new == Len(requests) + 1
<1>1. TransactionOK(j)
  BY CommitItems
<1>2. skewed' = (skewed \ DOMAIN j.state) \cup (j.stale \cap DOMAIN j.state)
  BY Zenon DEF Commit
<1>3. \A r : StatusSeen(r, <<>>, <<>>)' = DerivedStatus(Rows(items', r))
  <2> TAKE r
  <2>1. Seen(r, <<>>, <<>>)' = {items'[i] : i \in ItemsOf(items', r)}
    BY DEF Seen, Current, ItemsOf
  <2>2. {[status |-> x.status, requirement |-> x.requirement] : x \in Seen(r, <<>>, <<>>)'}
          = Rows(items', r)
    BY <2>1 DEF Rows
  <2>3. QED
    BY <2>2 DEF StatusSeen
<1>4. ASSUME NEW r \in DOMAIN requests \ skewed', r \notin DOMAIN j.state
      PROVE  requests'[r].status = StatusSeen(r, <<>>, <<>>)'
  <2>1. requests'[r] = requests[r] /\ r \notin skewed
    BY <1>2, <1>4, CommitRequests
  <2>2. StatusSeen(r, <<>>, <<>>)' = StatusSeen(r, <<>>, <<>>)
    BY <1>4, CommitElsewhere
  <2>3. QED
    BY <2>1, <2>2 DEF DossierInv, StatusFollowsItems
<1>5. ASSUME NEW r \in DOMAIN j.state \ skewed'
      PROVE  requests'[r].status = DerivedStatus(Rows(items', r))
  <2>1. r \in DOMAIN requests /\ r \notin j.stale
    BY <1>1, <1>2 DEF TransactionOK
  <2>2. requests'[r].status = StatusSeen(r, j.rows, j.added)
    BY <1>1, <2>1, CommitRequests DEF TransactionOK
  <2>3. r # new /\ r # 0
    BY <2>1, CommitRequests, DossierNumbers
  <2>4. \A n \in DOMAIN j.added :
            /\ Placed(j.added[n]).request = r <=> j.added[n].request = r
            /\ j.added[n].request = r => Placed(j.added[n]) = j.added[n]
    <3> SUFFICES ASSUME NEW n \in DOMAIN j.added
                 PROVE  /\ Placed(j.added[n]).request = r <=> j.added[n].request = r
                        /\ j.added[n].request = r => Placed(j.added[n]) = j.added[n]
      OBVIOUS
    <3>1. Blank(j.added[n])
      BY <1>1 DEF TransactionOK, AddedOK
    <3>2. Placed(j.added[n]).request
            = IF j.added[n].request = 0 THEN new ELSE j.added[n].request
      BY <3>1, PlacedRow
    <3>3. j.added[n].request = r => Placed(j.added[n]) = j.added[n]
      BY <2>3 DEF Placed
    <3> HIDE DEF new
    <3>4. QED
      BY <2>3, <3>2, <3>3
  <2>5. \A i \in DOMAIN items : items'[i].request = items[i].request /\ i \in DOMAIN items'
                                /\ items'[i] = Current(j.rows, i)
    BY CommitRows, CommitItems DEF Continues
  <2>6. Seen(r, j.rows, j.added) = {items'[i] : i \in ItemsOf(items', r)}
    <3>1. ASSUME NEW x \in Seen(r, j.rows, j.added)
          PROVE  \E i \in ItemsOf(items', r) : x = items'[i]
      <4>1. CASE \E i \in ItemsOf(items, r) : x = Current(j.rows, i)
        BY <2>5, <4>1 DEF ItemsOf
      <4>2. CASE \E n \in DOMAIN j.added : j.added[n].request = r /\ x = j.added[n]
        <5>1. PICK n \in DOMAIN j.added : j.added[n].request = r /\ x = j.added[n]
          BY <4>2
        <5>2. /\ Len(items) + n \in DOMAIN items'
              /\ items'[Len(items) + n] = Placed(j.added[n])
          BY CommitItems
        <5>3. QED
          BY <2>4, <5>1, <5>2 DEF ItemsOf
      <4>3. QED
        BY <4>1, <4>2 DEF Seen
    <3>2. ASSUME NEW i \in ItemsOf(items', r)
          PROVE  items'[i] \in Seen(r, j.rows, j.added)
      <4>1. CASE i \in DOMAIN items
        BY <2>5, <4>1 DEF ItemsOf, Seen
      <4>2. CASE i \notin DOMAIN items
        <5>1. i \in DOMAIN items' /\ items'[i].request = r
          BY DEF ItemsOf
        <5>2. PICK n \in DOMAIN j.added : i = Len(items) + n
          BY <4>2, <5>1, CommitItems
        <5>3. items'[i] = Placed(j.added[n])
          BY <5>2, CommitItems
        <5>4. QED
          BY <2>4, <5>1, <5>3 DEF Seen
      <4>3. QED
        BY <4>1, <4>2
    <3>3. QED
      BY <3>1, <3>2
  <2>7. {[status |-> x.status, requirement |-> x.requirement] : x \in Seen(r, j.rows, j.added)}
          = Rows(items', r)
    BY <2>6 DEF Rows
  <2>8. QED
    BY <2>2, <2>7 DEF StatusSeen
<1>6. ASSUME Creates(j) PROVE requests'[new].status = DerivedStatus(Rows(items', new))
  <2>1. requests'[new].status = "pending-upload"
    BY <1>6, CommitRequests
  <2>2. PICK n \in DOMAIN j.added : j.added[n].request = 0
    BY <1>6 DEF Creates
  <2>3. Blank(j.added[n])
    BY <1>1 DEF TransactionOK, AddedOK
  <2>4. Placed(j.added[n]).request = new
    BY <2>2, <2>3, PlacedRow
  <2>5. Len(items) + n \in ItemsOf(items', new)
    BY <2>4, CommitItems DEF ItemsOf
  <2>6. new \notin DOMAIN requests
    BY CommitRequests
  <2>7. ASSUME NEW i \in ItemsOf(items', new) PROVE items'[i].status = "pending-upload"
    <3>1. i \in DOMAIN items' /\ items'[i].request = new
      BY DEF ItemsOf
    <3>2. i \notin DOMAIN items
      BY <2>6, <3>1, ItemFacts, CommitRows DEF Continues
    <3>3. QED
      BY <3>1, <3>2, CommitRows DEF Blank
  <2> HIDE DEF new
  <2>8. Rows(items', new) # {} /\ \A x \in Rows(items', new) : x.status = "pending-upload"
    <3>1. ItemsOf(items', new) # {}
      BY <2>5
    <3>2. Rows(items', new) # {}
      BY <3>1 DEF Rows
    <3>3. ASSUME NEW x \in Rows(items', new) PROVE x.status = "pending-upload"
      <4>1. PICK i \in ItemsOf(items', new) :
                x = [status |-> items'[i].status, requirement |-> items'[i].requirement]
        BY DEF Rows
      <4>2. QED
        BY <2>7, <4>1
    <3>4. QED
      BY <3>2, <3>3
  <2>9. QED
    BY <2>1, <2>8, PendingStatus
<1>7. ASSUME NEW r \in DOMAIN requests' \ skewed'
      PROVE  requests'[r].status = StatusSeen(r, <<>>, <<>>)'
  <2>1. r \in DOMAIN requests \/ (r = new /\ Creates(j))
    BY CommitRequests
  <2> HIDE DEF new
  <2>2. QED
    BY <1>3, <1>4, <1>5, <1>6, <2>1
<1>8. QED
  BY <1>7 DEF StatusFollowsItems

\* A request that waits, or a transaction that is open, finds what it needs.
LEMMA CommitWork ==
    ASSUME DossierInv, NEW w \in Workers, Commit(w), NEW t, WorkOK(t), t.phase # "settle"
    PROVE  WorkOK(t)'
<1>1. \A i \in DOMAIN items : i \in DOMAIN items' /\ Continues(items[i], items'[i])
  BY CommitRows
<1>2. DOMAIN requests \subseteq DOMAIN requests'
  BY CommitRequests
<1>3. Aims(t) => Aims(t)'
  BY <1>1 DEF Aims
<1>4. AimsAtSub(t) => AimsAtSub(t)'
  BY <1>1 DEF Aims, AimsAtSub, Continues
<1>5. Aims(t) /\ HasApproval(items[t.item]) => HasApproval(items'[t.item])
  BY <1>1 DEF Aims, HasApproval, Continues
<1>6. \A r : ItemsOf(items, r) \subseteq ItemsOf(items', r)
  BY <1>1 DEF ItemsOf, Continues
<1>7. ReviewOK(t) => ReviewOK(t)'
  BY <1>1, <1>4 DEF ReviewOK
<1>8. QED
  BY <1>2, <1>3, <1>4, <1>5, <1>6, <1>7 DEF WorkOK, HasApproval, ItemsOf

\* What an approval has not seen is in a request the commit changed.
LEMMA CommitSettling ==
    ASSUME DossierInv, NEW w \in Workers, Commit(w), NEW v \in Workers \ {w}, Settling(v),
           NEW t, job[v] = t, NEW x, job'[v] = x
    PROVE  WorkOK(x)' /\ x.phase = "settle"
<1>1. /\ t.phase = "settle" /\ t.op = "review" /\ ReviewOK(t) /\ SettlesAll(t)
      /\ DOMAIN t = ReviewFields
  BY DEF Settling, DossierInv, JobsInv, WorkOK, Idle, ReviewOK
<1> DEFINE more == Touched(job[w])
<1>2. /\ x = [t EXCEPT !.missed = @ \cup more]
      /\ DOMAIN job[w].state \subseteq more
      /\ Creates(job[w]) => Len(requests) + 1 \in more
  BY CommitMissed DEF Touched
<1> HIDE DEF more
<1>3. /\ x.phase = "settle" /\ x.op = "review" /\ x.item = t.item /\ x.sub = t.sub
      /\ x.cmd = t.cmd /\ x.decision = t.decision /\ x.others = t.others
      /\ x.missed = t.missed \cup more /\ DOMAIN x = ReviewFields
  BY <1>1, <1>2 DEF ReviewFields
<1>4. \A i \in DOMAIN items : i \in DOMAIN items' /\ Continues(items[i], items'[i])
  BY CommitRows
<1>5. t.item \in DOMAIN items /\ items'[t.item].type = items[t.item].type
  BY <1>1, <1>4 DEF ReviewOK, AimsAtSub, Aims, Continues
<1>6. ReviewOK(x)'
  BY <1>1, <1>3, <1>4 DEF ReviewOK, AimsAtSub, Aims, Continues
<1>7. SettlesAll(x)'
  <2> SUFFICES ASSUME NEW d \in DOMAIN items' \ ({t.item} \cup DOMAIN t.others),
                      items'[d].type = items[t.item].type
               PROVE  \/ items'[d].status \notin Open
                      \/ requests'[items'[d].request].status = "cancelled"
                      \/ items'[d].request \in t.missed \cup more
    BY <1>3, <1>5 DEF SettlesAll
  <2>1. CASE d \notin DOMAIN items
    BY <1>2, <2>1, CommitRows
  <2>2. CASE d \in DOMAIN items /\ items[d].request \in DOMAIN job[w].state
    BY <1>2, <1>4, <2>2 DEF Continues
  <2>3. CASE d \in DOMAIN items /\ items[d].request \notin DOMAIN job[w].state
    <3>1. items'[d] = items[d]
      BY <2>3, CommitRows
    <3>2. requests'[items[d].request] = requests[items[d].request]
      BY <2>3, ItemFacts, CommitRequests
    <3>3. QED
      BY <1>1, <2>3, <3>1, <3>2 DEF SettlesAll
  <2>4. QED
    BY <2>1, <2>2, <2>3
<1>8. QED
  BY <1>3, <1>6, <1>7 DEF WorkOK

LEMMA CommitUnspent ==
    ASSUME DossierInv, NEW w \in Workers, Commit(w), NEW v \in Workers \ {w}, InTransaction(v),
           NEW key, job[v].key = key
    PROVE  Unspent(key)'
<1>1. Unspent(key) /\ Unspent(job[w].key) /\ InTransaction(w)
  BY CommitItems DEF DossierInv, JobsInv, TransactionOK, InTransaction
<1>2. key = job[w].key => key = <<"none", 0>> \/ key[2] \notin Commands
  BY <1>1 DEF DossierInv, LocksInv
<1>3. ASSUME NEW c \in Commands, key = <<"submission", c>>, ~Commanded(c), Commanded(c)'
      PROVE  FALSE
  <2>1. PICK i \in DOMAIN items' : \E k \in DOMAIN items'[i].subs : items'[i].subs[k].cmd = c
    BY <1>3 DEF Commanded
  <2>2. PICK k \in DOMAIN items'[i].subs : items'[i].subs[k].cmd = c
    BY <2>1
  <2>3. \/ i \in DOMAIN items /\ k \in DOMAIN items[i].subs /\ items[i].subs[k].cmd = c
        \/ job[w].key = <<"submission", c>>
    BY <2>2, CommitEffects
  <2>4. job[w].key = key
    BY <1>3, <2>3 DEF Commanded
  <2>5. key[2] = c /\ key # <<"none", 0>>
    BY <1>3
  <2>6. QED
    BY <1>2, <2>4, <2>5
<1>4. ASSUME NEW c \in Commands, key = <<"review", c>>, ~Reviewed(c), Reviewed(c)'
      PROVE  FALSE
  <2>1. PICK i \in DOMAIN items' : \E k \in DOMAIN items'[i].subs :
            \E d \in items'[i].subs[k].decisions : d[1] = c
    BY <1>4 DEF Reviewed
  <2>2. PICK k \in DOMAIN items'[i].subs : \E d \in items'[i].subs[k].decisions : d[1] = c
    BY <2>1
  <2>3. PICK d \in items'[i].subs[k].decisions : d[1] = c
    BY <2>2
  <2>4. \/ /\ i \in DOMAIN items /\ k \in DOMAIN items[i].subs
           /\ d \in items[i].subs[k].decisions
        \/ job[w].key = <<"review", c>>
    BY <2>3, CommitEffects
  <2>5. job[w].key = key
    BY <1>4, <2>3, <2>4 DEF Reviewed
  <2>6. key[2] = c /\ key # <<"none", 0>>
    BY <1>4
  <2>7. QED
    BY <1>2, <2>5, <2>6
<1>5. ASSUME NEW c \in Commands \cup {"fresh"}, key = <<"request", c>>, ~Requested(c),
             Requested(c)'
      PROVE  FALSE
  <2>1. c \in Commands
    BY <1>5 DEF Requested
  <2>2. PICK r \in DOMAIN requests' : requests'[r].cmd = c
    BY <1>5 DEF Requested
  <2>3. \/ r \in DOMAIN requests /\ requests[r].cmd = c
        \/ Creates(job[w]) /\ job[w].key[2] = c
    BY <2>2, CommitRequests
  <2>4. Creates(job[w]) /\ job[w].key[2] = c
    BY <1>5, <2>1, <2>3 DEF Requested
  <2>5. \E cmd : job[w].key = <<"request", cmd>>
    BY <2>4, CommitRequests
  <2>6. job[w].key = key
    BY <1>5, <2>4, <2>5
  <2>7. key[2] = c /\ key # <<"none", 0>>
    BY <1>5
  <2>8. QED
    BY <1>2, <2>1, <2>6, <2>7
<1>6. \/ key = <<"none", 0>>
      \/ \E c \in Commands : key = <<"submission", c>> /\ ~Commanded(c)
      \/ \E c \in Commands : key = <<"review", c>> /\ ~Reviewed(c)
      \/ \E c \in Commands \cup {"fresh"} : key = <<"request", c>> /\ ~Requested(c)
  BY <1>1 DEF Unspent
<1>7. QED
  BY <1>3, <1>4, <1>5, <1>6 DEF Unspent

LEMMA CommitOthers ==
    ASSUME DossierInv, NEW w \in Workers, Commit(w), NEW v \in Workers \ {w}, InTransaction(v),
           NEW t, job[v] = t, NEW x, job'[v] = x
    PROVE  TransactionOK(x)'
<1> DEFINE j == job[w]
           new == Len(requests) + 1
<1>1. TransactionOK(t) /\ InTransaction(w) /\ TransactionOK(j)
  BY CommitItems DEF DossierInv, JobsInv, InTransaction
<1>2. DOMAIN t.rows \cap DOMAIN j.rows = {}
  BY <1>1 DEF DossierInv, LocksInv
<1>3. /\ DOMAIN x = DOMAIN t /\ x.op = t.op /\ x.rows = t.rows /\ x.added = t.added
      /\ x.key = t.key /\ x.completion = t.completion /\ x.state = t.state
      /\ t.stale \subseteq x.stale /\ DOMAIN j.state \subseteq x.stale
      /\ x.missed = t.missed
      /\ Creates(j) => new \in x.stale
  BY CommitJobs
<1>4. DOMAIN t.rows \subseteq DOMAIN items
      /\ \A i \in DOMAIN t.rows : i \in DOMAIN items' /\ items'[i] = items[i]
  BY <1>1, <1>2, CommitRows DEF TransactionOK, RowsOK
<1>5. RowsOK(x.rows, DOMAIN x.state)'
  BY <1>1, <1>3, <1>4 DEF TransactionOK, RowsOK
<1>6. KeyedOK(x.rows, x.key)'
  <2>1. \A i \in DOMAIN t.rows : \A k :
             AddedDecisions(t.rows, i, k)' = AddedDecisions(t.rows, i, k)
    BY <1>4 DEF AddedDecisions
  <2>2. KeyedOK(t.rows, t.key)
    BY <1>1 DEF TransactionOK
  <2>3. KeyedOK(t.rows, t.key)'
    BY <1>4, <2>1, <2>2 DEF KeyedOK
  <2>4. QED
    BY <1>3, <2>3
<1>7. AddedOK(x.added, DOMAIN x.state, x.key)'
  BY <1>1, <1>3 DEF TransactionOK, AddedOK
<1>8. Unspent(x.key)'
  <2> DEFINE key == t.key
  <2>1. job[v].key = key
    OBVIOUS
  <2> HIDE DEF key
  <2>2. Unspent(key)'
    BY <2>1, CommitUnspent
  <2>3. QED
    BY <1>3, <2>2 DEF key
<1>9. DOMAIN requests \subseteq DOMAIN requests' /\ DOMAIN t.state \subseteq DOMAIN requests
  BY <1>1, CommitRequests DEF TransactionOK
<1>10. \A r \in DOMAIN x.state \ x.stale : x.state[r] = StatusSeen(r, x.rows, x.added)'
  <2> SUFFICES ASSUME NEW r \in DOMAIN t.state \ x.stale
               PROVE  t.state[r] = StatusSeen(r, t.rows, t.added)'
    BY <1>3
  <2>1. r \in DOMAIN requests /\ r \notin DOMAIN j.state /\ r \notin t.stale
    BY <1>3, <1>9
  <2>2. \A rows, added : StatusSeen(r, rows, added)' = StatusSeen(r, rows, added)
    BY <2>1, CommitElsewhere
  <2>3. t.state[r] = StatusSeen(r, t.rows, t.added)
    BY <1>1, <2>1 DEF TransactionOK
  <2>4. QED
    BY <2>2, <2>3
<1>11. x.op = "upload" => \A i \in DOMAIN x.rows : items'[i].status \in Uploadable
  BY <1>1, <1>3, <1>4 DEF TransactionOK
<1>12. x.op = "review" => SettlesOK(x.rows, x.stale \cup x.missed)'
  <2> SUFFICES ASSUME x.op = "review", NEW i \in DOMAIN t.rows, t.rows[i].status = "approved",
                      NEW d \in DOMAIN items' \ {i}, items'[d].type = items'[i].type
               PROVE  \/ d \in DOMAIN t.rows /\ t.rows[d].status \notin Open
                      \/ d \notin DOMAIN t.rows /\ items'[d].status \notin Open
                      \/ requests'[items'[d].request].status = "cancelled"
                      \/ items'[d].request \in x.stale \cup t.missed
    BY <1>3 DEF SettlesOK
  <2>1. CASE d \notin DOMAIN items
    BY <1>3, <2>1, CommitRows
  <2>2. CASE d \in DOMAIN items
    <3>1. items'[d].request = items[d].request /\ items'[d].type = items[d].type
      BY <2>2, CommitRows DEF Continues
    <3>2. CASE items[d].request \in DOMAIN j.state
      BY <1>3, <3>1, <3>2
    <3>3. CASE items[d].request \notin DOMAIN j.state
      <4>1. items'[d] = items[d]
        BY <2>2, <3>3, CommitRows
      <4>2. requests'[items[d].request] = requests[items[d].request]
        BY <2>2, <3>3, ItemFacts, CommitRequests
      <4>3. SettlesOK(t.rows, t.stale \cup t.missed)
        BY <1>1, <1>3 DEF TransactionOK
      <4>4. items[d].type = items[i].type
        BY <1>4, <4>1
      <4>5. \/ d \in DOMAIN t.rows /\ t.rows[d].status \notin Open
            \/ d \notin DOMAIN t.rows /\ items[d].status \notin Open
            \/ requests[items[d].request].status = "cancelled"
            \/ items[d].request \in t.stale \cup t.missed
        BY <2>2, <4>3, <4>4 DEF SettlesOK
      <4>6. QED
        BY <1>3, <4>1, <4>2, <4>5
    <3>4. QED
      BY <3>2, <3>3
  <2>3. QED
    BY <2>1, <2>2
<1>13. DOMAIN x = {"phase", "op", "rows", "added", "key", "completion", "stale", "missed", "state"}
       /\ x.completion \in {"set", "clear", "keep"}
       /\ \A r \in DOMAIN x.state : x.state[r] \in RequestStatuses
  BY <1>1, <1>3 DEF TransactionOK
<1>14. (DOMAIN x.state \subseteq DOMAIN requests)'
  BY <1>3, <1>9
<1>15. QED
  BY <1>5, <1>6, <1>7, <1>8, <1>10, <1>11, <1>12, <1>13, <1>14 DEF TransactionOK

LEMMA CommitStep ==
    ASSUME DossierInv, NEW w \in Workers, Commit(w) PROVE DossierInv'
<1>1. /\ job'[w] = Idle
      /\ \A v \in Workers \ {w} : ~InTransaction(v) /\ ~Settling(v) => job'[v] = job[v]
  BY CommitJobs
<1>2. JobsInv'
  <2> SUFFICES ASSUME NEW v \in Workers, NEW x, job'[v] = x
               PROVE  IF x.phase = "commit" THEN TransactionOK(x)' ELSE WorkOK(x)'
    BY DEF JobsInv
  <2>1. CASE v = w
    BY <1>1, <2>1 DEF Idle, WorkOK
  <2>2. CASE v # w /\ InTransaction(v)
    <3> DEFINE t == job[v]
    <3>1. x.phase = "commit"
      BY <2>2, CommitJobs
    <3>2. job[v] = t
      OBVIOUS
    <3> HIDE DEF t
    <3>3. TransactionOK(x)'
      BY <2>2, <3>2, CommitOthers
    <3>4. QED
      BY <3>1, <3>3
  <2>3. CASE v # w /\ ~InTransaction(v) /\ ~Settling(v)
    <3>1. WorkOK(x) /\ x.phase # "commit" /\ x.phase # "settle"
      BY <1>1, <2>3 DEF DossierInv, JobsInv, InTransaction, Settling
    <3>2. QED
      BY <3>1, CommitWork
  <2>4. CASE v # w /\ Settling(v)
    <3> DEFINE t == job[v]
    <3>1. job[v] = t
      OBVIOUS
    <3> HIDE DEF t
    <3>2. WorkOK(x)' /\ x.phase = "settle"
      BY <2>4, <3>1, CommitSettling
    <3>3. QED
      BY <3>2
  <2>5. QED
    BY <2>1, <2>2, <2>3, <2>4
<1>3. LocksInv'
  <2>1. \A v \in Workers : InTransaction(v)' =>
            v # w /\ InTransaction(v) /\ job'[v].rows = job[v].rows /\ job'[v].key = job[v].key
    <3> SUFFICES ASSUME NEW v \in Workers, InTransaction(v)'
                 PROVE  /\ v # w /\ InTransaction(v)
                        /\ job'[v].rows = job[v].rows /\ job'[v].key = job[v].key
      OBVIOUS
    <3>1. v # w
      BY <1>1 DEF InTransaction, Idle
    <3>2. ~Settling(v)
      <4> DEFINE t == job[v]
                 x == job'[v]
      <4>1. job[v] = t /\ job'[v] = x /\ x.phase = "commit"
        BY DEF InTransaction
      <4> HIDE DEF t, x
      <4>2. Settling(v) => x.phase = "settle"
        BY <3>1, <4>1, CommitSettling
      <4>3. QED
        BY <4>1, <4>2
    <3>3. QED
      BY <1>1, <3>1, <3>2, CommitJobs DEF InTransaction
  <2>2. QED
    BY <2>1 DEF DossierInv, LocksInv
<1>4. QED
  BY <1>2, <1>3, CommitTables, CommitOneEffect, CommitStatus DEF DossierInv

-------------------------------------------------------------------------------
(* The invariant and what follows from it.                                 *)

LEMMA NextInv == DossierInv /\ [Next]_vars => DossierInv'
<1> SUFFICES ASSUME DossierInv, [Next]_vars PROVE DossierInv'
  OBVIOUS
<1>1. CASE UNCHANGED vars
  <2>1. UNCHANGED <<requests, items, job, profile, skewed>>
    BY <1>1 DEF vars
  <2>2. TablesInv' /\ OneEffectInv' /\ StatusFollowsItems'
    BY <2>1, StillTables DEF DossierInv, TablesInv
  <2>3. JobsInv' /\ LocksInv'
    <3>1. \A w \in Workers : IF job[w].phase = "commit" THEN TransactionOK(job[w]) ELSE WorkOK(job[w])
      BY DEF DossierInv, JobsInv
    <3>2. \A t : /\ WorkOK(t) => WorkOK(t)'
                 /\ TransactionOK(t) => TransactionOK(t)'
      BY <2>1, Still
    <3>3. ASSUME NEW w \in Workers, NEW x, x = job'[w]
          PROVE  IF x.phase = "commit" THEN TransactionOK(x)' ELSE WorkOK(x)'
      BY <2>1, <3>1, <3>2, <3>3
    <3>4. QED
      BY <2>1, <3>3 DEF JobsInv, LocksInv, InTransaction, DossierInv
  <2>4. QED
    BY <2>2, <2>3 DEF DossierInv
<1>2. CASE Next
  <2>1. PICK w \in Workers :
          \/ ReadUpload(w) \/ WriteUpload(w)
          \/ ReadComplete(w) \/ WriteComplete(w)
          \/ ReadDelete(w) \/ WriteDelete(w)
          \/ ReadReview(w) \/ OpenReview(w) \/ WriteReview(w)
          \/ ReadPolicy(w) \/ WritePolicy(w)
          \/ ReadAdd(w) \/ WriteAdd(w)
          \/ ReadCreate(w) \/ WriteCreate(w)
          \/ ReadRenew(w) \/ WriteRenew(w)
          \/ ReadBatch(w) \/ WriteBatch(w)
          \/ (\E p \in Profiles : SaveProfile(w, p)) \/ ReadSync(w) \/ WriteSync(w)
          \/ Commit(w) \/ Abort(w)
    BY <1>2 DEF Next
  <2>2. CASE ReadUpload(w) \/ ReadComplete(w) \/ ReadDelete(w) \/ ReadReview(w)
    BY <2>2, ReadSubmissionSteps
  <2>3. CASE ReadPolicy(w) \/ ReadAdd(w) \/ ReadCreate(w) \/ ReadRenew(w) \/ ReadBatch(w)
    BY <2>3, ReadRequestSteps
  <2>4. CASE (\E p \in Profiles : SaveProfile(w, p)) \/ ReadSync(w) \/ OpenReview(w)
    BY <2>4, ProfileSteps, OpenReviewStep
  <2>5. CASE WriteUpload(w) \/ WriteComplete(w) \/ WriteDelete(w) \/ WriteReview(w)
    BY <2>5, WriteUploadStep, WriteCompleteStep, WriteDeleteStep, WriteReviewStep
  <2>6. CASE \/ WritePolicy(w) \/ WriteAdd(w) \/ WriteCreate(w) \/ WriteRenew(w)
             \/ WriteBatch(w) \/ WriteSync(w)
    BY <2>6, WritePolicyStep, WriteAddStep, WriteCreateStep, WriteRenewStep, WriteBatchStep,
       WriteSyncStep
  <2>7. CASE Commit(w)
    BY <2>7, CommitStep
  <2>8. CASE Abort(w)
    BY <2>8, FailStep DEF Abort
  <2>9. QED
    BY <2>1, <2>2, <2>3, <2>4, <2>5, <2>6, <2>7, <2>8
<1>3. QED
  BY <1>1, <1>2

(* Rows, work in progress, locks and statuses belong together, whatever    *)
(* the requests of an employee are and however they interleave.            *)
THEOREM DossierInductive == Spec => []DossierInv
  BY InitInv, NextInv, PTL DEF Spec

LEMMA AtMostOne ==
    ASSUME NEW S, \A x, y \in S : x = y
    PROVE  Cardinality(S) <= 1
<1>1. CASE S = {}
  BY <1>1, FS_EmptySet
<1>2. CASE S # {}
  <2>1. PICK x : x \in S
    BY <1>2
  <2>2. S = {x}
    BY <2>1
  <2>3. QED
    BY <2>2, FS_Singleton
<1>3. QED
  BY <1>1, <1>2

LEMMA InvType == DossierInv => TypeOK
<1> SUFFICES ASSUME DossierInv PROVE TypeOK
  OBVIOUS
<1>1. ASSUME NEW r \in DOMAIN requests
      PROVE  requests[r].status \in RequestStatuses /\ requests[r].completed \in BOOLEAN
  <2>1. requests[r] \in Request
    BY DEF DossierInv, TablesInv
  <2>2. QED
    BY <2>1 DEF Request
<1>2. ASSUME NEW i \in DOMAIN items
      PROVE  /\ items[i].request \in DOMAIN requests /\ items[i].type \in Types
             /\ items[i].requirement \in Requirements /\ items[i].status \in ItemStatuses
             /\ items[i].manual \in BOOLEAN
             /\ \A k \in DOMAIN items[i].subs : items[i].subs[k] \in SubmissionRows
  BY ItemFacts, SubsFacts DEF Item
<1>3. ASSUME NEW w \in Workers PROVE job[w].phase \in {"idle", "saved", "work", "settle", "commit"}
  BY DEF DossierInv, JobsInv, WorkOK, Idle
<1>4. QED
  BY <1>1, <1>2, <1>3 DEF TypeOK, DossierInv, TablesInv

LEMMA InvOneEffect == DossierInv => OneEffectPerCommand
<1> SUFFICES ASSUME DossierInv, NEW cmd \in Commands
             PROVE  LET made == {x \in (DOMAIN items) \X (1 .. MaxVersions) :
                                   x[2] \in DOMAIN items[x[1]].subs}
                    IN  /\ Cardinality({x \in made : items[x[1]].subs[x[2]].cmd = cmd}) <= 1
                        /\ Cardinality({r \in DOMAIN requests : requests[r].cmd = cmd}) <= 1
                        /\ Cardinality({y \in made \X ({cmd} \X Decisions) :
                              y[2] \in items[y[1][1]].subs[y[1][2]].decisions}) <= 1
  BY DEF OneEffectPerCommand
<1> DEFINE made == {x \in (DOMAIN items) \X (1 .. MaxVersions) :
                      x[2] \in DOMAIN items[x[1]].subs}
           submitted == {x \in made : items[x[1]].subs[x[2]].cmd = cmd}
           created == {r \in DOMAIN requests : requests[r].cmd = cmd}
           decided == {y \in made \X ({cmd} \X Decisions) :
                         y[2] \in items[y[1][1]].subs[y[1][2]].decisions}
<1>1. \A x \in made : /\ x = <<x[1], x[2]>> /\ x[1] \in DOMAIN items
                      /\ x[2] \in DOMAIN items[x[1]].subs
  OBVIOUS
<1> HIDE DEF made
<1>2. \A x, y \in submitted : x = y
  <2> SUFFICES ASSUME NEW x \in submitted, NEW y \in submitted PROVE x = y
    OBVIOUS
  <2>1. x[1] = y[1] /\ x[2] = y[2]
    BY <1>1 DEF DossierInv, OneEffectInv
  <2>2. QED
    BY <1>1, <2>1
<1>3. \A r, s \in created : r = s
  BY DEF DossierInv, OneEffectInv
<1>4. \A x, y \in decided : x = y
  <2> SUFFICES ASSUME NEW x \in decided, NEW y \in decided PROVE x = y
    OBVIOUS
  <2>1. /\ x = <<x[1], x[2]>> /\ x[1] \in made /\ x[2][1] = cmd
        /\ y = <<y[1], y[2]>> /\ y[1] \in made /\ y[2][1] = cmd
        /\ x[2] \in items[x[1][1]].subs[x[1][2]].decisions
        /\ y[2] \in items[y[1][1]].subs[y[1][2]].decisions
    OBVIOUS
  <2>2. x[1][1] = y[1][1] /\ x[1][2] = y[1][2] /\ x[2] = y[2]
    BY <1>1, <2>1 DEF DossierInv, OneEffectInv
  <2>3. x[1] = y[1]
    BY <1>1, <2>1, <2>2
  <2>4. QED
    BY <2>1, <2>2, <2>3
<1> HIDE DEF submitted, created, decided
<1>5. Cardinality(submitted) <= 1 /\ Cardinality(created) <= 1 /\ Cardinality(decided) <= 1
  BY <1>2, <1>3, <1>4, AtMostOne
<1>6. QED
  BY <1>5 DEF submitted, created, decided, made

LEMMA InvHistory == DossierInv => HistoryIsTrue
<1> SUFFICES ASSUME DossierInv PROVE HistoryIsTrue
  OBVIOUS
<1>1. VersionsAreKept
  BY ItemFacts DEF VersionsAreKept, Sound
<1>2. ApprovedByPerson
  BY ItemFacts DEF ApprovedByPerson, Sound, HasApproval
<1>3. QED
  BY <1>1, <1>2, InvType, InvOneEffect DEF HistoryIsTrue

\* Only a commit changes the items, and it ends the transaction that commits.
LEMMA OnlyCommits ==
    ASSUME DossierInv, [Next]_vars, items' # items
    PROVE  \E w \in Workers :
              Commit(w) /\ \A v \in Workers \ {w} : InTransaction(v) => job'[v] # Idle
<1>1. \A w, t : Start(w, t) => items' = items
  BY DEF Start
<1>2. \A w : Fail(w) => items' = items
  BY DEF Fail
<1>3. \A w, rows, added, touched, key, completion :
          Hold(w, rows, added, touched, key, completion) => items' = items
  BY DEF Hold
<1>4. \A w, cmd, added : Create(w, cmd, added) => items' = items
  BY <1>2, <1>3 DEF Create
<1>5. \E w \in Workers : Commit(w)
  <2> SUFFICES ASSUME NEW w \in Workers,
                 \/ ReadUpload(w) \/ WriteUpload(w)
                 \/ ReadComplete(w) \/ WriteComplete(w)
                 \/ ReadDelete(w) \/ WriteDelete(w)
                 \/ ReadReview(w) \/ OpenReview(w) \/ WriteReview(w)
                 \/ ReadPolicy(w) \/ WritePolicy(w)
                 \/ ReadAdd(w) \/ WriteAdd(w)
                 \/ ReadCreate(w) \/ WriteCreate(w)
                 \/ ReadRenew(w) \/ WriteRenew(w)
                 \/ ReadBatch(w) \/ WriteBatch(w)
                 \/ (\E p \in Profiles : SaveProfile(w, p)) \/ ReadSync(w) \/ WriteSync(w)
                 \/ Abort(w)
               PROVE FALSE
    BY DEF Next, vars
  <2>1. ~(ReadUpload(w) \/ ReadComplete(w) \/ ReadDelete(w) \/ ReadReview(w))
    BY <1>1 DEF ReadUpload, ReadComplete, ReadDelete, ReadReview
  <2>2. ~(ReadPolicy(w) \/ ReadAdd(w) \/ ReadCreate(w) \/ ReadRenew(w) \/ ReadBatch(w))
    BY <1>1 DEF ReadPolicy, ReadAdd, ReadCreate, ReadRenew, ReadBatch
  <2>3. ~((\E p \in Profiles : SaveProfile(w, p)) \/ ReadSync(w) \/ OpenReview(w))
    BY DEF SaveProfile, ReadSync, OpenReview
  <2>4. ~(WriteUpload(w) \/ WriteComplete(w) \/ WriteDelete(w))
    BY <1>2, <1>3 DEF WriteUpload, WriteComplete, WriteDelete
  <2>5. ~WriteReview(w)
    BY <1>2, <1>3, ZenonT(60) DEF WriteReview
  <2>6. ~(WritePolicy(w) \/ WriteAdd(w))
    BY <1>3 DEF WritePolicy, WriteAdd
  <2>7. ~(WriteCreate(w) \/ WriteRenew(w))
    BY <1>4 DEF WriteCreate, WriteRenew
  <2>8. ~WriteBatch(w)
    BY <1>2, <1>3, <1>4 DEF WriteBatch
  <2>9. ~WriteSync(w)
    BY <1>2, <1>3, ZenonT(60) DEF WriteSync
  <2>10. ~Abort(w)
    BY <1>2 DEF Abort
  <2>11. QED
    BY <2>1, <2>2, <2>3, <2>4, <2>5, <2>6, <2>7, <2>8, <2>9, <2>10
<1>6. PICK w \in Workers : Commit(w)
  BY <1>5
<1>7. \A v \in Workers \ {w} : InTransaction(v) => job'[v] # Idle
  <2>1. \A v \in Workers \ {w} : InTransaction(v) => job'[v].phase = "commit"
    BY <1>6, CommitJobs
  <2>2. Idle.phase # "commit"
    BY DEF Idle
  <2>3. QED
    BY <2>1, <2>2
<1>8. QED
  BY <1>6, <1>7

(* Every row is one the schema allows, whatever ran at the same time.      *)
THEOREM TypeCorrect == Spec => []TypeOK
  BY DossierInductive, InvType, PTL

(* A request has the status of its items, unless a transaction overlapped  *)
(* another one on the same request: the recalculation every operation ends *)
(* with sees its own rows and all that is committed.                       *)
THEOREM StatusFollows == Spec => []StatusFollowsItems
  BY DossierInductive, PTL DEF DossierInv

(* What the dossier tells of its documents is what happened to them: no    *)
(* command makes two submissions, decisions or requests (a batch merged    *)
(* into a dossier makes none), each version is kept under its number, and  *)
(* there is no approval without a person's decision.                       *)
THEOREM HistoryTrue == Spec => []HistoryIsTrue
  BY DossierInductive, InvHistory, PTL

(* An upload never replaces what a reviewer decided between its read and   *)
(* its transaction.                                                        *)
THEOREM UploadKeeps == Spec => UploadKeepsApproval
<1> DEFINE P == \A w \in Workers, i \in DOMAIN items :
                  Committing(w, "upload") /\ i \in DOMAIN job[w].rows
                    => items[i].status \in Uploadable
<1>1. DossierInv => P
  BY DEF DossierInv, JobsInv, TransactionOK, Committing, InTransaction
<1>2. DossierInv => [P]_vars
  BY <1>1
<1>3. QED
  BY <1>2, DossierInductive, PTL DEF UploadKeepsApproval

(* An approval settles its type in every dossier of the employee, whatever *)
(* was committed between the review's writes and its commit.               *)
THEOREM ApprovalSettles == Spec => ApprovalSettlesType
<1> DEFINE P == \A w \in Workers, i, d \in DOMAIN items :
                  (/\ Committing(w, "review") /\ i \in DOMAIN job[w].rows
                   /\ job[w].rows[i].status = "approved"
                   /\ d # i /\ items[d].type = items[i].type
                   /\ requests[items[d].request].status # "cancelled"
                   /\ items[d].request \notin job[w].stale \cup job[w].missed)
                    => items'[d].status \notin Open
<1>1. ASSUME DossierInv, [Next]_vars PROVE P
  <2> SUFFICES ASSUME NEW w \in Workers, NEW i \in DOMAIN items, NEW d \in DOMAIN items,
                      Committing(w, "review"), i \in DOMAIN job[w].rows,
                      job[w].rows[i].status = "approved",
                      d # i, items[d].type = items[i].type,
                      requests[items[d].request].status # "cancelled",
                      items[d].request \notin job[w].stale \cup job[w].missed
               PROVE  items'[d].status \notin Open
    OBVIOUS
  <2>1. Commit(w)
    BY <1>1, OnlyCommits DEF Committing
  <2>2. SettlesOK(job[w].rows, job[w].stale \cup job[w].missed)
    BY <2>1, <1>1, CommitItems DEF TransactionOK, Committing
  <2>3. \/ d \in DOMAIN job[w].rows /\ job[w].rows[d].status \notin Open
        \/ d \notin DOMAIN job[w].rows /\ items[d].status \notin Open
    BY <2>2 DEF SettlesOK
  <2>4. QED
    BY <1>1, <2>1, <2>3, CommitRows
<1>2. DossierInv /\ [Next]_vars => [P]_vars
  BY <1>1
<1>3. QED
  BY <1>2, DossierInductive, PTL DEF ApprovalSettlesType, Spec
=================================================================================
