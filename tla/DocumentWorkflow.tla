---------------------------- MODULE DocumentWorkflow ----------------------------
(***************************************************************************)
(* The pure rules of the document dossier: which status an item may move   *)
(* to and which status a request has from its items                        *)
(* (src/domain/documents/document-workflow.ts).                            *)
(***************************************************************************)
EXTENDS Integers, FiniteSets

ItemStatuses ==
  {"pending-upload", "submitted", "automatic-validation",
   "pending-human-review", "resubmission-required", "approved", "rejected",
   "expired", "waived", "cancelled"}

RequestStatuses ==
  (ItemStatuses \ {"waived"}) \cup {"draft", "partially-submitted"}

Requirements == {"required", "optional", "conditional"}

ItemTransitions ==
  [s \in ItemStatuses |->
    CASE s = "pending-upload" -> {"submitted", "waived", "cancelled"}
      [] s = "submitted" ->
           {"automatic-validation", "pending-human-review", "cancelled"}
      [] s = "automatic-validation" ->
           {"pending-human-review", "resubmission-required"}
      [] s = "pending-human-review" ->
           {"submitted", "approved", "rejected", "resubmission-required"}
      [] s \in {"resubmission-required", "rejected", "expired"} ->
           {"submitted", "waived", "cancelled"}
      [] s = "approved" -> {"expired", "waived"}
      [] s = "waived" -> {"pending-upload"}
      [] s = "cancelled" -> {}]

(* The items a request is judged by: those it requires, or all of them     *)
(* when it requires none.                                                  *)
Judged(S) ==
  LET relevant == {x \in S : x.requirement # "optional"}
  IN  IF relevant # {} THEN relevant ELSE S

(* deriveDocumentRequestStatus: `every` and `some` only look at the set of *)
(* the statuses of the judged items.                                       *)
DerivedStatus(S) ==
  LET st == {x.status : x \in Judged(S)}
  IN  IF st = {} THEN "draft"
      ELSE IF st = {"cancelled"} THEN "cancelled"
      ELSE IF st \subseteq {"cancelled", "waived"} THEN "approved"
      ELSE IF "resubmission-required" \in st THEN "resubmission-required"
      ELSE IF "rejected" \in st THEN "rejected"
      ELSE IF "expired" \in st THEN "expired"
      ELSE IF st \subseteq {"approved", "waived"} THEN "approved"
      ELSE IF "pending-human-review" \in st THEN "pending-human-review"
      ELSE IF "automatic-validation" \in st THEN "automatic-validation"
      ELSE IF st = {"submitted"} THEN "submitted"
      ELSE IF st # {"pending-upload"} THEN "partially-submitted"
      ELSE "pending-upload"
=============================================================================
