------------------------- MODULE AutomationOutboxOrder -------------------------
(***************************************************************************)
(* The outbox implements OrderedDispatch, as long as no lease lapses under *)
(* a live dispatch and no operator re-opens a dead row (MaxOverruns and    *)
(* MaxReconciliations are 0).                                              *)
(***************************************************************************)
EXTENDS AutomationOutbox

\* Some dispatch is handling row e, which has not been concluded yet.
Handled(e) ==
    \E k \in DOMAIN workers[e] :
        workers[e][k].stage \in {"executing", "concluding", "saving"}

Phase ==
    [e \in Events |->
        CASE outbox[e].status = "absent" -> "absent"
          [] Final(outbox[e])            -> "done"
          [] Open(outbox[e])             -> IF Handled(e) THEN "running" ELSE "waiting"]

Ordered == INSTANCE OrderedDispatch WITH phase <- Phase

\* Claims, locks, retries, batches, crashes and the sweep of exhausted rows,
\* seen through Phase, are steps of the ordered hand-over or change nothing.
RefinesOrder == Ordered!Spec
===============================================================================
