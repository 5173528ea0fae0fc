---------------------------- MODULE OrderedDispatch ----------------------------
(***************************************************************************)
(* What the automation outbox promises its conversations, without claims,  *)
(* leases or processes: the events of a conversation are handled strictly  *)
(* in the order of their sequence numbers, one at a time, and an event     *)
(* that has been concluded is never handled again.                         *)
(***************************************************************************)
EXTENDS Naturals

CONSTANTS
    Conversations,
    MaxSequence        \* bound: events per conversation

VARIABLE phase         \* [Events -> Phases]
-------------------------------------------------------------------------------
Events == Conversations \X (1 .. MaxSequence)
Phases == {"absent", "waiting", "running", "done"}

Before(e) == {f \in Events : f[1] = e[1] /\ f[2] < e[2]}
After(e)  == {f \in Events : f[1] = e[1] /\ f[2] > e[2]}

\* Everything ahead of e has been concluded: e is the head of its conversation.
Head(e) == \A f \in Before(e) : phase[f] = "done"

Init == phase = [e \in Events |-> "absent"]

Arrive(e) ==
    /\ phase[e] = "absent"
    /\ \A f \in Before(e) : phase[f] # "absent"
    /\ phase' = [phase EXCEPT ![e] = "waiting"]

Start(e) ==
    /\ phase[e] = "waiting"
    /\ Head(e)
    /\ phase' = [phase EXCEPT ![e] = "running"]

\* Handlers that give up, or die, return their events.
Release(E) ==
    /\ E # {} /\ \A e \in E : phase[e] = "running"
    /\ phase' = [e \in Events |-> IF e \in E THEN "waiting" ELSE phase[e]]

\* An event is concluded together with later ones answered in the same batch.
Finish(e, B) ==
    /\ phase[e] = "running"
    /\ B \subseteq After(e) /\ \A f \in B : phase[f] = "waiting"
    /\ phase' = [f \in Events |-> IF f \in B \cup {e} THEN "done" ELSE phase[f]]

\* Events of which no handler made anything are set aside.
Isolate(E) ==
    /\ E # {} /\ \A e \in E : phase[e] = "waiting" /\ Head(e)
    /\ phase' = [e \in Events |-> IF e \in E THEN "done" ELSE phase[e]]

Next ==
    \/ \E e \in Events : Arrive(e) \/ Start(e)
    \/ \E e \in Events : \E B \in SUBSET After(e) : Finish(e, B)
    \/ \E E \in SUBSET Events : Release(E) \/ Isolate(E)

Spec == Init /\ [][Next]_phase
-------------------------------------------------------------------------------
TypeOK == phase \in [Events -> Phases]

\* A customer is never answered by two handlers at once.
OneAtATime ==
    \A e, f \in Events :
        e[1] = f[1] /\ phase[e] = "running" /\ phase[f] = "running" => e = f

\* No event is handled while one that came before it is still unanswered.
NoOvertaking == \A e \in Events : phase[e] = "running" => Head(e)

\* What has been concluded is not handled a second time.
DoneIsFinal == [][\A e \in Events : phase[e] = "done" => phase'[e] = "done"]_phase
===============================================================================
