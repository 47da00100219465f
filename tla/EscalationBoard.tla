-------------------------- MODULE EscalationBoard --------------------------
(***************************************************************************)
(* EscalationBoard: what the bus promises about a key, whatever is retried *)
(* or runs at once: it is known, then raised at most once, and a person    *)
(* finds in the queue only what was raised.                                *)
(***************************************************************************)
EXTENDS Naturals

CONSTANT Keys

VARIABLES known, raised, queued

Init == known = {} /\ raised = [k \in Keys |-> 0] /\ queued = {}

Know(k)  == k \notin known /\ known' = known \cup {k} /\ UNCHANGED <<raised, queued>>
Raise(k) == /\ k \in known /\ raised[k] = 0
            /\ raised' = [raised EXCEPT ![k] = 1]
            /\ UNCHANGED <<known, queued>>
Queue(k) == raised[k] = 1 /\ queued' = queued \cup {k} /\ UNCHANGED <<known, raised>>

Next == \E k \in Keys : Know(k) \/ Raise(k) \/ Queue(k)

Spec == Init /\ [][Next]_<<known, raised, queued>>
=============================================================================
