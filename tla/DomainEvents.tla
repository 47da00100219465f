---------------------------- MODULE DomainEvents ----------------------------
(***************************************************************************)
(* DomainEvents: the tables behind the domain-event bus.  The live agent   *)
(* functions publish through publishDomainEvent, which inserts the event   *)
(* unless its key is there, then records the escalations of its rules; the *)
(* caller projects what it is given into the exception queue.  Each table  *)
(* is written in a transaction of its own.                                 *)
(***************************************************************************)
EXTENDS Naturals

CONSTANTS
    Keys,      \* idempotency keys
    Rules      \* keys of the event types ESCALATIONS has a rule for

ASSUME RulesAssumption == Rules \subseteq Keys

VARIABLES
    received,     \* keys of the events inserted with outcome "received"
    escalations,  \* escalation rows of each key
    exceptions    \* keys with a row in the exception queue

board == <<received, escalations, exceptions>>

BoardTypeOK ==
    /\ received \subseteq Keys
    /\ escalations \in [Keys -> Nat]
    /\ exceptions \subseteq Keys

BoardInit == received = {} /\ escalations = [k \in Keys |-> 0] /\ exceptions = {}

\* The unique index on (tenant, key) where outcome = 'received'.
IsNewBug(k) == TRUE
IsNew(k) == k \notin received

\* Read committed writes: recordEscalation does not deduplicate, the queue does.
InsertEvent(k)      == received' = received \cup {k} /\ UNCHANGED <<escalations, exceptions>>
RecordEscalation(k) == escalations' = [escalations EXCEPT ![k] = @ + 1]
                       /\ UNCHANGED <<received, exceptions>>
RecordException(k)  == exceptions' = exceptions \cup {k} /\ UNCHANGED <<received, escalations>>
=============================================================================
