---------------------------- MODULE ChargeLedger ----------------------------
(***************************************************************************)
(* ChargeLedger: what the money path promises about charges, whatever the  *)
(* number, order and interleaving of the webhook deliveries.  A charge     *)
(* settles once, is entered in the ledger at most once, for its invoice    *)
(* and amount, and an invoice is announced as paid only on an entry of     *)
(* its full amount.                                                        *)
(***************************************************************************)
CONSTANTS Charges, Invoices, AmountDue,
          Clerks     \* who may enter a charge

VARIABLES
    settled,     \* charges collected, with their invoice and amount
    entries,     \* rows of the ledger
    announced    \* invoices announced as paid

Init == settled = {} /\ entries = {} /\ announced = {}

\* A charge is for the full amount due.
Settle ==
    \E c \in Charges, i \in Invoices :
        /\ \A other \in settled : other.intent # c
        /\ settled' = settled \cup {[intent |-> c, invoice |-> i, amount |-> AmountDue[i]]}
        /\ UNCHANGED <<entries, announced>>

Enter ==
    \E c \in settled, by \in Clerks :
        /\ \A e \in entries : e.intent # c.intent
        /\ entries' = entries \cup {[by |-> by, intent |-> c.intent,
                                     invoice |-> c.invoice, amount |-> c.amount]}
        /\ UNCHANGED <<settled, announced>>

Announce ==
    \E e \in entries :
        /\ announced' = announced \cup {e.invoice}
        /\ UNCHANGED <<settled, entries>>

Next == Settle \/ Enter \/ Announce

Spec == Init /\ [][Next]_<<settled, entries, announced>>
=============================================================================
