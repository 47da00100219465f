----------------------------- MODULE MCBilling -----------------------------
(***************************************************************************)
(* Instances of what is billed beside the invoices of a roof, one cast of  *)
(* actors for each behaviour:                                              *)
(*   changes  a change order, an addition of 2 or a credit of 1 on a       *)
(*            contract of 5, delivered twice; a run is named after the     *)
(*            delivery that started it;                                    *)
(*   certs    one certificate request, booked twice;                       *)
(*   queue    two certificate requests, booked once each, none declined.   *)
(***************************************************************************)
EXTENDS ChangeOrders, CertRequests

CONSTANTS r1, r2, d1, d2, c1, c2, b1, b2

VARIABLE cast

MCVars == <<vars, certVars, cast>>
MCTotals == {2, -1}

Named == run[r1].by # d2 /\ run[r2].by # d1
OneRequest == /\ declining.of # c2 /\ \A b \in Bookings : booking[b].of # c2
              /\ booking[b2].pc # "idle" => booking[b1].pc # "idle"
BookedOnce == /\ declining = NoDecline /\ booking[b1].of # c2 /\ booking[b2].of # c1

MCInit ==
    /\ Init /\ CertInit
    /\ cast \in {"changes", "certs", "queue"}
    /\ cast = "changes" => ~stripe
    /\ cast = "queue" => stripe

MCNext ==
    /\ UNCHANGED cast
    /\ \/ cast = "changes" /\ Next /\ Named' /\ UNCHANGED certVars
       \/ cast = "certs" /\ CertNext /\ OneRequest' /\ UNCHANGED vars
       \/ cast = "queue" /\ CertNext /\ BookedOnce' /\ UNCHANGED vars

\* The fairness of FairSpec and of CertFairSpec.
MCSpec ==
    /\ MCInit /\ [][MCNext]_MCVars
    /\ Fairness
    /\ WF_certVars(CertSweepStep)
=============================================================================
