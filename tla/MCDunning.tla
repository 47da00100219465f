----------------------------- MODULE MCDunning -----------------------------
(***************************************************************************)
(* Instances of the money path and of dunning, every invoice for 2 cents:  *)
(* all that matters is whether the recorded charges reach the amount due.  *)
(* Each behaviour has one of three casts, as all at once are too much:     *)
(*   sends     two invoices, two numbered sends, a depreciation send;      *)
(*   payments  one invoice and one send, a Checkout session, two           *)
(*             deliveries and the dunning run;                             *)
(*   revivals  one invoice and one send, the depreciation send and the     *)
(*             dunning run.                                                *)
(***************************************************************************)
EXTENDS Dunning

CONSTANTS i1, i2, s1, s2, a1, p1, d1, d2

VARIABLE cast

MCVars == <<dunningVars, revived, cast>>
MCAmountDue == [i \in Invoices |-> 2]

NoMoney == session[p1].phase = "unused"
NoRun == \A r \in Runs : run[r].pc = "idle"
OneSend == invoice[i2].status = "absent" /\ sending[s2].pc = "idle"
NoApproval == approving[a1].pc = "idle"

MCInit ==
    /\ DunningInit
    /\ cast \in {"sends", "payments", "revivals"}

MCNext ==
    /\ DunningNext
    /\ UNCHANGED cast
    /\ cast = "sends" => NoMoney' /\ NoRun'
    /\ cast = "payments" => OneSend' /\ NoApproval'
    /\ cast = "revivals" => OneSend' /\ NoMoney'

\* The fairness of DunningFairSpec: it asks for no step the casts refuse.
MCSpec ==
    /\ MCInit /\ [][MCNext]_MCVars
    /\ Fairness
    /\ \A r \in Runs : WF_dunningVars(RunStep(r))
=============================================================================
