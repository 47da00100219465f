------------------------------- MODULE MCJob -------------------------------
(***************************************************************************)
(* One job, in two casts:                                                  *)
(*   stages  two movers of it and two deliveries of invoice/paid;          *)
(*   ledger  three tasks in a row, the third depending on both before it.  *)
(***************************************************************************)
EXTENDS JobStages, TaskLedger, TLC

VARIABLE cast

MCVars == <<vars, ledgerVars, cast>>
MCThree == 1..3
MCChain == <<{}, {1}, {1, 2}>>
MCSymmetry == Permutations(Movers) \cup Permutations(Recorders)

\* What a cast does not play stays as it started.
MCInit ==
    /\ Init /\ LedgerInit /\ cast \in {"stages", "ledger"}
    /\ cast = "stages" => enabled = {}

MCNext ==
    /\ UNCHANGED cast
    /\ \/ cast = "stages" /\ Next /\ UNCHANGED ledgerVars
       \/ cast = "ledger" /\ LedgerNext /\ UNCHANGED vars

MCSpec == MCInit /\ [][MCNext]_MCVars
=============================================================================
