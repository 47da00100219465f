----------------------------- MODULE MCEstimate -----------------------------
(***************************************************************************)
(* Instances of the acceptance gate and of what an acceptance sets off.    *)
(* All of it at once is too much for TLC, so each behaviour has one cast:  *)
(*   pages    two accept pages, two deliveries;                            *)
(*   repeats  one page, the rep's own send, three deliveries;              *)
(*   office   one page, two deliveries, and the whole office behind them.  *)
(* Processes of a kind are alike, so they start in a fixed order.          *)
(***************************************************************************)
EXTENDS EstimateConversion, Sequences

CONSTANTS b1, b2, s1, u1, u2, c1, c2, h1, h2, h3

VARIABLE cast

MCVars == <<allVars, cast>>

PrefixOf(seq, Used(_)) == \A i \in 2..Len(seq) : Used(seq[i]) => Used(seq[i - 1])

InOrder ==
    /\ PrefixOf(<<b1, b2>>, LAMBDA b : begin[b].pc # "idle")
    /\ PrefixOf(<<u1, u2>>, LAMBDA u : submission[u] # "unused")
    /\ PrefixOf(<<c1, c2>>, LAMBDA c : checkout[c] # "unused")
    /\ PrefixOf(<<h1, h2, h3>>, LAMBDA h : hook[h] # "idle")

OnePage  == begin[b2].pc = "idle"
TwoHooks == hook[h3] = "idle"
NoRep    == send[s1].pc = "idle"

Plays ==
    CASE cast = "pages"   -> TwoHooks' /\ NoRep' /\ UNCHANGED conversionVars
      [] cast = "repeats" -> OnePage' /\ UNCHANGED conversionVars
      [] cast = "office"  -> OnePage' /\ TwoHooks' /\ NoRep'

MCInit ==
    /\ ConversionInit
    /\ cast \in {"pages", "repeats", "office"}
    /\ cast # "office" => ~openTask

MCNext ==
    /\ ConversionNext
    /\ UNCHANGED cast
    /\ InOrder'
    /\ Plays

\* The fairness of ConversionFairSpec, which only the behaviours with an office can keep
\* once an acceptance is announced: the others count for the invariants.
MCSpec ==
    /\ MCInit /\ [][MCNext]_MCVars
    /\ \A r \in Runs : WF_allVars(RunStep(r))
    /\ \A h \in Hooks : WF_allVars(\E r \in Runs : Start(r, h))
=============================================================================
