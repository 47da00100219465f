--------------------------- MODULE MCLeadFollowUp ---------------------------
(* Two of the runs beside one act of people, each run alone beside two.    *)
EXTENDS LeadFollowUp

MCDeliveries == {[runs |-> {"intake", "speed"}, acts |-> 1],
                 [runs |-> {"speed", "cadence"}, acts |-> 1],
                 [runs |-> {"intake"}, acts |-> 2], [runs |-> {"speed"}, acts |-> 2],
                 [runs |-> {"cadence"}, acts |-> 2]}
=============================================================================
