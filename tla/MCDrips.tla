------------------------------ MODULE MCDrips ------------------------------
(* Drips of two steps, a text and an e-mail.                               *)
EXTENDS Drips, TLC

MCChannel == [k \in 1..NumSteps |-> IF k = 1 THEN "sms" ELSE "email"]
MCSymmetry == Permutations(Runs) \cup Permutations(Drips)
=============================================================================
