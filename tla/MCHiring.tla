----------------------------- MODULE MCHiring ------------------------------
(* Two candidates, two interviewers, two rounds and one outside of them.    *)
EXTENDS Hiring, TLC

CONSTANTS u, v

MCPeople == {u, v}
MCPanels == {(u :> "required") @@ (v :> "optional"), (u :> "out") @@ (v :> "required"), (u :> "optional") @@ (v :> "out")}
MCWorkflow == <<"first", "second">>
Symmetry == Permutations(Applications)
=============================================================================
