------------------------ MODULE MCRunnerController ------------------------
(* Small instances of RunnerController for TLC. *)
EXTENDS RunnerController, TLC

CONSTANTS A, B, m1, m2

Load(m, d)  == [op |-> "load", args |-> [model |-> m, draft |-> d]]
Infer(m, w) == [op |-> "infer", model |-> m, member |-> w]
Unload      == [op |-> "unload"]
Restart     == [op |-> "restart"]

MCBodies == {Load(A, TRUE), Load(B, FALSE), Unload, Restart,
             Infer(A, m1), Infer(A, m2), Infer(Unnamed, m2)}

Symmetry == Permutations(Handlers) \cup Permutations(Engines)
=============================================================================
