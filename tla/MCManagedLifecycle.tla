------------------------ MODULE MCManagedLifecycle ------------------------
(* Small instances of ManagedLifecycle for TLC. *)
EXTENDS ManagedLifecycle, TLC

CONSTANTS A, B, ra, rb, rx, rm

MCModelOf == [r \in Requests |-> CASE r = ra -> A
                                   [] r = rb -> B
                                   [] r = rx -> External
                                   [] r = rm -> Misconfigured]

Load(m) == [op |-> "load", model |-> m]
Unload  == [op |-> "unload"]

MCAllJobs  == {Load(A), Unload}
MCNoJobs   == {}

MCAllFaults == AllFaults
MCNoHealthFault == AllFaults \ {"health", "load_late"}
MCAnyBoot == Models \cup {NoModel}
MCColdBoot == {NoModel}
MCPolicies == {-1, 5}

\* Callbacks are alike; used where no liveness property is checked.
Symmetry == Permutations(Callbacks)
=============================================================================
