-------------------------- MODULE MCRoomMembership --------------------------
(* Small instances of RoomMembership for TLC. *)
EXTENDS RoomMembership, TLC

Symmetry == Permutations(Handlers)

\* Every property speaks of what happens before a loss.  At most two tasks are
\* in progress at the same time, a joiner that has been answered counted.
Bounded ==
  /\ lost = {}
  /\ Cardinality({p \in Procs : pc[p] # "idle"})
       + Cardinality({j \in Joiners : client[j] \in {"answered", "storing"}}) <= 2
=============================================================================
