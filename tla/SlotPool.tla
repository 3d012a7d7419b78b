------------------------------ MODULE SlotPool ------------------------------
(***************************************************************************)
(* What the host's admission queue promises to its callers, without saying *)
(* how: at most `slots' requests are started at a time, a request starts   *)
(* at most once and leaves in one way only, each member's requests start   *)
(* in the order they were parked, and no request jumps over a line.        *)
(***************************************************************************)
EXTENDS Integers, Sequences, FiniteSets, SequencesExt

CONSTANTS
  Items,     \* requests
  Members,   \* members
  memberID   \* memberID[i]: the member that asks for i

VARIABLES
  slots,     \* requests that may hold a slot
  fate,      \* what has become of each request
  line       \* line[m]: the parked requests of m, oldest first

poolVars == <<slots, fate, line>>

Fates == {"new", "parked", "holding", "done", "left", "refused"}

Holding == {i \in Items : fate[i] = "holding"}

SlotFree == Cardinality(Holding) < slots

PoolInit ==
  /\ slots \in Nat \ {0}
  /\ fate = [i \in Items |-> "new"]
  /\ line = [m \in Members |-> <<>>]

Refuse(i) ==
  /\ fate[i] = "new"
  /\ fate' = [fate EXCEPT ![i] = "refused"]
  /\ UNCHANGED <<slots, line>>

\* Nobody is in line, so nobody is overtaken.
Enter(i) ==
  /\ fate[i] = "new"
  /\ SlotFree
  /\ \A m \in Members : line[m] = <<>>
  /\ fate' = [fate EXCEPT ![i] = "holding"]
  /\ UNCHANGED <<slots, line>>

Park(i) ==
  /\ fate[i] = "new"
  /\ fate' = [fate EXCEPT ![i] = "parked"]
  /\ line' = [line EXCEPT ![memberID[i]] = Append(@, i)]
  /\ UNCHANGED slots

\* The oldest request of some line gets a slot.
Start(m) ==
  /\ SlotFree
  /\ line[m] # <<>>
  /\ fate' = [fate EXCEPT ![Head(line[m])] = "holding"]
  /\ line' = [line EXCEPT ![m] = Tail(@)]
  /\ UNCHANGED slots

\* A parked request gives up, or all of a member's are withdrawn.
Leave(i) ==
  /\ fate[i] = "parked"
  /\ fate' = [fate EXCEPT ![i] = "left"]
  /\ line' = [line EXCEPT ![memberID[i]] = RemoveFirst(@, i)]
  /\ UNCHANGED slots

Withdraw(m) ==
  /\ line[m] # <<>>
  /\ fate' = [i \in Items |-> IF i \in ToSet(line[m]) THEN "left" ELSE fate[i]]
  /\ line' = [line EXCEPT ![m] = <<>>]
  /\ UNCHANGED slots

Release(i) ==
  /\ fate[i] = "holding"
  /\ fate' = [fate EXCEPT ![i] = "done"]
  /\ UNCHANGED <<slots, line>>

Resize ==
  /\ slots' \in Nat \ {0}
  /\ UNCHANGED <<fate, line>>

PoolNext ==
  \/ \E i \in Items : Refuse(i) \/ Enter(i) \/ Park(i) \/ Leave(i) \/ Release(i)
  \/ \E m \in Members : Start(m) \/ Withdraw(m)
  \/ Resize

PoolSpec == PoolInit /\ [][PoolNext]_poolVars
=============================================================================
