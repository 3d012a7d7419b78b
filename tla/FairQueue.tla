------------------------------ MODULE FairQueue ------------------------------
(***************************************************************************)
(* The host's admission queue, internal/inference/queue.go.                *)
(*                                                                         *)
(* Every inference request that reaches a host is one call of Submit, run  *)
(* by its own goroutine.  The queue is a monitor: all of its fields are    *)
(* read and written under q.mu.  A call is refused, given a slot at once,  *)
(* or parked until dispatchNextLocked hands it a slot, its queue timer     *)
(* fires or its context is cancelled.                                      *)
(*                                                                         *)
(* An item of Items is one *queueItem, that is, one call of Submit; two    *)
(* items may carry the same member and request id (a retry of the same     *)
(* request).  Each critical section of q.mu is one action, except that the *)
(* loop of dispatchNextLocked is one action per iteration: `lock' is       *)
(* "dispatch" while the goroutine inside the loop holds q.mu, and every    *)
(* other critical section waits for "free".  Durations are abstracted: the *)
(* queue timer may fire at any time.                                       *)
(***************************************************************************)
EXTENDS Integers, Sequences, FiniteSets, SequencesExt

CONSTANTS
  Items,          \* calls of Submit: the *queueItem of each
  Members,        \* member ids
  RequestIDs,     \* request ids, chosen by the requesting member
  memberID,       \* memberID[i]: the member on whose behalf item i is run
  requestID,      \* requestID[i]: the id the member gave the request
  LimitSettings,  \* raw limits SetLimits may be called with
  NoItem          \* a missing entry of activeItems

Limits == [MaxActive : Int, MaxQueuedPerMember : Int, MaxQueuedTotal : Int]

ASSUME ConstantsAssumption ==
  /\ memberID \in [Items -> Members]
  /\ requestID \in [Items -> RequestIDs]
  /\ LimitSettings \subseteq Limits
  /\ NoItem \notin Items

VARIABLES
  limits,         \* host limits, normalized
  activeCount,    \* slots charged
  totalQueued,    \* requests waiting, over all members
  memberQueued,   \* requests waiting, per member (0 for a missing key)
  queues,         \* map from member to its waiting items, oldest first
  rotation,       \* members with waiting work, next to be served first
  activeItems,    \* map from <<member, request id>> to the item running
  closed,         \* Close has been called
  phase,          \* where the goroutine of item i is in Submit
  dispatched,     \* item.dispatched
  removed,        \* item.removed
  cancelled,      \* item.ctx is done
  lock,           \* "dispatch" while q.mu is held inside dispatchNextLocked
  bypass          \* history: bypass[w][m] counts the slots given to m since
                  \* w started to wait or was last given a slot

counters  == <<activeCount, totalQueued, memberQueued>>
queueVars == <<limits, counters, queues, rotation, activeItems, closed>>
callVars  == <<phase, dispatched, removed, cancelled>>
vars      == <<queueVars, callVars, lock, bypass>>

Keys == Members \X RequestIDs
Key(i) == <<memberID[i], requestID[i]>>

\* A Go map assignment and a Go map delete.
MapSet(f, k, v) == [x \in DOMAIN f \cup {k} |-> IF x = k THEN v ELSE f[x]]
MapDelete(f, k) == [x \in DOMAIN f \ {k} |-> f[x]]

\* A counter that the code clamps at zero after it decrements it.
ClampedSub(n, d) == IF n - d < 0 THEN 0 ELSE n - d

\* The waiting items of a member: a missing key reads as the nil slice.
Waiting(m) == IF m \in DOMAIN queues THEN queues[m] ELSE <<>>

normalizeLimits_Raw(l) == l

normalizeLimits(l) ==
  [MaxActive          |-> IF l.MaxActive <= 0 THEN 1 ELSE l.MaxActive,
   MaxQueuedPerMember |-> IF l.MaxQueuedPerMember <= 0
                            THEN 1 ELSE l.MaxQueuedPerMember,
   MaxQueuedTotal     |-> IF l.MaxQueuedTotal <= 0
                            THEN 10 ELSE l.MaxQueuedTotal]

NoBypass == [m \in Members |-> 0]

\* NewFairQueue, called with any of the settings.
Init ==
  /\ limits \in {normalizeLimits(l) : l \in LimitSettings}
  /\ activeCount = 0
  /\ totalQueued = 0
  /\ memberQueued = [m \in Members |-> 0]
  /\ queues = [m \in {} |-> <<>>]
  /\ rotation = <<>>
  /\ activeItems = [k \in Keys |-> NoItem]
  /\ closed = FALSE
  /\ phase = [i \in Items |-> "idle"]
  /\ dispatched = [i \in Items |-> FALSE]
  /\ removed = [i \in Items |-> FALSE]
  /\ cancelled = [i \in Items |-> FALSE]
  /\ lock = "free"
  /\ bypass = [w \in Members |-> NoBypass]

-----------------------------------------------------------------------------
(* dispatchNextLocked *)

\* The loop condition: a free slot and someone waiting for it.
CanDispatch ==
  /\ activeCount < limits.MaxActive
  /\ totalQueued > 0
  /\ Len(rotation) > 0

\* A call of dispatchNextLocked: the caller keeps q.mu until the loop ends.
dispatchNextLocked == lock' = IF CanDispatch' THEN "dispatch" ELSE "free"

\* History: member m is given a slot.
Served(m) ==
  bypass' = [w \in Members |->
               IF w = m THEN NoBypass
               ELSE IF w \in DOMAIN queues
                    THEN [bypass[w] EXCEPT ![m] = @ + 1]
                    ELSE bypass[w]]

\* The rotation after its head m is served and left with the items `rest':
\* a member that still waits goes to the back.
Rotated(m, rest) ==
  IF rest # <<>> THEN Append(Tail(rotation), m) ELSE Tail(rotation)

\* One iteration of the loop: the head of the rotation gets the slot.
DispatchOne ==
  /\ lock = "dispatch"
  /\ LET m     == Head(rotation)
         items == Waiting(m)
     IN IF items = <<>>
        THEN /\ rotation' = Tail(rotation)
             /\ queues' = MapDelete(queues, m)
             /\ UNCHANGED <<counters, activeItems, callVars, bypass>>
        ELSE LET next == Head(items)
                 rest == Tail(items)
             IN /\ queues' = IF rest # <<>> THEN MapSet(queues, m, rest)
                                            ELSE MapDelete(queues, m)
                /\ memberQueued' = [memberQueued EXCEPT ![m] = ClampedSub(@, 1)]
                /\ totalQueued' = totalQueued - 1
                /\ rotation' = Rotated(m, rest)
                /\ removed' = [removed EXCEPT ![next] = TRUE]
                /\ dispatched' = [dispatched EXCEPT ![next] = TRUE]
                /\ activeCount' = activeCount + 1
                /\ activeItems' = [activeItems EXCEPT ![Key(next)] = next]
                /\ Served(m)
                /\ UNCHANGED <<phase, cancelled>>
  /\ UNCHANGED <<limits, closed>>
  /\ dispatchNextLocked

-----------------------------------------------------------------------------
(* Submit *)

Duplicate(i) ==
  \/ activeItems[Key(i)] # NoItem
  \/ \E k \in DOMAIN Waiting(memberID[i]) :
        requestID[Waiting(memberID[i])[k]] = requestID[i]

QueueFull(i) ==
  \/ memberQueued[memberID[i]] >= limits.MaxQueuedPerMember
  \/ totalQueued >= limits.MaxQueuedTotal

\* The call is refused under the lock and leaves no trace.
SubmitRefused(i) ==
  /\ closed \/ Duplicate(i) \/ QueueFull(i)
  /\ phase' = [phase EXCEPT ![i] = "refused"]
  /\ UNCHANGED <<queueVars, dispatched, removed, cancelled, bypass>>

RunsAtOnce_OffByOne == activeCount <= limits.MaxActive /\ totalQueued = 0

\* A slot is free and nobody waits: the item runs at once.
RunsAtOnce == activeCount < limits.MaxActive /\ totalQueued = 0

SubmitRun(i) ==
  /\ ~closed /\ ~Duplicate(i) /\ ~QueueFull(i)
  /\ RunsAtOnce
  /\ activeCount' = activeCount + 1
  /\ activeItems' = [activeItems EXCEPT ![Key(i)] = i]
  /\ dispatched' = [dispatched EXCEPT ![i] = TRUE]
  /\ phase' = [phase EXCEPT ![i] = "running"]
  /\ Served(memberID[i])
  /\ UNCHANGED <<limits, totalQueued, memberQueued, queues, rotation, closed,
                 removed, cancelled>>

enqueueLocked_JoinsFront(i) ==
  LET m == memberID[i] IN
  /\ rotation' = IF m \notin DOMAIN queues THEN <<m>> \o rotation ELSE rotation
  /\ queues' = MapSet(queues, m, Append(Waiting(m), i))
  /\ memberQueued' = [memberQueued EXCEPT ![m] = @ + 1]
  /\ totalQueued' = totalQueued + 1

\* enqueueLocked: a member without a queue joins the end of the rotation.
enqueueLocked(i) ==
  LET m == memberID[i] IN
  /\ rotation' = IF m \notin DOMAIN queues THEN Append(rotation, m)
                                           ELSE rotation
  /\ queues' = MapSet(queues, m, Append(Waiting(m), i))
  /\ memberQueued' = [memberQueued EXCEPT ![m] = @ + 1]
  /\ totalQueued' = totalQueued + 1

SubmitQueue(i) ==
  /\ ~closed /\ ~Duplicate(i) /\ ~QueueFull(i)
  /\ ~RunsAtOnce
  /\ enqueueLocked(i)
  /\ phase' = [phase EXCEPT ![i] = "waiting"]
  /\ bypass' = IF memberID[i] \in DOMAIN queues
               THEN bypass
               ELSE [bypass EXCEPT ![memberID[i]] = NoBypass]
  /\ UNCHANGED <<limits, activeCount, activeItems, closed,
                 dispatched, removed, cancelled>>

Submit(i) ==
  /\ lock = "free"
  /\ phase[i] = "idle"
  /\ SubmitRefused(i) \/ SubmitRun(i) \/ SubmitQueue(i)
  /\ UNCHANGED lock

\* The select takes the ready branch: execute starts runFn.
WakeReady(i) ==
  /\ phase[i] = "waiting"
  /\ dispatched[i]
  /\ phase' = [phase EXCEPT ![i] = "running"]
  /\ UNCHANGED <<queueVars, dispatched, removed, cancelled, lock, bypass>>

-----------------------------------------------------------------------------
(* Leaving the queue *)

\* The effect of removeLocked on the queue's own fields.
Unlink(i) ==
  LET m    == memberID[i]
      rest == RemoveFirst(Waiting(m), i)
  IN /\ memberQueued' = [memberQueued EXCEPT ![m] = ClampedSub(@, 1)]
     /\ totalQueued' = ClampedSub(totalQueued, 1)
     /\ IF rest = <<>>
        THEN /\ queues' = MapDelete(queues, m)
             /\ rotation' = RemoveFirst(rotation, m)
        ELSE /\ queues' = MapSet(queues, m, rest)
             /\ UNCHANGED rotation

removeLocked_Twice(i) ==
  Unlink(i) /\ removed' = [removed EXCEPT ![i] = TRUE]

removeLocked(i) ==
  IF removed[i]
  THEN UNCHANGED <<memberQueued, totalQueued, queues, rotation, removed>>
  ELSE Unlink(i) /\ removed' = [removed EXCEPT ![i] = TRUE]

claimAbort_IgnoresDispatch(i) ==
  /\ phase' = [phase EXCEPT ![i] = "aborted"]
  /\ removeLocked(i)

\* claimAbort: an item that already holds a slot must still run and give it
\* back; any other item leaves the queue for good.
claimAbort(i) ==
  IF dispatched[i]
  THEN /\ phase' = [phase EXCEPT ![i] = "running"]
       /\ UNCHANGED <<memberQueued, totalQueued, queues, rotation, removed>>
  ELSE /\ phase' = [phase EXCEPT ![i] = "aborted"]
       /\ removeLocked(i)

\* The select takes the timer branch; an abandoned item is cancelled.
QueueTimeout(i) ==
  /\ lock = "free"
  /\ phase[i] = "waiting"
  /\ claimAbort(i)
  /\ cancelled' = [cancelled EXCEPT ![i] = @ \/ ~dispatched[i]]
  /\ UNCHANGED <<limits, activeCount, activeItems, closed, dispatched,
                 lock, bypass>>

\* The select takes the ctx.Done branch.
ContextDone(i) ==
  /\ lock = "free"
  /\ phase[i] = "waiting"
  /\ cancelled[i]
  /\ claimAbort(i)
  /\ UNCHANGED <<limits, activeCount, activeItems, closed, dispatched,
                 cancelled, lock, bypass>>

\* The caller of Submit cancels its own context, from any goroutine.
CallerCancel(i) ==
  /\ phase[i] \in {"idle", "waiting", "running"}
  /\ ~cancelled[i]
  /\ cancelled' = [cancelled EXCEPT ![i] = TRUE]
  /\ UNCHANGED <<queueVars, phase, dispatched, removed, lock, bypass>>

\* execute, from the return of runFn on: only the item that is recorded
\* under its key gives the slot back.
Finish(i) ==
  /\ lock = "free"
  /\ phase[i] = "running"
  /\ phase' = [phase EXCEPT ![i] = "ran"]
  /\ IF activeItems[Key(i)] = i
     THEN /\ activeItems' = [activeItems EXCEPT ![Key(i)] = NoItem]
          /\ activeCount' = ClampedSub(activeCount, 1)
          /\ UNCHANGED <<limits, totalQueued, memberQueued, queues, rotation,
                         closed>>
          /\ dispatchNextLocked
     ELSE UNCHANGED <<queueVars, lock>>
  /\ cancelled' = [cancelled EXCEPT ![i] = TRUE]
  /\ UNCHANGED <<dispatched, removed, bypass>>

-----------------------------------------------------------------------------
(* Operations of other goroutines *)

SetLimits_NoDispatch(l) ==
  /\ lock = "free"
  /\ limits' = normalizeLimits(l)
  /\ UNCHANGED <<counters, queues, rotation, activeItems, closed, callVars,
                 lock, bypass>>

SetLimits(l) ==
  /\ lock = "free"
  /\ limits' = normalizeLimits(l)
  /\ UNCHANGED <<counters, queues, rotation, activeItems, closed, callVars,
                 bypass>>
  /\ dispatchNextLocked

\* The waiting item of member m with request id r, if the queue holds one.
QueuedUnder(m, r) ==
  {i \in ToSet(Waiting(m)) : requestID[i] = r}

CancelQueued(i) ==
  /\ removeLocked(i)
  /\ cancelled' = [cancelled EXCEPT ![i] = TRUE]
  /\ UNCHANGED <<limits, activeCount, activeItems, closed, phase, dispatched,
                 bypass>>
  /\ dispatchNextLocked

\* Cancel: an active request has its context cancelled and keeps its slot
\* until runFn returns; a waiting one leaves the queue.
Cancel(r, m) ==
  /\ lock = "free"
  /\ IF activeItems[<<m, r>>] # NoItem
     THEN /\ cancelled' = [cancelled EXCEPT ![activeItems[<<m, r>>]] = TRUE]
          /\ UNCHANGED <<queueVars, phase, dispatched, removed, lock, bypass>>
     ELSE \E i \in QueuedUnder(m, r) : CancelQueued(i)

\* CancelMember: every request of the member is cancelled, and the ones that
\* wait leave the queue.
CancelMember(m) ==
  LET items  == ToSet(Waiting(m))
      active == {activeItems[k] : k \in {m} \X RequestIDs} \ {NoItem}
  IN /\ lock = "free"
     /\ cancelled' = [i \in Items |-> cancelled[i] \/ i \in items \cup active]
     /\ removed' = [i \in Items |-> removed[i] \/ i \in items]
     /\ memberQueued' =
          [memberQueued EXCEPT ![m] = ClampedSub(@, Len(Waiting(m)))]
     /\ totalQueued' = ClampedSub(totalQueued, Len(Waiting(m)))
     /\ queues' = IF items = {} THEN queues ELSE MapDelete(queues, m)
     /\ rotation' = IF items = {} THEN rotation ELSE RemoveFirst(rotation, m)
     /\ UNCHANGED <<limits, activeCount, activeItems, closed, phase,
                    dispatched, bypass>>
     /\ dispatchNextLocked

\* Close: no new work is admitted and every context is cancelled.  Waiting
\* items stay queued until their own goroutines remove them.
Close ==
  /\ lock = "free"
  /\ closed' = TRUE
  /\ cancelled' = [i \in Items |->
                     \/ cancelled[i]
                     \/ activeItems[Key(i)] = i
                     \/ i \in ToSet(Waiting(memberID[i]))]
  /\ UNCHANGED <<limits, counters, queues, rotation, activeItems,
                 phase, dispatched, removed, lock, bypass>>

-----------------------------------------------------------------------------
Next ==
  \/ DispatchOne
  \/ \E i \in Items : \/ Submit(i)
                      \/ WakeReady(i)
                      \/ QueueTimeout(i)
                      \/ ContextDone(i)
                      \/ CallerCancel(i)
                      \/ Finish(i)
  \/ \E l \in LimitSettings : SetLimits(l)
  \/ \E r \in RequestIDs, m \in Members : Cancel(r, m)
  \/ \E m \in Members : CancelMember(m)
  \/ Close

Spec == Init /\ [][Next]_vars

\* The goroutine inside the loop keeps running, a goroutine whose ready or
\* Done channel is closed is scheduled, and runFn returns (execute bounds it
\* with ExecTimeout).  Nothing is assumed of the queue timer, of the callers
\* or of the host's operator.
Fairness ==
  /\ WF_vars(DispatchOne)
  /\ \A i \in Items : /\ WF_vars(WakeReady(i))
                      /\ WF_vars(ContextDone(i))
                      /\ WF_vars(Finish(i))

FairSpec == Spec /\ Fairness

-----------------------------------------------------------------------------
(* Properties *)

Phases == {"idle", "waiting", "running", "ran", "aborted", "refused"}

\* The items that wait for a slot, and the keys that hold one.
Queued == {i \in Items : phase[i] = "waiting" /\ ~removed[i]}
Active == {k \in Keys : activeItems[k] # NoItem}

\* Every field of the queue and of its items has the type queue.go gives it.
TypeOK ==
  /\ limits \in [MaxActive : Nat \ {0}, MaxQueuedPerMember : Nat \ {0},
                 MaxQueuedTotal : Nat \ {0}]
  /\ activeCount \in Nat
  /\ totalQueued \in Nat
  /\ memberQueued \in [Members -> Nat]
  /\ DOMAIN queues \subseteq Members
  /\ queues \in [DOMAIN queues -> Seq(Items)]
  /\ rotation \in Seq(Members)
  /\ activeItems \in [Keys -> Items \cup {NoItem}]
  /\ closed \in BOOLEAN
  /\ phase \in [Items -> Phases]
  /\ dispatched \in [Items -> BOOLEAN]
  /\ removed \in [Items -> BOOLEAN]
  /\ cancelled \in [Items -> BOOLEAN]
  /\ lock \in {"free", "dispatch"}
  /\ bypass \in [Members -> [Members -> Nat]]

\* The three counters agree with what they count, whatever order aborts,
\* cancellations and dispatches of one item come in: a second decrement for
\* the same item (queue.go:68-71) would let a member exceed its limit, a
\* missing one would refuse the member for ever.
CountersExact ==
  /\ activeCount = Cardinality(Active)
  /\ totalQueued = Cardinality(Queued)
  /\ \A m \in Members : memberQueued[m] = Len(Waiting(m))

\* The rotation lists exactly the members that have a queue, each once, and
\* no queue in the map is empty.  A member with work that is missing from
\* the rotation is never served; one listed twice is served twice a round.
RotationExact ==
  /\ ToSet(rotation) = DOMAIN queues
  /\ IsInjective(rotation)
  /\ \A m \in DOMAIN queues : queues[m] # <<>>

\* A queue holds exactly its member's items that still wait, each once.
QueuesExact ==
  \A m \in Members :
    /\ ToSet(Waiting(m)) = {i \in Queued : memberID[i] = m}
    /\ IsInjective(Waiting(m))

\* An item is charged a slot exactly while its call is dispatched and has not
\* returned (queue.go:63-66): no slot is leaked by an item that was abandoned
\* in the instant it was dispatched, none is released by another request
\* under the same key, and an abandoned item never runs.
SlotsHeld ==
  /\ \A i \in Items :
       activeItems[Key(i)] = i <=> /\ dispatched[i]
                                   /\ phase[i] \in {"waiting", "running"}
  /\ \A k \in Active : Key(activeItems[k]) = k
  /\ \A i \in Items : phase[i] \in {"running", "ran"} => dispatched[i]
  /\ \A i \in Items : phase[i] \in {"idle", "aborted", "refused"} => ~dispatched[i]

\* Among the items that wait or hold a slot, no two share a member and a
\* request id, so Cancel and the release of a slot, which find an item by
\* that key, always find the right one.
RequestsUnique ==
  \A i \in Queued :
    /\ activeItems[Key(i)] = NoItem
    /\ \A j \in Queued : Key(j) = Key(i) => j = i

\* The queue's bookkeeping never drifts from what it describes: counters,
\* rotation, queues and request keys stay exact together, whichever of the
\* waiter, Cancel, CancelMember, dispatch and Close unlinks an item first.
Bookkeeping == CountersExact /\ RotationExact /\ QueuesExact /\ RequestsUnique

\* Whenever q.mu is free and somebody waits, every slot is taken.  Aborts do
\* not call dispatchNextLocked and Submit runs an item at once only when
\* nobody waits; both are right because of this.
WorkConserving ==
  lock = "free" /\ totalQueued > 0 => activeCount >= limits.MaxActive

\* "One member with a deep queue cannot starve the others" (queue.go:79-81):
\* while a member waits, no other member is given a slot more than once
\* before it is.
BoundedBypass ==
  \A w \in DOMAIN queues : \A m \in Members \ {w} : bypass[w][m] <= 1

\* A slot is handed out only below the current limit, also when SetLimits has
\* just lowered it under the number of requests that run.
SlotsWithinLimit ==
  [][activeCount' > activeCount => activeCount' <= limits'.MaxActive]_vars

\* Every admitted call of Submit returns, without help from the queue timer:
\* runs that end free slots, and freed slots reach every member that waits.
EveryCallReturns ==
  \A i \in Items :
    phase[i] \in {"waiting", "running"} ~> phase[i] \in {"ran", "aborted"}

-----------------------------------------------------------------------------
(* The inductive invariant *)

\* The flags of an item agree with where its goroutine is.
FlagsExact ==
  \A i \in Items :
    /\ phase[i] = "idle" => ~removed[i]
    /\ phase[i] = "waiting" /\ dispatched[i] => removed[i]

\* q.mu is held inside the loop only while the loop has something to do.
LockExact == lock = "dispatch" => CanDispatch

\* A member further ahead in the rotation has not been served since a member
\* behind it started to wait: its next turn is the first.
BypassOrder ==
  \A j, k \in 1..Len(rotation) :
    j < k => bypass[rotation[k]][rotation[j]] = 0

FairQueueInv ==
  /\ TypeOK
  /\ CountersExact
  /\ IsFiniteSet(Active) /\ IsFiniteSet(Queued)
  /\ RotationExact
  /\ QueuesExact
  /\ SlotsHeld
  /\ RequestsUnique
  /\ FlagsExact
  /\ LockExact
  /\ WorkConserving
  /\ BypassOrder
  /\ BoundedBypass

-----------------------------------------------------------------------------
(* Refinement *)

\* What has become of a call, as its caller could tell.  An item that Cancel
\* or CancelMember removed has left although its goroutine has not noticed.
FateOf(i) ==
  CASE phase[i] = "idle"    -> "new"
    [] phase[i] = "refused" -> "refused"
    [] phase[i] = "running" -> "holding"
    [] phase[i] = "ran"     -> "done"
    [] phase[i] = "aborted" -> "left"
    [] phase[i] = "waiting" -> IF dispatched[i] THEN "holding"
                               ELSE IF removed[i] THEN "left" ELSE "parked"

Pool == INSTANCE SlotPool WITH
  slots <- limits.MaxActive,
  fate  <- [i \in Items |-> FateOf(i)],
  line  <- [m \in Members |-> Waiting(m)]

\* The queue implements the pool it promises: Submit, the select races,
\* Cancel, CancelMember, Close and SetLimits start no request above the
\* limit, twice, out of its member's order, or after it has left.
ImplementsSlotPool == Pool!PoolSpec
=============================================================================
