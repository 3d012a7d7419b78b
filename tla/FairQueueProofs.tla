--------------------------- MODULE FairQueueProofs ---------------------------
(***************************************************************************)
(* FairQueueInv is inductive, hence every invariant the runs of FairQueue  *)
(* check holds for every set of items, members and limits, and the queue   *)
(* implements SlotPool.  Liveness is left to the model checker.            *)
(***************************************************************************)
EXTENDS FairQueue, FiniteSetTheorems, SequenceTheorems, TLAPS

-----------------------------------------------------------------------------
(* Sequences without repetition, as lines of waiting items: what joining at
   the end, serving the head and leaving from the middle do to the set of
   elements and to their order *)

\* x stands before y in s.
Before(s, x, y) ==
  \E j, k \in 1..Len(s) : j < k /\ s[j] = x /\ s[k] = y

\* The elements of a sequence are the values at its positions.
LEMMA ToSetPositions ==
  ASSUME NEW S, NEW s \in Seq(S)
  PROVE  /\ \A x : x \in ToSet(s) <=> \E j \in 1..Len(s) : s[j] = x
         /\ ToSet(s) \subseteq S
         /\ s = <<>> <=> ToSet(s) = {}
<1>1. DOMAIN s = 1..Len(s) /\ Len(s) \in Nat /\ \A j \in 1..Len(s) : s[j] \in S
  BY LenProperties
<1>2. \A x : x \in ToSet(s) <=> \E j \in 1..Len(s) : s[j] = x
  BY <1>1 DEF ToSet
<1>3. s = <<>> => ToSet(s) = {}
  BY <1>2, EmptySeq
<1>4. s # <<>> => 1 \in 1..Len(s)
  BY <1>1, EmptySeq
<1>5. s # <<>> => ToSet(s) # {}
  BY <1>2, <1>4
<1> QED BY <1>1, <1>2, <1>3, <1>5

\* Append adds the element behind everyone else.
LEMMA AppendSet ==
  ASSUME NEW S, NEW s \in Seq(S), NEW e \in S
  PROVE  /\ Append(s, e) \in Seq(S)
         /\ Len(Append(s, e)) = Len(s) + 1
         /\ ToSet(Append(s, e)) = ToSet(s) \cup {e}
         /\ IsInjective(s) /\ e \notin ToSet(s) => IsInjective(Append(s, e))
         /\ \A x, y : Before(Append(s, e), x, y)
                        => Before(s, x, y) \/ (y = e /\ x \in ToSet(s))
<1> DEFINE t == Append(s, e)
<1>1. /\ t \in Seq(S)
      /\ Len(t) = Len(s) + 1
      /\ \A j \in 1..Len(s) : t[j] = s[j]
      /\ t[Len(s) + 1] = e
  BY AppendProperties
<1>2. Len(s) \in Nat
  BY LenProperties
<1> HIDE DEF t
<1>3. \A x : x \in ToSet(s) <=> \E j \in 1..Len(s) : s[j] = x
  BY ToSetPositions
<1>4. \A x : x \in ToSet(t) <=> \E j \in 1..Len(t) : t[j] = x
  BY <1>1, ToSetPositions
<1>5. ToSet(t) = ToSet(s) \cup {e}
  <2>1. \A x : x \in ToSet(t) => x \in ToSet(s) \cup {e}
    BY <1>1, <1>2, <1>3, <1>4
  <2>2. \A x \in ToSet(s) : x \in ToSet(t)
    BY <1>1, <1>2, <1>3, <1>4
  <2>3. e \in ToSet(t)
    BY <1>1, <1>2, <1>4
  <2> QED BY <2>1, <2>2, <2>3
<1>6. ASSUME IsInjective(s), e \notin ToSet(s)
      PROVE  IsInjective(t)
  <2>1. DOMAIN s = 1..Len(s) /\ DOMAIN t = 1..Len(t)
    BY <1>1, LenProperties
  <2>2. \A j, k \in 1..Len(s) : s[j] = s[k] => j = k
    BY <1>6, <2>1 DEF IsInjective
  <2>3. \A j \in 1..Len(s) : s[j] # e
    BY <1>3, <1>6
  <2>4. \A j, k \in 1..Len(t) : t[j] = t[k] => j = k
    BY <1>1, <1>2, <2>2, <2>3
  <2> QED BY <2>1, <2>4 DEF IsInjective
<1>7. ASSUME NEW x, NEW y, Before(t, x, y)
      PROVE  Before(s, x, y) \/ (y = e /\ x \in ToSet(s))
  BY <1>1, <1>2, <1>3, <1>7 DEF Before
<1> QED BY <1>1, <1>5, <1>6, <1>7 DEF t

\* Tail drops the head and keeps the others in order; the head stood before
\* all of them.
LEMMA TailSet ==
  ASSUME NEW S, NEW s \in Seq(S), s # <<>>, IsInjective(s)
  PROVE  /\ Head(s) \in ToSet(s)
         /\ Tail(s) \in Seq(S)
         /\ Len(Tail(s)) = Len(s) - 1
         /\ ToSet(Tail(s)) = ToSet(s) \ {Head(s)}
         /\ IsInjective(Tail(s))
         /\ \A x, y : Before(Tail(s), x, y) => Before(s, x, y)
         /\ \A y \in ToSet(s) \ {Head(s)} : Before(s, Head(s), y)
<1> DEFINE t == Tail(s)
<1>1. /\ t \in Seq(S)
      /\ Len(t) = Len(s) - 1
      /\ \A j \in 1..Len(t) : t[j] = s[j+1]
  BY HeadTailProperties
<1>2. Len(s) \in Nat \ {0} /\ Head(s) = s[1]
  BY EmptySeq
<1> HIDE DEF t
<1>3. \A x : x \in ToSet(s) <=> \E j \in 1..Len(s) : s[j] = x
  BY ToSetPositions
<1>4. \A x : x \in ToSet(t) <=> \E j \in 1..Len(t) : t[j] = x
  BY <1>1, ToSetPositions
<1>5. DOMAIN s = 1..Len(s) /\ DOMAIN t = 1..Len(t)
  BY <1>1, LenProperties
<1>6. \A j, k \in 1..Len(s) : s[j] = s[k] => j = k
  BY <1>5 DEF IsInjective
<1>7. ToSet(t) = ToSet(s) \ {Head(s)}
  <2>1. \A x \in ToSet(t) : x \in ToSet(s) /\ x # Head(s)
    <3> SUFFICES ASSUME NEW x \in ToSet(t) PROVE x \in ToSet(s) /\ x # Head(s)
      OBVIOUS
    <3>1. PICK j \in 1..Len(t) : t[j] = x
      BY <1>4
    <3>2. j + 1 \in 1..Len(s) /\ s[j+1] = x /\ j + 1 # 1
      BY <1>1, <1>2, <3>1
    <3>3. 1 \in 1..Len(s)
      BY <1>2
    <3> QED BY <1>2, <1>3, <1>6, <3>2, <3>3
  <2>2. \A x \in ToSet(s) \ {Head(s)} : x \in ToSet(t)
    <3> SUFFICES ASSUME NEW x \in ToSet(s), x # Head(s) PROVE x \in ToSet(t)
      OBVIOUS
    <3>1. PICK j \in 1..Len(s) : s[j] = x
      BY <1>3
    <3>2. j - 1 \in 1..Len(t) /\ t[j-1] = x
      BY <1>1, <1>2, <3>1
    <3> QED BY <1>4, <3>2
  <2> QED BY <2>1, <2>2
<1>8. \A j, k \in 1..Len(t) : t[j] = t[k] => j = k
  BY <1>1, <1>2, <1>6
<1>9. IsInjective(t)
  BY <1>5, <1>8 DEF IsInjective
<1>10. \A x, y : Before(t, x, y) => Before(s, x, y)
  <2> SUFFICES ASSUME NEW x, NEW y, Before(t, x, y) PROVE Before(s, x, y)
    OBVIOUS
  <2>1. PICK j, k \in 1..Len(t) : j < k /\ t[j] = x /\ t[k] = y
    BY DEF Before
  <2>2. j+1 \in 1..Len(s) /\ k+1 \in 1..Len(s) /\ j+1 < k+1
    BY <1>1, <1>2, <2>1
  <2>3. s[j+1] = x /\ s[k+1] = y
    BY <1>1, <2>1
  <2> QED BY <2>2, <2>3 DEF Before
<1>11. \A y \in ToSet(s) \ {Head(s)} : Before(s, Head(s), y)
  <2> SUFFICES ASSUME NEW y \in ToSet(s), y # Head(s) PROVE Before(s, Head(s), y)
    OBVIOUS
  <2>1. PICK k \in 1..Len(s) : s[k] = y
    BY <1>3
  <2>2. 1 \in 1..Len(s) /\ 1 < k
    BY <1>2, <2>1
  <2> QED BY <1>2, <2>1, <2>2 DEF Before
<1>12. Head(s) \in ToSet(s)
  BY <1>2, <1>3
<1> QED BY <1>1, <1>7, <1>9, <1>10, <1>11, <1>12 DEF t

\* RemoveAt closes the gap at position k.
LEMMA RemoveAtPositions ==
  ASSUME NEW S, NEW s \in Seq(S), NEW k \in 1..Len(s)
  PROVE  /\ RemoveAt(s, k) \in Seq(S)
         /\ Len(RemoveAt(s, k)) = Len(s) - 1
         /\ \A j \in 1..(Len(s) - 1) :
              RemoveAt(s, k)[j] = IF j < k THEN s[j] ELSE s[j+1]
<1> DEFINE p == SubSeq(s, 1, k-1)
           q == SubSeq(s, k+1, Len(s))
<1>1. p \in Seq(S) /\ Len(p) = k - 1 /\ \A i \in 1..(k-1) : p[i] = s[i]
  BY SubSeqProperties
<1>2. /\ q \in Seq(S)
      /\ Len(q) = Len(s) - k
      /\ \A i \in 1..(Len(s)-k) : q[i] = s[k+i]
  BY SubSeqProperties
<1>3. RemoveAt(s, k) = p \o q
  BY DEF RemoveAt
<1> HIDE DEF p, q
<1>4. /\ p \o q \in Seq(S)
      /\ Len(p \o q) = Len(p) + Len(q)
      /\ \A i \in 1..(Len(p) + Len(q)) :
           (p \o q)[i] = IF i <= Len(p) THEN p[i] ELSE q[i - Len(p)]
  BY <1>1, <1>2, ConcatProperties
<1>5. Len(s) \in Nat
  BY LenProperties
<1>6. ASSUME NEW j \in 1..(Len(s) - 1)
      PROVE  (p \o q)[j] = IF j < k THEN s[j] ELSE s[j+1]
  <2>1. CASE j < k
    BY <1>1, <1>2, <1>4, <1>5, <2>1
  <2>2. CASE ~(j < k)
    <3>1. j - (k-1) \in 1..(Len(s)-k) /\ k + (j - (k-1)) = j + 1
      BY <1>5, <2>2
    <3>2. (p \o q)[j] = q[j - (k-1)]
      BY <1>1, <1>2, <1>4, <1>5, <2>2
    <3> QED BY <1>2, <2>2, <3>1, <3>2
  <2> QED BY <2>1, <2>2
<1> QED BY <1>1, <1>2, <1>3, <1>4, <1>5, <1>6

\* RemoveFirst takes the element out and keeps the others in order.
LEMMA RemoveFirstSet ==
  ASSUME NEW S, NEW s \in Seq(S), NEW e \in ToSet(s), IsInjective(s)
  PROVE  /\ RemoveFirst(s, e) \in Seq(S)
         /\ Len(RemoveFirst(s, e)) = Len(s) - 1
         /\ ToSet(RemoveFirst(s, e)) = ToSet(s) \ {e}
         /\ IsInjective(RemoveFirst(s, e))
         /\ \A x, y : Before(RemoveFirst(s, e), x, y) => Before(s, x, y)
<1>1. DOMAIN s = 1..Len(s) /\ Len(s) \in Nat
  BY LenProperties
<1>2. PICK k \in 1..Len(s) : s[k] = e
  BY ToSetPositions
<1>3. \A j, l \in 1..Len(s) : s[j] = s[l] => j = l
  BY <1>1 DEF IsInjective
<1>4. SelectInSeq(s, LAMBDA v : v = e) = k
  <2>1. {j \in 1..Len(s) : s[j] = e} = {k}
    BY <1>2, <1>3
  <2>2. Min({k}) = k
    BY DEF Min
  <2> QED BY <2>1, <2>2 DEF SelectInSeq
<1>5. RemoveFirst(s, e) = RemoveAt(s, k)
  BY <1>2, <1>4 DEF RemoveFirst
<1> DEFINE t == RemoveAt(s, k)
<1>6. /\ t \in Seq(S)
      /\ Len(t) = Len(s) - 1
      /\ \A j \in 1..(Len(s) - 1) : t[j] = IF j < k THEN s[j] ELSE s[j+1]
  BY RemoveAtPositions
<1> HIDE DEF t
<1>7. DOMAIN t = 1..Len(t)
  BY <1>6, LenProperties
<1>8. \A x : x \in ToSet(s) <=> \E j \in 1..Len(s) : s[j] = x
  BY ToSetPositions
<1>9. \A x : x \in ToSet(t) <=> \E j \in 1..Len(t) : t[j] = x
  BY <1>6, ToSetPositions
<1>10. \A j, l \in 1..Len(t) : t[j] = t[l] => j = l
  BY <1>1, <1>2, <1>3, <1>6
<1>11. ToSet(t) = ToSet(s) \ {e}
  <2>1. \A x \in ToSet(t) : x \in ToSet(s) /\ x # e
    BY <1>1, <1>2, <1>3, <1>6, <1>8, <1>9
  <2>2. \A x \in ToSet(s) \ {e} : x \in ToSet(t)
    <3> SUFFICES ASSUME NEW x \in ToSet(s), x # e PROVE x \in ToSet(t)
      OBVIOUS
    <3>1. PICK j \in 1..Len(s) : s[j] = x
      BY <1>8
    <3>2. CASE j < k
      BY <1>1, <1>6, <1>9, <3>1, <3>2
    <3>3. CASE j > k
      <4>1. j - 1 \in 1..Len(t) /\ t[j-1] = x
        BY <1>1, <1>6, <3>1, <3>3
      <4> QED BY <1>9, <4>1
    <3> QED BY <1>2, <3>1, <3>2, <3>3
  <2> QED BY <2>1, <2>2
<1>12. \A x, y : Before(t, x, y) => Before(s, x, y)
  <2> SUFFICES ASSUME NEW x, NEW y, Before(t, x, y) PROVE Before(s, x, y)
    OBVIOUS
  <2>1. PICK j, l \in 1..Len(t) : j < l /\ t[j] = x /\ t[l] = y
    BY DEF Before
  <2> DEFINE at(n) == IF n < k THEN n ELSE n + 1
  <2>2. at(j) \in 1..Len(s) /\ at(l) \in 1..Len(s) /\ at(j) < at(l)
    BY <1>1, <1>6, <2>1
  <2>3. s[at(j)] = x /\ s[at(l)] = y
    BY <1>1, <1>6, <2>1
  <2> QED BY <2>2, <2>3 DEF Before
<1> QED BY <1>5, <1>6, <1>7, <1>10, <1>11, <1>12 DEF t, IsInjective

USE ConstantsAssumption

-----------------------------------------------------------------------------
(* Facts about one state *)

\* The part of the invariant that is about the queue's own fields.
QueueInv ==
  /\ TypeOK
  /\ CountersExact
  /\ IsFiniteSet(Active) /\ IsFiniteSet(Queued)
  /\ RotationExact
  /\ QueuesExact

\* The waiting items of a member form a sequence, empty exactly when the
\* member has no queue.
LEMMA WaitingFacts ==
  ASSUME TypeOK, RotationExact, NEW m \in Members
  PROVE  /\ Waiting(m) \in Seq(Items)
         /\ m \in DOMAIN queues <=> Waiting(m) # <<>>
BY EmptySeq DEF TypeOK, RotationExact, Waiting

\* A queued item stands in its member's queue, under a key of its own.
LEMMA QueuedFacts ==
  ASSUME QueuesExact, NEW i \in Queued
  PROVE  /\ i \in Items
         /\ memberID[i] \in Members
         /\ Key(i) \in Keys
         /\ i \in ToSet(Waiting(memberID[i]))
BY DEF QueuesExact, Queued, Key, Keys

\* When somebody waits, the rotation is not empty.
LEMMA RotationNonEmpty ==
  QueueInv => (totalQueued > 0 => Len(rotation) > 0)
<1> SUFFICES ASSUME QueueInv, totalQueued > 0
             PROVE  Len(rotation) > 0
  OBVIOUS
<1> USE DEF QueueInv
<1>1. Queued # {}
  BY FS_EmptySet DEF CountersExact
<1>2. PICK i : i \in Queued
  BY <1>1
<1>3. i \in ToSet(Waiting(memberID[i])) /\ memberID[i] \in Members
  BY <1>2, QueuedFacts
<1>4. Waiting(memberID[i]) # <<>>
  BY <1>3, WaitingFacts, ToSetPositions
<1>5. memberID[i] \in ToSet(rotation)
  BY <1>3, <1>4, WaitingFacts DEF RotationExact
<1>6. rotation \in Seq(Members)
  BY DEF TypeOK
<1>7. PICK j \in 1..Len(rotation) : rotation[j] = memberID[i]
  BY <1>5, <1>6, ToSetPositions
<1> QED BY <1>6, <1>7, LenProperties

\* The number of elements of a sequence without repetition is its length.
LEMMA InjectiveLen ==
  ASSUME NEW S, NEW s \in Seq(S), IsInjective(s)
  PROVE  IsFiniteSet(ToSet(s)) /\ Cardinality(ToSet(s)) = Len(s)
<1>1. Len(s) \in Nat /\ DOMAIN s = 1..Len(s) /\ s \in [1..Len(s) -> S]
  BY LenProperties
<1>2. \A x : x \in ToSet(s) <=> \E j \in 1..Len(s) : s[j] = x
  BY ToSetPositions
<1>3. \A j, k \in 1..Len(s) : s[j] = s[k] => j = k
  BY <1>1 DEF IsInjective
<1>4. s \in Bijection(1..Len(s), ToSet(s))
  BY <1>1, <1>2, <1>3 DEF Bijection, Injection, Surjection, IsInjective
<1>5. ExistsBijection(1..Len(s), ToSet(s))
  BY <1>4 DEF ExistsBijection
<1>6. IsFiniteSet(1..Len(s)) /\ Cardinality(1..Len(s)) = Len(s)
  <2>1. 1 \in Int /\ Len(s) \in Int
    BY <1>1
  <2>2. /\ IsFiniteSet(1..Len(s))
        /\ Cardinality(1..Len(s)) = IF 1 > Len(s) THEN 0 ELSE Len(s) - 1 + 1
    BY <2>1, FS_Interval
  <2> QED BY <1>1, <2>2
<1> QED BY <1>5, <1>6, FS_Bijection

\* Taking a finite part out of a finite set.
LEMMA RemovePart ==
  ASSUME NEW S, IsFiniteSet(S), NEW T \in SUBSET S
  PROVE  /\ IsFiniteSet(S \ T)
         /\ Cardinality(S \ T) = Cardinality(S) - Cardinality(T)
<1>1. IsFiniteSet(T) /\ IsFiniteSet(S \ T)
  BY FS_Subset
<1>2. (S \ T) \cup T = S /\ (S \ T) \cap T = {}
  OBVIOUS
<1>3. Cardinality(S) = Cardinality(S \ T) + Cardinality(T) - 0
  BY <1>1, <1>2, FS_Union, FS_EmptySet
<1>4. Cardinality(S) \in Nat /\ Cardinality(T) \in Nat /\ Cardinality(S \ T) \in Nat
  BY <1>1, FS_CardinalityType
<1> QED BY <1>1, <1>3, <1>4

-----------------------------------------------------------------------------
(* Init *)

\* Normalized limits are positive.
LEMMA NormalizedType ==
  ASSUME NEW l \in LimitSettings
  PROVE  normalizeLimits(l) \in [MaxActive : Nat \ {0},
            MaxQueuedPerMember : Nat \ {0}, MaxQueuedTotal : Nat \ {0}]
<1>1. l.MaxActive \in Int /\ l.MaxQueuedPerMember \in Int /\ l.MaxQueuedTotal \in Int
  BY DEF Limits
<1> QED BY <1>1 DEF normalizeLimits

\* A new queue satisfies the invariant.
LEMMA InitInv == Init => FairQueueInv
<1> SUFFICES ASSUME Init PROVE FairQueueInv
  OBVIOUS
<1> USE DEF Init
<1>1. TypeOK
  <2>1. limits \in [MaxActive : Nat \ {0}, MaxQueuedPerMember : Nat \ {0},
                    MaxQueuedTotal : Nat \ {0}]
    BY NormalizedType
  <2>2. rotation \in Seq(Members)
    BY EmptySeq
  <2>3. DOMAIN queues \subseteq Members /\ queues \in [DOMAIN queues -> Seq(Items)]
    OBVIOUS
  <2>4. /\ dispatched \in [Items -> BOOLEAN]
        /\ removed \in [Items -> BOOLEAN]
        /\ cancelled \in [Items -> BOOLEAN]
        /\ closed \in BOOLEAN
    OBVIOUS
  <2>5. bypass \in [Members -> [Members -> Nat]]
    BY DEF NoBypass
  <2>6. activeItems \in [Keys -> Items \cup {NoItem}] /\ phase \in [Items -> Phases]
    BY DEF Phases
  <2> QED BY <2>1, <2>2, <2>3, <2>4, <2>5, <2>6 DEF TypeOK
<1>2. Active = {} /\ Queued = {}
  BY DEF Active, Queued
<1>3. IsFiniteSet(Active) /\ IsFiniteSet(Queued)
  BY <1>2, FS_EmptySet
<1>4. \A m \in Members : Waiting(m) = <<>>
  BY DEF Waiting
<1>5. CountersExact
  BY <1>2, <1>4, FS_EmptySet DEF CountersExact
<1>6. ToSet(<<>>) = {} /\ IsInjective(<<>>)
  BY DEF ToSet, IsInjective
<1>7. RotationExact
  BY <1>6 DEF RotationExact
<1>8. QueuesExact
  BY <1>2, <1>4, <1>6 DEF QueuesExact
<1>9. SlotsHeld
  BY <1>2 DEF SlotsHeld, Key, Keys
<1>10. RequestsUnique /\ FlagsExact /\ LockExact /\ WorkConserving
  BY <1>2 DEF RequestsUnique, FlagsExact, LockExact, WorkConserving
<1>11. BypassOrder /\ BoundedBypass
  BY DEF BypassOrder, BoundedBypass
<1> QED BY <1>1, <1>3, <1>5, <1>7, <1>8, <1>9, <1>10, <1>11 DEF FairQueueInv

-----------------------------------------------------------------------------
(* Steps *)

\* A call of dispatchNextLocked leaves the lock held exactly when there is a
\* slot to hand out.
LEMMA DispatchCall ==
  ASSUME QueueInv', dispatchNextLocked
  PROVE  WorkConserving' /\ LockExact'
<1>1. QueueInv' => (totalQueued > 0 => Len(rotation) > 0)'
  BY RotationNonEmpty, PTL
<1>2. /\ activeCount' \in Nat /\ totalQueued' \in Nat
      /\ limits'.MaxActive \in Nat
  BY DEF QueueInv, TypeOK
<1> QED BY <1>1, <1>2 DEF dispatchNextLocked, WorkConserving, LockExact, CanDispatch

\* A step that leaves the queue's fields and the set of waiting items alone
\* keeps what is said about them.
LEMMA QueueFrame ==
  ASSUME FairQueueInv,
         UNCHANGED <<counters, queues, rotation, activeItems, bypass>>,
         Queued' = Queued
  PROVE  /\ CountersExact'
         /\ IsFiniteSet(Active') /\ IsFiniteSet(Queued')
         /\ RotationExact'
         /\ QueuesExact'
         /\ RequestsUnique'
         /\ BypassOrder'
         /\ BoundedBypass'
<1> USE DEF FairQueueInv, counters
<1>1. Active' = Active
  BY DEF Active
<1>2. \A m \in Members : Waiting(m)' = Waiting(m)
  BY DEF Waiting
<1>3. CountersExact'
  BY <1>1, <1>2 DEF CountersExact
<1>4. RotationExact'
  BY DEF RotationExact
<1>5. QueuesExact'
  BY <1>2 DEF QueuesExact
<1>6. RequestsUnique'
  BY DEF RequestsUnique
<1>7. BypassOrder' /\ BoundedBypass'
  BY DEF BypassOrder, BoundedBypass
<1> QED BY <1>1, <1>3, <1>4, <1>5, <1>6, <1>7

\* A refused call leaves no trace in the queue.
LEMMA SubmitRefusedInv ==
  ASSUME FairQueueInv, NEW i \in Items, phase[i] = "idle", SubmitRefused(i),
         UNCHANGED lock
  PROVE  FairQueueInv'
<1> USE DEF FairQueueInv, SubmitRefused, queueVars, counters
<1>1. TypeOK'
  BY DEF TypeOK, Phases
<1>2. Queued' = Queued
  BY <1>1 DEF Queued, TypeOK
<1>3. SlotsHeld'
  BY DEF SlotsHeld, Active, TypeOK
<1>4. FlagsExact' /\ LockExact' /\ WorkConserving'
  BY DEF FlagsExact, LockExact, CanDispatch, WorkConserving, TypeOK
<1> QED BY <1>1, <1>2, <1>3, <1>4, QueueFrame

\* A goroutine that wakes up to its slot is charged for it already.
LEMMA WakeReadyInv ==
  ASSUME FairQueueInv, NEW i \in Items, WakeReady(i)
  PROVE  FairQueueInv'
<1> USE DEF FairQueueInv, WakeReady, queueVars, counters
<1>1. TypeOK'
  BY DEF TypeOK, Phases
<1>2. Queued' = Queued
  BY <1>1 DEF Queued, TypeOK, FlagsExact
<1>3. SlotsHeld'
  BY DEF SlotsHeld, Active, TypeOK
<1>4. FlagsExact' /\ LockExact' /\ WorkConserving'
  BY DEF FlagsExact, LockExact, CanDispatch, WorkConserving, TypeOK
<1> QED BY <1>1, <1>2, <1>3, <1>4, QueueFrame

\* Cancelling contexts and closing the queue move no item.
LEMMA ContextInv ==
  ASSUME FairQueueInv, TypeOK',
         UNCHANGED <<limits, counters, queues, rotation, activeItems,
                     phase, dispatched, removed, lock, bypass>>
  PROVE  FairQueueInv'
<1> USE DEF FairQueueInv, counters
<1>1. Queued' = Queued
  BY DEF Queued
<1>2. SlotsHeld'
  BY DEF SlotsHeld, Active
<1>3. FlagsExact' /\ LockExact' /\ WorkConserving'
  BY DEF FlagsExact, LockExact, CanDispatch, WorkConserving
<1> QED BY <1>1, <1>2, <1>3, QueueFrame

\* A caller that cancels its context moves no item.
LEMMA CallerCancelInv ==
  ASSUME FairQueueInv, NEW i \in Items, CallerCancel(i)
  PROVE  FairQueueInv'
<1>1. TypeOK'
  BY DEF FairQueueInv, TypeOK, CallerCancel, queueVars, counters
<1> QED BY <1>1, ContextInv DEF CallerCancel, queueVars, counters

\* Close cancels contexts and moves no item.
LEMMA CloseInv ==
  ASSUME FairQueueInv, Close
  PROVE  FairQueueInv'
<1>1. cancelled' \in [Items -> BOOLEAN] /\ closed' \in BOOLEAN
  BY DEF FairQueueInv, TypeOK, Close
<1>2. TypeOK'
  BY <1>1 DEF FairQueueInv, TypeOK, Close, counters
<1> QED BY <1>2, ContextInv DEF Close

\* New limits are followed by a dispatch.
LEMMA SetLimitsInv ==
  ASSUME FairQueueInv, NEW l \in LimitSettings, SetLimits(l)
  PROVE  FairQueueInv'
<1> USE DEF FairQueueInv, SetLimits, counters, callVars
<1>1. lock' \in {"free", "dispatch"}
  BY DEF dispatchNextLocked
<1>2. TypeOK'
  BY <1>1, NormalizedType DEF TypeOK
<1>3. Queued' = Queued
  BY DEF Queued
<1>4. SlotsHeld' /\ FlagsExact'
  BY DEF SlotsHeld, Active, FlagsExact
<1>5. QueueInv'
  BY <1>2, <1>3, QueueFrame DEF QueueInv
<1>6. WorkConserving' /\ LockExact'
  BY <1>5, DispatchCall
<1> QED BY <1>2, <1>3, <1>4, <1>6, QueueFrame

\* An item that runs at once takes a free slot under a fresh key.
LEMMA SubmitRunInv ==
  ASSUME FairQueueInv, NEW i \in Items, phase[i] = "idle", lock = "free",
         SubmitRun(i), UNCHANGED lock
  PROVE  FairQueueInv'
<1> USE DEF FairQueueInv, SubmitRun
<1>1. memberID[i] \in Members /\ Key(i) \in Keys
  BY DEF Key, Keys
<1>2. activeItems[Key(i)] = NoItem /\ totalQueued = 0
  BY DEF Duplicate, RunsAtOnce
<1>3. bypass' \in [Members -> [Members -> Nat]]
  BY <1>1 DEF TypeOK, Served, NoBypass
<1>4. TypeOK'
  BY <1>1, <1>3 DEF TypeOK, Phases
<1>5. Queued' = Queued /\ Queued = {}
  <2>1. Queued = {}
    BY <1>2, FS_EmptySet DEF CountersExact
  <2>2. Queued' = Queued
    BY DEF Queued, TypeOK
  <2> QED BY <2>1, <2>2
<1>6. \A m \in Members : Waiting(m) = <<>> /\ Waiting(m)' = <<>>
  <2>1. \A m \in Members : Waiting(m)' = Waiting(m)
    BY DEF Waiting
  <2>2. \A m \in Members : ToSet(Waiting(m)) = {}
    BY <1>5 DEF QueuesExact
  <2> QED BY <2>1, <2>2, WaitingFacts, ToSetPositions
<1>7. DOMAIN queues = {} /\ DOMAIN queues' = {}
  BY <1>6, WaitingFacts DEF TypeOK
<1>8. Active' = Active \cup {Key(i)} /\ Key(i) \notin Active
  BY <1>1, <1>2 DEF Active, TypeOK
<1>9. IsFiniteSet(Active') /\ Cardinality(Active') = Cardinality(Active) + 1
  BY <1>8, FS_AddElement
<1>10. CountersExact'
  BY <1>5, <1>6, <1>9 DEF CountersExact
<1>11. RotationExact'
  BY DEF RotationExact
<1>12. QueuesExact'
  BY <1>5, <1>6 DEF QueuesExact
<1>13. SlotsHeld'
  <2>1. \A j \in Items : Key(j) \in Keys
    BY DEF Key, Keys
  <2>2. \A j \in Items : activeItems'[Key(j)] = j <=>
           j = i \/ (Key(j) # Key(i) /\ activeItems[Key(j)] = j)
    BY <1>1, <1>2, <2>1 DEF TypeOK
  <2>3. \A j \in Items : Key(j) = Key(i) /\ j # i
           => ~(dispatched[j] /\ phase[j] \in {"waiting", "running"})
    BY <1>2 DEF SlotsHeld
  <2>4. \A j \in Items :
       activeItems'[Key(j)] = j <=> /\ dispatched'[j]
                                    /\ phase'[j] \in {"waiting", "running"}
    BY <2>2, <2>3 DEF SlotsHeld, TypeOK
  <2>5. \A k \in Active' : Key(activeItems'[k]) = k
    BY <1>1, <1>8 DEF SlotsHeld, TypeOK, Active
  <2> QED BY <2>4, <2>5 DEF SlotsHeld, TypeOK
<1>14. RequestsUnique'
  BY <1>5 DEF RequestsUnique
<1>15. FlagsExact' /\ LockExact' /\ WorkConserving'
  BY <1>2 DEF FlagsExact, LockExact, WorkConserving, TypeOK
<1>16. BypassOrder' /\ BoundedBypass'
  <2>1. \A j \in 1..Len(rotation) : rotation[j] \in DOMAIN queues
    BY ToSetPositions DEF RotationExact, TypeOK
  <2>2. \A j \in 1..Len(rotation') : FALSE
    BY <1>7, <2>1
  <2> QED BY <1>7, <2>2 DEF BypassOrder, BoundedBypass
<1> QED
  BY <1>4, <1>5, <1>9, <1>10, <1>11, <1>12, <1>13, <1>14, <1>15, <1>16

\* An item that returns from runFn gives its slot back, and the slot is
\* offered to the next in the rotation.
LEMMA FinishInv ==
  ASSUME FairQueueInv, NEW i \in Items, Finish(i)
  PROVE  FairQueueInv'
<1> USE DEF FairQueueInv, Finish
<1>1. Key(i) \in Keys /\ \A j \in Items : Key(j) \in Keys
  BY DEF Key, Keys
<1>2. activeItems[Key(i)] = i
  BY DEF SlotsHeld
<1>3. Key(i) \in Active
  BY <1>1, <1>2 DEF Active
<1>4. Active' = Active \ {Key(i)}
  BY <1>1, <1>2 DEF Active, TypeOK
<1>5. IsFiniteSet(Active') /\ Cardinality(Active') = Cardinality(Active) - 1
  BY <1>3, <1>4, FS_RemoveElement
<1>6. Cardinality(Active) \in Nat /\ Cardinality(Active') \in Nat
  BY <1>5, FS_CardinalityType
<1>7. activeCount' = activeCount - 1 /\ activeCount' \in Nat
  BY <1>2, <1>5, <1>6 DEF CountersExact, ClampedSub
<1>8. lock' \in {"free", "dispatch"}
  BY <1>2 DEF dispatchNextLocked
<1>9. TypeOK'
  BY <1>1, <1>2, <1>7, <1>8 DEF TypeOK, Phases
<1>10. Queued' = Queued
  BY DEF Queued, TypeOK
<1>11. \A m \in Members : Waiting(m)' = Waiting(m)
  BY <1>2 DEF Waiting
<1>12. CountersExact'
  BY <1>2, <1>5, <1>7, <1>10, <1>11 DEF CountersExact
<1>13. RotationExact'
  BY <1>2 DEF RotationExact
<1>14. QueuesExact'
  BY <1>10, <1>11 DEF QueuesExact
<1>15. SlotsHeld'
  <2>1. \A j \in Items : activeItems'[Key(j)] = j <=>
           j # i /\ activeItems[Key(j)] = j
    BY <1>1, <1>2 DEF TypeOK
  <2>2. \A j \in Items :
       activeItems'[Key(j)] = j <=> /\ dispatched'[j]
                                    /\ phase'[j] \in {"waiting", "running"}
    BY <2>1 DEF SlotsHeld, TypeOK
  <2>3. \A k \in Active' : Key(activeItems'[k]) = k
    BY <1>1, <1>2, <1>4 DEF SlotsHeld, TypeOK, Active
  <2> QED BY <2>2, <2>3 DEF SlotsHeld, TypeOK
<1>16. RequestsUnique'
  BY <1>1, <1>2, <1>10 DEF RequestsUnique, TypeOK, Queued
<1>17. FlagsExact'
  BY DEF FlagsExact, TypeOK
<1>18. QueueInv'
  BY <1>5, <1>9, <1>10, <1>12, <1>13, <1>14 DEF QueueInv
<1>19. WorkConserving' /\ LockExact'
  BY <1>2, <1>18, DispatchCall
<1>20. BypassOrder' /\ BoundedBypass'
  BY <1>2 DEF BypassOrder, BoundedBypass
<1> QED
  BY <1>5, <1>9, <1>10, <1>12, <1>13, <1>14, <1>15, <1>16, <1>17, <1>19, <1>20

\* A parked item joins the end of its member's queue, and a member without a
\* queue joins the end of the rotation.
LEMMA SubmitQueueInv ==
  ASSUME FairQueueInv, NEW i \in Items, phase[i] = "idle", lock = "free",
         SubmitQueue(i), UNCHANGED lock
  PROVE  FairQueueInv'
<1> DEFINE m == memberID[i]
<1> USE DEF FairQueueInv
<1>1. /\ m \in Members
      /\ Key(i) \in Keys
      /\ activeItems[Key(i)] = NoItem
      /\ ~Duplicate(i)
  BY DEF Key, Keys, SubmitQueue, Duplicate
<1>2. /\ rotation' = IF m \notin DOMAIN queues THEN Append(rotation, m) ELSE rotation
      /\ queues' = MapSet(queues, m, Append(Waiting(m), i))
      /\ memberQueued' = [memberQueued EXCEPT ![m] = @ + 1]
      /\ totalQueued' = totalQueued + 1
      /\ phase' = [phase EXCEPT ![i] = "waiting"]
      /\ bypass' = IF m \in DOMAIN queues THEN bypass
                   ELSE [bypass EXCEPT ![m] = NoBypass]
      /\ UNCHANGED <<limits, activeCount, activeItems, closed,
                     dispatched, removed, cancelled>>
  BY DEF SubmitQueue, enqueueLocked
<1>3. activeCount >= limits.MaxActive
  BY DEF SubmitQueue, RunsAtOnce, WorkConserving, TypeOK
<1>4. Waiting(m) \in Seq(Items) /\ IsInjective(Waiting(m))
  BY <1>1, WaitingFacts DEF QueuesExact
<1>5. i \notin Queued /\ i \notin ToSet(Waiting(m))
  BY <1>1 DEF Queued, QueuesExact
<1> DEFINE w == Append(Waiting(m), i)
<1>6. /\ w \in Seq(Items)
      /\ Len(w) = Len(Waiting(m)) + 1
      /\ ToSet(w) = ToSet(Waiting(m)) \cup {i}
      /\ IsInjective(w)
      /\ w # <<>>
  BY <1>4, <1>5, AppendSet, AppendProperties
<1>7. rotation \in Seq(Members) /\ IsInjective(rotation) /\ ToSet(rotation) = DOMAIN queues
  BY DEF TypeOK, RotationExact
<1>8. /\ rotation' \in Seq(Members)
      /\ IsInjective(rotation')
      /\ ToSet(rotation') = DOMAIN queues \cup {m}
      /\ \A x, y : Before(rotation', x, y)
           => Before(rotation, x, y) \/ (m \notin DOMAIN queues /\ y = m)
  BY <1>1, <1>2, <1>7, AppendSet
<1> HIDE DEF w
<1>9. /\ DOMAIN queues' = DOMAIN queues \cup {m}
      /\ \A n \in DOMAIN queues' : queues'[n] = IF n = m THEN w ELSE queues[n]
      /\ queues' \in [DOMAIN queues' -> Seq(Items)]
  BY <1>2, <1>6 DEF MapSet, TypeOK, w
<1>10. \A n \in Members : Waiting(n)' = IF n = m THEN w ELSE Waiting(n)
  BY <1>9 DEF Waiting
<1>11. bypass' \in [Members -> [Members -> Nat]]
  BY <1>1, <1>2 DEF TypeOK, NoBypass
<1>12. TypeOK'
  <2>1. /\ memberQueued' \in [Members -> Nat] /\ totalQueued' \in Nat
        /\ phase' \in [Items -> Phases] /\ DOMAIN queues' \subseteq Members
    BY <1>1, <1>2, <1>9 DEF TypeOK, Phases
  <2>2. queues' \in [DOMAIN queues' -> Seq(Items)] /\ rotation' \in Seq(Members)
    BY <1>8, <1>9
  <2>3. /\ limits' = limits /\ activeCount' = activeCount /\ activeItems' = activeItems
        /\ closed' = closed /\ dispatched' = dispatched /\ removed' = removed
        /\ cancelled' = cancelled /\ lock' = lock
    BY <1>2
  <2> QED BY <1>11, <2>1, <2>2, <2>3 DEF TypeOK
<1>13. Queued' = Queued \cup {i} /\ Active' = Active
  BY <1>2 DEF Queued, Active, TypeOK, FlagsExact
<1>14. IsFiniteSet(Queued') /\ Cardinality(Queued') = Cardinality(Queued) + 1
  BY <1>5, <1>13, FS_AddElement
<1>15. CountersExact'
  BY <1>2, <1>6, <1>10, <1>13, <1>14 DEF CountersExact, TypeOK
<1>16. RotationExact'
  BY <1>6, <1>8, <1>9 DEF RotationExact
<1>17. QueuesExact'
  BY <1>5, <1>6, <1>10, <1>13 DEF QueuesExact
<1>18. SlotsHeld'
  BY <1>1, <1>2 DEF SlotsHeld, Active, TypeOK
<1>19. RequestsUnique'
  <2>1. \A j \in Queued : Key(j) # Key(i)
    <3> SUFFICES ASSUME NEW j \in Queued, Key(j) = Key(i) PROVE FALSE
      OBVIOUS
    <3>1. memberID[j] = m /\ requestID[j] = requestID[i]
      BY DEF Key
    <3>2. j \in ToSet(Waiting(m))
      BY <3>1, QueuedFacts
    <3> QED BY <1>1, <3>1, <3>2 DEF Duplicate, ToSet
  <2> QED BY <1>1, <1>2, <1>13, <2>1 DEF RequestsUnique
<1>20. FlagsExact' /\ LockExact' /\ WorkConserving'
  <2>1. ~dispatched[i]
    BY DEF SlotsHeld
  <2> QED BY <1>2, <1>3, <2>1 DEF FlagsExact, LockExact, WorkConserving, TypeOK
<1>21. BypassOrder'
  <2> SUFFICES ASSUME NEW j \in 1..Len(rotation'), NEW k \in 1..Len(rotation'),
                      j < k
               PROVE  bypass'[rotation'[k]][rotation'[j]] = 0
    BY DEF BypassOrder
  <2>1. Before(rotation', rotation'[j], rotation'[k])
    BY DEF Before
  <2>2. rotation'[j] \in Members /\ rotation'[k] \in Members
    BY <1>8, ElementOfSeq
  <2>3. CASE m \notin DOMAIN queues /\ rotation'[k] = m
    BY <1>1, <1>2, <2>2, <2>3 DEF TypeOK, NoBypass
  <2>4. CASE ~(m \notin DOMAIN queues /\ rotation'[k] = m)
    <3>1. Before(rotation, rotation'[j], rotation'[k])
      BY <1>8, <2>1, <2>4
    <3>2. bypass[rotation'[k]][rotation'[j]] = 0
      BY <3>1 DEF Before, BypassOrder
    <3> QED BY <1>1, <1>2, <2>2, <2>4, <3>2 DEF TypeOK
  <2> QED BY <2>3, <2>4
<1>22. BoundedBypass'
  BY <1>1, <1>2, <1>9 DEF BoundedBypass, TypeOK, NoBypass
<1> QED
  BY <1>12, <1>13, <1>14, <1>15, <1>16, <1>17, <1>18, <1>19, <1>20, <1>21, <1>22

\* Unlinking a waiting item takes it out of its member's queue, and its member
\* out of the rotation when no other item waits.
LEMMA UnlinkFacts ==
  ASSUME FairQueueInv, NEW i \in Queued, Unlink(i), UNCHANGED bypass
  PROVE  /\ DOMAIN queues' \subseteq DOMAIN queues
         /\ queues' \in [DOMAIN queues' -> Seq(Items)]
         /\ rotation' \in Seq(Members)
         /\ memberQueued' \in [Members -> Nat]
         /\ totalQueued' = totalQueued - 1 /\ totalQueued' \in Nat
         /\ RotationExact'
         /\ \A n \in Members :
              /\ memberQueued'[n] = Len(Waiting(n)')
              /\ IsInjective(Waiting(n)')
              /\ ToSet(Waiting(n)') = ToSet(Waiting(n)) \ {i}
         /\ BypassOrder'
         /\ BoundedBypass'
<1> DEFINE m == memberID[i]
           rest == RemoveFirst(Waiting(m), i)
<1> USE DEF FairQueueInv
<1>1. i \in Items /\ m \in Members /\ i \in ToSet(Waiting(m))
  BY QueuedFacts
<1>2. Waiting(m) \in Seq(Items) /\ IsInjective(Waiting(m)) /\ Len(Waiting(m)) \in Nat
  BY <1>1, WaitingFacts, LenProperties DEF QueuesExact
<1>3. /\ rest \in Seq(Items)
      /\ Len(rest) = Len(Waiting(m)) - 1
      /\ ToSet(rest) = ToSet(Waiting(m)) \ {i}
      /\ IsInjective(rest)
      /\ Len(rest) \in Nat
  BY <1>1, <1>2, RemoveFirstSet, LenProperties
<1>4. /\ memberQueued' = [memberQueued EXCEPT ![m] = ClampedSub(@, 1)]
      /\ totalQueued' = ClampedSub(totalQueued, 1)
      /\ rest = <<>> => /\ queues' = MapDelete(queues, m)
                        /\ rotation' = RemoveFirst(rotation, m)
      /\ rest # <<>> => /\ queues' = MapSet(queues, m, rest)
                        /\ rotation' = rotation
  BY DEF Unlink
<1> HIDE DEF rest
<1>5. m \in DOMAIN queues
  BY <1>1, <1>2, WaitingFacts, ToSetPositions
<1>6. rotation \in Seq(Members) /\ IsInjective(rotation) /\ ToSet(rotation) = DOMAIN queues
  BY DEF TypeOK, RotationExact
<1>7. /\ rotation' \in Seq(Members)
      /\ IsInjective(rotation')
      /\ ToSet(rotation') = IF rest = <<>> THEN DOMAIN queues \ {m} ELSE DOMAIN queues
      /\ \A x, y : Before(rotation', x, y) => Before(rotation, x, y)
  BY <1>4, <1>5, <1>6, RemoveFirstSet
<1>8. /\ DOMAIN queues' = IF rest = <<>> THEN DOMAIN queues \ {m} ELSE DOMAIN queues
      /\ \A n \in DOMAIN queues' : queues'[n] = IF n = m THEN rest ELSE queues[n]
      /\ queues' \in [DOMAIN queues' -> Seq(Items)]
  <2>1. CASE rest = <<>>
    BY <1>4, <2>1 DEF MapDelete, TypeOK
  <2>2. CASE rest # <<>>
    <3>1. queues' = [x \in DOMAIN queues \cup {m} |-> IF x = m THEN rest ELSE queues[x]]
      BY <1>4, <2>2 DEF MapSet
    <3>2. DOMAIN queues \cup {m} = DOMAIN queues
      BY <1>5
    <3>3. queues \in [DOMAIN queues -> Seq(Items)]
      BY DEF TypeOK
    <3> QED BY <1>3, <2>2, <3>1, <3>2, <3>3
  <2> QED BY <2>1, <2>2
<1>9. \A n \in Members : Waiting(n)' = IF n = m THEN rest ELSE Waiting(n)
  BY <1>8, <1>5 DEF Waiting
<1>10. RotationExact'
  BY <1>7, <1>8 DEF RotationExact
<1>11. memberQueued[m] = Len(Waiting(m)) /\ memberQueued \in [Members -> Nat]
  BY <1>1 DEF CountersExact, TypeOK
<1>12. memberQueued' = [memberQueued EXCEPT ![m] = Len(rest)]
  <2>1. ClampedSub(memberQueued[m], 1) = Len(rest)
    BY <1>2, <1>3, <1>11 DEF ClampedSub
  <2> QED BY <1>4, <2>1
<1>13. \A n \in Members : n # m => i \notin ToSet(Waiting(n))
  BY DEF QueuesExact
<1>14. ASSUME NEW n \in Members
       PROVE  /\ memberQueued'[n] = Len(Waiting(n)')
              /\ IsInjective(Waiting(n)')
              /\ ToSet(Waiting(n)') = ToSet(Waiting(n)) \ {i}
  <2>1. CASE n = m
    BY <1>3, <1>9, <1>11, <1>12, <2>1
  <2>2. CASE n # m
    BY <1>9, <1>11, <1>12, <1>13, <2>2 DEF QueuesExact, CountersExact
  <2> QED BY <2>1, <2>2
<1>15. totalQueued' = totalQueued - 1 /\ totalQueued' \in Nat
  <2>1. totalQueued # 0 /\ totalQueued \in Nat
    BY FS_EmptySet DEF CountersExact, TypeOK
  <2> QED BY <1>4, <2>1 DEF ClampedSub
<1>16. BypassOrder'
  <2> SUFFICES ASSUME NEW j \in 1..Len(rotation'), NEW k \in 1..Len(rotation'),
                      j < k
               PROVE  bypass[rotation'[k]][rotation'[j]] = 0
    BY DEF BypassOrder
  <2>1. Before(rotation', rotation'[j], rotation'[k])
    BY DEF Before
  <2>2. Before(rotation, rotation'[j], rotation'[k])
    BY <1>7, <2>1
  <2> QED BY <2>2 DEF Before, BypassOrder
<1>17. BoundedBypass'
  BY <1>8 DEF BoundedBypass
<1>18. memberQueued' \in [Members -> Nat]
  BY <1>3, <1>11, <1>12
<1> QED BY <1>7, <1>8, <1>10, <1>14, <1>15, <1>16, <1>17, <1>18

\* Removing a waiting item, whether its goroutine returns with it or not,
\* keeps everything but what depends on the lock.
LEMMA RemoveWaiting ==
  ASSUME FairQueueInv, NEW i \in Queued, Unlink(i),
         removed' = [removed EXCEPT ![i] = TRUE],
         phase' = phase \/ phase' = [phase EXCEPT ![i] = "aborted"],
         cancelled' \in [Items -> BOOLEAN],
         lock' \in {"free", "dispatch"},
         UNCHANGED <<limits, activeCount, activeItems, closed, dispatched, bypass>>
  PROVE  /\ QueueInv'
         /\ SlotsHeld'
         /\ RequestsUnique'
         /\ FlagsExact'
         /\ BypassOrder'
         /\ BoundedBypass'
<1> USE DEF FairQueueInv
<1>1. i \in Items /\ phase[i] = "waiting" /\ ~removed[i]
  BY DEF Queued
<1>2. ~dispatched[i]
  BY <1>1 DEF FlagsExact
<1>3. phase' \in [Items -> Phases] /\ removed' \in [Items -> BOOLEAN]
  BY <1>1 DEF TypeOK, Phases
<1>4. TypeOK'
  BY <1>3, UnlinkFacts DEF TypeOK
<1>5. Active' = Active
  BY DEF Active
<1>6. Queued' = Queued \ {i}
  BY <1>1 DEF Queued, TypeOK
<1>7. IsFiniteSet(Queued') /\ Cardinality(Queued') = Cardinality(Queued) - 1
  BY <1>6, FS_RemoveElement
<1>8. CountersExact'
  BY <1>5, <1>7, UnlinkFacts DEF CountersExact
<1>9. QueuesExact'
  BY <1>6, UnlinkFacts DEF QueuesExact
<1>10. QueueInv'
  BY <1>4, <1>5, <1>7, <1>8, <1>9, UnlinkFacts DEF QueueInv
<1>11. SlotsHeld'
  <2>1. /\ \A j \in Items : j # i => phase'[j] = phase[j]
        /\ phase'[i] \in {"waiting", "aborted"}
    BY <1>1 DEF TypeOK
  <2>2. \A j \in Items : activeItems'[Key(j)] = j <=>
           /\ dispatched'[j]
           /\ phase'[j] \in {"waiting", "running"}
    BY <1>1, <1>2, <2>1 DEF SlotsHeld
  <2> QED BY <1>1, <1>2, <1>5, <2>1, <2>2 DEF SlotsHeld
<1>12. RequestsUnique'
  BY <1>6 DEF RequestsUnique
<1>13. FlagsExact'
  BY <1>1, <1>2 DEF FlagsExact, TypeOK
<1> QED BY <1>10, <1>11, <1>12, <1>13, UnlinkFacts

\* Giving up on a timeout or a cancelled context: a dispatched item runs, an
\* item that was removed already just returns, and any other one leaves.
LEMMA ClaimAbortInv ==
  ASSUME FairQueueInv, NEW i \in Items, lock = "free", phase[i] = "waiting",
         claimAbort(i), cancelled' \in [Items -> BOOLEAN],
         UNCHANGED <<limits, activeCount, activeItems, closed, dispatched, lock,
                     bypass>>
  PROVE  FairQueueInv'
<1> USE DEF FairQueueInv
<1>1. CASE dispatched[i]
  <2>1. /\ phase' = [phase EXCEPT ![i] = "running"]
        /\ UNCHANGED <<memberQueued, totalQueued, queues, rotation, removed>>
    BY <1>1 DEF claimAbort
  <2>2. TypeOK'
    BY <2>1 DEF TypeOK, Phases
  <2>3. Queued' = Queued
    BY <1>1, <2>1 DEF Queued, TypeOK, FlagsExact
  <2>4. SlotsHeld'
    BY <1>1, <2>1 DEF SlotsHeld, Active, TypeOK
  <2>5. FlagsExact' /\ LockExact' /\ WorkConserving'
    BY <1>1, <2>1 DEF FlagsExact, LockExact, WorkConserving, TypeOK
  <2> QED BY <2>1, <2>2, <2>3, <2>4, <2>5, QueueFrame DEF counters
<1>2. CASE ~dispatched[i] /\ removed[i]
  <2>1. /\ phase' = [phase EXCEPT ![i] = "aborted"]
        /\ UNCHANGED <<memberQueued, totalQueued, queues, rotation, removed>>
    BY <1>2 DEF claimAbort, removeLocked
  <2>2. TypeOK'
    BY <2>1 DEF TypeOK, Phases
  <2>3. Queued' = Queued
    BY <1>2, <2>1 DEF Queued, TypeOK
  <2>4. SlotsHeld'
    BY <1>2, <2>1 DEF SlotsHeld, Active, TypeOK
  <2>5. FlagsExact' /\ LockExact' /\ WorkConserving'
    BY <1>2, <2>1 DEF FlagsExact, LockExact, WorkConserving, TypeOK
  <2> QED BY <2>1, <2>2, <2>3, <2>4, <2>5, QueueFrame DEF counters
<1>3. CASE ~dispatched[i] /\ ~removed[i]
  <2>1. /\ phase' = [phase EXCEPT ![i] = "aborted"]
        /\ Unlink(i)
        /\ removed' = [removed EXCEPT ![i] = TRUE]
    BY <1>3 DEF claimAbort, removeLocked
  <2>2. i \in Queued
    BY <1>3 DEF Queued
  <2>3. lock' \in {"free", "dispatch"}
    OBVIOUS
  <2>4. /\ QueueInv' /\ SlotsHeld' /\ RequestsUnique' /\ FlagsExact'
        /\ BypassOrder' /\ BoundedBypass'
    BY <2>1, <2>2, <2>3, RemoveWaiting
  <2>5. totalQueued' = totalQueued - 1 /\ totalQueued \in Nat
    BY <2>1, <2>2, UnlinkFacts DEF TypeOK
  <2>6. LockExact' /\ WorkConserving'
    BY <2>5 DEF LockExact, WorkConserving
  <2> QED BY <2>4, <2>6 DEF QueueInv
<1> QED BY <1>1, <1>2, <1>3

\* The queue timer fires.
LEMMA QueueTimeoutInv ==
  ASSUME FairQueueInv, NEW i \in Items, QueueTimeout(i)
  PROVE  FairQueueInv'
<1>1. cancelled' \in [Items -> BOOLEAN]
  BY DEF FairQueueInv, TypeOK, QueueTimeout
<1> QED BY <1>1, ClaimAbortInv DEF QueueTimeout

\* The item's context is done.
LEMMA ContextDoneInv ==
  ASSUME FairQueueInv, NEW i \in Items, ContextDone(i)
  PROVE  FairQueueInv'
<1>1. cancelled' \in [Items -> BOOLEAN]
  BY DEF FairQueueInv, TypeOK, ContextDone
<1> QED BY <1>1, ClaimAbortInv DEF ContextDone

\* Cancel reaches an active item's context or takes a waiting item out.
LEMMA CancelInv ==
  ASSUME FairQueueInv, NEW r \in RequestIDs, NEW m \in Members, Cancel(r, m)
  PROVE  FairQueueInv'
<1> USE DEF FairQueueInv
<1>1. CASE activeItems[<<m, r>>] # NoItem
  <2>1. /\ cancelled' = [cancelled EXCEPT ![activeItems[<<m, r>>]] = TRUE]
        /\ UNCHANGED <<queueVars, phase, dispatched, removed, lock, bypass>>
    BY <1>1 DEF Cancel
  <2>2. cancelled' \in [Items -> BOOLEAN]
    BY <2>1 DEF TypeOK
  <2>3. TypeOK'
    BY <2>1, <2>2 DEF TypeOK, queueVars, counters
  <2> QED BY <2>1, <2>3, ContextInv DEF queueVars, counters
<1>2. CASE activeItems[<<m, r>>] = NoItem
  <2>1. PICK i \in QueuedUnder(m, r) : CancelQueued(i)
    BY <1>2 DEF Cancel
  <2>2. i \in Queued
    BY <2>1 DEF QueuedUnder, QueuesExact
  <2>3. i \in Items /\ ~removed[i]
    BY <2>2 DEF Queued
  <2>4. /\ Unlink(i)
        /\ removed' = [removed EXCEPT ![i] = TRUE]
    BY <2>1, <2>3 DEF CancelQueued, removeLocked
  <2>5. cancelled' \in [Items -> BOOLEAN]
    BY <2>1 DEF CancelQueued, TypeOK
  <2>6. lock' \in {"free", "dispatch"}
    BY <2>1 DEF CancelQueued, dispatchNextLocked
  <2>7. /\ QueueInv' /\ SlotsHeld' /\ RequestsUnique' /\ FlagsExact'
        /\ BypassOrder' /\ BoundedBypass'
    BY <2>1, <2>2, <2>4, <2>5, <2>6, RemoveWaiting DEF CancelQueued
  <2>8. WorkConserving' /\ LockExact'
    BY <2>1, <2>7, DispatchCall DEF CancelQueued
  <2> QED BY <2>7, <2>8 DEF QueueInv
<1> QED BY <1>1, <1>2

\* CancelMember empties the member's queue and takes it out of the rotation.
LEMMA CancelMemberInv ==
  ASSUME FairQueueInv, NEW m \in Members, CancelMember(m)
  PROVE  FairQueueInv'
<1> USE DEF FairQueueInv
<1> DEFINE items == ToSet(Waiting(m))
<1>1. /\ removed' = [i \in Items |-> removed[i] \/ i \in items]
      /\ memberQueued' = [memberQueued EXCEPT ![m] = ClampedSub(@, Len(Waiting(m)))]
      /\ totalQueued' = ClampedSub(totalQueued, Len(Waiting(m)))
      /\ queues' = IF items = {} THEN queues ELSE MapDelete(queues, m)
      /\ rotation' = IF items = {} THEN rotation ELSE RemoveFirst(rotation, m)
      /\ UNCHANGED <<limits, activeCount, activeItems, closed, phase, dispatched,
                     bypass>>
      /\ dispatchNextLocked
  BY DEF CancelMember
<1>2. cancelled' \in [Items -> BOOLEAN]
  BY DEF CancelMember, TypeOK
<1>3. Waiting(m) \in Seq(Items) /\ IsInjective(Waiting(m)) /\ Len(Waiting(m)) \in Nat
  BY WaitingFacts, LenProperties DEF QueuesExact
<1>4. items = {i \in Queued : memberID[i] = m}
  BY DEF QueuesExact
<1>5. items = {} <=> Waiting(m) = <<>>
  BY <1>3, ToSetPositions
<1>6. Cardinality(items) = Len(Waiting(m))
  BY <1>3, InjectiveLen
<1> HIDE DEF items
<1>7. Queued' = Queued \ items
  BY <1>1 DEF Queued, TypeOK
<1>8. IsFiniteSet(Queued') /\ Cardinality(Queued') = Cardinality(Queued) - Len(Waiting(m))
  BY <1>4, <1>6, <1>7, RemovePart
<1>9. Cardinality(Queued') \in Nat /\ totalQueued = Cardinality(Queued) /\ totalQueued \in Nat
  BY <1>8, FS_CardinalityType DEF CountersExact, TypeOK
<1>10. totalQueued' = Cardinality(Queued') /\ totalQueued' \in Nat
  BY <1>1, <1>3, <1>8, <1>9 DEF ClampedSub
<1>11. memberQueued \in [Members -> Nat] /\ memberQueued[m] = Len(Waiting(m))
  BY DEF TypeOK, CountersExact
<1>12. memberQueued' = [memberQueued EXCEPT ![m] = 0]
  <2>1. ClampedSub(memberQueued[m], Len(Waiting(m))) = 0
    BY <1>3, <1>11 DEF ClampedSub
  <2> QED BY <1>1, <2>1
<1>13. DOMAIN queues' = DOMAIN queues \ {m}
  BY <1>1, <1>5, WaitingFacts DEF MapDelete
<1>14. /\ \A n \in DOMAIN queues' : queues'[n] = queues[n]
       /\ queues' \in [DOMAIN queues' -> Seq(Items)]
  BY <1>1, <1>13 DEF MapDelete, TypeOK
<1>15. \A n \in Members : Waiting(n)' = IF n = m THEN <<>> ELSE Waiting(n)
  BY <1>13, <1>14 DEF Waiting
<1>16. rotation \in Seq(Members) /\ IsInjective(rotation) /\ ToSet(rotation) = DOMAIN queues
  BY DEF TypeOK, RotationExact
<1>17. /\ rotation' \in Seq(Members)
       /\ IsInjective(rotation')
       /\ ToSet(rotation') = DOMAIN queues'
       /\ \A x, y : Before(rotation', x, y) => Before(rotation, x, y)
  <2>1. CASE items = {}
    BY <1>1, <1>16, <2>1
  <2>2. CASE items # {}
    <3>1. m \in ToSet(rotation)
      BY <1>5, <1>16, <2>2, WaitingFacts
    <3>2. rotation' = RemoveFirst(rotation, m)
      BY <1>1, <2>2
    <3>3. /\ RemoveFirst(rotation, m) \in Seq(Members)
          /\ IsInjective(RemoveFirst(rotation, m))
          /\ ToSet(RemoveFirst(rotation, m)) = ToSet(rotation) \ {m}
          /\ \A x, y : Before(RemoveFirst(rotation, m), x, y) => Before(rotation, x, y)
      BY <1>16, <3>1, RemoveFirstSet
    <3> QED BY <1>13, <1>16, <3>2, <3>3
  <2> QED BY <2>1, <2>2
<1>18. RotationExact'
  BY <1>13, <1>14, <1>17 DEF RotationExact
<1>19. lock' \in {"free", "dispatch"}
  BY <1>1 DEF dispatchNextLocked
<1>20. removed' \in [Items -> BOOLEAN]
  BY <1>1 DEF TypeOK
<1>21. TypeOK'
  BY <1>1, <1>2, <1>10, <1>11, <1>12, <1>13, <1>14, <1>17, <1>19, <1>20 DEF TypeOK
<1>22. Active' = Active
  BY <1>1 DEF Active
<1>23. \A n \in Members : memberQueued'[n] = Len(Waiting(n)')
  BY <1>11, <1>12, <1>15, EmptySeq DEF CountersExact
<1>24. CountersExact'
  BY <1>1, <1>10, <1>22, <1>23 DEF CountersExact
<1>25. QueuesExact'
  <2>1. ToSet(<<>>) = {} /\ IsInjective(<<>>)
    BY DEF ToSet, IsInjective
  <2> QED BY <1>4, <1>7, <1>15, <2>1 DEF QueuesExact
<1>26. SlotsHeld'
  BY <1>1 DEF SlotsHeld, Active
<1>27. RequestsUnique'
  BY <1>1, <1>7 DEF RequestsUnique
<1>28. FlagsExact'
  <2>1. \A i \in items : phase[i] = "waiting"
    BY <1>4 DEF Queued
  <2> QED BY <1>1, <2>1 DEF FlagsExact, TypeOK
<1>29. QueueInv'
  BY <1>8, <1>18, <1>21, <1>22, <1>24, <1>25 DEF QueueInv
<1>30. WorkConserving' /\ LockExact'
  BY <1>1, <1>29, DispatchCall
<1>31. BypassOrder'
  <2> SUFFICES ASSUME NEW j \in 1..Len(rotation'), NEW k \in 1..Len(rotation'),
                      j < k
               PROVE  bypass[rotation'[k]][rotation'[j]] = 0
    BY <1>1 DEF BypassOrder
  <2>1. Before(rotation', rotation'[j], rotation'[k])
    BY DEF Before
  <2>2. Before(rotation, rotation'[j], rotation'[k])
    BY <1>17, <2>1
  <2> QED BY <2>2 DEF Before, BypassOrder
<1>32. BoundedBypass'
  BY <1>1, <1>13 DEF BoundedBypass
<1> QED BY <1>26, <1>27, <1>28, <1>29, <1>30, <1>31, <1>32 DEF QueueInv

\* What one iteration of the loop finds: the head of the rotation has a queue,
\* and the oldest item of that queue waits under a key nobody holds.
LEMMA DispatchFinds ==
  ASSUME FairQueueInv, lock = "dispatch"
  PROVE  /\ rotation # <<>>
         /\ Head(rotation) \in DOMAIN queues
         /\ Head(rotation) \in Members
         /\ Waiting(Head(rotation)) \in Seq(Items)
         /\ Waiting(Head(rotation)) # <<>>
         /\ Head(Waiting(Head(rotation))) \in Queued
         /\ memberID[Head(Waiting(Head(rotation)))] = Head(rotation)
<1> USE DEF FairQueueInv
<1>1. rotation \in Seq(Members) /\ Len(rotation) > 0
  BY DEF TypeOK, LockExact, CanDispatch
<1>2. rotation # <<>>
  BY <1>1, EmptySeq
<1>3. Head(rotation) \in ToSet(rotation)
  BY <1>1, <1>2, TailSet DEF RotationExact
<1>4. Head(rotation) \in DOMAIN queues /\ Head(rotation) \in Members
  BY <1>3 DEF RotationExact, TypeOK
<1> DEFINE m == Head(rotation)
<1> HIDE DEF m
<1>5. Waiting(m) \in Seq(Items) /\ Waiting(m) # <<>> /\ IsInjective(Waiting(m))
  BY <1>4, WaitingFacts DEF m, QueuesExact
<1>6. Head(Waiting(m)) \in ToSet(Waiting(m))
  BY <1>5, TailSet
<1>7. Head(Waiting(m)) \in Queued /\ memberID[Head(Waiting(m))] = m
  BY <1>4, <1>6 DEF m, QueuesExact
<1> QED BY <1>2, <1>4, <1>5, <1>7 DEF m

\* One iteration of the loop of dispatchNextLocked.
LEMMA DispatchOneInv ==
  ASSUME FairQueueInv, DispatchOne
  PROVE  FairQueueInv'
<1> USE DEF FairQueueInv
<1> DEFINE m    == Head(rotation)
           w    == Waiting(m)
           next == Head(w)
           rest == Tail(w)
<1>1. lock = "dispatch"
  BY DEF DispatchOne
<1>2. /\ rotation # <<>>
      /\ m \in DOMAIN queues /\ m \in Members
      /\ w \in Seq(Items) /\ w # <<>>
      /\ next \in Queued /\ memberID[next] = m
  BY <1>1, DispatchFinds
<1>3. /\ queues' = IF rest # <<>> THEN MapSet(queues, m, rest) ELSE MapDelete(queues, m)
      /\ memberQueued' = [memberQueued EXCEPT ![m] = ClampedSub(@, 1)]
      /\ totalQueued' = totalQueued - 1
      /\ rotation' = Rotated(m, rest)
      /\ removed' = [removed EXCEPT ![next] = TRUE]
      /\ dispatched' = [dispatched EXCEPT ![next] = TRUE]
      /\ activeCount' = activeCount + 1
      /\ activeItems' = [activeItems EXCEPT ![Key(next)] = next]
      /\ Served(m)
      /\ UNCHANGED <<phase, cancelled, limits, closed>>
      /\ dispatchNextLocked
  BY <1>2 DEF DispatchOne
<1>4. IsInjective(w) /\ Len(w) \in Nat \ {0}
  BY <1>2, EmptySeq DEF QueuesExact
<1>5. /\ rest \in Seq(Items)
      /\ Len(rest) = Len(w) - 1
      /\ ToSet(rest) = ToSet(w) \ {next}
      /\ IsInjective(rest)
  BY <1>2, <1>4, TailSet
<1>6. /\ rotation \in Seq(Members) /\ IsInjective(rotation)
      /\ ToSet(rotation) = DOMAIN queues
  BY DEF TypeOK, RotationExact
<1>7. /\ Tail(rotation) \in Seq(Members)
      /\ IsInjective(Tail(rotation))
      /\ ToSet(Tail(rotation)) = DOMAIN queues \ {m}
      /\ \A x, y : Before(Tail(rotation), x, y) => Before(rotation, x, y)
      /\ \A y \in DOMAIN queues \ {m} : Before(rotation, m, y)
  BY <1>2, <1>6, TailSet
<1>8. rotation' = IF rest # <<>> THEN Append(Tail(rotation), m) ELSE Tail(rotation)
  BY <1>3 DEF Rotated
<1>9. /\ next \in Items /\ phase[next] = "waiting" /\ ~removed[next]
      /\ Key(next) \in Keys
      /\ activeItems[Key(next)] = NoItem
  BY <1>2, QueuedFacts DEF Queued, RequestsUnique
<1>10. Waiting(m) = w
  OBVIOUS
<1> HIDE DEF w, rest, next, m
<1>11. DOMAIN queues' = IF rest # <<>> THEN DOMAIN queues ELSE DOMAIN queues \ {m}
  BY <1>2, <1>3 DEF MapSet, MapDelete
<1>12. /\ \A n \in DOMAIN queues' : queues'[n] = IF n = m THEN rest ELSE queues[n]
       /\ queues' \in [DOMAIN queues' -> Seq(Items)]
  <2>1. queues \in [DOMAIN queues -> Seq(Items)]
    BY DEF TypeOK
  <2>2. CASE rest # <<>>
    <3>1. queues' = [x \in DOMAIN queues \cup {m} |-> IF x = m THEN rest ELSE queues[x]]
      BY <1>3, <2>2 DEF MapSet
    <3>2. DOMAIN queues \cup {m} = DOMAIN queues
      BY <1>2
    <3> QED BY <1>5, <2>1, <3>1, <3>2
  <2>3. CASE rest = <<>>
    BY <1>3, <2>1, <2>3 DEF MapDelete
  <2> QED BY <2>2, <2>3
<1>13. \A n \in Members : Waiting(n)' = IF n = m THEN rest ELSE Waiting(n)
  BY <1>2, <1>11, <1>12 DEF Waiting
<1>14. /\ rotation' \in Seq(Members)
       /\ IsInjective(rotation')
       /\ ToSet(rotation') = DOMAIN queues'
       /\ \A x, y : Before(rotation', x, y) =>
            \/ Before(rotation, x, y) /\ y # m /\ x # m
            \/ y = m
  <2>1. \A x, y : Before(Tail(rotation), x, y) => x # m /\ y # m
    <3> SUFFICES ASSUME NEW x, NEW y, Before(Tail(rotation), x, y)
                 PROVE  x # m /\ y # m
      OBVIOUS
    <3>1. x \in ToSet(Tail(rotation)) /\ y \in ToSet(Tail(rotation))
      BY <1>7, ToSetPositions DEF Before
    <3> QED BY <1>7, <3>1
  <2>2. CASE rest = <<>>
    BY <1>7, <1>8, <1>11, <2>1, <2>2
  <2>3. CASE rest # <<>>
    <3>1. rotation' = Append(Tail(rotation), m)
      BY <1>8, <2>3
    <3>2. m \notin ToSet(Tail(rotation))
      BY <1>7
    <3>3. /\ Append(Tail(rotation), m) \in Seq(Members)
          /\ ToSet(Append(Tail(rotation), m)) = ToSet(Tail(rotation)) \cup {m}
          /\ IsInjective(Append(Tail(rotation), m))
          /\ \A x, y : Before(Append(Tail(rotation), m), x, y)
               => Before(Tail(rotation), x, y) \/ y = m
      BY <1>2, <1>7, <3>2, AppendSet
    <3>4. ToSet(Tail(rotation)) \cup {m} = DOMAIN queues'
      BY <1>2, <1>7, <1>11, <2>3
    <3> QED BY <1>7, <2>1, <3>1, <3>3, <3>4
  <2> QED BY <2>2, <2>3
<1>15. RotationExact'
  BY <1>11, <1>12, <1>14 DEF RotationExact
<1>16. bypass' = [v \in Members |->
                    IF v = m THEN NoBypass
                    ELSE IF v \in DOMAIN queues
                         THEN [bypass[v] EXCEPT ![m] = bypass[v][m] + 1]
                         ELSE bypass[v]]
  BY <1>3 DEF Served
<1>17. bypass' \in [Members -> [Members -> Nat]]
  <2>1. bypass \in [Members -> [Members -> Nat]] /\ NoBypass \in [Members -> Nat]
    BY DEF TypeOK, NoBypass
  <2>2. ASSUME NEW v \in Members
        PROVE  [bypass[v] EXCEPT ![m] = bypass[v][m] + 1] \in [Members -> Nat]
    <3>1. bypass[v] \in [Members -> Nat]
      BY <2>1
    <3>2. bypass[v][m] \in Nat
      BY <1>2, <3>1
    <3>3. bypass[v][m] + 1 \in Nat
      BY <3>2
    <3> QED BY <3>1, <3>3
  <2> QED BY <1>16, <2>1, <2>2
<1>18. lock' \in {"free", "dispatch"}
  BY <1>3 DEF dispatchNextLocked
<1>19. memberQueued \in [Members -> Nat] /\ memberQueued[m] = Len(w)
  BY <1>2, <1>10 DEF TypeOK, CountersExact
<1>20. memberQueued' = [memberQueued EXCEPT ![m] = Len(rest)] /\ Len(rest) \in Nat
  <2>1. ClampedSub(memberQueued[m], 1) = Len(rest) /\ Len(rest) \in Nat
    BY <1>4, <1>5, <1>19 DEF ClampedSub
  <2> QED BY <1>3, <2>1
<1>21. totalQueued' \in Nat
  <2>1. totalQueued \in Nat /\ totalQueued > 0
    BY <1>1 DEF TypeOK, LockExact, CanDispatch
  <2> QED BY <1>3, <2>1
<1>22. TypeOK'
  <2>1. DOMAIN queues' \subseteq Members
    BY <1>11 DEF TypeOK
  <2>2. /\ removed' \in [Items -> BOOLEAN] /\ dispatched' \in [Items -> BOOLEAN]
        /\ activeItems' \in [Keys -> Items \cup {NoItem}]
    BY <1>3, <1>9 DEF TypeOK
  <2>3. memberQueued' \in [Members -> Nat] /\ activeCount' \in Nat
    <3>1. memberQueued' \in [Members -> Nat]
      BY <1>19, <1>20
    <3>2. activeCount' \in Nat
      BY <1>3 DEF TypeOK
    <3> QED BY <3>1, <3>2
  <2> QED BY <1>3, <1>12, <1>14, <1>17, <1>18, <1>21, <2>1, <2>2, <2>3 DEF TypeOK
<1>23. Queued' = Queued \ {next}
  BY <1>3, <1>9 DEF Queued, TypeOK
<1>24. Active' = Active \cup {Key(next)} /\ Key(next) \notin Active
  BY <1>3, <1>9 DEF Active, TypeOK
<1>25. /\ IsFiniteSet(Queued') /\ Cardinality(Queued') = Cardinality(Queued) - 1
       /\ IsFiniteSet(Active') /\ Cardinality(Active') = Cardinality(Active) + 1
  BY <1>2, <1>23, <1>24, FS_AddElement, FS_RemoveElement
<1>26. CountersExact'
  <2>1. \A n \in Members : memberQueued'[n] = Len(Waiting(n)')
    BY <1>13, <1>19, <1>20 DEF CountersExact
  <2> QED BY <1>3, <1>25, <2>1 DEF CountersExact
<1>27. QueuesExact'
  <2> SUFFICES ASSUME NEW n \in Members
               PROVE  /\ ToSet(Waiting(n)') = {i \in Queued' : memberID[i] = n}
                      /\ IsInjective(Waiting(n)')
    BY DEF QueuesExact
  <2>1. CASE n = m
    BY <1>2, <1>5, <1>10, <1>13, <1>23, <2>1 DEF QueuesExact
  <2>2. CASE n # m
    BY <1>2, <1>13, <1>23, <2>2 DEF QueuesExact
  <2> QED BY <2>1, <2>2
<1>28. SlotsHeld'
  <2>1. \A j \in Items : Key(j) \in Keys
    BY DEF Key, Keys
  <2>2. \A j \in Items : activeItems'[Key(j)] = j <=>
           j = next \/ (Key(j) # Key(next) /\ activeItems[Key(j)] = j)
    BY <1>3, <1>9, <2>1 DEF TypeOK
  <2>3. \A j \in Items : Key(j) = Key(next) /\ j # next
           => ~(dispatched[j] /\ phase[j] \in {"waiting", "running"})
    BY <1>9 DEF SlotsHeld
  <2>4. \A j \in Items : dispatched'[j] <=> j = next \/ dispatched[j]
    BY <1>3, <1>9 DEF TypeOK
  <2>5. \A j \in Items :
       activeItems'[Key(j)] = j <=> /\ dispatched'[j]
                                    /\ phase'[j] \in {"waiting", "running"}
    BY <1>3, <1>9, <2>2, <2>3, <2>4 DEF SlotsHeld
  <2>6. \A k \in Active' : Key(activeItems'[k]) = k
    BY <1>3, <1>9, <1>24 DEF SlotsHeld, TypeOK, Active
  <2> QED BY <1>3, <1>9, <2>4, <2>5, <2>6 DEF SlotsHeld
<1>29. RequestsUnique'
  <2>1. \A j \in Queued' : j \in Queued /\ Key(j) # Key(next) /\ Key(j) \in Keys
    BY <1>2, <1>23, QueuedFacts DEF RequestsUnique
  <2> QED BY <1>3, <1>9, <1>23, <2>1 DEF RequestsUnique, TypeOK
<1>30. FlagsExact'
  BY <1>3, <1>9 DEF FlagsExact, TypeOK
<1>31. QueueInv'
  BY <1>15, <1>22, <1>25, <1>26, <1>27 DEF QueueInv
<1>32. WorkConserving' /\ LockExact'
  BY <1>3, <1>31, DispatchCall
<1>33. BypassOrder'
  <2> SUFFICES ASSUME NEW j \in 1..Len(rotation'), NEW k \in 1..Len(rotation'),
                      j < k
               PROVE  bypass'[rotation'[k]][rotation'[j]] = 0
    BY DEF BypassOrder
  <2>1. Before(rotation', rotation'[j], rotation'[k])
    BY DEF Before
  <2>2. rotation'[j] \in Members /\ rotation'[k] \in Members
    BY <1>14, ElementOfSeq
  <2>3. CASE rotation'[k] = m
    BY <1>16, <2>2, <2>3 DEF NoBypass
  <2>4. CASE rotation'[k] # m
    <3>1. Before(rotation, rotation'[j], rotation'[k]) /\ rotation'[j] # m
      BY <1>14, <2>1, <2>4
    <3>2. bypass[rotation'[k]][rotation'[j]] = 0
      BY <3>1 DEF Before, BypassOrder
    <3> QED BY <1>2, <1>16, <2>2, <2>4, <3>1, <3>2 DEF TypeOK
  <2> QED BY <2>3, <2>4
<1>34. BoundedBypass'
  <2> SUFFICES ASSUME NEW v \in DOMAIN queues', NEW n \in Members \ {v}
               PROVE  bypass'[v][n] <= 1
    BY DEF BoundedBypass
  <2>1. v \in DOMAIN queues /\ v \in Members
    BY <1>11 DEF TypeOK
  <2>2. CASE v = m
    BY <1>16, <2>1, <2>2 DEF NoBypass
  <2>3. CASE v # m /\ n = m
    <3>1. Before(rotation, m, v)
      BY <1>7, <2>1, <2>3
    <3>2. bypass[v][m] = 0
      BY <3>1 DEF Before, BypassOrder
    <3> QED BY <1>2, <1>16, <2>1, <2>3, <3>2 DEF TypeOK
  <2>4. CASE v # m /\ n # m
    <3>1. bypass[v][n] <= 1
      BY <2>1 DEF BoundedBypass
    <3> QED BY <1>2, <1>16, <2>1, <2>4, <3>1 DEF TypeOK
  <2> QED BY <2>2, <2>3, <2>4
<1> QED BY <1>28, <1>29, <1>30, <1>31, <1>32, <1>33, <1>34 DEF QueueInv

-----------------------------------------------------------------------------
(* Theorems *)

\* Every step keeps the invariant.
LEMMA NextInv == FairQueueInv /\ [Next]_vars => FairQueueInv'
<1> SUFFICES ASSUME FairQueueInv, [Next]_vars PROVE FairQueueInv'
  OBVIOUS
<1>1. CASE DispatchOne
  BY <1>1, DispatchOneInv
<1>2. ASSUME NEW i \in Items, Submit(i) PROVE FairQueueInv'
  BY <1>2, SubmitRefusedInv, SubmitRunInv, SubmitQueueInv DEF Submit
<1>3. ASSUME NEW i \in Items,
             \/ WakeReady(i) \/ QueueTimeout(i) \/ ContextDone(i)
             \/ CallerCancel(i) \/ Finish(i)
      PROVE  FairQueueInv'
  BY <1>3, WakeReadyInv, QueueTimeoutInv, ContextDoneInv, CallerCancelInv, FinishInv
<1>4. ASSUME NEW l \in LimitSettings, SetLimits(l) PROVE FairQueueInv'
  BY <1>4, SetLimitsInv
<1>5. ASSUME NEW r \in RequestIDs, NEW m \in Members, Cancel(r, m) PROVE FairQueueInv'
  BY <1>5, CancelInv
<1>6. ASSUME NEW m \in Members, CancelMember(m) PROVE FairQueueInv'
  BY <1>6, CancelMemberInv
<1>7. CASE Close
  BY <1>7, CloseInv
<1>8. CASE UNCHANGED vars
  <2>1. TypeOK'
    BY <1>8 DEF FairQueueInv, TypeOK, vars, queueVars, callVars, counters
  <2> QED BY <1>8, <2>1, ContextInv DEF vars, queueVars, callVars, counters
<1> QED BY <1>1, <1>2, <1>3, <1>4, <1>5, <1>6, <1>7, <1>8 DEF Next

\* The inductive invariant holds in every reachable state, for any number of
\* members, requests and limit settings.
THEOREM Invariance == Spec => []FairQueueInv
BY InitInv, NextInv, PTL DEF Spec

\* Type correctness.
THEOREM TypeCorrect == Spec => []TypeOK
BY Invariance, PTL DEF FairQueueInv

\* The counters never drift, whatever order aborts, cancellations and
\* dispatches of one item come in.
THEOREM CountersNeverDrift == Spec => []CountersExact
BY Invariance, PTL DEF FairQueueInv

\* No slot leaks and none is released twice.
THEOREM SlotsNeverLeak == Spec => []SlotsHeld
BY Invariance, PTL DEF FairQueueInv

\* A slot is never idle while somebody waits for it.
THEOREM NeverIdle == Spec => []WorkConserving
BY Invariance, PTL DEF FairQueueInv

\* Round robin: nobody is served twice ahead of a member that waits.
THEOREM NobodyServedTwice == Spec => []BoundedBypass
BY Invariance, PTL DEF FairQueueInv

\* The rotation never loses a waiting member or lists one twice.
THEOREM RotationNeverCorrupt == Spec => []RotationExact
BY Invariance, PTL DEF FairQueueInv

\* A member's queue holds exactly the items that still wait.
THEOREM QueuesNeverCorrupt == Spec => []QueuesExact
BY Invariance, PTL DEF FairQueueInv

\* No two live requests share a member and a request id.
THEOREM KeysNeverShared == Spec => []RequestsUnique
BY Invariance, PTL DEF FairQueueInv

\* All of the queue's bookkeeping stays exact at once.
THEOREM BookkeepingExact == Spec => []Bookkeeping
BY CountersNeverDrift, RotationNeverCorrupt, QueuesNeverCorrupt, KeysNeverShared, PTL
   DEF Bookkeeping

\* A step that takes a slot leaves the count within the limit in force.
LEMMA SlotStep ==
  FairQueueInv /\ [Next]_vars
    => (activeCount' > activeCount => activeCount' <= limits'.MaxActive)
<1> SUFFICES ASSUME FairQueueInv, [Next]_vars, activeCount' > activeCount
             PROVE  activeCount' <= limits'.MaxActive
  OBVIOUS
<1>1. activeCount \in Nat /\ limits.MaxActive \in Nat
  BY DEF FairQueueInv, TypeOK
<1>2. CASE DispatchOne
  <2>1. activeCount < limits.MaxActive
    BY <1>2 DEF DispatchOne, FairQueueInv, LockExact, CanDispatch
  <2>2. limits' = limits /\ (activeCount' = activeCount + 1 \/ activeCount' = activeCount)
    BY <1>2 DEF DispatchOne, counters
  <2> QED BY <1>1, <2>1, <2>2
<1>3. ASSUME NEW i \in Items, Submit(i) PROVE activeCount' <= limits'.MaxActive
  <2>1. CASE SubmitRun(i)
    BY <1>1, <2>1 DEF SubmitRun, RunsAtOnce
  <2>2. CASE SubmitRefused(i) \/ SubmitQueue(i)
    BY <1>1, <2>2 DEF SubmitRefused, SubmitQueue, queueVars, counters
  <2> QED BY <1>3, <2>1, <2>2 DEF Submit
<1>4. ASSUME NEW i \in Items, Finish(i) PROVE FALSE
  BY <1>1, <1>4 DEF Finish, ClampedSub, queueVars, counters
<1>5. ASSUME NEW i \in Items,
             WakeReady(i) \/ QueueTimeout(i) \/ ContextDone(i) \/ CallerCancel(i)
      PROVE  FALSE
  BY <1>1, <1>5 DEF WakeReady, QueueTimeout, ContextDone, CallerCancel, queueVars, counters
<1>6. ASSUME NEW l \in LimitSettings, SetLimits(l) PROVE FALSE
  BY <1>1, <1>6 DEF SetLimits, counters
<1>7. ASSUME NEW r \in RequestIDs, NEW m \in Members, Cancel(r, m) PROVE FALSE
  BY <1>1, <1>7 DEF Cancel, CancelQueued, queueVars, counters
<1>8. ASSUME NEW m \in Members, CancelMember(m) PROVE FALSE
  BY <1>1, <1>8 DEF CancelMember, queueVars, counters
<1>9. CASE Close
  BY <1>1, <1>9 DEF Close, counters
<1>10. CASE UNCHANGED vars
  BY <1>1, <1>10 DEF vars, queueVars, counters
<1> QED BY <1>2, <1>3, <1>4, <1>5, <1>6, <1>7, <1>8, <1>9, <1>10 DEF Next

\* A slot is handed out only below the limit in force, also after the owner
\* has lowered it under the number of requests that run.
THEOREM SlotsNeverOvercommitted == Spec => SlotsWithinLimit
<1>1. FairQueueInv /\ [Next]_vars
        => [activeCount' > activeCount => activeCount' <= limits'.MaxActive]_vars
  BY SlotStep
<1> QED BY <1>1, Invariance, PTL DEF Spec, SlotsWithinLimit

-----------------------------------------------------------------------------
(* The refinement of SlotPool *)

\* The abstract state: what has become of each call, and the lines.
PoolFate == [i \in Items |-> FateOf(i)]
PoolLine == [m \in Members |-> Waiting(m)]

\* The fate of a call, phase by phase.
FatesAre ==
  \A i \in Items :
    /\ phase[i] = "idle"    => FateOf(i) = "new"
    /\ phase[i] = "refused" => FateOf(i) = "refused"
    /\ phase[i] = "running" => FateOf(i) = "holding"
    /\ phase[i] = "ran"     => FateOf(i) = "done"
    /\ phase[i] = "aborted" => FateOf(i) = "left"
    /\ phase[i] = "waiting" /\ dispatched[i] => FateOf(i) = "holding"
    /\ phase[i] = "waiting" /\ ~dispatched[i] /\ removed[i] => FateOf(i) = "left"
    /\ phase[i] = "waiting" /\ ~dispatched[i] /\ ~removed[i] => FateOf(i) = "parked"

\* The definition by cases covers every phase.
LEMMA Fates == FatesAre
BY DEF FatesAre, FateOf

\* The same after a step.
LEMMA FatesNext == FatesAre'
BY Fates, PTL

\* Writing or deleting one entry of the map of queues changes one line.
LEMMA LineSet ==
  ASSUME NEW m \in Members, NEW s, queues' = MapSet(queues, m, s)
  PROVE  PoolLine' = [PoolLine EXCEPT ![m] = s]
<1>1. \A n \in Members : Waiting(n)' = IF n = m THEN s ELSE Waiting(n)
  BY DEF MapSet, Waiting
<1> QED BY <1>1 DEF PoolLine

LEMMA LineDelete ==
  ASSUME NEW m \in Members, queues' = MapDelete(queues, m)
  PROVE  PoolLine' = [PoolLine EXCEPT ![m] = <<>>]
<1>1. \A n \in Members : Waiting(n)' = IF n = m THEN <<>> ELSE Waiting(n)
  BY DEF MapDelete, Waiting
<1> QED BY <1>1 DEF PoolLine

\* A step that leaves the map of queues alone leaves the lines alone.
LEMMA LineKept ==
  ASSUME UNCHANGED queues
  PROVE  PoolLine' = PoolLine
BY DEF PoolLine, Waiting

\* A step that leaves what decides the fates alone leaves them alone.
LEMMA FateKept ==
  ASSUME UNCHANGED <<phase, dispatched, removed>>
  PROVE  PoolFate' = PoolFate
BY DEF PoolFate, FateOf

\* When one call moves, the others keep their fates.
LEMMA FateMoves ==
  ASSUME NEW i \in Items,
         \A j \in Items \ {i} : /\ phase'[j] = phase[j]
                                /\ dispatched'[j] = dispatched[j]
                                /\ removed'[j] = removed[j]
  PROVE  PoolFate' = [PoolFate EXCEPT ![i] = FateOf(i)']
<1>1. \A j \in Items \ {i} : FateOf(j)' = FateOf(j)
  BY DEF FateOf
<1> QED BY <1>1 DEF PoolFate

\* The calls that hold a slot are the active items, one for each active key.
LEMMA HoldingCount ==
  ASSUME FairQueueInv
  PROVE  Cardinality(Pool!Holding) = activeCount
<1> DEFINE f == [k \in Active |-> activeItems[k]]
<1>1. Pool!Holding = {i \in Items : FateOf(i) = "holding"}
  BY DEF Pool!Holding
<1>2. \A i \in Items : /\ phase[i] \in Phases /\ dispatched[i] \in BOOLEAN
                       /\ removed[i] \in BOOLEAN
  BY DEF FairQueueInv, TypeOK
<1>3. \A i \in Items : FateOf(i) = "holding" <=> activeItems[Key(i)] = i
  <2> SUFFICES ASSUME NEW i \in Items
               PROVE  FateOf(i) = "holding" <=>
                        dispatched[i] /\ phase[i] \in {"waiting", "running"}
    BY DEF FairQueueInv, SlotsHeld
  <2>1. phase[i] = "running" => dispatched[i]
    BY DEF FairQueueInv, SlotsHeld
  <2> QED BY <1>2, <2>1, Fates DEF FatesAre, Phases
<1>4. \A i \in Items : Key(i) \in Keys /\ i # NoItem
  BY DEF Key, Keys
<1>5. \A k \in Active : activeItems[k] \in Items /\ Key(activeItems[k]) = k
  BY DEF FairQueueInv, TypeOK, SlotsHeld, Active
<1>6. f \in Bijection(Active, Pool!Holding)
  <2>1. f \in [Active -> Pool!Holding]
    BY <1>1, <1>3, <1>5
  <2>2. \A k, l \in Active : f[k] = f[l] => k = l
    BY <1>5
  <2>3. \A i \in Pool!Holding : \E k \in Active : f[k] = i
    <3> SUFFICES ASSUME NEW i \in Items, activeItems[Key(i)] = i
                 PROVE  \E k \in Active : f[k] = i
      BY <1>1, <1>3
    <3>1. Key(i) \in Active
      BY <1>4 DEF Active
    <3> QED BY <3>1
  <2> QED BY <2>1, <2>2, <2>3 DEF Bijection, Injection, Surjection, IsInjective
<1>7. ExistsBijection(Active, Pool!Holding)
  BY <1>6 DEF ExistsBijection
<1> QED BY <1>7, FS_Bijection DEF FairQueueInv, CountersExact

\* The library's operators mean the same inside the pool's module.
LEMMA PoolCardinality ==
  ASSUME NEW S
  PROVE  Pool!Cardinality(S) = Cardinality(S)
BY Zenon DEF Cardinality, Pool!Cardinality

LEMMA PoolToSet ==
  ASSUME NEW s
  PROVE  Pool!ToSet(s) = ToSet(s)
BY DEF ToSet, Pool!ToSet

LEMMA PoolRemoveFirst ==
  ASSUME NEW s, NEW e
  PROVE  Pool!RemoveFirst(s, e) = RemoveFirst(s, e)
BY Zenon DEF RemoveFirst, RemoveAt, SelectInSeq, Min, Pool!RemoveFirst, Pool!RemoveAt,
   Pool!SelectInSeq, Pool!Min

\* A slot is free in the pool exactly when the queue's count says so.
LEMMA SlotFreeIs ==
  ASSUME FairQueueInv
  PROVE  Pool!SlotFree <=> activeCount < limits.MaxActive
BY HoldingCount, PoolCardinality DEF Pool!SlotFree

\* The steps of the pool, in terms of the abstract state.
LEMMA PoolRefuse ==
  ASSUME NEW i \in Items, PoolFate[i] = "new",
         PoolFate' = [PoolFate EXCEPT ![i] = "refused"],
         PoolLine' = PoolLine, UNCHANGED limits
  PROVE  Pool!PoolNext
BY DEF PoolFate, PoolLine, Pool!PoolNext, Pool!Refuse

LEMMA PoolEnter ==
  ASSUME NEW i \in Items, PoolFate[i] = "new", Pool!SlotFree,
         \A m \in Members : PoolLine[m] = <<>>,
         PoolFate' = [PoolFate EXCEPT ![i] = "holding"],
         PoolLine' = PoolLine, UNCHANGED limits
  PROVE  Pool!PoolNext
BY DEF PoolFate, PoolLine, Pool!PoolNext, Pool!Enter

LEMMA PoolPark ==
  ASSUME NEW i \in Items, PoolFate[i] = "new",
         PoolFate' = [PoolFate EXCEPT ![i] = "parked"],
         PoolLine' = [PoolLine EXCEPT ![memberID[i]] = Append(PoolLine[memberID[i]], i)],
         UNCHANGED limits
  PROVE  Pool!PoolNext
BY DEF PoolFate, PoolLine, Pool!PoolNext, Pool!Park

LEMMA PoolStart ==
  ASSUME NEW m \in Members, Pool!SlotFree, PoolLine[m] # <<>>,
         PoolFate' = [PoolFate EXCEPT ![Head(PoolLine[m])] = "holding"],
         PoolLine' = [PoolLine EXCEPT ![m] = Tail(PoolLine[m])],
         UNCHANGED limits
  PROVE  Pool!PoolNext
BY DEF PoolFate, PoolLine, Pool!PoolNext, Pool!Start

LEMMA PoolLeave ==
  ASSUME NEW i \in Items, PoolFate[i] = "parked",
         PoolFate' = [PoolFate EXCEPT ![i] = "left"],
         PoolLine' = [PoolLine EXCEPT ![memberID[i]] = RemoveFirst(PoolLine[memberID[i]], i)],
         UNCHANGED limits
  PROVE  Pool!PoolNext
BY PoolRemoveFirst DEF PoolFate, PoolLine, Pool!PoolNext, Pool!Leave

LEMMA PoolWithdraw ==
  ASSUME NEW m \in Members, PoolLine[m] # <<>>,
         PoolFate' = [i \in Items |-> IF i \in ToSet(PoolLine[m]) THEN "left"
                                                                  ELSE PoolFate[i]],
         PoolLine' = [PoolLine EXCEPT ![m] = <<>>],
         UNCHANGED limits
  PROVE  Pool!PoolNext
BY PoolToSet DEF PoolFate, PoolLine, Pool!PoolNext, Pool!Withdraw

LEMMA PoolRelease ==
  ASSUME NEW i \in Items, PoolFate[i] = "holding",
         PoolFate' = [PoolFate EXCEPT ![i] = "done"],
         PoolLine' = PoolLine, UNCHANGED limits
  PROVE  Pool!PoolNext
BY DEF PoolFate, PoolLine, Pool!PoolNext, Pool!Release

LEMMA PoolResize ==
  ASSUME limits'.MaxActive \in Nat \ {0}, PoolFate' = PoolFate, PoolLine' = PoolLine
  PROVE  Pool!PoolNext
BY DEF PoolFate, PoolLine, Pool!PoolNext, Pool!Resize

LEMMA PoolRests ==
  ASSUME PoolFate' = PoolFate, PoolLine' = PoolLine, UNCHANGED limits
  PROVE  UNCHANGED Pool!poolVars
BY DEF PoolFate, PoolLine, Pool!poolVars

\* The pool's step or stutter, for each action of the queue.
PoolStep == Pool!PoolNext \/ UNCHANGED Pool!poolVars

LEMMA SubmitPool ==
  ASSUME FairQueueInv, NEW i \in Items, Submit(i)
  PROVE  PoolStep
<1> USE DEF FairQueueInv
<1>1. phase[i] = "idle" /\ memberID[i] \in Members
  BY DEF Submit
<1>2. FateOf(i) = "new" /\ PoolFate[i] = "new"
  BY <1>1, Fates DEF FatesAre, PoolFate
<1>3. ~dispatched[i] /\ ~removed[i]
  BY <1>1 DEF SlotsHeld, FlagsExact
<1>4. phase \in [Items -> Phases] /\ dispatched \in [Items -> BOOLEAN]
      /\ removed \in [Items -> BOOLEAN]
  BY DEF TypeOK
<1>5. CASE SubmitRefused(i)
  <2>1. /\ phase' = [phase EXCEPT ![i] = "refused"]
        /\ UNCHANGED <<limits, queues, dispatched, removed>>
    BY <1>5 DEF SubmitRefused, queueVars
  <2>2. FateOf(i)' = "refused"
    BY <1>4, <2>1, FatesNext DEF FatesAre
  <2>3. PoolFate' = [PoolFate EXCEPT ![i] = "refused"]
    BY <1>4, <2>1, <2>2, FateMoves
  <2> QED BY <1>2, <2>1, <2>3, LineKept, PoolRefuse DEF PoolStep
<1>6. CASE SubmitRun(i)
  <2>1. /\ phase' = [phase EXCEPT ![i] = "running"]
        /\ dispatched' = [dispatched EXCEPT ![i] = TRUE]
        /\ UNCHANGED <<limits, queues, removed>>
        /\ activeCount < limits.MaxActive /\ totalQueued = 0
    BY <1>6 DEF SubmitRun, RunsAtOnce
  <2>2. FateOf(i)' = "holding"
    BY <1>4, <2>1, FatesNext DEF FatesAre
  <2>3. PoolFate' = [PoolFate EXCEPT ![i] = "holding"]
    BY <1>4, <2>1, <2>2, FateMoves
  <2>4. Queued = {}
    BY <2>1, FS_EmptySet DEF CountersExact
  <2>5. ASSUME NEW m \in Members PROVE PoolLine[m] = <<>>
    <3>1. ToSet(Waiting(m)) = {} /\ Waiting(m) \in Seq(Items)
      BY <2>4, WaitingFacts DEF QueuesExact
    <3> QED BY <3>1, ToSetPositions DEF PoolLine
  <2>6. Pool!SlotFree
    BY <2>1, SlotFreeIs
  <2> QED BY <1>2, <2>1, <2>3, <2>5, <2>6, LineKept, PoolEnter DEF PoolStep
<1>7. CASE SubmitQueue(i)
  <2>1. /\ phase' = [phase EXCEPT ![i] = "waiting"]
        /\ queues' = MapSet(queues, memberID[i], Append(Waiting(memberID[i]), i))
        /\ UNCHANGED <<limits, dispatched, removed>>
    BY <1>7 DEF SubmitQueue, enqueueLocked
  <2>2. FateOf(i)' = "parked"
    BY <1>3, <1>4, <2>1, FatesNext DEF FatesAre
  <2>3. PoolFate' = [PoolFate EXCEPT ![i] = "parked"]
    BY <1>4, <2>1, <2>2, FateMoves
  <2>4. PoolLine[memberID[i]] = Waiting(memberID[i])
    BY <1>1 DEF PoolLine
  <2>5. PoolLine' = [PoolLine EXCEPT ![memberID[i]] = Append(PoolLine[memberID[i]], i)]
    BY <1>1, <2>1, <2>4, LineSet
  <2> QED BY <1>2, <2>1, <2>3, <2>5, PoolPark DEF PoolStep
<1> QED BY <1>5, <1>6, <1>7 DEF Submit

\* A waiting item that is unlinked leaves its line.
LEMMA UnlinkPool ==
  ASSUME FairQueueInv, NEW i \in Queued, Unlink(i),
         removed' = [removed EXCEPT ![i] = TRUE],
         phase' = phase \/ phase' = [phase EXCEPT ![i] = "aborted"],
         UNCHANGED <<limits, dispatched>>
  PROVE  PoolStep
<1> USE DEF FairQueueInv
<1> DEFINE m == memberID[i]
           rest == RemoveFirst(Waiting(m), i)
<1>1. i \in Items /\ m \in Members /\ phase[i] = "waiting" /\ ~removed[i]
  BY QueuedFacts DEF Queued
<1>2. ~dispatched[i]
  BY <1>1 DEF FlagsExact
<1>3. phase \in [Items -> Phases] /\ removed \in [Items -> BOOLEAN]
  BY DEF TypeOK
<1>4. FateOf(i) = "parked" /\ PoolFate[i] = "parked"
  BY <1>1, <1>2, Fates DEF FatesAre, PoolFate
<1>5. FateOf(i)' = "left"
  BY <1>1, <1>2, <1>3, FatesNext DEF FatesAre
<1>6. PoolFate' = [PoolFate EXCEPT ![i] = "left"]
  BY <1>1, <1>3, <1>5, FateMoves
<1>7. PoolLine[m] = Waiting(m)
  BY <1>1 DEF PoolLine
<1>8. PoolLine' = [PoolLine EXCEPT ![m] = rest]
  <2>1. CASE rest = <<>>
    BY <1>1, <2>1, LineDelete DEF Unlink
  <2>2. CASE rest # <<>>
    BY <1>1, <2>2, LineSet DEF Unlink
  <2> QED BY <2>1, <2>2
<1> QED BY <1>1, <1>4, <1>6, <1>7, <1>8, PoolLeave DEF PoolStep

\* Giving up: a dispatched item holds its slot on, one that Cancel removed had
\* left already, any other leaves now.
LEMMA AbortPool ==
  ASSUME FairQueueInv, NEW i \in Items, phase[i] = "waiting", claimAbort(i),
         UNCHANGED <<limits, dispatched>>
  PROVE  PoolStep
<1> USE DEF FairQueueInv
<1>1. phase \in [Items -> Phases] /\ removed \in [Items -> BOOLEAN]
  BY DEF TypeOK
<1>2. CASE dispatched[i] \/ removed[i]
  <2>1. /\ phase' = [phase EXCEPT ![i] = IF dispatched[i] THEN "running" ELSE "aborted"]
        /\ UNCHANGED <<queues, removed>>
    BY <1>2 DEF claimAbort, removeLocked
  <2>2. FateOf(i)' = FateOf(i)
    <3>1. CASE dispatched[i]
      BY <1>1, <2>1, <3>1, Fates, FatesNext DEF FatesAre
    <3>2. CASE ~dispatched[i]
      BY <1>1, <1>2, <2>1, <3>2, Fates, FatesNext DEF FatesAre
    <3> QED BY <3>1, <3>2
  <2>3. PoolFate' = [PoolFate EXCEPT ![i] = FateOf(i)]
    BY <1>1, <2>1, <2>2, FateMoves
  <2>4. PoolFate' = PoolFate
    BY <2>3 DEF PoolFate
  <2> QED BY <2>1, <2>4, LineKept, PoolRests DEF PoolStep
<1>3. CASE ~dispatched[i] /\ ~removed[i]
  <2>1. /\ phase' = [phase EXCEPT ![i] = "aborted"] /\ Unlink(i)
        /\ removed' = [removed EXCEPT ![i] = TRUE] /\ i \in Queued
    BY <1>3 DEF claimAbort, removeLocked, Queued
  <2> QED BY <2>1, UnlinkPool
<1> QED BY <1>2, <1>3

\* The goroutine of a dispatched item wakes: it has held its slot since.
LEMMA WakePool ==
  ASSUME FairQueueInv, NEW i \in Items, WakeReady(i)
  PROVE  PoolStep
<1>1. /\ phase[i] = "waiting" /\ dispatched[i]
      /\ phase' = [phase EXCEPT ![i] = "running"]
      /\ UNCHANGED <<limits, queues, dispatched, removed>>
  BY DEF WakeReady, queueVars
<1>2. phase \in [Items -> Phases]
  BY DEF FairQueueInv, TypeOK
<1>3. FateOf(i) = "holding" /\ FateOf(i)' = "holding"
  BY <1>1, <1>2, Fates, FatesNext DEF FatesAre
<1>4. PoolFate' = [PoolFate EXCEPT ![i] = "holding"]
  BY <1>1, <1>2, <1>3, FateMoves
<1>5. PoolFate' = PoolFate
  BY <1>3, <1>4 DEF PoolFate
<1> QED BY <1>1, <1>5, LineKept, PoolRests DEF PoolStep

\* runFn has returned: the slot is released.
LEMMA FinishPool ==
  ASSUME FairQueueInv, NEW i \in Items, Finish(i)
  PROVE  PoolStep
<1>1. /\ phase[i] = "running"
      /\ phase' = [phase EXCEPT ![i] = "ran"]
      /\ UNCHANGED <<limits, queues, dispatched, removed>>
  BY DEF Finish, queueVars
<1>2. phase \in [Items -> Phases]
  BY DEF FairQueueInv, TypeOK
<1>3. FateOf(i) = "holding" /\ FateOf(i)' = "done" /\ PoolFate[i] = "holding"
  BY <1>1, <1>2, Fates, FatesNext DEF FatesAre, PoolFate
<1>4. PoolFate' = [PoolFate EXCEPT ![i] = "done"]
  BY <1>1, <1>2, <1>3, FateMoves
<1> QED BY <1>1, <1>3, <1>4, LineKept, PoolRelease DEF PoolStep

\* One iteration of the loop: the oldest item of the line at the head of the
\* rotation is given a slot that is free.
LEMMA DispatchPool ==
  ASSUME FairQueueInv, DispatchOne
  PROVE  PoolStep
<1> DEFINE m    == Head(rotation)
           w    == Waiting(m)
           next == Head(w)
<1>1. lock = "dispatch"
  BY DEF DispatchOne
<1>2. m \in Members /\ w # <<>> /\ next \in Queued
  BY <1>1, DispatchFinds
<1>3. /\ queues' = IF Tail(w) # <<>> THEN MapSet(queues, m, Tail(w)) ELSE MapDelete(queues, m)
      /\ removed' = [removed EXCEPT ![next] = TRUE]
      /\ dispatched' = [dispatched EXCEPT ![next] = TRUE]
      /\ UNCHANGED <<phase, limits>>
  BY <1>2 DEF DispatchOne
<1>4. PoolLine[m] = w
  BY <1>2 DEF PoolLine
<1> HIDE DEF m, w, next
<1>5. PICK i \in Items : i = next /\ phase[i] = "waiting"
  BY <1>2 DEF Queued
<1>6. dispatched \in [Items -> BOOLEAN] /\ removed \in [Items -> BOOLEAN]
  BY DEF FairQueueInv, TypeOK
<1>7. FateOf(i)' = "holding"
  BY <1>3, <1>5, <1>6, FatesNext DEF FatesAre
<1>8. PoolFate' = [PoolFate EXCEPT ![i] = "holding"]
  BY <1>3, <1>5, <1>6, <1>7, FateMoves
<1>9. PoolLine' = [PoolLine EXCEPT ![m] = Tail(w)]
  <2>1. CASE Tail(w) # <<>>
    BY <1>2, <1>3, <2>1, LineSet
  <2>2. CASE Tail(w) = <<>>
    BY <1>2, <1>3, <2>2, LineDelete
  <2> QED BY <2>1, <2>2
<1>10. Pool!SlotFree
  BY <1>1, SlotFreeIs DEF FairQueueInv, LockExact, CanDispatch
<1>11. i = Head(PoolLine[m])
  BY <1>4, <1>5 DEF next
<1> QED BY <1>2, <1>3, <1>4, <1>8, <1>9, <1>10, <1>11, PoolStart DEF PoolStep

\* CancelMember: the member's whole line is withdrawn, or nobody was in it.
LEMMA CancelMemberPool ==
  ASSUME FairQueueInv, NEW m \in Members, CancelMember(m)
  PROVE  PoolStep
<1> DEFINE items == ToSet(Waiting(m))
<1>1. /\ removed' = [i \in Items |-> removed[i] \/ i \in items]
      /\ queues' = IF items = {} THEN queues ELSE MapDelete(queues, m)
      /\ UNCHANGED <<limits, phase, dispatched>>
  BY DEF CancelMember
<1>2. Waiting(m) \in Seq(Items) /\ PoolLine[m] = Waiting(m)
  BY WaitingFacts DEF FairQueueInv, PoolLine
<1>3. items = {i \in Queued : memberID[i] = m}
  BY DEF FairQueueInv, QueuesExact
<1>4. items = {} <=> Waiting(m) = <<>>
  BY <1>2, ToSetPositions
<1>5. removed \in [Items -> BOOLEAN]
  BY DEF FairQueueInv, TypeOK
<1>6. CASE items = {}
  <2>1. removed' = removed
    BY <1>1, <1>5, <1>6
  <2> QED BY <1>1, <1>6, <2>1, FateKept, LineKept, PoolRests DEF PoolStep
<1>7. CASE items # {}
  <2>1. PoolLine' = [PoolLine EXCEPT ![m] = <<>>]
    BY <1>1, <1>7, LineDelete
  <2>2. \A i \in items : FateOf(i)' = "left"
    <3> SUFFICES ASSUME NEW i \in items PROVE FateOf(i)' = "left"
      OBVIOUS
    <3>1. i \in Items /\ phase[i] = "waiting" /\ ~removed[i]
      BY <1>3 DEF Queued
    <3>2. ~dispatched[i]
      BY <3>1 DEF FairQueueInv, FlagsExact
    <3> QED BY <1>1, <3>1, <3>2, FatesNext DEF FatesAre
  <2>3. \A i \in Items \ items : FateOf(i)' = FateOf(i)
    <3> SUFFICES ASSUME NEW i \in Items \ items PROVE FateOf(i)' = FateOf(i)
      OBVIOUS
    <3>1. removed'[i] = removed[i]
      BY <1>1, <1>5
    <3> QED BY <1>1, <3>1 DEF FateOf
  <2> HIDE DEF items
  <2>4. PoolFate' = [i \in Items |-> IF i \in items THEN "left" ELSE PoolFate[i]]
    BY <2>2, <2>3 DEF PoolFate
  <2> QED BY <1>1, <1>2, <1>4, <1>7, <2>1, <2>4, PoolWithdraw DEF PoolStep, items
<1> QED BY <1>6, <1>7

\* Every step of the queue is a step of the pool or leaves it as it is.
LEMMA NextPool == FairQueueInv /\ [Next]_vars => [Pool!PoolNext]_Pool!poolVars
<1> SUFFICES ASSUME FairQueueInv, [Next]_vars
             PROVE  PoolStep
  BY DEF PoolStep
<1>1. CASE DispatchOne
  BY <1>1, DispatchPool
<1>2. ASSUME NEW i \in Items, Submit(i) PROVE PoolStep
  BY <1>2, SubmitPool
<1>3. ASSUME NEW i \in Items, WakeReady(i) PROVE PoolStep
  BY <1>3, WakePool
<1>4. ASSUME NEW i \in Items, QueueTimeout(i) \/ ContextDone(i) PROVE PoolStep
  BY <1>4, AbortPool DEF QueueTimeout, ContextDone
<1>5. ASSUME NEW i \in Items, CallerCancel(i) PROVE PoolStep
  BY <1>5, FateKept, LineKept, PoolRests DEF CallerCancel, queueVars, PoolStep
<1>6. ASSUME NEW i \in Items, Finish(i) PROVE PoolStep
  BY <1>6, FinishPool
<1>7. ASSUME NEW l \in LimitSettings, SetLimits(l) PROVE PoolStep
  <2>1. limits' = normalizeLimits(l) /\ UNCHANGED <<queues, phase, dispatched, removed>>
    BY <1>7 DEF SetLimits, callVars
  <2>2. limits'.MaxActive \in Nat \ {0}
    BY <2>1, NormalizedType
  <2> QED BY <2>1, <2>2, FateKept, LineKept, PoolResize DEF PoolStep
<1>8. ASSUME NEW r \in RequestIDs, NEW m \in Members, Cancel(r, m) PROVE PoolStep
  <2>1. CASE UNCHANGED <<queueVars, phase, dispatched, removed>>
    BY <2>1, FateKept, LineKept, PoolRests DEF queueVars, PoolStep
  <2>2. ASSUME NEW i \in QueuedUnder(m, r), CancelQueued(i) PROVE PoolStep
    <3>1. i \in Queued
      BY DEF QueuedUnder, FairQueueInv, QueuesExact
    <3>2. /\ Unlink(i) /\ removed' = [removed EXCEPT ![i] = TRUE]
          /\ UNCHANGED <<phase, limits, dispatched>>
      BY <2>2, <3>1 DEF CancelQueued, removeLocked, Queued
    <3> QED BY <3>1, <3>2, UnlinkPool
  <2> QED BY <1>8, <2>1, <2>2 DEF Cancel
<1>9. ASSUME NEW m \in Members, CancelMember(m) PROVE PoolStep
  BY <1>9, CancelMemberPool
<1>10. CASE Close
  BY <1>10, FateKept, LineKept, PoolRests DEF Close, PoolStep
<1>11. CASE UNCHANGED vars
  BY <1>11, FateKept, LineKept, PoolRests DEF vars, queueVars, callVars, PoolStep
<1> QED BY <1>1, <1>2, <1>3, <1>4, <1>5, <1>6, <1>7, <1>8, <1>9, <1>10, <1>11 DEF Next

\* An empty queue is an empty pool.
LEMMA InitPool == Init => Pool!PoolInit
<1> SUFFICES ASSUME Init PROVE Pool!PoolInit
  OBVIOUS
<1>1. limits.MaxActive \in Nat \ {0}
  <2>1. PICK l \in LimitSettings : limits = normalizeLimits(l)
    BY DEF Init
  <2> QED BY <2>1, NormalizedType
<1>2. PoolFate = [i \in Items |-> "new"]
  <2>1. \A i \in Items : phase[i] = "idle"
    BY DEF Init
  <2> QED BY <2>1, Fates DEF FatesAre, PoolFate
<1>3. PoolLine = [m \in Members |-> <<>>]
  BY DEF Init, PoolLine, Waiting
<1> QED BY <1>1, <1>2, <1>3 DEF Pool!PoolInit, PoolFate, PoolLine

\* The queue implements the pool it promises, for any members, calls and
\* limits: no call starts above the limit, twice, out of its member's order or
\* after it has left, and none jumps over a line.
THEOREM QueueImplementsPool == Spec => ImplementsSlotPool
BY InitPool, NextPool, Invariance, PTL DEF Spec, ImplementsSlotPool, Pool!PoolSpec
=============================================================================
