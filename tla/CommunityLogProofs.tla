------------------------- MODULE CommunityLogProofs -------------------------
(***************************************************************************)
(* Proofs about CommunityLog, for any number of installations, events and  *)
(* requests, any page size and any limit on the ids sent along.            *)
(*                                                                         *)
(* Everything is proved for requests that overlap: the next author number  *)
(* is read and used without a transaction, so two requests of one owner at *)
(* once may sign two events under one number, and Materialize then drops   *)
(* one of them.                                                            *)
(***************************************************************************)
EXTENDS CommunityLog, FiniteSetTheorems, WellFoundedInduction, TLAPS

USE LogAssumption

\* The ids that have been given to an event, and the requests about to sign.
Signed == {i \in Ids : event[i] # NoEvent}
Writing == {q \in Requests : newSeq[q] # NoSeq}

\* Numbers are handed out without leaving more than one unused, so the number
\* of ids bounds them.
Counted ==
  /\ IsFiniteSet(Writing)
  /\ \A i \in Signed : event[i].seq <= Cardinality(Signed)
  /\ \A r \in Requests : newSeq[r] <= Cardinality(Signed) + 1

\* A session is with another node, and pushes only what its own node holds.
InSession ==
  /\ local \in [Nodes -> SUBSET Ids]
  /\ \A n \in Nodes :
       /\ todo[n] \subseteq Nodes \ {n}
       /\ pc[n] = "pages" => peer[n] \in Nodes \ {n}
       /\ push[n] \subseteq log[n]

Typed == TypeOK /\ Counted /\ InSession

\* An author holds all of its own events.
OwnKept == \A i \in Signed : i \in log[event[i].author]

\* The number a request is about to sign under is above those of the events its
\* author had signed when it began, although not above those signed since.
SeenBelow ==
  \A r \in Writing : \A i \in seen[r] : i \in Signed /\ event[i].seq < newSeq[r]

\* What an event remembers was signed, and an id not in use remembers nothing.
Remembered == \A i \in Ids : before[i] \subseteq Signed /\ (i \notin Signed => before[i] = {})

LogInv == Typed /\ OwnKept /\ SeenBelow /\ Remembered /\ NumbersGrow

-----------------------------------------------------------------------------
(* Numbers *)

\* A set of naturals that is not empty has a least member.
LEMMA LeastOf ==
  ASSUME NEW S \in SUBSET Nat, S # {}
  PROVE  \E x \in S : \A y \in S : x <= y
<1>1. PICK x \in S : \A y \in S : ~(<<y, x>> \in OpToRel(<, Nat))
  BY NatLessThanWellFounded, WFMin
<1>2. \A y \in S : ~(y < x)
  BY <1>1 DEF OpToRel
<1> QED BY <1>2

\* A bounded set of naturals that is not empty has a largest member.
LEMMA MaxFacts ==
  ASSUME NEW S \in SUBSET Nat, S # {}, NEW b \in Nat, \A x \in S : x <= b
  PROVE  Max(S) \in S /\ \A x \in S : x <= Max(S)
<1> DEFINE Above == {u \in Nat : \A x \in S : x <= u}
<1>1. PICK u \in Above : \A w \in Above : u <= w
  <2>1. Above \in SUBSET Nat /\ Above # {}
    BY Zenon
  <2> HIDE DEF Above
  <2> QED BY <2>1, LeastOf
<1>2. u \in S
  <2> SUFFICES ASSUME u \notin S PROVE FALSE
    OBVIOUS
  <2>1. \A x \in S : x <= u - 1
    BY <1>1
  <2>2. PICK x \in S : x \in Nat
    OBVIOUS
  <2>3. u - 1 \in Nat
    BY <2>1, <2>2, <1>1
  <2> QED BY <2>1, <2>3, <1>1
<1>3. \E x \in S : \A y \in S : x >= y
  BY <1>1, <1>2
<1>4. Max(S) \in S /\ \A y \in S : Max(S) >= y
  BY <1>3, Zenon DEF Max
<1> QED BY <1>4

\* MaxSeq is a number of the set, and above all of them.
LEMMA MaxSeqFacts ==
  ASSUME event \in [Ids -> Events \cup {NoEvent}], NEW S \in SUBSET Signed
  PROVE  /\ MaxSeq(S) \in Nat
         /\ \A i \in S : event[i].seq <= MaxSeq(S)
         /\ S # {} => \E i \in S : MaxSeq(S) = event[i].seq
<1> DEFINE T == {event[i].seq : i \in S}
<1>1. CASE S = {}
  BY <1>1 DEF MaxSeq
<1>2. CASE S # {}
  <2>1. Cardinality(Ids) \in Nat
    BY FS_CardinalityType
  <2>2. \A i \in S : event[i].seq \in 1..Cardinality(Ids)
    BY DEF Signed, Events, Seqs, NoEvent
  <2>3. /\ T \in SUBSET Nat /\ T # {}
        /\ \A x \in T : x <= Cardinality(Ids)
    BY <2>1, <2>2, <1>2
  <2>4. Max(T) \in T /\ \A x \in T : x <= Max(T)
    <3> HIDE DEF T
    <3> QED BY <2>1, <2>3, MaxFacts
  <2>5. MaxSeq(S) = Max(T)
    BY <1>2 DEF MaxSeq
  <2> QED BY <2>3, <2>4, <2>5
<1> QED BY <1>1, <1>2

\* A new event makes the signed ones one more.
LEMMA OneMoreSigned ==
  ASSUME event \in [Ids -> Events \cup {NoEvent}], NEW i \in FreeIds, NEW e \in Events,
         event' = [event EXCEPT ![i] = e]
  PROVE  /\ Signed' = Signed \cup {i}
         /\ Cardinality(Signed) \in Nat
         /\ Cardinality(Signed') = Cardinality(Signed) + 1
<1>1. Signed' = Signed \cup {i} /\ i \notin Signed
  BY DEF Signed, FreeIds, Events, NoEvent, Kinds
<1>2. IsFiniteSet(Signed)
  BY FS_Subset DEF Signed
<1> QED BY <1>1, <1>2, FS_AddElement, FS_CardinalityType

-----------------------------------------------------------------------------
(* Types *)

\* Every node starts with an empty log and outside a session.
LEMMA InitType == Init => Typed
<1> SUFFICES ASSUME Init PROVE Typed
  OBVIOUS
<1>1. TypeOK
  BY DEF Init, TypeOK
<1>2. Counted
  <2>1. Writing = {} /\ Signed = {}
    BY DEF Init, Writing, Signed
  <2>2. \A r \in Requests : newSeq[r] = 0
    BY DEF Init, NoSeq
  <2> QED BY <2>1, <2>2, FS_EmptySet DEF Counted
<1>3. InSession
  BY DEF Init, InSession
<1> QED BY <1>1, <1>2, <1>3 DEF Typed

\* The number a request reads is one more than those it has signed, and the
\* bound on ids leaves room for it.
LEMMA NextSeqFacts ==
  ASSUME Typed, NEW r \in Requests, ReadSeq(r)
  PROVE  /\ NextSeq(Home[r]) \in Seqs
         /\ NextSeq(Home[r]) <= Cardinality(Signed) + 1
         /\ \A i \in By(Home[r], Home[r]) : event[i].seq < NextSeq(Home[r])
<1> DEFINE S == By(Home[r], Home[r])
<1>1. Home[r] \in Nodes /\ event \in [Ids -> Events \cup {NoEvent}]
  BY DEF Typed, TypeOK
<1>2. S \in SUBSET Signed
  BY <1>1 DEF Typed, TypeOK, By, Signed
<1>3. /\ IsFiniteSet(Signed)
      /\ Cardinality(Signed) \in Nat /\ Cardinality(Ids) \in Nat
      /\ Cardinality(Signed) <= Cardinality(Ids)
      /\ Cardinality(Signed) = Cardinality(Ids) => Signed = Ids
  <2>1. Signed \in SUBSET Ids
    BY DEF Signed
  <2> QED BY <2>1, FS_Subset, FS_CardinalityType
<1>4. Signed # Ids
  <2> SUFFICES ASSUME Signed = Ids PROVE FALSE
    OBVIOUS
  <2>1. FreeIds = {}
    BY DEF FreeIds, Signed
  <2>2. Cardinality(FreeIds) = 0
    BY <2>1, FS_EmptySet
  <2>3. Cardinality(Writing) \in Nat
    BY FS_CardinalityType DEF Typed, Counted
  <2>4. Cardinality(FreeIds) > Cardinality(Writing)
    BY DEF ReadSeq, Writing
  <2> QED BY <2>2, <2>3, <2>4
<1>5. /\ MaxSeq(S) \in Nat
      /\ \A i \in S : event[i].seq <= MaxSeq(S)
      /\ S # {} => \E i \in S : MaxSeq(S) = event[i].seq
  <2> HIDE DEF S
  <2> QED BY <1>1, <1>2, MaxSeqFacts
<1>6. MaxSeq(S) <= Cardinality(Signed)
  <2>1. CASE S = {}
    BY <2>1, <1>3 DEF MaxSeq
  <2>2. CASE S # {}
    BY <2>2, <1>2, <1>5 DEF Typed, Counted
  <2> QED BY <2>1, <2>2
<1>7. \A i \in S : event[i].seq \in Nat
  <2>1. \A i \in Signed : event[i].seq \in Seqs
    BY <1>1 DEF Signed, Events, NoEvent
  <2> QED BY <2>1, <1>2 DEF Seqs
<1>8. NextSeq(Home[r]) = MaxSeq(S) + 1
  BY DEF NextSeq
<1> HIDE DEF S
<1>9. Cardinality(Signed) < Cardinality(Ids)
  BY <1>3, <1>4
<1>10. \A i \in S : event[i].seq < MaxSeq(S) + 1
  BY <1>5, <1>7
<1> QED BY <1>3, <1>5, <1>6, <1>8, <1>9, <1>10 DEF Seqs, S

\* Reading the next author number keeps the types.
LEMMA ReadType ==
  ASSUME Typed, NEW r \in Requests, ReadSeq(r)
  PROVE  Typed'
<1>1. /\ newSeq' = [newSeq EXCEPT ![r] = NextSeq(Home[r])]
      /\ seen' = [seen EXCEPT ![r] = SignedBy(Home[r])]
      /\ UNCHANGED <<event, log, local, pc, todo, peer, page, push, before>>
  BY DEF ReadSeq, store, session
<1>2. newSeq \in [Requests -> Seqs \cup {NoSeq}]
  BY DEF Typed, TypeOK
<1>3. TypeOK'
  <2>1. newSeq' \in [Requests -> Seqs \cup {NoSeq}]
    BY <1>1, <1>2, NextSeqFacts
  <2>2. seen' \in [Requests -> SUBSET Ids]
    BY <1>1 DEF Typed, TypeOK, SignedBy
  <2> HIDE DEF NoSeq
  <2> QED BY <1>1, <2>1, <2>2 DEF Typed, TypeOK
<1>4. Signed' = Signed
  BY <1>1 DEF Signed
<1>5. Counted'
  <2>1. Writing' \subseteq Writing \cup {r}
    BY <1>1, <1>2 DEF Writing
  <2>2. IsFiniteSet(Writing \cup {r})
    BY FS_AddElement DEF Typed, Counted
  <2>3. IsFiniteSet(Writing')
    BY <2>1, <2>2, FS_Subset
  <2>4. \A q \in Requests : newSeq'[q] <= Cardinality(Signed) + 1
    BY <1>1, <1>2, NextSeqFacts DEF Typed, Counted
  <2> QED BY <1>1, <1>4, <2>3, <2>4 DEF Typed, Counted
<1>6. InSession'
  BY <1>1 DEF Typed, InSession
<1> QED BY <1>3, <1>5, <1>6 DEF Typed

\* What SignAndSave changes, as the proofs use it.
LEMMA SignFacts ==
  ASSUME Typed, NEW r \in Requests, NEW kind \in Kinds, NEW target \in Ids \cup {NoTarget},
         SignAndSave(r, kind, target)
  PROVE  \E i \in FreeIds : \E e \in Events :
           /\ e.author = Home[r] /\ e.seq = newSeq[r] /\ e.seq \in Seqs
           /\ event' = [event EXCEPT ![i] = e]
           /\ log' = [log EXCEPT ![Home[r]] = @ \cup {i}]
           /\ local' = [local EXCEPT ![Home[r]] = @ \cup {i}]
           /\ newSeq' = [newSeq EXCEPT ![r] = NoSeq]
           /\ seen' = [seen EXCEPT ![r] = {}]
           /\ before' = [before EXCEPT ![i] = seen[r]]
           /\ UNCHANGED <<pc, todo, peer, page, push>>
<1>1. PICK i \in FreeIds, t \in 1..MaxTime :
           /\ event' = [event EXCEPT ![i] = [kind |-> kind, author |-> Home[r],
                          seq |-> newSeq[r], target |-> target, time |-> t]]
           /\ log' = [log EXCEPT ![Home[r]] = @ \cup {i}]
           /\ local' = [local EXCEPT ![Home[r]] = @ \cup {i}]
           /\ before' = [before EXCEPT ![i] = seen[r]]
  BY DEF SignAndSave
<1> DEFINE e == [kind |-> kind, author |-> Home[r], seq |-> newSeq[r],
                 target |-> target, time |-> t]
<1>2. newSeq[r] \in Seqs
  BY DEF Typed, TypeOK, SignAndSave
<1>3. e \in Events
  BY <1>2 DEF Events
<1>4. /\ newSeq' = [newSeq EXCEPT ![r] = NoSeq]
      /\ seen' = [seen EXCEPT ![r] = {}]
      /\ UNCHANGED <<pc, todo, peer, page, push>>
  BY DEF SignAndSave, session
<1>5. e.author = Home[r] /\ e.seq = newSeq[r]
  OBVIOUS
<1>6. event' = [event EXCEPT ![i] = e]
  BY <1>1
<1> HIDE DEF e
<1> QED BY <1>1, <1>2, <1>3, <1>4, <1>5, <1>6

\* Signing and saving an event keeps the types and keeps the ids in use counted.
LEMMA SignType ==
  ASSUME Typed, NEW r \in Requests, NEW kind \in Kinds, NEW target \in Ids \cup {NoTarget},
         SignAndSave(r, kind, target)
  PROVE  Typed'
<1>1. PICK i \in FreeIds, e \in Events :
           /\ e.author = Home[r] /\ e.seq = newSeq[r] /\ e.seq \in Seqs
           /\ event' = [event EXCEPT ![i] = e]
           /\ log' = [log EXCEPT ![Home[r]] = @ \cup {i}]
           /\ local' = [local EXCEPT ![Home[r]] = @ \cup {i}]
           /\ newSeq' = [newSeq EXCEPT ![r] = NoSeq]
           /\ seen' = [seen EXCEPT ![r] = {}]
           /\ before' = [before EXCEPT ![i] = seen[r]]
           /\ UNCHANGED <<pc, todo, peer, page, push>>
  BY SignFacts
<1>2. /\ event \in [Ids -> Events \cup {NoEvent}]
      /\ log \in [Nodes -> SUBSET Signed]
      /\ local \in [Nodes -> SUBSET Ids]
      /\ newSeq \in [Requests -> Seqs \cup {NoSeq}]
      /\ \A n \in Nodes : local[n] \subseteq log[n]
      /\ Home[r] \in Nodes /\ i \in Ids
  BY DEF Typed, TypeOK, InSession, Signed, FreeIds
<1>3. /\ Signed' = Signed \cup {i}
      /\ Cardinality(Signed) \in Nat
      /\ Cardinality(Signed') = Cardinality(Signed) + 1
  BY <1>1, <1>2, OneMoreSigned
<1>4. TypeOK'
  <2>1. event' \in [Ids -> Events \cup {NoEvent}]
    BY <1>1, <1>2
  <2>2. log' \in [Nodes -> SUBSET Signed']
    BY <1>1, <1>2, <1>3
  <2>3. \A n \in Nodes : local'[n] \subseteq log'[n]
    BY <1>1, <1>2
  <2>4. newSeq' \in [Requests -> Seqs \cup {NoSeq}]
    BY <1>1, <1>2
  <2>5. log' \in [Nodes -> SUBSET {j \in Ids : event'[j] # NoEvent}]
    BY <2>2 DEF Signed
  <2>6. seen' \in [Requests -> SUBSET Ids] /\ before' \in [Ids -> SUBSET Ids]
    BY <1>1 DEF Typed, TypeOK
  <2> QED BY <1>1, <2>1, <2>3, <2>4, <2>5, <2>6 DEF Typed, TypeOK
<1>5. Counted'
  <2>1. IsFiniteSet(Writing')
    <3>1. Writing' \subseteq Writing
      BY <1>1, <1>2 DEF Writing
    <3> QED BY <3>1, FS_Subset DEF Typed, Counted
  <2>2. \A j \in Signed' : event'[j].seq <= Cardinality(Signed')
    <3>1. \A j \in Signed : event[j].seq \in Nat /\ event[j].seq <= Cardinality(Signed)
      BY <1>2 DEF Typed, Counted, Signed, Events, Seqs, NoEvent
    <3>2. \A j \in Signed : j # i => event'[j] = event[j]
      BY <1>1, <1>2 DEF Signed
    <3>3. event'[i].seq = newSeq[r] /\ newSeq[r] <= Cardinality(Signed) + 1
      BY <1>1, <1>2 DEF Typed, Counted
    <3>4. i \notin Signed
      BY DEF Signed, FreeIds
    <3> QED BY <1>3, <3>1, <3>2, <3>3, <3>4
  <2>3. \A q \in Requests : newSeq'[q] <= Cardinality(Signed') + 1
    <3>1. \A q \in Requests : newSeq[q] \in Nat /\ newSeq[q] <= Cardinality(Signed) + 1
      BY <1>2 DEF Typed, Counted, Seqs, NoSeq
    <3> QED BY <1>1, <1>2, <1>3, <3>1 DEF NoSeq
  <2> QED BY <2>1, <2>2, <2>3 DEF Counted
<1>6. InSession'
  <2>1. local' \in [Nodes -> SUBSET Ids]
    BY <1>1, <1>2
  <2>2. \A n \in Nodes : log[n] \subseteq log'[n]
    BY <1>1, <1>2
  <2> QED BY <1>1, <2>1, <2>2 DEF Typed, InSession
<1> QED BY <1>4, <1>5, <1>6 DEF Typed

\* The answering side sends only what it holds.
LEMMA PageHeld ==
  ASSUME NEW Q, NEW L
  PROVE  ListEventsAfterCursor(Q, L) \subseteq Q
BY DEF ListEventsAfterCursor

\* What a peer holds once it has taken a push was signed.
LEMMA HeldFacts ==
  ASSUME Typed, NEW n \in Nodes, pc[n] = "pages"
  PROVE  /\ peer[n] \in Nodes \ {n}
         /\ WithPush(n, peer[n]) \in SUBSET Signed
         /\ log[peer[n]] \subseteq WithPush(n, peer[n])
<1>1. peer[n] \in Nodes \ {n}
  BY DEF Typed, InSession
<1>2. log \in [Nodes -> SUBSET Signed] /\ push[n] \subseteq log[n]
  BY DEF Typed, TypeOK, InSession, Signed
<1> QED BY <1>1, <1>2 DEF WithPush

\* An exchange signs nothing and no log loses an event.
LEMMA SyncFacts ==
  ASSUME Typed, NEW n \in Nodes, Sync(n)
  PROVE  /\ UNCHANGED <<event, newSeq, seen, before>>
         /\ log' \in [Nodes -> SUBSET Signed]
         /\ \A m \in Nodes : log[m] \subseteq log'[m]
<1>1. log \in [Nodes -> SUBSET Signed]
  BY DEF Typed, TypeOK, Signed
<1>2. CASE SyncStart(n)
  BY <1>1, <1>2 DEF SyncStart, store, history
<1>3. CASE \E q \in Nodes : NextPeer(n, q)
  BY <1>1, <1>3 DEF NextPeer, store, history
<1>4. CASE PageAnswered(n)
  <2> DEFINE held == WithPush(n, peer[n])
             pull == ListEventsAfterCursor(held, log[n])
  <2>1. /\ log' = [log EXCEPT ![peer[n]] = held, ![n] = @ \cup pull]
        /\ UNCHANGED <<event, newSeq, seen, before>>
        /\ pc[n] = "pages"
    BY <1>4 DEF PageAnswered, history
  <2>2. /\ peer[n] \in Nodes \ {n}
        /\ held \in SUBSET Signed
        /\ log[peer[n]] \subseteq held
    BY <2>1, HeldFacts
  <2>3. pull \subseteq held
    BY PageHeld
  <2> HIDE DEF held, pull
  <2> QED BY <1>1, <2>1, <2>2, <2>3
<1>5. CASE PageFails(n)
  <2>1. /\ pc[n] = "pages" /\ UNCHANGED <<event, newSeq, seen, before>>
        /\ UNCHANGED log \/ log' = [log EXCEPT ![peer[n]] = WithPush(n, peer[n])]
    BY <1>5 DEF PageFails, history
  <2>2. CASE UNCHANGED log
    BY <1>1, <2>1, <2>2
  <2>3. CASE log' = [log EXCEPT ![peer[n]] = WithPush(n, peer[n])]
    BY <1>1, <2>1, <2>3, HeldFacts
  <2> QED BY <2>1, <2>2, <2>3
<1>6. CASE SyncFinish(n)
  BY <1>1, <1>6 DEF SyncFinish, history
<1> QED BY <1>2, <1>3, <1>4, <1>5, <1>6 DEF Sync

\* The part of the types that an exchange changes, apart from the logs.
Session(m) ==
  /\ pc[m] \in {"idle", "peers", "pages"}
  /\ todo[m] \in SUBSET (Nodes \ {m})
  /\ peer[m] \in Nodes \cup {Nobody}
  /\ pc[m] = "pages" => peer[m] \in Nodes \ {m}
  /\ page[m] \in 0..(MaxPages - 1)
  /\ push[m] \in SUBSET Ids
  /\ push[m] \subseteq log[m]
  /\ local[m] \subseteq log[m]

\* The functions that an exchange of node n changes only at n.
Shaped == /\ pc \in [Nodes -> {"idle", "peers", "pages"}]
          /\ todo \in [Nodes -> SUBSET Nodes]
          /\ peer \in [Nodes -> Nodes \cup {Nobody}]
          /\ page \in [Nodes -> 0..(MaxPages - 1)]
          /\ push \in [Nodes -> SUBSET Ids]
          /\ local \in [Nodes -> SUBSET Ids]

\* A step of the sync loop keeps the shape of its variables and of every session.
LEMMA SyncShape ==
  ASSUME Typed, NEW n \in Nodes, Sync(n)
  PROVE  Shaped' /\ \A m \in Nodes : Session(m)'
<1>1. /\ UNCHANGED <<event, newSeq>>
      /\ log' \in [Nodes -> SUBSET Signed]
      /\ \A m \in Nodes : log[m] \subseteq log'[m]
  BY SyncFacts
<1>2. Shaped /\ \A m \in Nodes : Session(m)
  BY DEF Typed, TypeOK, InSession, Shaped, Session
<1>3. log \in [Nodes -> SUBSET Ids]
  BY DEF Typed, TypeOK
<1>4. CASE SyncStart(n)
  <2>1. /\ pc' = [pc EXCEPT ![n] = "peers"]
        /\ todo' = [todo EXCEPT ![n] = Nodes \ {n}]
        /\ push' = [push EXCEPT ![n] = local[n]]
        /\ UNCHANGED <<log, local, peer, page>>
    BY <1>4 DEF SyncStart, store
  <2> QED BY <1>2, <2>1 DEF Shaped, Session
<1>5. ASSUME NEW q \in Nodes, NextPeer(n, q)
      PROVE  Shaped' /\ \A m \in Nodes : Session(m)'
  <2>1. /\ q \in todo[n]
        /\ pc' = [pc EXCEPT ![n] = "pages"]
        /\ todo' = [todo EXCEPT ![n] = @ \ {q}]
        /\ peer' = [peer EXCEPT ![n] = q]
        /\ UNCHANGED <<log, local, page, push>>
    BY <1>5 DEF NextPeer, store
  <2> QED BY <1>2, <2>1 DEF Shaped, Session
<1>6. CASE PageAnswered(n)
  <2> DEFINE pull == ListEventsAfterCursor(WithPush(n, peer[n]), log[n])
  <2>1. /\ UNCHANGED <<todo, push>>
        /\ local' = [local EXCEPT ![n] = @ \ pull]
        /\ IF LastPage(n, pull)
           THEN LeavePeer(n)
           ELSE page' = [page EXCEPT ![n] = @ + 1] /\ UNCHANGED <<pc, peer>>
    BY <1>6 DEF PageAnswered
  <2>2. \A m \in Nodes : local'[m] \subseteq local[m]
    BY <1>2, <2>1 DEF Shaped
  <2>3. local' \in [Nodes -> SUBSET Ids]
    BY <1>2, <2>1 DEF Shaped
  <2>4. CASE LastPage(n, pull)
    <3>1. /\ pc' = [pc EXCEPT ![n] = "peers"]
          /\ peer' = [peer EXCEPT ![n] = Nobody]
          /\ page' = [page EXCEPT ![n] = 0]
      BY <2>1, <2>4 DEF LeavePeer
    <3> HIDE DEF pull
    <3> QED BY <1>1, <1>2, <2>1, <2>2, <2>3, <3>1 DEF Shaped, Session
  <2>5. CASE ~LastPage(n, pull)
    <3>1. /\ page' = [page EXCEPT ![n] = @ + 1] /\ UNCHANGED <<pc, peer>>
          /\ page[n] + 1 # MaxPages
      BY <2>1, <2>5 DEF LastPage
    <3> HIDE DEF pull
    <3> QED BY <1>1, <1>2, <2>1, <2>2, <2>3, <3>1 DEF Shaped, Session
  <2> QED BY <2>4, <2>5
<1>7. CASE PageFails(n)
  <2>1. /\ pc' = [pc EXCEPT ![n] = "peers"]
        /\ peer' = [peer EXCEPT ![n] = Nobody]
        /\ page' = [page EXCEPT ![n] = 0]
        /\ UNCHANGED <<local, todo, push>>
    BY <1>7 DEF PageFails, LeavePeer
  <2> QED BY <1>1, <1>2, <2>1 DEF Shaped, Session
<1>8. CASE SyncFinish(n)
  <2>1. /\ local' = [local EXCEPT ![n] = @ \ push[n]]
        /\ pc' = [pc EXCEPT ![n] = "idle"]
        /\ push' = [push EXCEPT ![n] = {}]
        /\ UNCHANGED <<log, todo, peer, page>>
    BY <1>8 DEF SyncFinish
  <2> QED BY <1>2, <2>1 DEF Shaped, Session
<1> QED BY <1>4, <1>5, <1>6, <1>7, <1>8 DEF Sync

\* A step of the sync loop keeps the types.
LEMMA SyncType ==
  ASSUME Typed, NEW n \in Nodes, Sync(n)
  PROVE  Typed'
<1>1. /\ UNCHANGED <<event, newSeq, seen, before>>
      /\ log' \in [Nodes -> SUBSET Signed]
  BY SyncFacts
<1>2. Shaped' /\ \A m \in Nodes : Session(m)'
  BY SyncShape
<1>3. Signed' = Signed /\ Writing' = Writing
  BY <1>1 DEF Signed, Writing
<1>4. Counted'
  BY <1>1, <1>3 DEF Typed, Counted
<1>5. log' \in [Nodes -> SUBSET {i \in Ids : event'[i] # NoEvent}]
  BY <1>1 DEF Signed
<1>6. /\ event' \in [Ids -> Events \cup {NoEvent}]
      /\ newSeq' \in [Requests -> Seqs \cup {NoSeq}]
      /\ seen' \in [Requests -> SUBSET Ids]
      /\ before' \in [Ids -> SUBSET Ids]
  BY <1>1 DEF Typed, TypeOK
<1>7. TypeOK'
  BY <1>2, <1>5, <1>6 DEF TypeOK, Shaped, Session
<1>8. InSession'
  BY <1>2 DEF InSession, Shaped, Session
<1> QED BY <1>4, <1>7, <1>8 DEF Typed

\* Every writing step reads a number or signs an event.
LEMMA WriteCases ==
  ASSUME NEW r \in Requests, Write(r)
  PROVE  \/ ReadSeq(r)
         \/ \E kind \in Kinds : \E target \in Ids \cup {NoTarget} :
              SignAndSave(r, kind, target)
BY DEF Write, PostMessage, EditMessage, DeleteMessage, ModerateMessage, Kinds

\* The inductive step of type correctness.
LEMMA NextType == Typed /\ [Next]_vars => Typed'
<1> SUFFICES ASSUME Typed, [Next]_vars PROVE Typed'
  OBVIOUS
<1>1. ASSUME NEW r \in Requests, Write(r) PROVE Typed'
  BY <1>1, WriteCases, ReadType, SignType
<1>2. ASSUME NEW n \in Nodes, Sync(n) PROVE Typed'
  BY <1>2, SyncType
<1>3. CASE UNCHANGED vars
  BY <1>3 DEF vars, Typed, TypeOK, Counted, InSession, Signed, Writing
<1> QED BY <1>1, <1>2, <1>3 DEF Next

\* Every variable stays in its domain, whatever requests overlap and whatever
\* answers are lost: a node holds only events that were signed, and the numbers
\* of GetLatestAuthorSeq never outgrow the events that exist.
THEOREM TypeCorrect == Spec => []TypeOK
<1>1. Typed => TypeOK
  BY DEF Typed
<1> QED BY <1>1, InitType, NextType, PTL DEF Spec

-----------------------------------------------------------------------------
(* Numbers are unique, and deletions last *)

\* The step to the next state keeps every signed event, and no log loses one.
Grows == /\ \A i \in Signed : i \in Signed' /\ event'[i] = event[i]
         /\ \A n \in Nodes : log[n] \subseteq log'[n]

\* No step removes an event from a log or changes one that was signed.
LEMMA StepGrows ==
  ASSUME Typed, [Next]_vars
  PROVE  Grows
<1>1. ASSUME NEW r \in Requests, ReadSeq(r) PROVE Grows
  BY <1>1 DEF ReadSeq, store, session, Grows, Signed
<1>2. ASSUME NEW r \in Requests, NEW kind \in Kinds, NEW target \in Ids \cup {NoTarget},
             SignAndSave(r, kind, target)
      PROVE  Grows
  <2>1. PICK i \in FreeIds, e \in Events :
           /\ event' = [event EXCEPT ![i] = e]
           /\ log' = [log EXCEPT ![Home[r]] = @ \cup {i}]
    BY <1>2, SignFacts
  <2>2. /\ event \in [Ids -> Events \cup {NoEvent}]
        /\ log \in [Nodes -> SUBSET Ids]
        /\ i \notin Signed
    BY DEF Typed, TypeOK, Signed, FreeIds
  <2>3. \A j \in Signed : event'[j] = event[j]
    BY <2>1, <2>2 DEF Signed
  <2>4. \A j \in Signed : j \in Signed'
    BY <2>3 DEF Signed
  <2>5. \A n \in Nodes : log[n] \subseteq log'[n]
    BY <2>1, <2>2
  <2> QED BY <2>3, <2>4, <2>5 DEF Grows
<1>3. ASSUME NEW n \in Nodes, Sync(n) PROVE Grows
  BY <1>3, SyncFacts DEF Grows, Signed
<1>4. CASE UNCHANGED vars
  BY <1>4 DEF vars, Grows, Signed
<1> QED BY <1>1, <1>2, <1>3, <1>4, WriteCases DEF Next

\* The invariant holds of empty logs.
LEMMA InitLog == Init => LogInv
<1> SUFFICES ASSUME Init PROVE LogInv
  OBVIOUS
<1>1. Signed = {} /\ Writing = {} /\ \A i \in Ids : before[i] = {}
  BY DEF Init, Signed, Writing
<1> QED BY <1>1, InitType DEF LogInv, OwnKept, SeenBelow, Remembered, NumbersGrow

\* The number that is read is above every number of the author, because the
\* author's own log has all of its events.
LEMMA ReadLog ==
  ASSUME LogInv, NEW r \in Requests, ReadSeq(r)
  PROVE  OwnKept' /\ SeenBelow' /\ Remembered' /\ NumbersGrow'
<1>1. /\ newSeq' = [newSeq EXCEPT ![r] = NextSeq(Home[r])]
      /\ seen' = [seen EXCEPT ![r] = SignedBy(Home[r])]
      /\ UNCHANGED <<event, log, before>>
  BY DEF ReadSeq, store
<1>2. /\ newSeq \in [Requests -> Seqs \cup {NoSeq}]
      /\ seen \in [Requests -> SUBSET Ids]
  BY DEF LogInv, Typed, TypeOK
<1>3. Signed' = Signed
  BY <1>1 DEF Signed
<1>4. OwnKept' /\ Remembered' /\ NumbersGrow'
  BY <1>1, <1>3 DEF LogInv, OwnKept, Remembered, NumbersGrow
<1>5. SeenBelow'
  <2> SUFFICES ASSUME NEW q \in Writing', NEW i \in seen'[q]
               PROVE  i \in Signed /\ event[i].seq < newSeq'[q]
    BY <1>1, <1>3 DEF SeenBelow
  <2>1. q \in Requests
    BY DEF Writing
  <2>2. CASE q = r
    <3>1. i \in Signed /\ event[i].author = Home[r]
      BY <1>1, <1>2, <2>2 DEF SignedBy, FreeIds, Signed
    <3>2. i \in By(Home[r], Home[r])
      BY <3>1 DEF LogInv, OwnKept, By
    <3>3. event[i].seq < NextSeq(Home[r])
      BY <3>2, NextSeqFacts DEF LogInv
    <3> QED BY <1>1, <1>2, <2>2, <3>1, <3>3
  <2>3. CASE q # r
    <3>1. newSeq'[q] = newSeq[q] /\ seen'[q] = seen[q]
      BY <1>1, <1>2, <2>1, <2>3
    <3>2. q \in Writing
      BY <2>1, <3>1 DEF Writing
    <3> QED BY <3>1, <3>2 DEF LogInv, SeenBelow
  <2> QED BY <2>2, <2>3
<1> QED BY <1>4, <1>5

\* Signing under the number that was read keeps it above what the request saw.
\* Another request may have read the same number meanwhile.
LEMMA SignLog ==
  ASSUME LogInv, NEW r \in Requests, NEW kind \in Kinds,
         NEW target \in Ids \cup {NoTarget}, SignAndSave(r, kind, target)
  PROVE  OwnKept' /\ SeenBelow' /\ Remembered' /\ NumbersGrow'
<1>1. PICK i \in FreeIds, e \in Events :
           /\ e.author = Home[r] /\ e.seq = newSeq[r] /\ e.seq \in Seqs
           /\ event' = [event EXCEPT ![i] = e]
           /\ log' = [log EXCEPT ![Home[r]] = @ \cup {i}]
           /\ newSeq' = [newSeq EXCEPT ![r] = NoSeq]
           /\ seen' = [seen EXCEPT ![r] = {}]
           /\ before' = [before EXCEPT ![i] = seen[r]]
  BY SignFacts DEF LogInv
<1>2. /\ event \in [Ids -> Events \cup {NoEvent}]
      /\ log \in [Nodes -> SUBSET Ids]
      /\ newSeq \in [Requests -> Seqs \cup {NoSeq}]
      /\ seen \in [Requests -> SUBSET Ids]
      /\ before \in [Ids -> SUBSET Ids]
      /\ Home[r] \in Nodes /\ i \in Ids
  BY DEF LogInv, Typed, TypeOK, FreeIds
<1>3. /\ Signed' = Signed \cup {i} /\ i \notin Signed
      /\ \A j \in Signed : event'[j] = event[j]
      /\ event'[i] = e
  <2>1. Signed' = Signed \cup {i}
    BY <1>1, <1>2, OneMoreSigned
  <2> QED BY <2>1, <1>1, <1>2 DEF Signed, FreeIds
<1>4. \A j \in Signed : event[j].author \in Nodes
  BY <1>2 DEF Signed, Events, NoEvent
<1>5. OwnKept'
  <2>1. \A j \in Signed : j \in log'[event[j].author]
    BY <1>1, <1>2, <1>4 DEF LogInv, OwnKept
  <2>2. i \in log'[Home[r]]
    BY <1>1, <1>2
  <2> QED BY <1>1, <1>3, <2>1, <2>2 DEF OwnKept
<1>6. \A j \in seen[r] : j \in Signed /\ event[j].seq < newSeq[r]
  <2>1. r \in Writing
    BY DEF SignAndSave, Writing
  <2> QED BY <2>1 DEF LogInv, SeenBelow
<1>7. SeenBelow'
  <2> SUFFICES ASSUME NEW q \in Writing', NEW j \in seen'[q]
               PROVE  j \in Signed' /\ event'[j].seq < newSeq'[q]
    BY DEF SeenBelow
  <2>1. q \in Requests /\ q # r
    BY <1>1, <1>2 DEF Writing
  <2>2. newSeq'[q] = newSeq[q] /\ seen'[q] = seen[q] /\ q \in Writing
    BY <2>1, <1>1, <1>2 DEF Writing
  <2>3. j \in Signed /\ event[j].seq < newSeq[q]
    BY <2>2 DEF LogInv, SeenBelow
  <2> QED BY <1>3, <2>2, <2>3
<1>8. \A k \in Ids : before'[k] = IF k = i THEN seen[r] ELSE before[k]
  BY <1>1, <1>2
<1>9. Remembered'
  BY <1>3, <1>6, <1>8 DEF LogInv, Remembered
<1>10. NumbersGrow'
  <2> SUFFICES ASSUME NEW k \in Ids, NEW j \in before'[k]
               PROVE  event'[j].seq < event'[k].seq
    BY DEF NumbersGrow
  <2>1. CASE k = i
    <3>1. j \in Signed /\ event[j].seq < newSeq[r]
      BY <1>6, <1>8, <2>1
    <3> QED BY <1>1, <1>3, <2>1, <3>1
  <2>2. CASE k # i
    <3>1. j \in before[k]
      BY <1>8, <2>2
    <3>2. j \in Signed /\ k \in Signed
      BY <3>1 DEF LogInv, Remembered
    <3>3. event[j].seq < event[k].seq
      BY <3>1 DEF LogInv, NumbersGrow
    <3> QED BY <1>3, <3>2, <3>3
  <2> QED BY <2>1, <2>2
<1> QED BY <1>5, <1>7, <1>9, <1>10

\* The inductive step.
LEMMA NextLog ==
  ASSUME LogInv, [Next]_vars
  PROVE  LogInv'
<1> DEFINE Promises == OwnKept /\ SeenBelow /\ Remembered /\ NumbersGrow
<1>1. Typed'
  BY NextType DEF LogInv
<1>2. ASSUME NEW r \in Requests, Write(r)
      PROVE  Promises'
  BY <1>2, WriteCases, ReadLog, SignLog
<1>3. ASSUME UNCHANGED <<event, newSeq, seen, before>>
      PROVE  Promises'
  <2>1. Grows
    BY StepGrows DEF LogInv
  <2>2. Signed' = Signed /\ Writing' = Writing
    BY <1>3 DEF Signed, Writing
  <2>3. \A i \in Signed : event[i].author \in Nodes
    BY DEF LogInv, Typed, TypeOK, Signed, Events, NoEvent
  <2>4. OwnKept'
    BY <1>3, <2>1, <2>2, <2>3 DEF LogInv, OwnKept, Grows
  <2> QED BY <1>3, <2>2, <2>4 DEF LogInv, SeenBelow, Remembered, NumbersGrow
<1>4. ASSUME NEW n \in Nodes, Sync(n)
      PROVE  Promises'
  BY <1>3, <1>4, SyncFacts DEF LogInv
<1>5. ASSUME UNCHANGED vars
      PROVE  Promises'
  BY <1>3, <1>5 DEF vars
<1> QED BY <1>1, <1>2, <1>4, <1>5 DEF LogInv, Next

\* The inductive invariant, whatever requests overlap: an author's log holds
\* all of its events, so the latest number a request finds there is the latest
\* used before it began.
THEOREM Invariance == Spec => []LogInv
<1>1. LogInv /\ [Next]_vars => LogInv'
  BY NextLog
<1> QED BY <1>1, InitLog, PTL DEF Spec

\* An event's number is above every number its author had used before the
\* request that signed it began, whatever other requests do meanwhile and
\* whatever the author's log gets back from its peers: only requests that
\* overlap share a number (GetLatestAuthorSeq).
THEOREM NumbersAlwaysGrow == Spec => []NumbersGrow
<1>1. LogInv => NumbersGrow
  BY DEF LogInv
<1> QED BY <1>1, Invariance, PTL

\* An event that wins its number and hides a message goes on hiding it until an
\* event with its number, from a request that overlapped its own, wins over it.
LEMMA StillHidden ==
  ASSUME LogInv, [Next]_vars,
         NEW n \in Nodes, NEW m \in log[n], NEW i \in Winners(log[n]),
         Applies(i, m, {"delete", "tombstone"}), Shown(log[n], m)'
  PROVE  \E j \in log'[n] : Overlapped(i, j)'
<1>1. LogInv' /\ Grows
  BY NextLog, StepGrows DEF LogInv
<1>2. log[n] \in SUBSET Signed /\ log'[n] \in SUBSET Signed' /\ i \in log[n]
  BY <1>1 DEF LogInv, Typed, TypeOK, Signed, Winners
<1>3. event'[i] = event[i] /\ event'[m] = event[m] /\ i \in log'[n]
  BY <1>1, <1>2 DEF Grows
<1>4. Applies(i, m, {"delete", "tombstone"})'
  BY <1>3 DEF Applies, Before
<1>5. i \notin Winners(log[n])'
  BY <1>4 DEF Shown, Hidden
<1>6. PICK j \in log'[n] : SameNumber(i, j)' /\ ~(i <= j)
  BY <1>3, <1>5 DEF Winners
<1>7. i # j
  <2>1. i \in Nat
    BY <1>2 DEF Signed
  <2> QED BY <1>6, <2>1
<1>8. i \in Signed' /\ j \in Signed'
  BY <1>2, <1>3
<1>9. event'[i].seq \in Nat /\ event'[i].seq = event'[j].seq /\ event'[i].author = event'[j].author
  BY <1>1, <1>6, <1>8 DEF LogInv, Typed, TypeOK, Signed, Events, Seqs, NoEvent, SameNumber
<1>10. i \notin before'[j] /\ j \notin before'[i]
  <2>1. \A k \in Ids : \A l \in before'[k] : event'[l].seq < event'[k].seq
    BY <1>1 DEF LogInv, NumbersGrow
  <2>2. i \in Ids /\ j \in Ids
    BY <1>8 DEF Signed
  <2>3. ~(event'[i].seq < event'[j].seq) /\ ~(event'[j].seq < event'[i].seq)
    BY <1>9
  <2> QED BY <2>1, <2>2, <2>3
<1>11. Overlapped(i, j)'
  BY <1>7, <1>9, <1>10 DEF Overlapped
<1> QED BY <1>11

\* What its author deleted or the creator removed never shows again at a node
\* that hid it, whatever edits and late events arrive, unless the deletion's
\* request overlapped another one of the same author (Materialize).
THEOREM DeletionsLast == Spec => HiddenStaysHidden
<1>1. LogInv /\ [Next]_vars =>
        [\A n \in Nodes : \A i \in Winners(log[n]) : \A m \in log[n] :
           /\ Applies(i, m, {"delete", "tombstone"})
           /\ Shown(log[n], m)'
           => \E j \in log'[n] : Overlapped(i, j)']_vars
  BY StillHidden
<1> QED BY <1>1, Invariance, PTL DEF Spec, HiddenStaysHidden

-----------------------------------------------------------------------------
(* A session leaves nothing behind *)

\* The database returns the events in an order that has a first one.
LEMMA FirstSorted ==
  ASSUME event \in [Ids -> Events \cup {NoEvent}], NEW W \in SUBSET Signed, W # {}
  PROVE  \E i \in W : \A j \in W : ~Sorted(j, i)
<1> DEFINE A == {event[i].author : i \in W}
<1>1. \A i \in W : event[i].author \in Nat /\ event[i].seq \in Nat /\ i \in Nat
  <2>1. \A i \in W : i \in Ids /\ event[i] \in Events
    BY DEF Signed
  <2>2. \A e \in Events : e.author \in Nodes /\ e.seq \in Seqs
    BY DEF Events
  <2>3. Seqs \subseteq Nat
    BY DEF Seqs
  <2> QED BY <2>1, <2>2, <2>3
<1>2. PICK a \in A : \A b \in A : a <= b
  <2>1. A \in SUBSET Nat /\ A # {}
    BY <1>1
  <2> HIDE DEF A
  <2> QED BY <2>1, LeastOf
<1> DEFINE ByA == {i \in W : event[i].author = a}
           S == {event[i].seq : i \in ByA}
<1>3. PICK s \in S : \A t \in S : s <= t
  <2>1. S \in SUBSET Nat /\ S # {}
    BY <1>1, <1>2
  <2> HIDE DEF S
  <2> QED BY <2>1, LeastOf
<1> DEFINE F == {i \in ByA : event[i].seq = s}
<1>4. PICK i \in F : \A j \in F : i <= j
  <2>1. F \in SUBSET Nat /\ F # {}
    BY <1>1, <1>3
  <2> HIDE DEF F
  <2> QED BY <2>1, LeastOf
<1>5. \A j \in W : a <= event[j].author
  BY <1>2
<1>6. \A j \in W : event[j].author = a => s <= event[j].seq
  BY <1>3
<1>7. \A j \in W : event[j].author = a /\ event[j].seq = s => i <= j
  BY <1>4
<1>8. i \in W /\ event[i].author = a /\ event[i].seq = s
  BY <1>4
<1> HIDE DEF A, ByA, S, F
<1>9. \A j \in W : ~Sorted(j, i)
  BY <1>1, <1>5, <1>6, <1>7, <1>8 DEF Sorted, SameNumber
<1> QED BY <1>8, <1>9

\* A page is empty only when the requester lacks nothing that it asks for.
LEMMA EmptyPage ==
  ASSUME Typed, NEW Q \in SUBSET Signed, NEW L, ListEventsAfterCursor(Q, L) = {}
  PROVE  \A i \in Q : ~Wanted(Q, L, i)
<1> DEFINE want == {i \in Q : Wanted(Q, L, i)}
<1> SUFFICES ASSUME want # {} PROVE FALSE
  OBVIOUS
<1>1. event \in [Ids -> Events \cup {NoEvent}] /\ want \in SUBSET Signed
  BY DEF Typed, TypeOK
<1>2. PICK i \in want : \A j \in want : ~Sorted(j, i)
  <2> HIDE DEF want
  <2> QED BY <1>1, FirstSorted
<1>3. ListEventsAfterCursor(Q, L)
        = {k \in want : Cardinality({j \in want : Sorted(j, k)}) < PageSize}
  BY DEF ListEventsAfterCursor
<1> HIDE DEF want
<1>4. {j \in want : Sorted(j, i)} = {}
  BY <1>2
<1>5. Cardinality({j \in want : Sorted(j, i)}) = 0
  BY <1>4, FS_EmptySet
<1>6. i \in ListEventsAfterCursor(Q, L)
  BY <1>2, <1>3, <1>5
<1> QED BY <1>6

\* What is not asked for is in the requester's log: it is on the list of ids, or
\* its number is below the cursor and no gap, so that the log has that number.
LEMMA NotWantedHeld ==
  ASSUME NEW n \in Nodes, NEW Q, NEW i \in Q, ~Wanted(Q, log[n], i)
  PROVE  \/ i \in log[n]
         \/ /\ ~SendsIDs(log[n])
            /\ \E j \in log[n] : SameNumber(i, j)
            /\ ~IsConflict(Q, i)
BY DEF Wanted, IsGap

\* A session that ends because the peer had nothing more to send leaves behind
\* at most single events whose number the requester has.
LEMMA SessionLeavesNothing ==
  ASSUME Typed, NEW n \in Nodes, pc'[n] = "peers", page[n] + 1 < MaxPages, PageAnswered(n)
  PROVE  \A i \in log'[peer[n]] :
           \/ i \in log'[n]
           \/ /\ ~SendsIDs(log[n])
              /\ \E j \in log'[n] : SameNumber(i, j)
              /\ ~IsConflict(log'[peer[n]], i)
<1> DEFINE held == WithPush(n, peer[n])
           pull == ListEventsAfterCursor(held, log[n])
<1>1. /\ pc[n] = "pages"
      /\ log' = [log EXCEPT ![peer[n]] = held, ![n] = @ \cup pull]
      /\ LastPage(n, pull) \/ UNCHANGED pc
  BY DEF PageAnswered
<1>2. page[n] \in 0..(MaxPages - 1) /\ log \in [Nodes -> SUBSET Ids]
  BY DEF Typed, TypeOK
<1>3. pull = {}
  <2>1. LastPage(n, pull)
    BY <1>1
  <2> HIDE DEF pull
  <2> QED BY <1>2, <2>1 DEF LastPage
<1>4. peer[n] \in Nodes \ {n} /\ held \in SUBSET Signed
  BY <1>1, HeldFacts
<1>5. \A i \in held : ~Wanted(held, log[n], i)
  <2> HIDE DEF held
  <2> QED BY <1>3, <1>4, EmptyPage DEF pull
<1>6. log'[peer[n]] = held /\ log'[n] = log[n]
  <2> HIDE DEF held, pull
  <2> QED BY <1>1, <1>2, <1>3, <1>4
<1> HIDE DEF held, pull
<1> QED BY <1>5, <1>6, NotWantedHeld

\* A session that ended because the peer had nothing more to send has fetched
\* all that the peer held, but for an event whose number the requester has and
\* the peer holds once, when the ids were not listed (ListEventsAfterCursor,
\* syncEventsWithPeer).
THEOREM SessionsComplete == Spec => SyncComplete
<1>1. LogInv /\ [Next]_vars =>
        [\A n \in Nodes :
           (pc'[n] = "peers" /\ page[n] + 1 < MaxPages /\ PageAnswered(n))
             => \A i \in log'[peer[n]] :
                  \/ i \in log'[n]
                  \/ /\ ~SendsIDs(log[n])
                     /\ \E j \in log'[n] : SameNumber(i, j)
                     /\ ~IsConflict(log'[peer[n]], i)]_vars
  BY SessionLeavesNothing DEF LogInv
<1> QED BY <1>1, Invariance, PTL DEF Spec, SyncComplete
=============================================================================
