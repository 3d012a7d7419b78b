---------------------------- MODULE CommunityLog ----------------------------
(***************************************************************************)
(* The community log: members write signed events into their own database, *)
(* and every installation exchanges events with the peers it knows, page   *)
(* by page, with one cursor per author, the gaps below it and, while the   *)
(* log is small, the ids it holds.  What a channel shows is computed from  *)
(* the stored events by Materialize.                                       *)
(*                                                                         *)
(* An event never changes once it is signed: event[i] is the content of id *)
(* i for everybody, and a log is a set of ids.  Ids are numbers, since the *)
(* code orders them; which id an event gets is its hash, so it is chosen   *)
(* freely.  All events belong to one channel and are inside the retention  *)
(* window.  A node runs one exchange at a time; an owner's requests may    *)
(* overlap, since the handlers share no lock.                              *)
(***************************************************************************)
EXTENDS Integers, FiniteSets, FiniteSetsExt

CONSTANTS
  Nodes,        \* installations, numbered as the database orders authors
  Creator,      \* the one that holds the room authority
  Ids,          \* event ids
  Requests,     \* writing requests of the owners that may overlap
  Home,         \* the installation each of them is sent to
  KnownLimit,   \* ids sent along with a request: up to 500 in the code
  PageSize,     \* syncPageSize, 500 in the code
  MaxPages,     \* pages of one session with one peer, 200 in the code
  MaxTime       \* timestamps are 1..MaxTime; clocks need not agree

ASSUME LogAssumption ==
  /\ Nodes \subseteq Nat
  /\ Creator \in Nodes
  /\ Ids \subseteq Nat
  /\ IsFiniteSet(Ids)
  /\ Home \in [Requests -> Nodes]
  /\ KnownLimit \in Nat
  /\ PageSize \in Nat \ {0}
  /\ MaxPages \in Nat \ {0}
  /\ MaxTime \in Nat \ {0}

VARIABLES
  event,    \* the signed events
  log,      \* community_events of each node
  local,    \* those of them whose replicated_status is "local"
  newSeq,   \* the number each request is about to sign under, or NoSeq
  pc,       \* where the sync loop of each node stands
  todo,     \* the peers it has still to visit
  peer,     \* the peer it is exchanging pages with
  page,     \* the page it is at
  push,     \* pushEvents, read at the start
  seen,     \* history: what each request's author had signed when it began
  before    \* history: the same for each event, kept from its request

vars == <<event, log, local, newSeq, pc, todo, peer, page, push, seen, before>>
store == <<event, log, local>>
history == <<seen, before>>
session == <<pc, todo, peer, page, push>>

Kinds == {"message", "edit", "delete", "tombstone"}
NoEvent == [kind |-> "none"]
Nobody  == -1
NoTarget == -1
NoSeq == 0

Seqs == 1..Cardinality(Ids)
Events == [kind : Kinds, author : Nodes, seq : Seqs, target : Ids \cup {NoTarget},
           time : 1..MaxTime]

Init ==
  /\ event = [i \in Ids |-> NoEvent]
  /\ log = [n \in Nodes |-> {}]
  /\ local = [n \in Nodes |-> {}]
  /\ newSeq = [r \in Requests |-> NoSeq]
  /\ pc = [n \in Nodes |-> "idle"]
  /\ todo = [n \in Nodes |-> {}]
  /\ peer = [n \in Nodes |-> Nobody]
  /\ page = [n \in Nodes |-> 0]
  /\ push = [n \in Nodes |-> {}]
  /\ seen = [r \in Requests |-> {}]
  /\ before = [i \in Ids |-> {}]

-----------------------------------------------------------------------------
(* Writing *)

By(n, a) == {i \in log[n] : event[i].author = a}
MaxSeq(S) == IF S = {} THEN 0 ELSE Max({event[i].seq : i \in S})

NextSeq_Repeats(n) == IF By(n, n) = {} THEN 1 ELSE MaxSeq(By(n, n))
NextSeq_SkipsOne(n) == MaxSeq(By(n, n)) + 2
\* GetLatestAuthorSeq and the increment every handler makes.
NextSeq(n) == MaxSeq(By(n, n)) + 1

FreeIds == {i \in Ids : event[i] = NoEvent}
SignedBy(a) == {i \in Ids \ FreeIds : event[i].author = a}

\* A handler has checked its request and reads the author's latest number,
\* which it uses later without a transaction.  Requests start only while ids
\* are left for all of them.
ReadSeq(r) ==
  /\ newSeq[r] = NoSeq
  /\ Cardinality(FreeIds) > Cardinality({q \in Requests : newSeq[q] # NoSeq})
  /\ newSeq' = [newSeq EXCEPT ![r] = NextSeq(Home[r])]
  /\ seen' = [seen EXCEPT ![r] = SignedBy(Home[r])]
  /\ UNCHANGED <<store, session, before>>

\* It signs an event, whose id is its hash, with the time of its own clock and
\* saves it as local.  The sync it starts is one that SyncStart may take at any
\* time.
SignAndSave(r, kind, target) ==
  LET n == Home[r]
  IN  /\ newSeq[r] # NoSeq
      /\ \E i \in FreeIds, t \in 1..MaxTime :
           /\ event' = [event EXCEPT ![i] = [kind |-> kind, author |-> n,
                          seq |-> newSeq[r], target |-> target, time |-> t]]
           /\ log' = [log EXCEPT ![n] = @ \cup {i}]
           /\ local' = [local EXCEPT ![n] = @ \cup {i}]
           /\ before' = [before EXCEPT ![i] = seen[r]]
      /\ newSeq' = [newSeq EXCEPT ![r] = NoSeq]
      /\ seen' = [seen EXCEPT ![r] = {}]
      /\ UNCHANGED session

PostMessage(r) == SignAndSave(r, "message", NoTarget)

\* The target of an edit or a deletion is a stored event of the same author.
EditMessage(r, target) ==
  /\ target \in By(Home[r], Home[r])
  /\ SignAndSave(r, "edit", target)

DeleteMessage(r, target) ==
  /\ target \in By(Home[r], Home[r])
  /\ SignAndSave(r, "delete", target)

\* The creator may name any event, also one its own log lacks.
ModerateMessage(r, target) ==
  /\ Home[r] = Creator
  /\ event[target] # NoEvent
  /\ SignAndSave(r, "tombstone", target)

-----------------------------------------------------------------------------
(* Exchanging *)

\* SyncCommunityEvents reads the events to push and the peers to visit.
SyncStart(n) ==
  /\ pc[n] = "idle"
  /\ pc' = [pc EXCEPT ![n] = "peers"]
  /\ todo' = [todo EXCEPT ![n] = Nodes \ {n}]
  /\ push' = [push EXCEPT ![n] = local[n]]
  /\ UNCHANGED <<store, newSeq, peer, page, history>>

NextPeer(n, q) ==
  /\ pc[n] = "peers" /\ q \in todo[n]
  /\ pc' = [pc EXCEPT ![n] = "pages"]
  /\ todo' = [todo EXCEPT ![n] = @ \ {q}]
  /\ peer' = [peer EXCEPT ![n] = q]
  /\ UNCHANGED <<store, newSeq, page, push, history>>

\* syncEventsWithPeer returns.
LeavePeer(n) ==
  /\ pc' = [pc EXCEPT ![n] = "peers"]
  /\ peer' = [peer EXCEPT ![n] = Nobody]
  /\ page' = [page EXCEPT ![n] = 0]

\* The loop is over: every pushed event is marked replicated, whether or not a
\* peer took it.
SyncFinish(n) ==
  /\ pc[n] = "peers" /\ todo[n] = {}
  /\ local' = [local EXCEPT ![n] = @ \ push[n]]
  /\ pc' = [pc EXCEPT ![n] = "idle"]
  /\ push' = [push EXCEPT ![n] = {}]
  /\ UNCHANGED <<event, log, newSeq, todo, peer, page, history>>

\* AuthorCursors and AuthorGaps of the requester's log L.
IsNewSeq(L, i) == event[i].seq > MaxSeq({j \in L : event[j].author = event[i].author})

SameNumber(i, j) == event[i].author = event[j].author /\ event[i].seq = event[j].seq

IsGap_Never(L, i) == FALSE
IsGap(L, i) == ~IsNewSeq(L, i) /\ ~\E j \in L : SameNumber(i, j)

\* The answering store Q holds several events under the same number.
IsConflict(Q, i) == \E j \in Q \ {i} : SameNumber(i, j)

\* Beyond KnownLimit no ids are sent, and an empty list counts as none.
SendsIDs(L) == L # {} /\ Cardinality(L) <= KnownLimit

Wanted(Q, L, i) ==
  IF SendsIDs(L) THEN i \notin L
                 ELSE IsNewSeq(L, i) \/ IsGap(L, i) \/ IsConflict(Q, i)

Sorted(i, j) ==
  \/ event[i].author < event[j].author
  \/ event[i].author = event[j].author /\ event[i].seq < event[j].seq
  \/ SameNumber(i, j) /\ i < j

\* The first page of what the requester is missing.
ListEventsAfterCursor(Q, L) ==
  LET want == {i \in Q : Wanted(Q, L, i)}
  IN  {i \in want : Cardinality({j \in want : Sorted(j, i)}) < PageSize}

\* The peer's log once it has stored the events that page 0 pushes.
WithPush(n, q) == log[q] \cup IF page[n] = 0 THEN push[n] ELSE {}

LastPage_First(n, pull) == TRUE
LastPage(n, pull) == pull = {} \/ page[n] + 1 = MaxPages

\* One round trip of syncEventsWithPeer: handleCommunitySync stores what was
\* pushed and answers with a page, which is stored as replicated.  All events
\* are acceptable, so a page that is not empty always applies.
PageAnswered(n) ==
  LET q == peer[n]
      held == WithPush(n, q)
      pull == ListEventsAfterCursor(held, log[n])
  IN  /\ pc[n] = "pages"
      /\ log' = [log EXCEPT ![q] = held, ![n] = @ \cup pull]
      /\ local' = [local EXCEPT ![n] = @ \ pull]
      /\ IF LastPage(n, pull)
         THEN LeavePeer(n)
         ELSE page' = [page EXCEPT ![n] = @ + 1] /\ UNCHANGED <<pc, peer>>
      /\ UNCHANGED <<event, newSeq, todo, push, history>>

\* The peer cannot be reached, or its answer to a request it served is lost.
PageFails(n) ==
  LET q == peer[n]
  IN  /\ pc[n] = "pages"
      /\ \/ UNCHANGED log
         \/ log' = [log EXCEPT ![q] = WithPush(n, q)]
      /\ LeavePeer(n)
      /\ UNCHANGED <<event, local, newSeq, todo, push, history>>

Write(r) ==
  \/ ReadSeq(r)
  \/ PostMessage(r)
  \/ \E target \in Ids : \/ EditMessage(r, target)
                         \/ DeleteMessage(r, target)
                         \/ ModerateMessage(r, target)

Sync(n) ==
  \/ SyncStart(n)
  \/ \E q \in Nodes : NextPeer(n, q)
  \/ PageAnswered(n)
  \/ PageFails(n)
  \/ SyncFinish(n)

Next == \/ \E r \in Requests : Write(r)
        \/ \E n \in Nodes : Sync(n)

Spec == Init /\ [][Next]_vars

\* The sync loop of every node keeps running, and each of its peers answers a
\* page now and then.
Fairness ==
  \A n \in Nodes :
    /\ WF_vars(SyncStart(n))
    /\ WF_vars(\E q \in Nodes : NextPeer(n, q))
    /\ WF_vars(SyncFinish(n))
    /\ WF_vars(PageAnswered(n) \/ PageFails(n))
    /\ \A q \in Nodes \ {n} : SF_vars(PageAnswered(n) /\ peer[n] = q)

-----------------------------------------------------------------------------
(* Materialize, over a log L *)

\* Of several events under one author and number the smallest id wins.
Winners(L) ==
  {i \in L : \A j \in L : SameNumber(i, j) => i <= j}

\* The order events are applied in.
Before(i, j) ==
  \/ event[i].time < event[j].time
  \/ event[i].time = event[j].time /\ event[i].seq < event[j].seq
  \/ event[i].time = event[j].time /\ event[i].seq = event[j].seq /\ i < j

Applies(i, m, kinds) ==
  /\ event[i].kind \in kinds
  /\ event[i].target = m
  /\ Before(m, i)
  /\ event[i].kind # "tombstone" => event[i].author = event[m].author

\* A message whose content a deletion or a tombstone has replaced: an edit that
\* comes after it changes nothing.
Hidden_EditRestores(L, m) ==
  \E i \in Winners(L) :
    /\ Applies(i, m, {"delete", "tombstone"})
    /\ ~\E j \in Winners(L) : Applies(j, m, {"edit"}) /\ Before(i, j)
Hidden(L, m) == \E i \in Winners(L) : Applies(i, m, {"delete", "tombstone"})

Shown(L, m) == m \in Winners(L) /\ event[m].kind = "message" /\ ~Hidden(L, m)

-----------------------------------------------------------------------------
(* What the log promises. *)

\* Every variable stays in its domain; in particular a node holds only events
\* that were signed.
TypeOK ==
  /\ event \in [Ids -> Events \cup {NoEvent}]
  /\ log \in [Nodes -> SUBSET {i \in Ids : event[i] # NoEvent}]
  /\ \A n \in Nodes : local[n] \subseteq log[n]
  /\ newSeq \in [Requests -> Seqs \cup {NoSeq}]
  /\ pc \in [Nodes -> {"idle", "peers", "pages"}]
  /\ todo \in [Nodes -> SUBSET Nodes]
  /\ peer \in [Nodes -> Nodes \cup {Nobody}]
  /\ page \in [Nodes -> 0..(MaxPages - 1)]
  /\ push \in [Nodes -> SUBSET Ids]
  /\ seen \in [Requests -> SUBSET Ids]
  /\ before \in [Ids -> SUBSET Ids]

\* An event's number is above every number its author had used before the
\* request that signed it began, whatever the author's log gets back from its
\* peers and whatever other requests do meanwhile (GetLatestAuthorSeq).  So two
\* events share a number only when their requests overlapped, and a message
\* sent after another one was answered never costs either of them its place in
\* the channel.
NumbersGrow ==
  \A i \in Ids : \A j \in before[i] : event[j].seq < event[i].seq

\* A session that ended because the peer had nothing more to send, and not on
\* its page limit, has fetched all that the peer held: the cursors, the gaps,
\* the id list and the page size leave nothing behind (ListEventsAfterCursor,
\* syncEventsWithPeer).  Without the id list it may leave an event whose number
\* the requester holds another event under, as long as the peer holds only one.
SyncComplete ==
  [][\A n \in Nodes :
       (pc'[n] = "peers" /\ page[n] + 1 < MaxPages /\ PageAnswered(n))
         => \A i \in log'[peer[n]] :
              \/ i \in log'[n]
              \/ /\ ~SendsIDs(log[n])
                 /\ \E j \in log'[n] : SameNumber(i, j)
                 /\ ~IsConflict(log'[peer[n]], i)]_vars

\* The requests that signed two events of one author overlapped.
Overlapped(i, j) == i # j /\ event[i].author = event[j].author
                      /\ i \notin before[j] /\ j \notin before[i]

\* What its author deleted or the creator removed never shows again at a node
\* that hid it, whatever edits and late events arrive, unless the deletion's
\* request overlapped another one of the same author, whose event may then win
\* the number they share (Materialize).
HiddenStaysHidden ==
  [][\A n \in Nodes : \A i \in Winners(log[n]) : \A m \in log[n] :
       /\ Applies(i, m, {"delete", "tombstone"})
       /\ Shown(log[n], m)'
       => \E j \in log'[n] : Overlapped(i, j)']_vars

\* Once ids are no longer listed, the events that share a number come again
\* with every page: those ahead of i fill a page, and i is never sent.
PushedOut(i) ==
  LET signed == Ids \ FreeIds
  IN  i \in signed
      /\ Cardinality({j \in signed : Sorted(j, i) /\ IsConflict(signed, j)}) >= PageSize

\* Every event reaches every node, also one that was marked replicated while no
\* peer could be reached and also the loser of a number signed twice, unless
\* events that share numbers fill a whole page ahead of it
\* (SyncCommunityEvents, ListEventsAfterCursor).
EveryEventSpreads ==
  \A i \in Ids : event[i] # NoEvent ~> (PushedOut(i) \/ \A n \in Nodes : i \in log[n])
=============================================================================
