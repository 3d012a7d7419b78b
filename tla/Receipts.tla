------------------------------ MODULE Receipts ------------------------------
(***************************************************************************)
(* Contribution receipts.  A host signs a receipt for an answer it gave    *)
(* and streams it to the requester, who counter-signs it, stores it and    *)
(* acknowledges it; members then exchange what they hold, in pages, when   *)
(* their owners ask for it.  A member's leaderboard is computed from its   *)
(* own store.                                                              *)
(*                                                                         *)
(* One page of a session is three steps: the request is made from the      *)
(* store as it is (SyncRequest), the peer serves it (ContributionsSync),   *)
(* the answer is stored (SyncApply).  Receipts arrive at both ends in      *)
(* between.  A member runs one round at a time.  Request ids are random in *)
(* the code: here they are numbers drawn in any order.                     *)
(***************************************************************************)
EXTENDS Integers, Sequences, FiniteSets, SequencesExt

CONSTANTS
  Members,        \* positive numbers: a page is sorted by member
  Ids,            \* request ids, a set of numbers
  Asks,           \* the host and the requester of each request
  MaxTime,        \* bound on the clock
  PageSize,       \* syncPageSize
  MaxPages,       \* pages of one session, 200 in the code
  KnownLimit,     \* ids listed in a request, 500 in the code
  MaxPerPairDay,  \* 20 in the code
  DayLength,
  Window,         \* of the leaderboard, 30 days in the code
  Skew,           \* tolerated clock skew, 300 s in the code
  Strangers,      \* whom a member's roster lacks at first
  Syncers,        \* the members whose owners ask for a sync
  Choosers        \* the members whose owners change contributions_opt_out

ASSUME ReceiptAssumption ==
  /\ Members \subseteq Nat \ {0}
  /\ Ids \subseteq Nat
  /\ Asks \in [Ids -> [host : Members, requester : Members]]
  /\ {MaxTime, KnownLimit, Window, Skew} \subseteq Nat
  /\ {PageSize, MaxPages, MaxPerPairDay, DayLength} \subseteq Nat \ {0}
  /\ Syncers \cup Choosers \subseteq Members
  /\ Strangers \in [Members -> SUBSET Members]

VARIABLES
  receipt,   \* what the hosts signed
  wire,      \* receipts on their way to the requester
  acks,      \* counter-signed receipts on their way to the host; what is lost
             \* on either way stays there for ever
  store,     \* contribution_receipts of each member: none, local, replicated
  optOut,    \* contributions_opt_out
  roster,    \* the members each member knows
  now,
  sync       \* the round in progress at each member

vars == <<receipt, wire, acks, store, optOut, roster, now, sync>>

Times == 0..MaxTime
NoReceipt == [host |-> 0]
Nobody == 0

\* A round: the peers it has yet to visit and what it pushes.
Round(pc, todo, push) ==
  [pc |-> pc, todo |-> todo, push |-> push, peer |-> Nobody, page |-> 0,
   pageCursors |-> {}, held |-> {}, pull |-> {}, owed |-> {}]
NoSync == Round("idle", {}, {})

Init ==
  /\ receipt = [i \in Ids |-> NoReceipt]
  /\ wire = {} /\ acks = {}
  /\ store = [m \in Members |-> [i \in Ids |-> "none"]]
  /\ optOut = [m \in Members |-> FALSE]
  /\ roster = [m \in Members |-> Members \ Strangers[m]]
  /\ now = 0
  /\ sync = [m \in Members |-> NoSync]

Host(i) == receipt[i].host
Requester(i) == receipt[i].requester
Time(i) == receipt[i].time
SamePair(i, j) == Host(i) = Host(j) /\ Requester(i) = Requester(j)

ListReceiptIDs(m) == {i \in Ids : store[m][i] # "none"}

\* SaveReceipt of a set of receipts: the status is overwritten.
SaveReceipt(m, set, status) ==
  [store EXCEPT ![m] = [i \in Ids |-> IF i \in set THEN status ELSE @[i]]]

\* A signature can be checked once its signer is known.
VerifyHost(m, i) == Host(i) \in roster[m]
VerifyRequester(m, i) == Requester(i) \in roster[m]
VerifyReceipt(m, i) == VerifyHost(m, i) /\ VerifyRequester(m, i)

-----------------------------------------------------------------------------
(* From the host to the requester *)

\* The end of handleInference: a finished answer to another member.
SignHost(i) ==
  /\ receipt[i] = NoReceipt
  /\ Asks[i].host # Asks[i].requester /\ ~optOut[Asks[i].host]
  /\ receipt' = [receipt EXCEPT ![i] =
       [host |-> Asks[i].host, requester |-> Asks[i].requester, time |-> now]]
  /\ wire' = wire \cup {i}
  /\ UNCHANGED <<acks, store, optOut, roster, now, sync>>

InboundReceipt(i) ==
  /\ i \in wire
  /\ wire' = wire \ {i}
  /\ LET m == Requester(i)
     IN  IF optOut[m] \/ ~VerifyHost(m, i) THEN UNCHANGED <<acks, store>>
         ELSE /\ store' = SaveReceipt(m, {i}, "local")
              /\ acks' = acks \cup {i}
  /\ UNCHANGED <<receipt, optOut, roster, now, sync>>

\* handleContributionsAck at the host.
ContributionsAck(i) ==
  /\ i \in acks
  /\ acks' = acks \ {i}
  /\ store' = IF VerifyReceipt(Host(i), i) THEN SaveReceipt(Host(i), {i}, "replicated")
              ELSE store
  /\ UNCHANGED <<receipt, wire, optOut, roster, now, sync>>

SaveContributionsSettings(m) ==
  /\ optOut' = [optOut EXCEPT ![m] = ~@]
  /\ UNCHANGED <<receipt, wire, acks, store, roster, now, sync>>

\* The roster of a member catches up.
LearnMember(m, n) ==
  /\ n \notin roster[m]
  /\ roster' = [roster EXCEPT ![m] = @ \cup {n}]
  /\ UNCHANGED <<receipt, wire, acks, store, optOut, now, sync>>

Tick ==
  /\ now < MaxTime
  /\ now' = now + 1
  /\ UNCHANGED <<receipt, wire, acks, store, optOut, roster, sync>>

-----------------------------------------------------------------------------
(* A round of SyncContributions *)

SyncStart(m) ==
  /\ sync[m] = NoSync
  /\ sync' = [sync EXCEPT ![m] =
       Round("peers", Members \ {m}, {i \in Ids : store[m][i] = "local"})]
  /\ UNCHANGED <<receipt, wire, acks, store, optOut, roster, now>>

SyncPeer(m, q) ==
  /\ sync[m].pc = "peers" /\ q \in sync[m].todo
  /\ sync' = [sync EXCEPT ![m].pc = "ask", ![m].todo = @ \ {q}, ![m].peer = q]
  /\ UNCHANGED <<receipt, wire, acks, store, optOut, roster, now>>

\* A request carries what ReceiptCursors and ListReceiptIDs read.
SyncRequest(m) ==
  /\ sync[m].pc = "ask"
  /\ sync' = [sync EXCEPT ![m].pc = "asked", ![m].held = ListReceiptIDs(m)]
  /\ UNCHANGED <<receipt, wire, acks, store, optOut, roster, now>>

\* The ids listed in a request made from a store that holds these; an empty
\* list counts as none.
KnownIDs(held) == IF Cardinality(held) > KnownLimit THEN {} ELSE held

\* The order of the receipts of a pair, and of all.
InPair_TimeOnly(i, j) == Time(i) <= Time(j) /\ i # j
InPair(i, j) == Time(i) < Time(j) \/ (Time(i) = Time(j) /\ i < j)
Before(i, j) ==
  \/ Host(i) < Host(j)
  \/ Host(i) = Host(j) /\ Requester(i) < Requester(j)
  \/ SamePair(i, j) /\ InPair(i, j)

\* The newest time held of the pair of receipt i; -1 when the pair has none.
ReceiptCursor(held, i) == Max({-1} \cup {Time(j) : j \in {k \in held : SamePair(i, k)}})

\* What ListReceiptsAfterCursor passes over.  A page cursor is the last receipt
\* of its pair in the page before.
Skipped(i, held, pageCursors) ==
  \/ i \in KnownIDs(held)
  \/ \E j \in pageCursors : SamePair(i, j) /\ (i = j \/ InPair(i, j))
  \/ /\ pageCursors = {} /\ KnownIDs(held) = {}
     /\ Time(i) <= ReceiptCursor(held, i)

ListReceiptsAfterCursor(Q, held, pageCursors) ==
  LET want == {i \in Q : ~Skipped(i, held, pageCursors)}
  IN  {i \in want : Cardinality({j \in want : Before(j, i)}) < PageSize}

NextPageCursors(pull) == {i \in pull : ~\E j \in pull : SamePair(i, j) /\ InPair(i, j)}

\* All that a first request asks for: with a list of ids or an empty store,
\* whatever is not held; else what is newer than the cursor of its pair.
AskedFor(Q, held) ==
  IF Cardinality(held) <= KnownLimit THEN Q \ held
  ELSE {i \in Q : \A j \in held : SamePair(i, j) => Time(j) < Time(i)}

\* handleContributionsSync at the peer: it stores what page 0 pushes and
\* answers with a page.
ContributionsSync(m) ==
  LET s == sync[m]
      pushed == IF s.page = 0 THEN {i \in s.push : VerifyReceipt(s.peer, i)} ELSE {}
      Q == ListReceiptIDs(s.peer) \cup pushed
  IN  /\ s.pc = "asked"
      /\ store' = SaveReceipt(s.peer, pushed, "replicated")
      /\ sync' = [sync EXCEPT
           ![m].pc = "answered",
           ![m].pull = ListReceiptsAfterCursor(Q, s.held, s.pageCursors),
           ![m].owed = IF s.page > 0 THEN @
                       ELSE {i \in AskedFor(Q, s.held) : VerifyReceipt(m, i)}]
      /\ UNCHANGED <<receipt, wire, acks, optOut, roster, now>>

LeavePeer(m) == sync' = [sync EXCEPT ![m] = Round("peers", @.todo, @.push)]

Exhausted_Never(m) == FALSE
Exhausted(m) == sync[m].page + 1 = MaxPages

\* The answer is stored, and another page is asked for unless nothing of this
\* one could be.
SyncApply(m) ==
  LET s == sync[m]
      applied == {i \in s.pull : VerifyReceipt(m, i)}
  IN  /\ s.pc = "answered"
      /\ store' = SaveReceipt(m, applied, "replicated")
      /\ IF applied = {} \/ Exhausted(m) THEN LeavePeer(m)
         ELSE sync' = [sync EXCEPT ![m].pc = "ask", ![m].page = @ + 1, ![m].held = {},
                                   ![m].pull = {}, ![m].pageCursors = NextPageCursors(s.pull)]
      /\ UNCHANGED <<receipt, wire, acks, optOut, roster, now>>

\* The peer cannot be reached, or its answer is lost.
SyncFails(m) ==
  /\ sync[m].pc \in {"asked", "answered"}
  /\ LeavePeer(m)
  /\ UNCHANGED <<receipt, wire, acks, store, optOut, roster, now>>

\* Every pushed receipt is marked replicated, whether or not a peer took it.
SyncFinish(m) ==
  /\ sync[m].pc = "peers" /\ sync[m].todo = {}
  /\ store' = SaveReceipt(m, sync[m].push, "replicated")
  /\ sync' = [sync EXCEPT ![m] = NoSync]
  /\ UNCHANGED <<receipt, wire, acks, optOut, roster, now>>

\* The owner's request goes away between two peers.
SyncCancelled(m) ==
  /\ sync[m].pc = "peers" /\ sync[m].todo # {}
  /\ sync' = [sync EXCEPT ![m] = NoSync]
  /\ UNCHANGED <<receipt, wire, acks, store, optOut, roster, now>>

Next ==
  \/ \E i \in Ids : SignHost(i) \/ InboundReceipt(i) \/ ContributionsAck(i)
  \/ \E m \in Members :
       \/ m \in Choosers /\ SaveContributionsSettings(m)
       \/ m \in Syncers /\ SyncStart(m)
       \/ SyncRequest(m) \/ ContributionsSync(m) \/ SyncApply(m)
       \/ SyncFails(m) \/ SyncFinish(m) \/ SyncCancelled(m)
       \/ \E n \in Members : LearnMember(m, n) \/ SyncPeer(m, n)
  \/ Tick

Spec == Init /\ [][Next]_vars

-----------------------------------------------------------------------------
(* The leaderboard a member shows at time n *)

Day(i) == Time(i) \div DayLength

Eligible(m, n, i) ==
  /\ Time(i) >= n - Window /\ Time(i) <= n + Skew
  /\ ~(optOut[m] /\ Host(i) = m)

SameKey_Host(i, j) == Host(i) = Host(j) /\ Day(i) = Day(j)
SameKey(i, j) == SamePair(i, j) /\ Day(i) = Day(j)

\* The receipts CalculateLeaderboard counts when it meets them in this order.
Counted(m, n, order) ==
  LET after[k \in 0..Len(order)] ==
        IF k = 0 THEN {}
        ELSE IF /\ Eligible(m, n, order[k])
                /\ Cardinality({j \in after[k - 1] : SameKey(order[k], j)}) < MaxPerPairDay
             THEN after[k - 1] \cup {order[k]}
             ELSE after[k - 1]
  IN  after[Len(order)]

\* The entry of a host: its score and whom it helped.
Entry(h, counted) ==
  LET own == {i \in counted : Host(i) = h}
  IN  [score |-> Cardinality(own), helped |-> {Requester(i) : i \in own}]

\* ListReceipts sorts by time only: receipts of the same second come in any
\* order.
ListReceipts(m) ==
  {order \in SetToSeqs(ListReceiptIDs(m)) :
     \A a, b \in DOMAIN order : a < b => Time(order[a]) <= Time(order[b])}

CalculateLeaderboard(m, n, order) ==
  LET counted == Counted(m, n, order) IN [h \in Members |-> Entry(h, counted)]

-----------------------------------------------------------------------------
(* What the receipts promise. *)

\* Every variable stays in its domain: a store holds only receipts a host
\* signed, and a session stays within its pages (syncReceiptsWithPeer).
TypeOK ==
  /\ receipt \in [Ids -> [host : Members, requester : Members, time : Times] \cup {NoReceipt}]
  /\ wire \cup acks \subseteq {i \in Ids : receipt[i] # NoReceipt}
  /\ store \in [Members -> [Ids -> {"none", "local", "replicated"}]]
  /\ \A m \in Members : \A i \in ListReceiptIDs(m) : receipt[i] # NoReceipt
  /\ optOut \in [Members -> BOOLEAN]
  /\ roster \in [Members -> SUBSET Members]
  /\ now \in Times
  /\ \A m \in Members :
       /\ sync[m].pc \in {"idle", "peers", "ask", "asked", "answered"}
       /\ sync[m].page \in 0..(MaxPages - 1)
       /\ sync[m].peer \in Members \cup {Nobody}
       /\ sync[m].push \cup sync[m].held \cup sync[m].pull \subseteq Ids

\* A session that ends because the peer has nothing more to send leaves nothing
\* behind: of all that its first request asked for, every receipt whose signers
\* the member knew then has arrived, whatever page boundaries fell between
\* receipts of one second, whatever receipts of strangers filled the pages and
\* whatever either side learnt meanwhile (syncReceiptsWithPeer,
\* ListReceiptsAfterCursor).
SessionComplete ==
  [][\A m \in Members :
       (SyncApply(m) /\ sync[m].pull = {}) =>
         sync[m].owed \subseteq ListReceiptIDs(m)]_vars

\* Members who hold the same receipts show the same leaderboard, in whatever
\* order their stores return them; only a host that opted out is hidden, at
\* its own leaderboard (CalculateLeaderboard).
LeaderboardsAgree ==
  \A m, n \in Members : (m <= n /\ ListReceiptIDs(m) = ListReceiptIDs(n)) =>
    LET orders == ListReceipts(m)
        hidden == {h \in {m, n} : optOut[h]}
    IN  \A t \in Times :
          LET boards == {CalculateLeaderboard(k, t, order) : k \in {m, n}, order \in orders}
          IN  \A h \in Members \ hidden : \A a, b \in boards : a[h] = b[h]
=============================================================================
