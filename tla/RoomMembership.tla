--------------------------- MODULE RoomMembership ---------------------------
(***************************************************************************)
(* Room membership: the creator's handlers that admit, approve and remove  *)
(* members and rotate the invitation, the joiner's side of a join, and the *)
(* background poll by which every installation pulls roster rows from its  *)
(* peers.                                                                  *)
(*                                                                         *)
(* Each installation has its own database: a room row, a table of signed   *)
(* memberships and a table of peer addresses.  One SQL statement is atomic *)
(* (store.mu); a handler is several of them, so its reads may be stale by  *)
(* the time it writes.  SaveRoomState writes the WHOLE row the handler     *)
(* read earlier.  Handlers is the set of creator-side tasks that may be in *)
(* progress together: HTTP requests of the owner, join requests of peers   *)
(* and the creator's own poll.  Nothing orders them, so an update can be   *)
(* lost; the history variable lost records the columns of the creator's    *)
(* room row that a write set back, or that a write should have set and did *)
(* not.                                                                    *)
(*                                                                         *)
(* Signatures are taken as perfect: only the creator makes rows, so every  *)
(* row in circulation verifies, and there is one room.                     *)
(***************************************************************************)
EXTENDS Integers, FiniteSets

CONSTANTS
  Creator,      \* the installation that hosts the room
  Joiners,      \* the other installations
  Handlers,     \* tasks the creator's process can run at the same time
  Crashable,    \* the installations whose process may be killed and restarted
  MaxVersion,   \* bound on roster versions
  MaxCodes      \* bound on invitation codes

Nodes == Joiners \cup {Creator}
Procs == Handlers \cup Joiners       \* a joiner stands for its own poll loop

ASSUME NodesAssumption ==
  /\ Creator \notin Joiners
  /\ Handlers \cap Nodes = {}
  /\ Crashable \subseteq Nodes
  /\ MaxVersion \in Nat \ {0}
  /\ MaxCodes \in Nat \ {0}

VARIABLES
  roomRow,   \* room_state of each node; NoRoom when the table is empty
  members,   \* members table of each node: one row per member id
  addrs,     \* peer_addresses of each node: the members it can dial
  codes,     \* how many invitation codes were ever issued
  client,    \* the join call of each joiner
  answer,    \* the join response on its way to each joiner
  pc,        \* where each task stands
  op,        \* what each task was asked to do or is writing
  rec,       \* the room row each task read
  peers,     \* the addresses a poll has still to ask
  inbox,     \* the rows of the response a poll is applying
  hints,     \* the peer addresses of that response
  lost       \* history: what the creator's room row lost, of "version", "code"

vars == <<roomRow, members, addrs, codes, client, answer, pc, op, rec, peers,
          inbox, hints, lost>>
db == <<roomRow, members, addrs>>
calls == <<codes, client, answer, lost>>
tasks == <<pc, op, rec, peers, inbox, hints>>
poll == <<peers, inbox, hints>>

Statuses == {"admitted", "pending", "removed"}
NoRow  == [status |-> "none", version |-> 0]
NoRoom == [code |-> 0, approval |-> FALSE, version |-> 0]
NoOp   == [kind |-> "none"]
NoRows == [m \in Nodes |-> NoRow]
NoAnswer == [own |-> NoRow, rows |-> NoRows, addrs |-> {}]

Rows  == [status : Statuses, version : 1..MaxVersion] \cup {NoRow}
Rooms == [code : 0..MaxCodes, approval : BOOLEAN, version : 0..MaxVersion]
Ops   == [kind : {"join", "approve"}, member : Joiners]
           \cup [kind : {"remove"}, member : Nodes, rotate : BOOLEAN]
           \cup [kind : {"rotate"}]
           \cup [kind : {"mode"}, approval : BOOLEAN]
           \cup [kind : {"write"}, member : Nodes]
           \cup {NoOp}

Row(status, version) == [status |-> status, version |-> version]
site(p) == IF p \in Handlers THEN Creator ELSE p

(***************************************************************************)
(* handleHostRoom has run: the creator's row is roster version 1 and its   *)
(* first invitation is code 1.                                             *)
(***************************************************************************)
Init ==
  /\ roomRow = [n \in Nodes |-> IF n = Creator
                  THEN [code |-> 1, approval |-> FALSE, version |-> 1]
                  ELSE NoRoom]
  /\ members = [n \in Nodes |-> IF n = Creator
                  THEN [NoRows EXCEPT ![Creator] = Row("admitted", 1)]
                  ELSE NoRows]
  /\ addrs = [n \in Nodes |-> IF n = Creator THEN {Creator} ELSE {}]
  /\ codes = 1
  /\ client = [j \in Joiners |-> "out"]
  /\ answer = [j \in Joiners |-> NoAnswer]
  /\ pc = [p \in Procs |-> "idle"]
  /\ op = [p \in Procs |-> NoOp]
  /\ rec = [p \in Procs |-> NoRoom]
  /\ peers = [p \in Procs |-> {}]
  /\ inbox = [p \in Procs |-> NoRows]
  /\ hints = [p \in Procs |-> {}]
  /\ lost = {}

Return(h) == /\ pc' = [pc EXCEPT ![h] = "idle"]
             /\ op' = [op EXCEPT ![h] = NoOp]
             /\ rec' = [rec EXCEPT ![h] = NoRoom]

(***************************************************************************)
(* The creator's handlers.  Begin is GetRoomState.                         *)
(***************************************************************************)
Begin(h, o, step, r) ==
  /\ pc[h] = "idle"
  /\ pc' = [pc EXCEPT ![h] = step]
  /\ op' = [op EXCEPT ![h] = o]
  /\ rec' = [rec EXCEPT ![h] = r]

\* A handler that makes a new invitation, one that takes the next version.
NewCode(h) == op[h].kind = "rotate" \/ (op[h].kind = "remove" /\ op[h].rotate)
NewVersion(h) == op[h].kind \in {"join", "approve", "remove"}

\* The bounds: a handler that signs a row or makes a code finds room for it.
VersionLeft == roomRow[Creator].version < MaxVersion
CodeLeft == codes + Cardinality({h \in Handlers : NewCode(h)}) < MaxCodes

\* handleJoinRoom sends its request and handleJoin compares the code.  A code
\* that is not the current one is answered with a rejection.
JoinRequest(h, j, c) ==
  /\ client[j] = "out"
  /\ roomRow[j] = NoRoom
  /\ c = roomRow[Creator].code
  /\ VersionLeft \/ members[Creator][j] # NoRow
  /\ Begin(h, [kind |-> "join", member |-> j], "member", roomRow[Creator])
  /\ client' = [client EXCEPT ![j] = "waiting"]
  /\ UNCHANGED <<db, codes, answer, lost, poll>>

ApproveRequest(h, m) ==
  /\ VersionLeft
  /\ Begin(h, [kind |-> "approve", member |-> m], "member", roomRow[Creator])
  /\ UNCHANGED <<db, calls, poll>>

RemoveRequest(h, m, rotate) ==
  /\ VersionLeft /\ (rotate => CodeLeft)
  /\ Begin(h, [kind |-> "remove", member |-> m, rotate |-> rotate], "member",
           roomRow[Creator])
  /\ UNCHANGED <<db, calls, poll>>

RotateRequest(h) ==
  /\ CodeLeft
  /\ Begin(h, [kind |-> "rotate"], "room", roomRow[Creator])
  /\ UNCHANGED <<db, calls, poll>>

ApprovalRequest(h, b) ==
  /\ Begin(h, [kind |-> "mode", approval |-> b], "room", roomRow[Creator])
  /\ UNCHANGED <<db, calls, poll>>

\* The join response: the membership, and the roster and the addresses as the
\* database holds them when it is written.
JoinResponse(own, rows, known) == [own |-> own, rows |-> rows, addrs |-> known]

Reply(j, a) ==
  IF client[j] = "waiting"
    THEN /\ client' = [client EXCEPT ![j] = "answered"]
         /\ answer' = [answer EXCEPT ![j] = a]
    ELSE UNCHANGED <<client, answer>>

\* An answer that is not an admission leaves the joiner's database alone.
Refuse(j) ==
  /\ client' = [client EXCEPT ![j] = IF @ = "waiting" THEN "out" ELSE @]
  /\ UNCHANGED answer

(***************************************************************************)
(* handleJoin reads the member's row before it signs a new one.            *)
(***************************************************************************)
Readmits_Removed(status) == status \in {"none", "removed"}
Readmits(status) == status = "none"

JoinGetMember(h) ==
  LET j == op[h].member
      row == members[Creator][j]
  IN  /\ pc[h] = "member" /\ op[h].kind = "join"
      /\ \/ /\ row.status = "admitted"
            /\ addrs' = [addrs EXCEPT ![Creator] = @ \cup {j}]
            /\ Reply(j, JoinResponse(row, members[Creator], addrs'[Creator]))
            /\ Return(h)
         \/ /\ row.status # "admitted" /\ ~Readmits(row.status)
            /\ Refuse(j)
            /\ Return(h)
            /\ UNCHANGED addrs
         \/ /\ Readmits(row.status)
            /\ pc' = [pc EXCEPT ![h] = "save"]
            /\ UNCHANGED <<op, rec, addrs, client, answer>>
      /\ UNCHANGED <<roomRow, members, codes, lost, poll>>

\* handleApproveMember wants a pending row, handleRemoveMember any row.
Found(h) ==
  IF op[h].kind = "approve" THEN members[Creator][op[h].member].status = "pending"
                            ELSE members[Creator][op[h].member] # NoRow

GetMember(h) ==
  /\ pc[h] = "member" /\ op[h].kind \in {"approve", "remove"}
  /\ IF Found(h) THEN /\ pc' = [pc EXCEPT ![h] = "save"]
                      /\ UNCHANGED <<op, rec>>
                 ELSE Return(h)
  /\ UNCHANGED <<db, calls, poll>>

(***************************************************************************)
(* SaveMember with the next roster version after the one that was read,    *)
(* then SavePeerAddress or DeletePeerAddress.  A removal also cancels the  *)
(* member's requests (FairQueue's CancelMember).                           *)
(***************************************************************************)
NewStatus(h) ==
  CASE op[h].kind = "join"    -> IF rec[h].approval THEN "pending" ELSE "admitted"
    [] op[h].kind = "approve" -> "admitted"
    [] op[h].kind = "remove"  -> "removed"

newRosterVersion_Twice(h) == rec[h].version + 2
newRosterVersion_AsRead(h) == rec[h].version
newRosterVersion(h) == rec[h].version + 1

\* A handler that has saved a row under a version its room row does not yet
\* record.
Signed(h) == pc[h] = "signed"

\* The version the handler read is no longer the room's.
Behind(h) == rec[h].version # roomRow[Creator].version

Addresses(h) ==
  LET m == op[h].member
  IN  CASE op[h].kind = "join"    -> addrs[Creator] \cup {m}
        [] op[h].kind = "approve" -> addrs[Creator]
        [] op[h].kind = "remove"  -> addrs[Creator] \ {m}

SaveMember(h) ==
  /\ pc[h] = "save"
  /\ members' = [members EXCEPT ![Creator][op[h].member] =
                   Row(NewStatus(h), newRosterVersion(h))]
  /\ addrs' = [addrs EXCEPT ![Creator] = Addresses(h)]
  /\ lost' = lost \cup {c \in {"version"} : Behind(h) \/ \E g \in Handlers : Signed(g)}
  /\ pc' = [pc EXCEPT ![h] = "signed"]
  /\ UNCHANGED <<roomRow, codes, client, answer, op, rec, poll>>

\* handleJoin reports a row that could not be saved; saveMembership, which the
\* other two use, ignores the error and they go on.
SaveMemberFails(h) ==
  /\ pc[h] = "save"
  /\ IF op[h].kind = "join"
       THEN Refuse(op[h].member) /\ Return(h) /\ UNCHANGED addrs
       ELSE /\ pc' = [pc EXCEPT ![h] = "room"]
            /\ addrs' = [addrs EXCEPT ![Creator] = Addresses(h)]
            /\ UNCHANGED <<op, rec, client, answer>>
  /\ UNCHANGED <<roomRow, members, codes, lost, poll>>

NewRoom_KeepsCode(h) ==
  [rec[h] EXCEPT !.version = IF NewVersion(h) THEN newRosterVersion(h) ELSE @]
NewRoom_KeepsVersion(h) ==
  [rec[h] EXCEPT !.code = IF NewCode(h) THEN codes + 1 ELSE @]

\* What a handler changes in the row it read.  A code is numbered when it is
\* handed out.
NewRoom(h) ==
  [rec[h] EXCEPT !.version = IF NewVersion(h) THEN newRosterVersion(h) ELSE @,
                 !.code = IF NewCode(h) THEN codes + 1 ELSE @,
                 !.approval = IF op[h].kind = "mode" THEN op[h].approval ELSE @]

\* The columns a row read earlier sets back when it is written.
SetBack(h) ==
  {c \in {"version"} : Behind(h)} \cup {c \in {"code"} : rec[h].code # roomRow[Creator].code}

\* What handleJoin answers at its end: what the tables hold then.
JoinOutcome(h) ==
  IF op[h].kind = "join"
    THEN IF NewStatus(h) = "admitted"
           THEN Reply(op[h].member,
                      JoinResponse(Row("admitted", newRosterVersion(h)),
                                   members[Creator], addrs[Creator]))
           ELSE Refuse(op[h].member)
    ELSE UNCHANGED <<client, answer>>

(***************************************************************************)
(* SaveRoomState, and the handler's return.  handleRemoveMember starts a   *)
(* poll, which any handler may do.                                         *)
(***************************************************************************)
SaveRoomState(h) ==
  /\ pc[h] \in {"room", "signed"}
  /\ roomRow' = [roomRow EXCEPT ![Creator] = NewRoom(h)]
  /\ codes' = IF NewCode(h) THEN codes + 1 ELSE codes
  /\ lost' = lost \cup SetBack(h)
  /\ JoinOutcome(h)
  /\ Return(h)
  /\ UNCHANGED <<members, addrs, poll>>

\* Only handleSetApprovalMode looks at the error of SaveRoomState: the others
\* answer as if the row were written.
SaveRoomFails(h) ==
  /\ pc[h] \in {"room", "signed"}
  /\ codes' = IF NewCode(h) THEN codes + 1 ELSE codes
  /\ lost' = lost \cup {c \in {"version"} : Signed(h)} \cup {c \in {"code"} : NewCode(h)}
  /\ JoinOutcome(h)
  /\ Return(h)
  /\ UNCHANGED <<db, poll>>

(***************************************************************************)
(* The joiner's end of handleJoinRoom: an admission is written down, the   *)
(* room row, its own membership, the roster over whatever the table holds  *)
(* and the addresses, a statement at a time.                               *)
(***************************************************************************)
JoinAnswered(j) ==
  /\ client[j] = "answered"
  /\ roomRow' = [roomRow EXCEPT ![j] =
                   [code |-> 0, approval |-> FALSE, version |-> answer[j].own.version]]
  /\ client' = [client EXCEPT ![j] = "storing"]
  /\ UNCHANGED <<members, addrs, codes, answer, lost, tasks>>

StoreOwn(j) ==
  /\ client[j] = "storing" /\ answer[j].own # NoRow
  /\ members' = [members EXCEPT ![j][j] = answer[j].own]
  /\ answer' = [answer EXCEPT ![j].own = NoRow]
  /\ UNCHANGED <<roomRow, addrs, codes, client, lost, tasks>>

StoreRoster(j, m) ==
  /\ client[j] = "storing" /\ answer[j].own = NoRow /\ answer[j].rows[m] # NoRow
  /\ members' = [members EXCEPT ![j][m] = answer[j].rows[m]]
  /\ answer' = [answer EXCEPT ![j].rows[m] = NoRow]
  /\ UNCHANGED <<roomRow, addrs, codes, client, lost, tasks>>

StoreAddresses(j) ==
  /\ client[j] = "storing" /\ answer[j].own = NoRow /\ answer[j].rows = NoRows
  /\ addrs' = [addrs EXCEPT ![j] = @ \cup {Creator} \cup answer[j].addrs]
  /\ client' = [client EXCEPT ![j] = "out"]
  /\ answer' = [answer EXCEPT ![j] = NoAnswer]
  /\ UNCHANGED <<roomRow, members, codes, lost, tasks>>

\* The 15-second deadline of handleJoinRoom passes, or the answer is lost.
JoinTimeout(j) ==
  /\ client[j] \in {"waiting", "answered"}
  /\ client' = [client EXCEPT ![j] = "out"]
  /\ answer' = [answer EXCEPT ![j] = NoAnswer]
  /\ UNCHANGED <<db, codes, lost, tasks>>

\* handleLeaveRoom of a member: ClearRoom empties the three tables, and a
\* poll in progress is not told.
LeaveRoom(j) ==
  /\ roomRow[j] # NoRoom
  /\ roomRow' = [roomRow EXCEPT ![j] = NoRoom]
  /\ members' = [members EXCEPT ![j] = NoRows]
  /\ addrs' = [addrs EXCEPT ![j] = {}]
  /\ UNCHANGED <<calls, tasks>>

(***************************************************************************)
(* The poll: SyncMembership asks every known peer in turn.                 *)
(***************************************************************************)
SyncMembership(p) ==
  LET n == site(p)
  IN  /\ pc[p] = "idle"
      /\ roomRow[n] # NoRoom
      /\ addrs[n] \ {n} # {}
      /\ pc' = [pc EXCEPT ![p] = "peers"]
      /\ rec' = [rec EXCEPT ![p] = roomRow[n]]
      /\ peers' = [peers EXCEPT ![p] = addrs[n] \ {n}]
      /\ UNCHANGED <<db, calls, op, inbox, hints>>

\* Roster.Admitted: what the TLS handshake checks on both sides, and the
\* handler again on every request.
Admitted(n, m) == roomRow[n] # NoRoom /\ members[n][m].status = "admitted"

\* rosterSnapshot: the rows of q that are newer than the versions n sent.  A
\* caller that admits q has rows and sends their versions, so the branch for a
\* request without them is the join's, which wants every row.
rosterSnapshot(q, n) ==
  [m \in Nodes |-> IF members[q][m].version > members[n][m].version
                     THEN members[q][m] ELSE NoRow]

\* One request of syncMembershipWithPeer that q answered.
SyncAnswered(p, q) ==
  LET n == site(p)
  IN  /\ pc[p] = "peers" /\ q \in peers[p]
      /\ Admitted(n, q) /\ Admitted(q, n)
      /\ addrs' = [addrs EXCEPT ![q] = @ \cup {n}]
      /\ pc' = [pc EXCEPT ![p] = "apply"]
      /\ peers' = [peers EXCEPT ![p] = @ \ {q}]
      /\ inbox' = [inbox EXCEPT ![p] = rosterSnapshot(q, n)]
      /\ hints' = [hints EXCEPT ![p] = addrs'[q]]
      /\ UNCHANGED <<roomRow, members, calls, op, rec>>

\* The peer is away, refuses the handshake, or its answer is lost, in which
\* case it may have noted the caller's address.
SyncFailed(p, q) ==
  LET n == site(p)
  IN  /\ pc[p] = "peers" /\ q \in peers[p]
      /\ \/ UNCHANGED addrs
         \/ /\ Admitted(n, q) /\ Admitted(q, n)
            /\ addrs' = [addrs EXCEPT ![q] = @ \cup {n}]
      /\ peers' = [peers EXCEPT ![p] = @ \ {q}]
      /\ UNCHANGED <<roomRow, members, calls, pc, op, rec, inbox, hints>>

SyncDone(p) ==
  /\ pc[p] = "peers" /\ peers[p] = {}
  /\ pc' = [pc EXCEPT ![p] = "idle"]
  /\ rec' = [rec EXCEPT ![p] = NoRoom]
  /\ UNCHANGED <<db, calls, op, poll>>

\* applyMembershipUpdates, one record: a row that is not newer than the stored
\* one is skipped.
CheckUpdate(p, m) ==
  /\ pc[p] = "apply" /\ inbox[p][m] # NoRow
  /\ IF inbox[p][m].version > members[site(p)][m].version
       THEN /\ pc' = [pc EXCEPT ![p] = "write"]
            /\ op' = [op EXCEPT ![p] = [kind |-> "write", member |-> m]]
            /\ UNCHANGED inbox
       ELSE /\ inbox' = [inbox EXCEPT ![p][m] = NoRow]
            /\ UNCHANGED <<pc, op>>
  /\ UNCHANGED <<db, calls, rec, peers, hints>>

\* SaveMember does not look at the stored version again.  A removal cancels
\* the member's requests and forgets the address.
WriteUpdate(p) ==
  LET n == site(p)
      m == op[p].member
      row == inbox[p][m]
  IN  /\ pc[p] = "write"
      /\ members' = [members EXCEPT ![n][m] = row]
      /\ addrs' = [addrs EXCEPT ![n] =
                     IF row.status = "removed" THEN @ \ {m} ELSE @]
      /\ inbox' = [inbox EXCEPT ![p][m] = NoRow]
      /\ pc' = [pc EXCEPT ![p] = "apply"]
      /\ op' = [op EXCEPT ![p] = NoOp]
      /\ UNCHANGED <<roomRow, calls, rec, peers, hints>>

\* The highest version up to which no roster version is missing: the first
\* missing one less one.
FirstMissing(rows) ==
  CHOOSE v \in 1..(MaxVersion + 1) :
    /\ \A i \in 1..(v - 1) : \E m \in Nodes : rows[m].version = i
    /\ \A m \in Nodes : rows[m].version # v
Contiguous(rows) == FirstMissing(rows) - 1

\* The end of applyMembershipUpdates and of syncMembershipWithPeer: the room
\* row the poll read at its start is saved with the contiguous version if that
\* is higher, and the addresses of admitted members are kept.
AdvanceVersion(p) ==
  LET n == site(p)
      v == Contiguous(members[n])
      advanced == [rec[p] EXCEPT !.version = v]
  IN  /\ pc[p] = "apply" /\ inbox[p] = NoRows
      /\ IF v > rec[p].version
           THEN /\ rec' = [rec EXCEPT ![p] = advanced]
                /\ roomRow' = [roomRow EXCEPT ![n] = advanced]
                /\ lost' = lost \cup (IF n = Creator THEN SetBack(p) ELSE {})
           ELSE UNCHANGED <<rec, roomRow, lost>>
      /\ addrs' = [addrs EXCEPT ![n] =
                     @ \cup {m \in hints[p] : members[n][m].status = "admitted"}]
      /\ hints' = [hints EXCEPT ![p] = {}]
      /\ pc' = [pc EXCEPT ![p] = "peers"]
      /\ UNCHANGED <<members, codes, client, answer, op, peers, inbox>>

(***************************************************************************)
(* The process of n is killed: its tasks are gone, its database stays.     *)
(***************************************************************************)
Crash(n) ==
  LET mine == {p \in Procs : site(p) = n}
  IN  /\ n \in Crashable
      /\ \/ \E p \in mine : pc[p] # "idle"
         \/ n \in Joiners /\ client[n] # "out"
      /\ lost' = lost \cup {c \in {"version"} : \E p \in mine : Signed(p)}
      /\ pc' = [p \in Procs |-> IF p \in mine THEN "idle" ELSE pc[p]]
      /\ op' = [p \in Procs |-> IF p \in mine THEN NoOp ELSE op[p]]
      /\ rec' = [p \in Procs |-> IF p \in mine THEN NoRoom ELSE rec[p]]
      /\ peers' = [p \in Procs |-> IF p \in mine THEN {} ELSE peers[p]]
      /\ inbox' = [p \in Procs |-> IF p \in mine THEN NoRows ELSE inbox[p]]
      /\ hints' = [p \in Procs |-> IF p \in mine THEN {} ELSE hints[p]]
      /\ client' = [j \in Joiners |-> IF j = n THEN "out" ELSE client[j]]
      /\ answer' = [j \in Joiners |-> IF j = n THEN NoAnswer ELSE answer[j]]
      /\ UNCHANGED <<db, codes>>

CreatorStep(h) ==
  \/ \E j \in Joiners, c \in 1..codes : JoinRequest(h, j, c)
  \/ \E m \in Joiners : ApproveRequest(h, m)
  \/ \E m \in Joiners, b \in BOOLEAN : RemoveRequest(h, m, b)
  \/ RotateRequest(h)
  \/ \E b \in BOOLEAN : ApprovalRequest(h, b)
  \/ JoinGetMember(h)
  \/ GetMember(h)
  \/ SaveMember(h)
  \/ SaveMemberFails(h)
  \/ SaveRoomState(h)
  \/ SaveRoomFails(h)

JoinerStep(j) ==
  \/ JoinAnswered(j)
  \/ StoreOwn(j)
  \/ \E m \in Nodes : StoreRoster(j, m)
  \/ StoreAddresses(j)
  \/ JoinTimeout(j)
  \/ LeaveRoom(j)

PollStep(p) ==
  \/ SyncMembership(p)
  \/ \E q \in Nodes : SyncAnswered(p, q)
  \/ \E q \in Nodes : SyncFailed(p, q)
  \/ SyncDone(p)
  \/ \E m \in Nodes : CheckUpdate(p, m)
  \/ WriteUpdate(p)
  \/ AdvanceVersion(p)

Next ==
  \/ \E h \in Handlers : CreatorStep(h)
  \/ \E j \in Joiners : JoinerStep(j)
  \/ \E p \in Procs : PollStep(p)
  \/ \E n \in Nodes : Crash(n)

Spec == Init /\ [][Next]_vars

-----------------------------------------------------------------------------
(* What the rooms promise. *)

\* Every variable stays in its domain; row versions stay within the bound.
TypeOK ==
  /\ roomRow \in [Nodes -> Rooms]
  /\ members \in [Nodes -> [Nodes -> Rows]]
  /\ addrs \in [Nodes -> SUBSET Nodes]
  /\ codes \in 1..MaxCodes
  /\ client \in [Joiners -> {"out", "waiting", "answered", "storing"}]
  /\ answer \in [Joiners -> [own : Rows, rows : [Nodes -> Rows],
                             addrs : SUBSET Nodes]]
  /\ pc \in [Procs -> {"idle", "member", "save", "signed", "room", "peers",
                       "apply", "write"}]
  /\ op \in [Procs -> Ops]
  /\ rec \in [Procs -> Rooms]
  /\ peers \in [Procs -> SUBSET Nodes]
  /\ inbox \in [Procs -> [Nodes -> Rows]]
  /\ hints \in [Procs -> SUBSET Nodes]
  /\ lost \subseteq {"version", "code"}

\* A copy of a row is the creator's row or older than it.
Follows(row, m) == row = members[Creator][m] \/ row.version < members[Creator][m].version

\* As long as no version of the room row was lost, no installation holds a row
\* that contradicts the creator's under the same version or a later one:
\* whatever is out of date is out of date in a way the next pull repairs, since
\* rosterSnapshot sends only higher versions.  This is what makes a removal
\* reach peers (SyncMembership, applyMembershipUpdates).  Overlapping handlers,
\* failed saves and a crash between SaveMember and SaveRoomState lose a version
\* only as SaveMember, SaveRoomState, SaveRoomFails and Crash record in lost.
CreatorAhead ==
  "version" \in lost \/ \A n \in Nodes, m \in Nodes : Follows(members[n][m], m)

\* One roster version is never signed for two changes (handleJoin,
\* handleApproveMember and handleRemoveMember each take the next one), unless a
\* handler signed on a room row that was out of date, or did not live to record
\* what it signed.
OneChangePerVersion ==
  "version" \in lost \/
  \A n1, n2, m1, m2 \in Nodes :
    (members[n1][m1] # NoRow /\ members[n1][m1].version = members[n2][m2].version)
      => m1 = m2 /\ members[n1][m1] = members[n2][m2]

\* The code that admits is the last one handed out ("Code rotation changes the
\* admission secret", docs/ARCHITECTURE.md:49): an earlier one comes back only
\* by a write of a room row read before the rotation, and the last one is
\* missing only if its save failed (handleRotateInvitation, handleRemoveMember,
\* and every handler that writes the row back).
CodeCurrent == "code" \in lost \/ roomRow[Creator].code = codes

\* Once the creator has removed a member, no handler turns the row back into
\* another status (handleJoin: "device was removed from this room and cannot
\* rejoin"), unless it read the room row before the removal reached it: an
\* approval or a join that overlaps the removal, and nothing else.
RemovalIsFinal ==
  [][\A m \in Nodes :
       members[Creator][m].status = "removed" /\ "version" \notin lost'
         => members'[Creator][m].status = "removed"]_vars
=============================================================================
