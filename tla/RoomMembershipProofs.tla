------------------------ MODULE RoomMembershipProofs ------------------------
(***************************************************************************)
(* Proofs about RoomMembership, for every choice of the constants: any     *)
(* number of installations, of tasks that overlap at the creator, of       *)
(* failed saves and of crashes of any installation.  The handlers write    *)
(* back whole rows they have read earlier and take no lock around it, so   *)
(* an update can be lost; the promises are proved up to the first step     *)
(* that loses one, which the history variable lost records.                *)
(***************************************************************************)
EXTENDS RoomMembership, FiniteSetTheorems, WellFoundedInduction,
        TLAPS

Phases == {"idle", "member", "save", "signed", "room", "peers", "apply", "write"}
Callings == {"out", "waiting", "answered", "storing"}

USE NodesAssumption DEF Phases, Callings

\* The changes that sign a new row.
Signing == {"join", "approve", "remove"}

\* The handlers that have still to make a new code.
Rotating == {h \in Handlers : NewCode(h)}

\* What a task is doing in each phase, and that the bound on versions leaves
\* room for the row it has still to sign.
Task(p) ==
  /\ pc[p] \in {"member", "save", "signed", "room"} => p \in Handlers
  /\ pc[p] \in {"member", "save", "signed"} => op[p].kind \in Signing
  /\ pc[p] = "room" => op[p].kind \in {"approve", "remove", "rotate", "mode"}
  /\ pc[p] \in {"idle", "peers", "apply"} => op[p] = NoOp
  /\ pc[p] = "write" => op[p].kind = "write" /\ inbox[p][op[p].member] # NoRow
  /\ pc[p] \in {"save", "signed"} \/ (pc[p] = "room" /\ op[p].kind \in Signing)
       => rec[p].version < MaxVersion
  /\ pc[p] = "member" => \/ rec[p].version < MaxVersion
                         \/ op[p].kind = "join" /\ members[Creator][op[p].member] # NoRow

\* The bound on codes leaves room for those that handlers have still to issue.
CodesLeft == IsFiniteSet(Rotating) /\ codes + Cardinality(Rotating) <= MaxCodes

Typed == TypeOK /\ (\A p \in Procs : Task(p)) /\ CodesLeft

\* The row r of member m is in some table or on its way to one.
Circulates(m, r) ==
  \/ \E n \in Nodes : members[n][m] = r
  \/ \E j \in Joiners : answer[j].rows[m] = r
  \/ m \in Joiners /\ answer[m].own = r
  \/ \E p \in Procs : inbox[p][m] = r

NoneSigned == \A h \in Handlers : ~Signed(h)

\* What a task of the creator can rely on as long as no version was lost: its
\* copy of the room row is not ahead of the table, it never finds a row newer
\* than its own, the row it has signed stays, and if its copy is still up to
\* date then the member it is about to admit was not removed meanwhile.
Fresh(h) ==
  /\ rec[h].version <= roomRow[Creator].version
  /\ pc[h] # "write"
  /\ Signed(h) => members[Creator][op[h].member] = Row(NewStatus(h), newRosterVersion(h))
  /\ pc[h] = "save" /\ op[h].kind \in {"join", "approve"} /\ ~Behind(h) /\ NoneSigned =>
       members[Creator][op[h].member].status # "removed"

\* The highest version that has been signed.
Top == IF \E h \in Handlers : Signed(h) /\ ~Behind(h)
       THEN roomRow[Creator].version + 1 ELSE roomRow[Creator].version

\* Every row in circulation is the creator's or older, no version is beyond the
\* last one signed, and no two rows share one.
Rosters ==
  /\ \A m \in Nodes : members[Creator][m].version <= Top
  /\ \A m \in Nodes : \A r \in Rows : Circulates(m, r) => Follows(r, m)
  /\ \A m1, m2 \in Nodes : \A r1, r2 \in Rows :
       (Circulates(m1, r1) /\ Circulates(m2, r2) /\ r1 # NoRow /\ r1.version = r2.version)
         => m1 = m2 /\ r1 = r2

\* At most one handler is between its two writes.
OneSigned == \A g, h \in Handlers : Signed(g) /\ Signed(h) => g = h

Orderly == (\A h \in Handlers : Fresh(h)) /\ OneSigned /\ Rosters

RoomInv == Typed /\ CodeCurrent /\ ("version" \notin lost => Orderly)

-----------------------------------------------------------------------------
(* The operators. *)

\* A roster row is absent exactly when its version is 0, and exactly when it has no status.
LEMMA RowFacts ==
  /\ NoRow \in Rows /\ NoRow.version = 0 /\ NoRow.status = "none"
  /\ \A r \in Rows : /\ r.version \in 0..MaxVersion
                     /\ r = NoRow <=> r.version = 0
                     /\ r = NoRow <=> r.status = "none"
  /\ \A s \in Statuses, v \in 1..MaxVersion :
       /\ Row(s, v) \in Rows /\ Row(s, v) # NoRow
       /\ Row(s, v).status = s /\ Row(s, v).version = v
BY DEF Rows, NoRow, Row, Statuses

\* The version and the code of a room row are within their bounds.
LEMMA RoomFacts ==
  /\ NoRoom \in Rooms
  /\ \A r \in Rooms : r.version \in 0..MaxVersion /\ r.code \in 0..MaxCodes
BY DEF Rooms, NoRoom

\* A room row with a new version keeps its code.
LEMMA NewVersionFacts ==
  ASSUME NEW r \in Rooms, NEW v \in 0..MaxVersion
  PROVE  /\ [r EXCEPT !.version = v] \in Rooms
         /\ [r EXCEPT !.version = v].version = v
         /\ [r EXCEPT !.version = v].code = r.code
BY DEF Rooms

\* A room row with another approval mode keeps its version and its code.
LEMMA ModeFacts ==
  ASSUME NEW r \in Rooms, NEW b \in BOOLEAN
  PROVE  /\ [r EXCEPT !.approval = b] \in Rooms
         /\ [r EXCEPT !.approval = b].version = r.version
         /\ [r EXCEPT !.approval = b].code = r.code
BY DEF Rooms

\* The tasks that sign or write a row name a member.
LEMMA OpFacts ==
  /\ NoOp \in Ops /\ NoOp.kind = "none"
  /\ \A o \in Ops : /\ o.kind \in {"join", "approve"} => o.member \in Joiners
                    /\ o.kind \in Signing \cup {"write"} => o.member \in Nodes
BY DEF Ops, NoOp, Signing, Nodes

\* The records that start a task are tasks.
LEMMA OpTypes ==
  /\ \A j \in Joiners : [kind |-> "join", member |-> j] \in Ops
  /\ \A j \in Joiners : [kind |-> "approve", member |-> j] \in Ops
  /\ [kind |-> "rotate"] \in Ops
  /\ \A n \in Nodes : [kind |-> "write", member |-> n] \in Ops
BY DEF Ops

\* So is the record of a removal.
LEMMA RemoveType ==
  ASSUME NEW j \in Joiners, NEW b \in BOOLEAN
  PROVE  [kind |-> "remove", member |-> j, rotate |-> b] \in Ops
BY Zenon DEF Ops, Nodes

\* So is the record of a change of the approval mode.
LEMMA ModeType ==
  ASSUME NEW b \in BOOLEAN
  PROVE  [kind |-> "mode", approval |-> b] \in Ops
BY Zenon DEF Ops

\* The first missing version exists, and the one before it is taken.
LEMMA ContiguousFacts ==
  ASSUME NEW rows \in [Nodes -> Rows]
  PROVE  /\ Contiguous(rows) \in 0..MaxVersion
         /\ Contiguous(rows) > 0 => \E m \in Nodes : rows[m].version = Contiguous(rows)
<1> DEFINE Missing == {v \in 1..(MaxVersion + 1) : \A m \in Nodes : rows[m].version # v}
<1>1. MaxVersion + 1 \in Missing
  BY RowFacts
<1>2. Missing \subseteq Nat /\ Missing # {}
  BY <1>1
<1>3. PICK v \in Missing : \A w \in Missing : ~(<<w, v>> \in OpToRel(<, Nat))
  <2> HIDE DEF Missing
  <2> QED BY <1>2, NatLessThanWellFounded, WFMin
<1>4. \A w \in Missing : ~(w < v)
  BY <1>2, <1>3 DEF OpToRel
<1>5. \A i \in 1..(v - 1) : \E m \in Nodes : rows[m].version = i
  BY <1>4
<1>6. /\ FirstMissing(rows) \in 1..(MaxVersion + 1)
      /\ \A i \in 1..(FirstMissing(rows) - 1) : \E m \in Nodes : rows[m].version = i
  BY <1>5 DEF FirstMissing
<1> QED BY <1>6 DEF Contiguous

Answers == [own : Rows, rows : [Nodes -> Rows], addrs : SUBSET Nodes]

\* The parts of an answer to a join.
LEMMA AnswerFacts ==
  /\ NoAnswer \in Answers /\ NoAnswer.own = NoRow /\ NoAnswer.rows = NoRows
  /\ \A a \in Answers : a.own \in Rows /\ a.rows \in [Nodes -> Rows] /\ a.addrs \subseteq Nodes
BY RowFacts DEF Answers, NoAnswer, NoRows

\* What the creator puts into an answer can be taken out of it.
LEMMA ResponseFacts ==
  ASSUME NEW own \in Rows, NEW rows \in [Nodes -> Rows], NEW known \in SUBSET Nodes
  PROVE  /\ JoinResponse(own, rows, known) \in Answers
         /\ JoinResponse(own, rows, known).own = own
         /\ JoinResponse(own, rows, known).rows = rows
BY DEF Answers, JoinResponse

-----------------------------------------------------------------------------
(* Types. *)

\* What SaveRoomState writes.
LEMMA NewRoomFacts ==
  ASSUME Typed, NEW h \in Handlers, pc[h] \in {"room", "signed"}
  PROVE  /\ NewRoom(h) \in Rooms
         /\ NewRoom(h).version = IF op[h].kind \in Signing THEN rec[h].version + 1
                                                           ELSE rec[h].version
         /\ NewRoom(h).code = IF NewCode(h) THEN codes + 1 ELSE rec[h].code
         /\ NewCode(h) => codes + 1 \in 1..MaxCodes
<1>1. h \in Procs /\ Task(h) /\ rec[h] \in Rooms /\ op[h] \in Ops /\ codes \in 1..MaxCodes
  BY DEF Procs, Typed, TypeOK
<1>2. NewCode(h) => codes + 1 \in 1..MaxCodes
  <2> SUFFICES ASSUME NewCode(h) PROVE codes + 1 \in 1..MaxCodes
    OBVIOUS
  <2>1. h \in Rotating /\ IsFiniteSet(Rotating)
    BY DEF Rotating, Typed, CodesLeft
  <2>2. Cardinality(Rotating) \in Nat /\ Cardinality(Rotating) # 0
    BY <2>1, FS_CardinalityType, FS_EmptySet
  <2> QED BY <1>1, <2>2 DEF Typed, CodesLeft
<1> DEFINE v == IF NewVersion(h) THEN newRosterVersion(h) ELSE rec[h].version
           c == IF NewCode(h) THEN codes + 1 ELSE rec[h].code
           b == IF op[h].kind = "mode" THEN op[h].approval ELSE rec[h].approval
<1>3. v \in 0..MaxVersion /\ v = IF op[h].kind \in Signing THEN rec[h].version + 1
                                                         ELSE rec[h].version
  BY <1>1, RoomFacts DEF Task, newRosterVersion, NewVersion, Signing
<1>4. c \in 0..MaxCodes
  BY <1>1, <1>2, RoomFacts
<1>5. b \in BOOLEAN
  <2>1. CASE op[h].kind = "mode"
    <3>1. op[h] \in [kind : {"mode"}, approval : BOOLEAN]
      BY <1>1, <2>1 DEF Ops, NoOp
    <3>2. op[h].approval \in BOOLEAN
      BY <3>1, Zenon
    <3>3. b = op[h].approval
      BY <2>1
    <3> QED BY <3>2, <3>3, Zenon
  <2>2. CASE op[h].kind # "mode"
    <3>1. rec[h].approval \in BOOLEAN
      BY <1>1, Zenon DEF Rooms
    <3>2. b = rec[h].approval
      BY <2>2
    <3> QED BY <3>1, <3>2, Zenon
  <2> QED BY <2>1, <2>2
<1>6. NewRoom(h) = [rec[h] EXCEPT !.version = v, !.code = c, !.approval = b]
  BY <1>1 DEF NewRoom, Rooms
<1>7. NewRoom(h) \in Rooms /\ NewRoom(h).version = v /\ NewRoom(h).code = c
  <2> HIDE DEF v, c, b
  <2>1. [rec[h] EXCEPT !.version = v, !.code = c] \in Rooms
    BY <1>1, <1>3, <1>4 DEF Rooms
  <2>2. /\ [rec[h] EXCEPT !.version = v, !.code = c].version = v
        /\ [rec[h] EXCEPT !.version = v, !.code = c].code = c
    BY <1>1 DEF Rooms
  <2>3. NewRoom(h) = [[rec[h] EXCEPT !.version = v, !.code = c] EXCEPT !.approval = b]
    BY <1>1, <1>6 DEF Rooms
  <2> QED BY <1>5, <2>1, <2>2, <2>3, ModeFacts
<1> QED BY <1>2, <1>3, <1>7

\* What SaveMember writes.
LEMMA NewRowFacts ==
  ASSUME Typed, NEW h \in Procs, op[h].kind \in Signing,
         pc[h] \in {"save", "signed", "room"}
  PROVE  /\ NewStatus(h) \in Statuses
         /\ newRosterVersion(h) = rec[h].version + 1
         /\ newRosterVersion(h) \in 1..MaxVersion
         /\ Row(NewStatus(h), newRosterVersion(h)) \in Rows \ {NoRow}
         /\ Row(NewStatus(h), newRosterVersion(h)).version = newRosterVersion(h)
         /\ Row(NewStatus(h), newRosterVersion(h)).status = NewStatus(h)
         /\ op[h].member \in Nodes
<1>1. Task(h) /\ rec[h] \in Rooms /\ op[h] \in Ops
  BY DEF Typed, TypeOK
<1>2. NewStatus(h) \in Statuses
  BY DEF NewStatus, Statuses, Signing
<1>3. newRosterVersion(h) \in 1..MaxVersion
  BY <1>1, RoomFacts DEF Task, newRosterVersion
<1> QED BY <1>1, <1>2, <1>3, RowFacts, OpFacts DEF newRosterVersion

\* Only one task moves.
LEMMA OneMoves ==
  ASSUME Typed, NEW p \in Procs,
         \A q \in Procs \ {p} : /\ pc'[q] = pc[q] /\ op'[q] = op[q]
                                /\ rec'[q] = rec[q] /\ inbox'[q] = inbox[q],
         \A m \in Nodes : members[Creator][m] # NoRow => members'[Creator][m] # NoRow,
         Task(p)'
  PROVE  \A q \in Procs : Task(q)'
<1> SUFFICES ASSUME NEW q \in Procs \ {p} PROVE Task(q)'
  OBVIOUS
<1>1. Task(q) /\ op[q] \in Ops
  BY DEF Typed, TypeOK
<1>2. pc[q] = "member" => op[q].member \in Nodes
  BY <1>1, OpFacts DEF Task
<1> QED BY <1>1, <1>2 DEF Task

\* A step that moves no task and deletes no row of the creator keeps what every task relies
\* on.
LEMMA NoneMoves ==
  ASSUME Typed, UNCHANGED <<pc, op, rec, inbox>>,
         \A m \in Nodes : members[Creator][m] # NoRow => members'[Creator][m] # NoRow
  PROVE  \A q \in Procs : Task(q)'
<1> SUFFICES ASSUME NEW q \in Procs PROVE Task(q)'
  OBVIOUS
<1>1. Task(q) /\ op[q] \in Ops
  BY DEF Typed, TypeOK
<1>2. pc[q] = "member" => op[q].member \in Nodes
  BY <1>1, OpFacts DEF Task
<1> QED BY <1>1, <1>2 DEF Task

\* When no new task is about to rotate the code, enough code numbers are left.
LEMMA CodesShrink ==
  ASSUME Typed, codes' = codes, Rotating' \subseteq Rotating
  PROVE  CodesLeft'
<1>1. /\ IsFiniteSet(Rotating') /\ Cardinality(Rotating') <= Cardinality(Rotating)
      /\ Cardinality(Rotating) \in Nat /\ Cardinality(Rotating') \in Nat
  BY FS_Subset, FS_CardinalityType DEF Typed, CodesLeft
<1> QED BY <1>1 DEF Typed, TypeOK, CodesLeft

\* A step that starts no task and issues no code leaves enough code numbers.
LEMMA CodesSame ==
  ASSUME Typed, UNCHANGED <<codes, op>>
  PROVE  CodesLeft'
<1>1. Rotating' = Rotating
  BY DEF Rotating, NewCode
<1> QED BY <1>1, CodesShrink

\* The room starts with the creator as its only member and nobody at work.
LEMMA InitType == Init => Typed
<1> SUFFICES ASSUME Init PROVE Typed
  OBVIOUS
<1>1. Row("admitted", 1) \in Rows /\ NoRow \in Rows
  BY RowFacts DEF Statuses
<1>2. [code |-> 1, approval |-> FALSE, version |-> 1] \in Rooms /\ NoRoom \in Rooms
  BY DEF Rooms, NoRoom
<1>3. NoRows \in [Nodes -> Rows] /\ [NoRows EXCEPT ![Creator] = Row("admitted", 1)] \in [Nodes -> Rows]
  BY <1>1 DEF NoRows
<1>4. TypeOK
  BY <1>1, <1>2, <1>3, OpFacts, AnswerFacts DEF Init, TypeOK, Answers, Nodes
<1>5. \A p \in Procs : Task(p)
  BY DEF Init, Task
<1>6. Rotating = {}
  BY OpFacts DEF Init, Rotating, NewCode, Procs
<1>7. CodesLeft
  BY <1>6, FS_EmptySet DEF Init, CodesLeft
<1> QED BY <1>4, <1>5, <1>7 DEF Typed

\* The creator's handlers up to their first write.
LEMMA RequestType ==
  ASSUME Typed, NEW h \in Handlers, NEW o \in Ops, NEW step \in {"member", "room"},
         NEW r \in Rooms, Begin(h, o, step, r), codes' \in 1..MaxCodes,
         UNCHANGED <<db, answer, lost, poll>>, client' \in [Joiners -> Callings],
         step = "member" => o.kind \in Signing,
         step = "room" => o.kind \in {"rotate", "mode"},
         step = "member" => \/ r.version < MaxVersion
                            \/ o.kind = "join" /\ members[Creator][o.member] # NoRow,
         CodesLeft'
  PROVE  Typed'
<1> h \in Procs
  BY DEF Procs
<1>1. TypeOK'
  BY DEF Begin, Typed, TypeOK, db, poll
<1>2. Task(h)'
  BY DEF Begin, Typed, TypeOK, Task, db, poll, Signing
<1>3. \A q \in Procs \ {h} : /\ pc'[q] = pc[q] /\ op'[q] = op[q]
                             /\ rec'[q] = rec[q] /\ inbox'[q] = inbox[q]
  BY DEF Begin, Typed, TypeOK, poll
<1>4. \A q \in Procs : Task(q)'
  BY <1>2, <1>3, OneMoves DEF db
<1> QED BY <1>1, <1>4 DEF Typed

\* How a request changes the set of handlers that have still to issue a code.
LEMMA RequestCodes ==
  ASSUME Typed, NEW h \in Handlers, NEW o \in Ops, NEW step, NEW r, Begin(h, o, step, r)
  PROVE  /\ h \notin Rotating /\ Rotating' \subseteq Rotating \cup {h}
         /\ o.kind \notin {"remove", "rotate"} => Rotating' \subseteq Rotating
         /\ ~o.rotate /\ o.kind # "rotate" => Rotating' \subseteq Rotating
<1>1. h \in Procs /\ op[h] = NoOp
  BY DEF Begin, Procs, Typed, Task
<1>2. h \notin Rotating
  BY <1>1, OpFacts DEF Rotating, NewCode
<1>3. op'[h] = o /\ \A g \in Handlers \ {h} : op'[g] = op[g]
  BY <1>1 DEF Begin, Typed, TypeOK, Procs
<1> QED BY <1>2, <1>3 DEF Rotating, NewCode

\* A request that is to make a code found one left for it.
LEMMA CodeTaken ==
  ASSUME Typed, NEW h \in Handlers, NEW o \in Ops, NEW step, NEW r, Begin(h, o, step, r),
         CodeLeft, codes' = codes
  PROVE  CodesLeft'
<1>1. h \notin Rotating /\ Rotating' \subseteq Rotating \cup {h}
  BY RequestCodes
<1>2. /\ IsFiniteSet(Rotating \cup {h})
      /\ Cardinality(Rotating \cup {h}) = Cardinality(Rotating) + 1
      /\ Cardinality(Rotating) \in Nat
  BY <1>1, FS_AddElement, FS_CardinalityType DEF Typed, CodesLeft
<1>3. /\ IsFiniteSet(Rotating') /\ Cardinality(Rotating') <= Cardinality(Rotating) + 1
      /\ Cardinality(Rotating') \in Nat
  BY <1>1, <1>2, FS_Subset, FS_CardinalityType
<1>4. codes + Cardinality(Rotating) < MaxCodes /\ codes \in 1..MaxCodes
  BY DEF CodeLeft, Rotating, Typed, TypeOK
<1> QED BY <1>2, <1>3, <1>4 DEF CodesLeft

\* A request that reaches the creator starts a task that is typed.
LEMMA NextRequest ==
  ASSUME Typed, NEW h \in Handlers,
         \/ \E j \in Joiners, c \in 1..codes : JoinRequest(h, j, c)
         \/ \E m \in Joiners : ApproveRequest(h, m)
         \/ \E m \in Joiners, b \in BOOLEAN : RemoveRequest(h, m, b)
         \/ RotateRequest(h)
         \/ \E b \in BOOLEAN : ApprovalRequest(h, b)
  PROVE  Typed'
<1>1. roomRow[Creator] \in Rooms /\ codes \in 1..MaxCodes
  BY DEF Typed, TypeOK, Nodes
<1>2. ASSUME NEW j \in Joiners, NEW c \in 1..codes, JoinRequest(h, j, c) PROVE Typed'
  <2> DEFINE o == [kind |-> "join", member |-> j]
  <2>1. o \in Ops /\ o.kind = "join" /\ o.member = j
    BY OpTypes
  <2>2. /\ Begin(h, o, "member", roomRow[Creator])
        /\ roomRow[Creator].version < MaxVersion \/ members[Creator][j] # NoRow
        /\ UNCHANGED <<db, answer, poll, codes, lost>>
        /\ client' \in [Joiners -> Callings]
    BY <1>2 DEF JoinRequest, VersionLeft, Typed, TypeOK
  <2> HIDE DEF o
  <2>3. CodesLeft'
    BY <2>1, <2>2, RequestCodes, CodesShrink
  <2> QED BY <1>1, <2>1, <2>2, <2>3, RequestType DEF Signing
<1>3. ASSUME NEW m \in Joiners, ApproveRequest(h, m) PROVE Typed'
  <2> DEFINE o == [kind |-> "approve", member |-> m]
  <2>1. o \in Ops /\ o.kind = "approve"
    BY OpTypes
  <2>2. /\ Begin(h, o, "member", roomRow[Creator])
        /\ roomRow[Creator].version < MaxVersion
        /\ UNCHANGED <<db, answer, poll, codes, lost>>
        /\ client' \in [Joiners -> Callings]
    BY <1>3 DEF ApproveRequest, VersionLeft, calls, Typed, TypeOK
  <2> HIDE DEF o
  <2>3. CodesLeft'
    BY <2>1, <2>2, RequestCodes, CodesShrink
  <2> QED BY <1>1, <2>1, <2>2, <2>3, RequestType DEF Signing
<1>4. ASSUME NEW m \in Joiners, NEW b \in BOOLEAN, RemoveRequest(h, m, b) PROVE Typed'
  <2> DEFINE o == [kind |-> "remove", member |-> m, rotate |-> b]
  <2>1. o \in Ops
    BY RemoveType
  <2>2. o.kind = "remove"
    OBVIOUS
  <2>3. /\ Begin(h, o, "member", roomRow[Creator])
        /\ roomRow[Creator].version < MaxVersion
        /\ b => CodeLeft
        /\ UNCHANGED <<db, answer, poll, codes, lost>>
        /\ client' \in [Joiners -> Callings]
    BY <1>4 DEF RemoveRequest, VersionLeft, calls, Typed, TypeOK
  <2>4. o.rotate = b
    BY Zenon
  <2> HIDE DEF o
  <2>5. CASE b
    <3>1. CodesLeft'
      BY <2>1, <2>3, <2>5, CodeTaken
    <3> QED BY <1>1, <2>1, <2>2, <2>3, <3>1, RequestType DEF Signing
  <2>6. CASE ~b
    <3>1. Rotating' \subseteq Rotating
      BY <2>1, <2>2, <2>3, <2>4, <2>6, RequestCodes
    <3>2. CodesLeft'
      BY <2>3, <3>1, CodesShrink
    <3> QED BY <1>1, <2>1, <2>2, <2>3, <3>2, RequestType DEF Signing
  <2> QED BY <2>5, <2>6
<1>5. CASE RotateRequest(h)
  <2> DEFINE o == [kind |-> "rotate"]
  <2>1. o \in Ops /\ o.kind = "rotate"
    BY OpTypes
  <2>2. /\ Begin(h, o, "room", roomRow[Creator])
        /\ CodeLeft
        /\ UNCHANGED <<db, answer, poll, codes, lost>>
        /\ client' \in [Joiners -> Callings]
    BY <1>5 DEF RotateRequest, calls, Typed, TypeOK
  <2> HIDE DEF o
  <2>3. CodesLeft'
    BY <2>1, <2>2, CodeTaken
  <2> QED BY <1>1, <2>1, <2>2, <2>3, RequestType
<1>6. ASSUME NEW b \in BOOLEAN, ApprovalRequest(h, b) PROVE Typed'
  <2> DEFINE o == [kind |-> "mode", approval |-> b]
  <2>1. o \in Ops
    BY ModeType
  <2>2. o.kind = "mode"
    OBVIOUS
  <2>3. /\ Begin(h, o, "room", roomRow[Creator])
        /\ UNCHANGED <<db, answer, poll, codes, lost>>
        /\ client' \in [Joiners -> Callings]
    BY <1>6 DEF ApprovalRequest, calls, Typed, TypeOK
  <2> HIDE DEF o
  <2>4. CodesLeft'
    BY <2>1, <2>2, <2>3, RequestCodes, CodesShrink
  <2> QED BY <1>1, <2>1, <2>2, <2>3, <2>4, RequestType
<1> QED BY <1>2, <1>3, <1>4, <1>5, <1>6

\* A handler returns.
LEMMA ReturnTask ==
  ASSUME Typed, NEW h \in Handlers, Return(h), UNCHANGED inbox,
         \A m \in Nodes : members[Creator][m] # NoRow => members'[Creator][m] # NoRow
  PROVE  /\ \A q \in Procs : Task(q)'
         /\ pc' \in [Procs -> Phases]
         /\ op' \in [Procs -> Ops] /\ rec' \in [Procs -> Rooms]
         /\ Rotating' = Rotating \ {h}
<1> h \in Procs
  BY DEF Procs
<1>1. /\ pc' \in [Procs -> Phases]
      /\ op' \in [Procs -> Ops] /\ rec' \in [Procs -> Rooms]
  BY OpFacts, RoomFacts DEF Return, Typed, TypeOK
<1>2. Task(h)'
  BY DEF Return, Typed, TypeOK, Task
<1>3. \A q \in Procs \ {h} : /\ pc'[q] = pc[q] /\ op'[q] = op[q]
                             /\ rec'[q] = rec[q] /\ inbox'[q] = inbox[q]
  BY DEF Return, Typed, TypeOK
<1>4. \A q \in Procs : Task(q)'
  BY <1>2, <1>3, OneMoves
<1>5. op'[h].kind = "none" /\ \A g \in Handlers \ {h} : op'[g] = op[g]
  BY <1>3, OpFacts DEF Return, Typed, TypeOK, Procs
<1>6. Rotating' = Rotating \ {h}
  BY <1>5 DEF Rotating, NewCode
<1> QED BY <1>1, <1>4, <1>6

\* A handler moves on without a change of its locals.
LEMMA StepTask ==
  ASSUME Typed, NEW h \in Handlers,
         NEW l \in {"save", "signed", "room"}, pc' = [pc EXCEPT ![h] = l],
         op[h].kind \in Signing, pc[h] \in {"member", "save"},
         pc[h] = "member" => rec[h].version < MaxVersion,
         l = "room" => op[h].kind # "join",
         UNCHANGED <<op, rec, inbox, codes>>,
         \A m \in Nodes : members[Creator][m] # NoRow => members'[Creator][m] # NoRow
  PROVE  /\ \A q \in Procs : Task(q)'
         /\ pc' \in [Procs -> Phases]
         /\ CodesLeft'
<1> h \in Procs
  BY DEF Procs
<1>1. pc' \in [Procs -> Phases]
  BY DEF Typed, TypeOK
<1>2. Task(h)'
  BY DEF Typed, TypeOK, Task, Signing
<1>3. \A q \in Procs \ {h} : pc'[q] = pc[q]
  BY DEF Typed, TypeOK
<1> QED BY <1>1, <1>2, <1>3, OneMoves, CodesSame

\* An answer to a joiner is typed.
LEMMA ReplyType ==
  ASSUME Typed, NEW j \in Joiners, NEW a \in Answers, Reply(j, a)
  PROVE  /\ client' \in [Joiners -> Callings]
         /\ answer' \in [Joiners -> Answers]
<1>1. answer \in [Joiners -> Answers]
  BY DEF Typed, TypeOK, Answers
<1>2. client \in [Joiners -> Callings]
  BY DEF Typed, TypeOK
<1>3. CASE client[j] = "waiting"
  <2>1. /\ client' = [client EXCEPT ![j] = "answered"]
        /\ answer' = [answer EXCEPT ![j] = a]
    BY <1>3 DEF Reply
  <2> QED BY <1>1, <1>2, <2>1
<1>4. CASE client[j] # "waiting"
  BY <1>1, <1>2, <1>4 DEF Reply
<1> QED BY <1>3, <1>4

\* What handleJoin answers at its end is typed.
LEMMA OutcomeType ==
  ASSUME Typed, NEW h \in Handlers, pc[h] \in {"room", "signed"}, JoinOutcome(h)
  PROVE  /\ client' \in [Joiners -> Callings]
         /\ answer' \in [Joiners -> Answers]
<1>0. /\ h \in Procs /\ op[h] \in Ops /\ Creator \in Nodes
      /\ members[Creator] \in [Nodes -> Rows] /\ addrs[Creator] \subseteq Nodes
  BY DEF Procs, Nodes, Typed, TypeOK
<1>1. CASE op[h].kind = "join" /\ NewStatus(h) = "admitted"
  <2> DEFINE a == JoinResponse(Row("admitted", newRosterVersion(h)),
                               members[Creator], addrs[Creator])
  <2>1. a \in Answers
    BY <1>0, <1>1, NewRowFacts, ResponseFacts DEF Signing
  <2>2. op[h].member \in Joiners
    BY <1>0, <1>1, OpFacts
  <2>3. Reply(op[h].member, a)
    BY <1>1 DEF JoinOutcome
  <2> HIDE DEF a
  <2> QED BY <2>1, <2>2, <2>3, ReplyType
<1>2. CASE op[h].kind = "join" /\ NewStatus(h) # "admitted"
  BY <1>2 DEF JoinOutcome, Refuse, Typed, TypeOK, Answers
<1>3. CASE op[h].kind # "join"
  BY <1>3 DEF JoinOutcome, Typed, TypeOK, Answers
<1> QED BY <1>1, <1>2, <1>3

\* A handler that returns issues the code it was to make, if any.
LEMMA CodesReturned ==
  ASSUME Typed, NEW h \in Handlers, Rotating' = Rotating \ {h},
         codes' = IF NewCode(h) THEN codes + 1 ELSE codes
  PROVE  CodesLeft'
<1>1. /\ IsFiniteSet(Rotating \ {h}) /\ Cardinality(Rotating) \in Nat
      /\ Cardinality(Rotating \ {h}) =
           IF h \in Rotating THEN Cardinality(Rotating) - 1 ELSE Cardinality(Rotating)
  BY FS_RemoveElement, FS_CardinalityType DEF Typed, CodesLeft
<1>2. h \in Rotating <=> NewCode(h)
  BY DEF Rotating
<1>3. codes \in 1..MaxCodes
  BY DEF Typed, TypeOK
<1> QED BY <1>1, <1>2, <1>3 DEF Typed, CodesLeft

\* The addresses after a handler has written them are those of nodes.
LEMMA AddressesType ==
  ASSUME Typed, NEW h \in Handlers, op[h].kind \in Signing
  PROVE  Addresses(h) \subseteq Nodes
<1>1. op[h] \in Ops /\ addrs[Creator] \subseteq Nodes
  BY DEF Procs, Nodes, Typed, TypeOK
<1> QED BY <1>1, OpFacts DEF Addresses, Signing

\* Every statement of a creator's handler keeps the types and what the tasks rely on.
LEMMA NextHandler ==
  ASSUME Typed, NEW h \in Handlers,
         \/ JoinGetMember(h) \/ GetMember(h) \/ SaveMember(h)
         \/ SaveMemberFails(h) \/ SaveRoomState(h) \/ SaveRoomFails(h)
  PROVE  Typed'
<1> USE DEF poll, db, calls
<1>0. /\ h \in Procs /\ Task(h) /\ op[h] \in Ops /\ rec[h] \in Rooms
      /\ Creator \in Nodes /\ members[Creator] \in [Nodes -> Rows] /\ addrs[Creator] \subseteq Nodes
      /\ codes \in 1..MaxCodes
  BY DEF Procs, Nodes, Typed, TypeOK
<1>1. CASE JoinGetMember(h)
  <2> DEFINE j == op[h].member
             row == members[Creator][j]
  <2>1. j \in Joiners /\ j \in Nodes /\ row \in Rows /\ op[h].kind = "join" /\ pc[h] = "member"
    BY <1>0, <1>1, OpFacts DEF JoinGetMember, Nodes
  <2>2. UNCHANGED <<roomRow, members, codes, lost, poll>>
    BY <1>1 DEF JoinGetMember
  <2>3. CASE /\ addrs' = [addrs EXCEPT ![Creator] = @ \cup {j}]
             /\ Reply(j, JoinResponse(row, members[Creator], addrs'[Creator]))
             /\ Return(h)
    <3>1. addrs' \in [Nodes -> SUBSET Nodes] /\ addrs'[Creator] \in SUBSET Nodes
      BY <1>0, <2>1, <2>3 DEF Typed, TypeOK
    <3>2. JoinResponse(row, members[Creator], addrs'[Creator]) \in Answers
      BY <1>0, <2>1, <3>1, ResponseFacts
    <3> HIDE DEF j, row
    <3>3. /\ client' \in [Joiners -> Callings]
          /\ answer' \in [Joiners -> Answers]
      BY <2>1, <2>3, <3>2, ReplyType
    <3>4. TypeOK' /\ (\A q \in Procs : Task(q)')
      BY <2>2, <2>3, <3>1, <3>3, ReturnTask DEF Typed, TypeOK, Answers
    <3>5. CodesLeft'
      BY <2>2, <2>3, ReturnTask, CodesShrink
    <3> QED BY <3>4, <3>5 DEF Typed
  <2>4. CASE Refuse(j) /\ Return(h) /\ UNCHANGED addrs
    <3>1. client' \in [Joiners -> Callings] /\ UNCHANGED answer
      BY <2>4 DEF Refuse, Typed, TypeOK
    <3>2. TypeOK' /\ (\A q \in Procs : Task(q)')
      BY <2>2, <2>4, <3>1, ReturnTask DEF Typed, TypeOK
    <3>3. CodesLeft'
      BY <2>2, <2>4, ReturnTask, CodesShrink
    <3> QED BY <3>2, <3>3 DEF Typed
  <2>5. CASE /\ Readmits(row.status)
             /\ pc' = [pc EXCEPT ![h] = "save"]
             /\ UNCHANGED <<op, rec, addrs, client, answer>>
    <3>1. rec[h].version < MaxVersion
      BY <1>0, <2>1, <2>5, RowFacts DEF Task, Readmits
    <3>2. /\ \A q \in Procs : Task(q)'
          /\ pc' \in [Procs -> Phases]
          /\ CodesLeft'
      BY <2>1, <2>2, <2>5, <3>1, StepTask DEF Signing
    <3> QED BY <2>2, <2>5, <3>2 DEF Typed, TypeOK
  <2> QED BY <1>1, <2>3, <2>4, <2>5 DEF JoinGetMember
<1>2. CASE GetMember(h)
  <2>1. CASE Return(h) /\ UNCHANGED <<db, calls, poll>>
    <3>1. TypeOK' /\ (\A q \in Procs : Task(q)')
      BY <2>1, ReturnTask DEF Typed, TypeOK
    <3>2. CodesLeft'
      BY <2>1, ReturnTask, CodesShrink
    <3> QED BY <3>1, <3>2 DEF Typed
  <2>2. CASE pc' = [pc EXCEPT ![h] = "save"] /\ UNCHANGED <<op, rec, db, calls, poll>>
    <3>1. pc[h] = "member" /\ op[h].kind \in {"approve", "remove"} /\ rec[h].version < MaxVersion
      BY <1>0, <1>2 DEF GetMember, Task
    <3>2. /\ \A q \in Procs : Task(q)'
          /\ pc' \in [Procs -> Phases]
          /\ CodesLeft'
      BY <2>2, <3>1, StepTask DEF Signing
    <3> QED BY <2>2, <3>2 DEF Typed, TypeOK
  <2> QED BY <1>2, <2>1, <2>2 DEF GetMember
<1>3. CASE SaveMember(h)
  <2>1. pc[h] = "save" /\ op[h].kind \in Signing
    BY <1>0, <1>3 DEF SaveMember, Task
  <2> DEFINE row == Row(NewStatus(h), newRosterVersion(h))
             known == Addresses(h)
  <2>2. row \in Rows /\ row # NoRow /\ op[h].member \in Nodes /\ known \subseteq Nodes
    BY <1>0, <2>1, NewRowFacts, AddressesType
  <2> HIDE DEF row, known
  <2>3. /\ members' = [members EXCEPT ![Creator][op[h].member] = row]
        /\ addrs' = [addrs EXCEPT ![Creator] = known]
        /\ pc' = [pc EXCEPT ![h] = "signed"]
        /\ UNCHANGED <<roomRow, codes, client, answer, op, rec, poll>>
    BY <1>3 DEF SaveMember, row, known
  <2>4. members' \in [Nodes -> [Nodes -> Rows]]
    BY <1>0, <2>2, <2>3 DEF Typed, TypeOK
  <2>5. \A m \in Nodes : members[Creator][m] # NoRow => members'[Creator][m] # NoRow
    BY <1>0, <2>2, <2>3 DEF Typed, TypeOK
  <2>6. addrs' \in [Nodes -> SUBSET Nodes]
    BY <1>0, <2>2, <2>3 DEF Typed, TypeOK
  <2>7. /\ \A q \in Procs : Task(q)'
        /\ pc' \in [Procs -> Phases]
        /\ CodesLeft'
    BY <2>1, <2>3, <2>5, StepTask
  <2>8. lost' \subseteq {"version", "code"}
    BY <1>3 DEF SaveMember, Typed, TypeOK
  <2> QED BY <2>3, <2>4, <2>6, <2>7, <2>8 DEF Typed, TypeOK
<1>4. CASE SaveMemberFails(h)
  <2>1. /\ pc[h] = "save" /\ op[h].kind \in Signing
        /\ UNCHANGED <<roomRow, members, codes, lost, poll>>
    BY <1>0, <1>4 DEF SaveMemberFails, Task
  <2>2. CASE Refuse(op[h].member) /\ Return(h) /\ UNCHANGED addrs
    <3>1. client' \in [Joiners -> Callings] /\ UNCHANGED answer
      BY <2>2 DEF Refuse, Typed, TypeOK
    <3>2. TypeOK' /\ (\A q \in Procs : Task(q)')
      BY <2>1, <2>2, <3>1, ReturnTask DEF Typed, TypeOK
    <3>3. CodesLeft'
      BY <2>1, <2>2, ReturnTask, CodesShrink
    <3> QED BY <3>2, <3>3 DEF Typed
  <2>3. CASE /\ op[h].kind # "join"
             /\ pc' = [pc EXCEPT ![h] = "room"]
             /\ addrs' = [addrs EXCEPT ![Creator] = Addresses(h)]
             /\ UNCHANGED <<op, rec, client, answer>>
    <3>1. /\ \A q \in Procs : Task(q)'
          /\ pc' \in [Procs -> Phases]
          /\ CodesLeft'
      BY <2>1, <2>3, StepTask
    <3>2. addrs' \in [Nodes -> SUBSET Nodes]
      BY <1>0, <2>1, <2>3, AddressesType DEF Typed, TypeOK
    <3> QED BY <2>1, <2>3, <3>1, <3>2 DEF Typed, TypeOK
  <2> QED BY <1>4, <2>2, <2>3 DEF SaveMemberFails
<1>5. CASE SaveRoomState(h) \/ SaveRoomFails(h)
  <2>1. /\ pc[h] \in {"room", "signed"} /\ Return(h) /\ JoinOutcome(h)
        /\ roomRow' = [roomRow EXCEPT ![Creator] = NewRoom(h)] \/ UNCHANGED roomRow
        /\ codes' = IF NewCode(h) THEN codes + 1 ELSE codes
        /\ UNCHANGED <<members, addrs, poll>>
    BY <1>5 DEF SaveRoomState, SaveRoomFails
  <2>2. roomRow' \in [Nodes -> Rooms]
    <3>1. CASE roomRow' = [roomRow EXCEPT ![Creator] = NewRoom(h)]
      BY <1>0, <2>1, <3>1, NewRoomFacts DEF Typed, TypeOK
    <3>2. CASE UNCHANGED roomRow
      BY <3>2 DEF Typed, TypeOK
    <3> QED BY <2>1, <3>1, <3>2
  <2>3. codes' \in 1..MaxCodes
    BY <1>0, <2>1, NewRoomFacts
  <2>4. /\ client' \in [Joiners -> Callings]
        /\ answer' \in [Joiners -> Answers]
    BY <2>1, OutcomeType
  <2>5. /\ \A q \in Procs : Task(q)'
        /\ pc' \in [Procs -> Phases]
        /\ op' \in [Procs -> Ops] /\ rec' \in [Procs -> Rooms]
        /\ Rotating' = Rotating \ {h}
    BY <2>1, ReturnTask
  <2>6. lost' \subseteq {"version", "code"}
    BY <1>5 DEF SaveRoomState, SaveRoomFails, SetBack, Typed, TypeOK
  <2>7. TypeOK'
    BY <2>1, <2>2, <2>3, <2>4, <2>5, <2>6 DEF Typed, TypeOK, Answers
  <2>8. CodesLeft'
    BY <2>1, <2>5, CodesReturned
  <2> QED BY <2>5, <2>7, <2>8 DEF Typed
<1> QED BY <1>1, <1>2, <1>3, <1>4, <1>5

\* So does every step of a joiner.
LEMMA NextJoiner ==
  ASSUME Typed, NEW j \in Joiners, JoinerStep(j)
  PROVE  Typed'
<1> USE DEF poll, db, calls, tasks
<1>0. /\ j \in Nodes /\ j # Creator /\ Creator \in Nodes
      /\ answer \in [Joiners -> Answers]
      /\ answer[j] \in Answers /\ members[j] \in [Nodes -> Rows] /\ addrs[j] \subseteq Nodes
  BY DEF Nodes, Typed, TypeOK, Answers
<1>1. /\ UNCHANGED <<codes, lost, tasks>>
      /\ members'[Creator] = members[Creator]
  BY <1>0 DEF JoinerStep, JoinAnswered, StoreOwn, StoreRoster, StoreAddresses, JoinTimeout,
              LeaveRoom, Typed, TypeOK
<1>2. CodesLeft' /\ \A q \in Procs : Task(q)'
  BY <1>1, NoneMoves, CodesSame
<1>a. /\ answer[j].own \in Rows /\ answer[j].rows \in [Nodes -> Rows]
      /\ answer[j].addrs \subseteq Nodes
  BY <1>0, AnswerFacts
<1>3. CASE JoinAnswered(j)
  <2> DEFINE room == [code |-> 0, approval |-> FALSE, version |-> answer[j].own.version]
  <2>1. room \in Rooms
    <3> DEFINE v == answer[j].own.version
    <3>1. v \in 0..MaxVersion
      BY <1>a, RowFacts
    <3> HIDE DEF v
    <3>2. [code |-> 0, approval |-> FALSE, version |-> v] \in Rooms
      BY <3>1 DEF Rooms
    <3> QED BY <3>2 DEF v
  <2> HIDE DEF room
  <2>2. /\ roomRow' = [roomRow EXCEPT ![j] = room]
        /\ client' = [client EXCEPT ![j] = "storing"]
        /\ UNCHANGED <<members, addrs, answer>>
    BY <1>3 DEF JoinAnswered, room
  <2>3. roomRow' \in [Nodes -> Rooms] /\ client' \in [Joiners -> Callings]
    BY <1>0, <2>1, <2>2 DEF Typed, TypeOK
  <2> QED BY <1>1, <1>2, <2>2, <2>3 DEF Typed, TypeOK
<1>b. CASE StoreOwn(j)
  <2>1. members' = [members EXCEPT ![j][j] = answer[j].own]
        /\ answer' = [answer EXCEPT ![j].own = NoRow]
        /\ UNCHANGED <<roomRow, addrs, client>>
    BY <1>b DEF StoreOwn
  <2>2. members' \in [Nodes -> [Nodes -> Rows]]
    BY <1>0, <1>a, <2>1 DEF Typed, TypeOK
  <2>3. answer' \in [Joiners -> Answers]
    BY <1>0, <2>1, RowFacts DEF Answers
  <2> QED BY <1>1, <1>2, <2>1, <2>2, <2>3 DEF Typed, TypeOK, Answers
<1>c. ASSUME NEW m \in Nodes, StoreRoster(j, m) PROVE Typed'
  <2>1. members' = [members EXCEPT ![j][m] = answer[j].rows[m]]
        /\ answer' = [answer EXCEPT ![j].rows[m] = NoRow]
        /\ UNCHANGED <<roomRow, addrs, client>>
    BY <1>c DEF StoreRoster
  <2>2. members' \in [Nodes -> [Nodes -> Rows]]
    BY <1>0, <1>a, <2>1 DEF Typed, TypeOK
  <2>3. answer' \in [Joiners -> Answers]
    BY <1>0, <2>1, RowFacts DEF Answers
  <2> QED BY <1>1, <1>2, <2>1, <2>2, <2>3 DEF Typed, TypeOK, Answers
<1>d. CASE StoreAddresses(j)
  <2>1. /\ addrs' = [addrs EXCEPT ![j] = @ \cup {Creator} \cup answer[j].addrs]
        /\ client' = [client EXCEPT ![j] = "out"]
        /\ answer' = [answer EXCEPT ![j] = NoAnswer]
        /\ UNCHANGED <<roomRow, members>>
    BY <1>d DEF StoreAddresses
  <2>2. addrs' \in [Nodes -> SUBSET Nodes] /\ client' \in [Joiners -> Callings]
    BY <1>0, <1>a, <2>1 DEF Typed, TypeOK
  <2>3. answer' \in [Joiners -> Answers]
    BY <1>0, <2>1, AnswerFacts
  <2> QED BY <1>1, <1>2, <2>1, <2>2, <2>3 DEF Typed, TypeOK, Answers
<1>4. CASE JoinTimeout(j)
  <2>1. client' \in [Joiners -> Callings]
    BY <1>4 DEF JoinTimeout, Typed, TypeOK
  <2>2. answer' \in [Joiners -> Answers]
    BY <1>0, <1>4, AnswerFacts DEF JoinTimeout
  <2>3. UNCHANGED db
    BY <1>4 DEF JoinTimeout
  <2> QED BY <1>1, <1>2, <2>1, <2>2, <2>3 DEF Typed, TypeOK, Answers
<1>5. CASE LeaveRoom(j)
  <2>1. NoRows \in [Nodes -> Rows] /\ NoRoom \in Rooms
    BY RowFacts, RoomFacts DEF NoRows
  <2>2. roomRow' \in [Nodes -> Rooms] /\ members' \in [Nodes -> [Nodes -> Rows]]
        /\ addrs' \in [Nodes -> SUBSET Nodes]
    BY <1>0, <1>5, <2>1 DEF LeaveRoom, Typed, TypeOK
  <2>3. UNCHANGED calls
    BY <1>5 DEF LeaveRoom
  <2> QED BY <1>1, <1>2, <2>2, <2>3 DEF Typed, TypeOK
<1> QED BY <1>3, <1>b, <1>c, <1>d, <1>4, <1>5 DEF JoinerStep

\* So does every step of a background poll.
LEMMA NextPoll ==
  ASSUME Typed, NEW p \in Procs, PollStep(p)
  PROVE  Typed'
<1> USE DEF poll, db, calls
<1> DEFINE n == site(p)
<1>0. /\ n \in Nodes /\ Creator \in Nodes /\ Task(p) /\ op[p] \in Ops /\ rec[p] \in Rooms
      /\ inbox[p] \in [Nodes -> Rows] /\ roomRow[n] \in Rooms /\ members[n] \in [Nodes -> Rows]
      /\ addrs[n] \subseteq Nodes /\ peers[p] \subseteq Nodes /\ hints[p] \subseteq Nodes
  <2>1. n \in Nodes
    BY DEF site, Nodes, Procs
  <2> HIDE DEF n
  <2> QED BY <2>1 DEF Nodes, Typed, TypeOK
<1>k. NoOp.kind = "none"
  BY OpFacts
<1> HIDE DEF n
<1>1. CASE SyncMembership(p)
  <2>1. /\ pc[p] = "idle"
        /\ pc' = [pc EXCEPT ![p] = "peers"]
        /\ rec' = [rec EXCEPT ![p] = roomRow[n]]
        /\ peers' = [peers EXCEPT ![p] = addrs[n] \ {n}]
        /\ UNCHANGED <<db, calls, op, inbox, hints>>
    BY <1>1 DEF SyncMembership, n
  <2>2. TypeOK'
    BY <1>0, <2>1 DEF Typed, TypeOK
  <2>3. Task(p)' /\ \A q \in Procs \ {p} : pc'[q] = pc[q] /\ rec'[q] = rec[q]
    BY <1>0, <2>1 DEF Typed, TypeOK, Task
  <2> QED BY <2>1, <2>2, <2>3, OneMoves, CodesSame DEF Typed
<1>2. ASSUME NEW q \in Nodes, SyncAnswered(p, q) PROVE Typed'
  <2> DEFINE rows == rosterSnapshot(q, n)
  <2>1. rows \in [Nodes -> Rows]
    BY <1>0, RowFacts DEF rosterSnapshot, Typed, TypeOK
  <2> HIDE DEF rows
  <2>2. /\ pc[p] = "peers"
        /\ addrs' = [addrs EXCEPT ![q] = @ \cup {n}]
        /\ pc' = [pc EXCEPT ![p] = "apply"]
        /\ peers' = [peers EXCEPT ![p] = @ \ {q}]
        /\ inbox' = [inbox EXCEPT ![p] = rows]
        /\ hints' = [hints EXCEPT ![p] = addrs'[q]]
        /\ UNCHANGED <<roomRow, members, calls, op, rec>>
    BY <1>2 DEF SyncAnswered, n, rows
  <2>3. addrs' \in [Nodes -> SUBSET Nodes] /\ addrs'[q] \subseteq Nodes
    BY <1>0, <2>2 DEF Typed, TypeOK
  <2>4. TypeOK'
    BY <1>0, <2>1, <2>2, <2>3 DEF Typed, TypeOK
  <2>5. Task(p)' /\ \A r \in Procs \ {p} : pc'[r] = pc[r] /\ inbox'[r] = inbox[r]
    BY <1>0, <2>2 DEF Typed, TypeOK, Task
  <2> QED BY <2>2, <2>4, <2>5, OneMoves, CodesSame DEF Typed
<1>3. ASSUME NEW q \in Nodes, SyncFailed(p, q) PROVE Typed'
  <2>1. /\ addrs' = addrs \/ addrs' = [addrs EXCEPT ![q] = @ \cup {n}]
        /\ peers' = [peers EXCEPT ![p] = @ \ {q}]
        /\ UNCHANGED <<roomRow, members, calls, pc, op, rec, inbox, hints>>
    BY <1>3 DEF SyncFailed, n
  <2>a. addrs' \in [Nodes -> SUBSET Nodes]
    <3>1. CASE addrs' = addrs
      BY <3>1 DEF Typed, TypeOK
    <3>2. CASE addrs' = [addrs EXCEPT ![q] = @ \cup {n}]
      BY <1>0, <3>2 DEF Typed, TypeOK
    <3> QED BY <2>1, <3>1, <3>2
  <2>b. peers' \in [Procs -> SUBSET Nodes]
    BY <1>0, <2>1 DEF Typed, TypeOK
  <2>2. TypeOK'
    BY <2>1, <2>a, <2>b DEF Typed, TypeOK
  <2> QED BY <2>1, <2>2, NoneMoves, CodesSame DEF Typed
<1>4. CASE SyncDone(p)
  <2>1. TypeOK'
    BY <1>4, RoomFacts DEF SyncDone, Typed, TypeOK
  <2>2. Task(p)' /\ \A r \in Procs \ {p} : pc'[r] = pc[r] /\ rec'[r] = rec[r]
    BY <1>0, <1>4 DEF SyncDone, Typed, TypeOK, Task
  <2>3. UNCHANGED <<op, inbox, members, codes>>
    BY <1>4 DEF SyncDone
  <2> QED BY <2>1, <2>2, <2>3, OneMoves, CodesSame DEF Typed
<1>5. ASSUME NEW m \in Nodes, CheckUpdate(p, m) PROVE Typed'
  <2>1. /\ pc[p] = "apply" /\ inbox[p][m] # NoRow /\ op[p] = NoOp
        /\ UNCHANGED <<db, calls, rec, peers, hints>>
    BY <1>0, <1>5 DEF CheckUpdate, Task
  <2>2. CASE /\ pc' = [pc EXCEPT ![p] = "write"]
             /\ op' = [op EXCEPT ![p] = [kind |-> "write", member |-> m]]
             /\ UNCHANGED inbox
    <3> DEFINE o == [kind |-> "write", member |-> m]
    <3>1. o \in Ops /\ o.kind = "write" /\ o.member = m
      BY OpTypes
    <3> HIDE DEF o
    <3>2. op' = [op EXCEPT ![p] = o]
      BY <2>2 DEF o
    <3>3. TypeOK'
      BY <1>0, <2>1, <2>2, <3>1, <3>2 DEF Typed, TypeOK
    <3>4. Task(p)' /\ \A r \in Procs \ {p} : pc'[r] = pc[r] /\ op'[r] = op[r]
      BY <1>0, <2>1, <2>2, <3>1, <3>2 DEF Typed, TypeOK, Task
    <3>5. op'[p].kind \notin {"remove", "rotate"}
      BY <1>k, <2>1, <3>1, <3>2 DEF Typed, TypeOK
    <3>6. Rotating' \subseteq Rotating
      BY <3>4, <3>5 DEF Rotating, NewCode, Procs
    <3> QED BY <2>1, <2>2, <3>3, <3>4, <3>6, OneMoves, CodesShrink DEF Typed
  <2>3. CASE inbox' = [inbox EXCEPT ![p][m] = NoRow] /\ UNCHANGED <<pc, op>>
    <3>1. TypeOK'
      BY <1>0, <2>1, <2>3, RowFacts DEF Typed, TypeOK
    <3>2. Task(p)' /\ \A r \in Procs \ {p} : inbox'[r] = inbox[r]
      BY <1>0, <2>1, <2>3 DEF Typed, TypeOK, Task
    <3> QED BY <2>1, <2>3, <3>1, <3>2, OneMoves, CodesSame DEF Typed
  <2> QED BY <1>5, <2>2, <2>3 DEF CheckUpdate
<1>6. CASE WriteUpdate(p)
  <2> DEFINE m == op[p].member
             row == inbox[p][m]
  <2>1. pc[p] = "write" /\ m \in Nodes /\ row \in Rows /\ row # NoRow /\ op[p].kind = "write"
    BY <1>0, <1>6, OpFacts DEF WriteUpdate, Task
  <2>2. /\ members' = [members EXCEPT ![n][m] = row]
        /\ addrs' = [addrs EXCEPT ![n] = IF row.status = "removed" THEN @ \ {m} ELSE @]
        /\ inbox' = [inbox EXCEPT ![p][m] = NoRow]
        /\ pc' = [pc EXCEPT ![p] = "apply"]
        /\ op' = [op EXCEPT ![p] = NoOp]
        /\ UNCHANGED <<roomRow, calls, rec, peers, hints>>
    BY <1>6 DEF WriteUpdate, n
  <2> HIDE DEF m, row
  <2>3. members' \in [Nodes -> [Nodes -> Rows]] /\ addrs' \in [Nodes -> SUBSET Nodes]
    BY <1>0, <2>1, <2>2 DEF Typed, TypeOK
  <2>4. TypeOK'
    BY <1>0, <2>2, <2>3, RowFacts, OpFacts DEF Typed, TypeOK
  <2>5. \A k \in Nodes : members[Creator][k] # NoRow => members'[Creator][k] # NoRow
    BY <1>0, <2>1, <2>2 DEF Typed, TypeOK
  <2>6. Task(p)' /\ \A r \in Procs \ {p} : pc'[r] = pc[r] /\ op'[r] = op[r] /\ inbox'[r] = inbox[r]
    BY <1>0, <2>2 DEF Typed, TypeOK, Task
  <2>7. op'[p].kind \notin {"remove", "rotate"}
    BY <1>k, <2>2 DEF Typed, TypeOK
  <2>8. Rotating' \subseteq Rotating
    BY <2>6, <2>7 DEF Rotating, NewCode, Procs
  <2> QED BY <2>2, <2>4, <2>5, <2>6, <2>8, OneMoves, CodesShrink DEF Typed
<1>7. CASE AdvanceVersion(p)
  <2> DEFINE v == Contiguous(members[n])
             advanced == [rec[p] EXCEPT !.version = v]
  <2>1. v \in 0..MaxVersion /\ advanced \in Rooms
    BY <1>0, ContiguousFacts, NewVersionFacts
  <2>2. /\ pc[p] = "apply"
        /\ \/ rec' = [rec EXCEPT ![p] = advanced] /\ roomRow' = [roomRow EXCEPT ![n] = advanced]
           \/ UNCHANGED <<rec, roomRow>>
        /\ addrs' = [addrs EXCEPT ![n] =
                       @ \cup {m \in hints[p] : members[n][m].status = "admitted"}]
        /\ hints' = [hints EXCEPT ![p] = {}]
        /\ pc' = [pc EXCEPT ![p] = "peers"]
        /\ UNCHANGED <<members, codes, client, answer, op, peers, inbox>>
    BY <1>7 DEF AdvanceVersion, n
  <2>c. lost' \subseteq {"version", "code"}
    BY <1>7 DEF AdvanceVersion, SetBack, Typed, TypeOK
  <2> HIDE DEF v, advanced
  <2>a. rec' \in [Procs -> Rooms] /\ roomRow' \in [Nodes -> Rooms]
    <3>1. CASE rec' = [rec EXCEPT ![p] = advanced] /\ roomRow' = [roomRow EXCEPT ![n] = advanced]
      BY <1>0, <2>1, <3>1 DEF Typed, TypeOK
    <3>2. CASE UNCHANGED <<rec, roomRow>>
      BY <3>2 DEF Typed, TypeOK
    <3> QED BY <2>2, <3>1, <3>2
  <2>b. addrs' \in [Nodes -> SUBSET Nodes]
    <3> DEFINE more == {m \in hints[p] : members[n][m].status = "admitted"}
    <3>1. more \subseteq Nodes
      BY <1>0
    <3> HIDE DEF more
    <3>2. addrs' = [addrs EXCEPT ![n] = @ \cup more]
      BY <2>2 DEF more
    <3> QED BY <1>0, <3>1, <3>2 DEF Typed, TypeOK
  <2>3. TypeOK'
    BY <1>0, <2>2, <2>a, <2>b, <2>c DEF Typed, TypeOK
  <2>4. Task(p)' /\ \A r \in Procs \ {p} : pc'[r] = pc[r] /\ rec'[r] = rec[r]
    BY <1>0, <2>2 DEF Typed, TypeOK, Task
  <2> QED BY <2>2, <2>3, <2>4, OneMoves, CodesSame DEF Typed
<1> QED BY <1>1, <1>2, <1>3, <1>4, <1>5, <1>6, <1>7 DEF PollStep

\* So does a crash, which drops the tasks and keeps the tables.
LEMMA NextCrash ==
  ASSUME Typed, NEW n \in Nodes, Crash(n)
  PROVE  Typed'
<1> USE DEF db
<1> DEFINE mine == {p \in Procs : site(p) = n}
<1>1. /\ pc' = [p \in Procs |-> IF p \in mine THEN "idle" ELSE pc[p]]
      /\ op' = [p \in Procs |-> IF p \in mine THEN NoOp ELSE op[p]]
      /\ rec' = [p \in Procs |-> IF p \in mine THEN NoRoom ELSE rec[p]]
      /\ peers' = [p \in Procs |-> IF p \in mine THEN {} ELSE peers[p]]
      /\ inbox' = [p \in Procs |-> IF p \in mine THEN NoRows ELSE inbox[p]]
      /\ hints' = [p \in Procs |-> IF p \in mine THEN {} ELSE hints[p]]
      /\ client' = [j \in Joiners |-> IF j = n THEN "out" ELSE client[j]]
      /\ answer' = [j \in Joiners |-> IF j = n THEN NoAnswer ELSE answer[j]]
      /\ UNCHANGED <<db, codes>>
  BY DEF Crash
<1> HIDE DEF mine
<1>2. NoRows \in [Nodes -> Rows]
  BY RowFacts DEF NoRows
<1>3. answer' \in [Joiners -> Answers]
  BY <1>1, AnswerFacts DEF Typed, TypeOK, Answers
<1>l. lost' \subseteq {"version", "code"}
  BY DEF Crash, Typed, TypeOK
<1>4. TypeOK'
  BY <1>1, <1>2, <1>3, <1>l, OpFacts, RoomFacts DEF Typed, TypeOK, Answers
<1>5. ASSUME NEW p \in Procs PROVE Task(p)'
  <2>1. Task(p)
    BY DEF Typed
  <2>2. CASE p \in mine
    BY <1>1, <2>2 DEF Task
  <2>3. CASE p \notin mine
    BY <1>1, <2>1, <2>3 DEF Task
  <2> QED BY <2>2, <2>3
<1>6. Rotating' \subseteq Rotating
  BY <1>1, OpFacts DEF Rotating, NewCode, Procs
<1> QED BY <1>1, <1>4, <1>5, <1>6, CodesShrink DEF Typed

\* The inductive step of type correctness, for any overlap of tasks.
LEMMA NextType == Typed /\ [Next]_vars => Typed'
<1> SUFFICES ASSUME Typed, [Next]_vars PROVE Typed'
  OBVIOUS
<1>1. CASE UNCHANGED vars
  <2>1. UNCHANGED <<roomRow, members, addrs, codes, client, answer, pc, op, rec, peers, inbox, hints, lost>>
    BY <1>1 DEF vars
  <2>2. TypeOK'
    BY <2>1 DEF Typed, TypeOK
  <2> QED BY <2>1, <2>2, NoneMoves, CodesSame DEF Typed
<1>2. CASE Next
  BY <1>2, NextRequest, NextHandler, NextJoiner, NextPoll, NextCrash DEF Next, CreatorStep
<1> QED BY <1>1, <1>2

\* Every variable keeps its type under any overlap of tasks and any crash: rows
\* and answers are well formed, and versions and codes stay within their bounds.
THEOREM TypeCorrect == Spec => []TypeOK
<1>1. Typed => TypeOK
  BY DEF Typed
<1> QED BY <1>1, InitType, NextType, PTL DEF Spec

-----------------------------------------------------------------------------
(* The promises, as long as no update was lost. *)

\* The invariant holds of a room with one member.
LEMMA InitRoom == Init => RoomInv
<1> SUFFICES ASSUME Init PROVE RoomInv
  OBVIOUS
<1>0. Typed
  BY InitType
<1>1. /\ \A h \in Handlers : pc[h] = "idle" /\ rec[h] = NoRoom
      /\ roomRow[Creator].version = 1 /\ roomRow[Creator].code = 1 /\ codes = 1
  BY DEF Init, Procs, Nodes
<1>2. (\A h \in Handlers : Fresh(h)) /\ OneSigned /\ CodeCurrent /\ Top = 1
  BY <1>1 DEF Fresh, OneSigned, Signed, CodeCurrent, Top, NoRoom
<1>3. \A m \in Nodes, r \in Rows :
        Circulates(m, r) => r = NoRow \/ (m = Creator /\ r = Row("admitted", 1))
  <2>1. \A n \in Nodes, m \in Nodes :
          members[n][m] \in {NoRow} \cup (IF m = Creator THEN {Row("admitted", 1)} ELSE {})
    BY DEF Init, NoRows
  <2>2. \A j \in Joiners, m \in Nodes : answer[j].rows[m] = NoRow /\ answer[j].own = NoRow
    BY AnswerFacts DEF Init, NoRows
  <2>3. \A p \in Procs, m \in Nodes : inbox[p][m] = NoRow
    BY DEF Init, NoRows
  <2> QED BY <2>1, <2>2, <2>3 DEF Circulates
<1>4. members[Creator][Creator] = Row("admitted", 1) /\ Creator \in Nodes
      /\ \A m \in Nodes \ {Creator} : members[Creator][m] = NoRow
  BY DEF Init, NoRows, Nodes
<1>5. Row("admitted", 1) \in Rows /\ Row("admitted", 1) # NoRow /\ Row("admitted", 1).version = 1
  BY RowFacts DEF Statuses
<1>6. Rosters
  <2>1. \A m \in Nodes : members[Creator][m].version <= Top
    BY <1>2, <1>4, <1>5, RowFacts
  <2>2. \A m \in Nodes : \A r \in Rows : Circulates(m, r) => Follows(r, m)
    BY <1>3, <1>4, <1>5, RowFacts DEF Follows
  <2>3. \A m1, m2 \in Nodes : \A r1, r2 \in Rows :
          (Circulates(m1, r1) /\ Circulates(m2, r2) /\ r1 # NoRow /\ r1.version = r2.version)
            => m1 = m2 /\ r1 = r2
    BY <1>3, <1>5, RowFacts
  <2> QED BY <2>1, <2>2, <2>3 DEF Rosters
<1> QED BY <1>0, <1>2, <1>6 DEF RoomInv, Orderly

\* What is lost stays on record.
LEMMA LostGrows ==
  ASSUME [Next]_vars
  PROVE  lost \subseteq lost'
<1> USE DEF calls
<1>1. CASE UNCHANGED vars
  BY <1>1 DEF vars
<1>2. ASSUME NEW h \in Handlers, CreatorStep(h) PROVE lost \subseteq lost'
  BY <1>2 DEF CreatorStep, JoinRequest, ApproveRequest, RemoveRequest, RotateRequest,
     ApprovalRequest, JoinGetMember, GetMember, SaveMember, SaveMemberFails, SaveRoomState,
     SaveRoomFails
<1>3. ASSUME NEW j \in Joiners, JoinerStep(j) PROVE lost \subseteq lost'
  BY <1>3 DEF JoinerStep, JoinAnswered, StoreOwn, StoreRoster, StoreAddresses, JoinTimeout,
     LeaveRoom
<1>4. ASSUME NEW p \in Procs, PollStep(p) PROVE lost \subseteq lost'
  BY <1>4 DEF PollStep, SyncMembership, SyncAnswered, SyncFailed, SyncDone, CheckUpdate,
     WriteUpdate, AdvanceVersion
<1>5. ASSUME NEW n \in Nodes, Crash(n) PROVE lost \subseteq lost'
  BY <1>5 DEF Crash
<1> QED BY <1>1, <1>2, <1>3, <1>4, <1>5 DEF Next

\* The version of the creator's room row is a number, and the highest version
\* signed is that one or the next.
LEMMA TopFacts ==
  ASSUME Typed
  PROVE  /\ roomRow[Creator].version \in Nat
         /\ Top \in {roomRow[Creator].version, roomRow[Creator].version + 1}
         /\ NoneSigned => Top = roomRow[Creator].version
<1>1. roomRow[Creator] \in Rooms
  BY DEF Typed, TypeOK, Nodes
<1> QED BY <1>1, RoomFacts DEF Top, NoneSigned

\* A step that signs nothing and only copies rows keeps the rosters.
LEMMA RostersKept ==
  ASSUME Typed, Typed', Rosters, members'[Creator] = members[Creator], Top <= Top',
         \A m \in Nodes, r \in Rows : Circulates(m, r)' => Circulates(m, r) \/ r = NoRow
  PROVE  Rosters'
<1>0. \A m \in Nodes : members[Creator][m] \in Rows
  BY DEF Typed, TypeOK, Nodes
<1>t. Top \in Nat /\ Top' \in Nat
  <2>1. Top \in Nat
    BY TopFacts
  <2>2. Top' \in Nat
    <3>1. roomRow'[Creator] \in Rooms
      BY DEF Typed, TypeOK, Nodes
    <3> QED BY <3>1, RoomFacts DEF Top
  <2> QED BY <2>1, <2>2
<1>1. (\A m \in Nodes : members[Creator][m].version <= Top)'
  BY <1>0, <1>t, RowFacts DEF Rosters
<1>2. (\A m \in Nodes : \A r \in Rows : Circulates(m, r) => Follows(r, m))'
  <2> SUFFICES ASSUME NEW m \in Nodes, NEW r \in Rows, Circulates(m, r)'
               PROVE  Follows(r, m)'
    OBVIOUS
  <2>1. CASE Circulates(m, r)
    BY <2>1 DEF Rosters, Follows
  <2>2. CASE r = NoRow
    BY <1>0, <2>2, RowFacts DEF Follows
  <2> QED BY <2>1, <2>2
<1>3. (\A m1, m2 \in Nodes : \A r1, r2 \in Rows :
         (Circulates(m1, r1) /\ Circulates(m2, r2) /\ r1 # NoRow /\ r1.version = r2.version)
           => m1 = m2 /\ r1 = r2)'
  <2> SUFFICES ASSUME NEW m1 \in Nodes, NEW m2 \in Nodes, NEW r1 \in Rows, NEW r2 \in Rows,
                      Circulates(m1, r1)', Circulates(m2, r2)', r1 # NoRow, r1.version = r2.version
               PROVE  m1 = m2 /\ r1 = r2
    OBVIOUS
  <2>1. r2 # NoRow
    BY RowFacts
  <2> QED BY <2>1 DEF Rosters
<1> QED BY <1>1, <1>2, <1>3 DEF Rosters

\* One task of the creator acts, signs nothing, and does not set the version
\* back: whoever was in the middle of a change is up to date as before, or
\* knows of a version that is now out of date.
LEMMA OneActs ==
  ASSUME Typed, Typed', Orderly, NEW h \in Handlers,
         \A g \in Handlers \ {h} : pc'[g] = pc[g] /\ op'[g] = op[g] /\ rec'[g] = rec[g],
         members'[Creator] = members[Creator],
         \/ roomRow'[Creator].version = roomRow[Creator].version /\ ~Signed(h)
         \/ roomRow'[Creator].version > roomRow[Creator].version,
         ~Signed(h)', rec'[h].version <= roomRow'[Creator].version, pc'[h] # "write",
         pc'[h] = "save" /\ op'[h].kind \in {"join", "approve"} =>
           members[Creator][op'[h].member].status # "removed",
         \A m \in Nodes, r \in Rows : Circulates(m, r)' => Circulates(m, r) \/ r = NoRow
  PROVE  Orderly'
<1> DEFINE old == roomRow[Creator].version
           new == roomRow'[Creator].version
<1>0. old \in Nat /\ new \in Nat /\ \A g \in Handlers : rec[g].version \in Nat
  <2>1. roomRow[Creator] \in Rooms /\ roomRow'[Creator] \in Rooms
        /\ \A g \in Handlers : rec[g] \in Rooms
    BY DEF Typed, TypeOK, Nodes, Procs
  <2> QED BY <2>1, RoomFacts
<1>1. \A g \in Handlers \ {h} : Signed(g)' <=> Signed(g)
  BY DEF Signed
<1>2. ASSUME NEW g \in Handlers \ {h} PROVE Fresh(g)'
  <2>1. Fresh(g)
    BY DEF Orderly
  <2>2. NewStatus(g)' = NewStatus(g) /\ newRosterVersion(g)' = newRosterVersion(g)
    BY DEF NewStatus, newRosterVersion
  <2>3. Row(NewStatus(g), newRosterVersion(g))' = Row(NewStatus(g), newRosterVersion(g))
    BY <2>2 DEF Row
  <2>4. rec'[g].version <= new
    BY <1>0, <2>1 DEF Fresh
  <2>5. Signed(g)' => (members[Creator][op[g].member] = Row(NewStatus(g), newRosterVersion(g)))'
    BY <1>1, <2>1, <2>3 DEF Fresh
  <2>6. ASSUME pc'[g] = "save", op'[g].kind \in {"join", "approve"}, ~Behind(g)', NoneSigned'
        PROVE  members'[Creator][op'[g].member].status # "removed"
    <3>1. rec[g].version = new /\ rec[g].version <= old
      BY <2>1, <2>6 DEF Behind, Fresh
    <3>2. new = old /\ ~Signed(h)
      BY <1>0, <3>1
    <3>3. ~Behind(g) /\ NoneSigned
      BY <1>1, <2>6, <3>1, <3>2 DEF Behind, NoneSigned
    <3> QED BY <2>1, <2>6, <3>3 DEF Fresh
  <2> QED BY <2>1, <2>4, <2>5, <2>6 DEF Fresh
<1>3. Fresh(h)'
  BY DEF Fresh
<1>4. OneSigned'
  BY <1>1 DEF Orderly, OneSigned
<1>5. Top <= Top'
  <2>1. CASE new > old
    BY <1>0, <2>1 DEF Top
  <2>2. CASE new = old /\ ~Signed(h)
    <3>1. \A g \in Handlers : (Signed(g) /\ ~Behind(g)) => (Signed(g) /\ ~Behind(g))'
      BY <1>1, <2>2 DEF Behind
    <3> QED BY <1>0, <2>2, <3>1 DEF Top
  <2> QED BY <2>1, <2>2
<1>6. Rosters'
  BY <1>5, RostersKept DEF Orderly
<1> QED BY <1>2, <1>3, <1>4, <1>6 DEF Orderly

\* A step that the creator has no part in.
LEMMA CreatorRests ==
  ASSUME Typed, Typed', Orderly, roomRow'[Creator] = roomRow[Creator],
         members'[Creator] = members[Creator],
         \A h \in Handlers : pc'[h] = pc[h] /\ op'[h] = op[h] /\ rec'[h] = rec[h],
         \A m \in Nodes, r \in Rows : Circulates(m, r)' => Circulates(m, r) \/ r = NoRow
  PROVE  Orderly'
<1>1. \A g \in Handlers : (Signed(g)' <=> Signed(g)) /\ (Behind(g)' <=> Behind(g))
  BY DEF Signed, Behind
<1>2. ASSUME NEW g \in Handlers PROVE Fresh(g)'
  <2>1. Fresh(g) /\ (NoneSigned' <=> NoneSigned)
    BY <1>1 DEF Orderly, NoneSigned
  <2>2. NewStatus(g)' = NewStatus(g) /\ newRosterVersion(g)' = newRosterVersion(g)
    BY DEF NewStatus, newRosterVersion
  <2>3. Row(NewStatus(g), newRosterVersion(g))' = Row(NewStatus(g), newRosterVersion(g))
    BY <2>2 DEF Row
  <2> QED BY <1>1, <2>1, <2>3 DEF Fresh
<1>3. OneSigned'
  BY <1>1 DEF Orderly, OneSigned
<1>4. Top' = Top
  BY <1>1 DEF Top
<1>5. Top \in Nat
  BY TopFacts
<1>6. Rosters'
  BY <1>4, <1>5, RostersKept DEF Orderly
<1> QED BY <1>2, <1>3, <1>6 DEF Orderly

\* A request of the creator's owner, or of a joiner, is taken up.
LEMMA RoomRequest ==
  ASSUME Typed, Typed', Orderly, NEW h \in Handlers,
         \/ \E j \in Joiners, c \in 1..codes : JoinRequest(h, j, c)
         \/ \E m \in Joiners : ApproveRequest(h, m)
         \/ \E m \in Joiners, b \in BOOLEAN : RemoveRequest(h, m, b)
         \/ RotateRequest(h)
         \/ \E b \in BOOLEAN : ApprovalRequest(h, b)
  PROVE  Orderly'
<1> USE DEF db, poll, calls
<1>1. UNCHANGED <<roomRow, members, answer, inbox>>
  BY DEF JoinRequest, ApproveRequest, RemoveRequest, RotateRequest, ApprovalRequest
<1>2. PICK step \in {"member", "room"} : \E o : Begin(h, o, step, roomRow[Creator])
  <2>1. CASE \E j \in Joiners, c \in 1..codes : JoinRequest(h, j, c)
    BY <2>1, Zenon DEF JoinRequest
  <2>2. CASE \E m \in Joiners : ApproveRequest(h, m)
    BY <2>2, Zenon DEF ApproveRequest
  <2>3. CASE \E m \in Joiners, b \in BOOLEAN : RemoveRequest(h, m, b)
    BY <2>3, Zenon DEF RemoveRequest
  <2>4. CASE RotateRequest(h)
    BY <2>4, Zenon DEF RotateRequest
  <2>5. CASE \E b \in BOOLEAN : ApprovalRequest(h, b)
    BY <2>5, Zenon DEF ApprovalRequest
  <2> QED BY <2>1, <2>2, <2>3, <2>4, <2>5
<1>3. /\ pc[h] = "idle" /\ pc'[h] = step /\ rec'[h] = roomRow[Creator]
      /\ \A g \in Handlers \ {h} : pc'[g] = pc[g] /\ op'[g] = op[g] /\ rec'[g] = rec[g]
  BY <1>2 DEF Begin, Typed, TypeOK, Procs
<1>4. ~Signed(h) /\ ~Signed(h)'
  BY <1>2, <1>3 DEF Signed
<1>5. \A m \in Nodes, r \in Rows : Circulates(m, r)' => Circulates(m, r) \/ r = NoRow
  BY <1>1 DEF Circulates
<1>6. rec'[h].version <= roomRow'[Creator].version
  BY <1>1, <1>3, TopFacts
<1> QED BY <1>1, <1>2, <1>3, <1>4, <1>5, <1>6, OneActs

\* A join response is made of the rows of the creator's table.
LEMMA ReplyCopies ==
  ASSUME Typed, NEW j \in Joiners, NEW known \in SUBSET Nodes, UNCHANGED <<members, inbox>>,
         Reply(j, JoinResponse(members[Creator][j], members[Creator], known))
  PROVE  \A m \in Nodes, r \in Rows : Circulates(m, r)' => Circulates(m, r)
<1> DEFINE a == JoinResponse(members[Creator][j], members[Creator], known)
<1>1. /\ members[Creator] \in [Nodes -> Rows] /\ j \in Nodes /\ Creator \in Nodes
      /\ members[Creator][j] \in Rows
  BY DEF Typed, TypeOK, Nodes
<1>2. a.own = members[Creator][j] /\ a.rows = members[Creator]
  BY <1>1, ResponseFacts
<1>3. Reply(j, a)
  OBVIOUS
<1> HIDE DEF a
<1>4. \A i \in Joiners : answer'[i] \in {answer[i]} \cup (IF i = j THEN {a} ELSE {})
  <2>1. CASE client[j] = "waiting"
    <3>1. answer' = [answer EXCEPT ![j] = a]
      BY <1>3, <2>1 DEF Reply
    <3> QED BY <3>1 DEF Typed, TypeOK
  <2>2. CASE client[j] # "waiting"
    BY <1>3, <2>2 DEF Reply
  <2> QED BY <2>1, <2>2
<1> SUFFICES ASSUME NEW m \in Nodes, NEW r \in Rows, Circulates(m, r)'
             PROVE  Circulates(m, r)
  OBVIOUS
<1>5. CASE \E n \in Nodes : members[n][m] = r
  BY <1>5 DEF Circulates
<1>6. CASE \E p \in Procs : inbox[p][m] = r
  BY <1>6 DEF Circulates
<1>7. ASSUME NEW i \in Joiners, answer'[i].rows[m] = r PROVE Circulates(m, r)
  <2>1. CASE answer'[i] = answer[i]
    BY <1>7, <2>1 DEF Circulates
  <2>2. CASE answer'[i] = a
    BY <1>1, <1>2, <1>7, <2>2 DEF Circulates
  <2> QED BY <1>4, <2>1, <2>2
<1>8. CASE m \in Joiners /\ answer'[m].own = r
  <2>1. CASE answer'[m] = answer[m]
    BY <1>8, <2>1 DEF Circulates
  <2>2. CASE m = j /\ answer'[m] = a
    BY <1>1, <1>2, <1>8, <2>2 DEF Circulates
  <2> QED BY <1>4, <1>8, <2>1, <2>2
<1> QED BY <1>5, <1>6, <1>7, <1>8 DEF Circulates

\* SaveMember signs the next version for one member.  Where it loses no version
\* nobody else is between its two writes, and the version is the room's next.
LEMMA RoomSave ==
  ASSUME Typed, Typed', Orderly, NEW h \in Handlers, SaveMember(h), "version" \notin lost'
  PROVE  /\ Orderly'
         /\ \A m \in Nodes : members[Creator][m].status = "removed"
                               => members'[Creator][m].status = "removed"
<1> USE DEF poll
<1> DEFINE k == op[h].member
           row == Row(NewStatus(h), newRosterVersion(h))
<1>0. /\ h \in Procs /\ pc[h] = "save" /\ op[h].kind \in Signing /\ Fresh(h)
      /\ rec[h] \in Rooms /\ roomRow[Creator] \in Rooms
      /\ ~Behind(h) /\ NoneSigned
  <2>1. ~Behind(h) /\ NoneSigned
    BY DEF SaveMember, NoneSigned
  <2> QED BY <2>1 DEF Orderly, Typed, TypeOK, Task, SaveMember, Procs, Nodes
<1>1. /\ row \in Rows /\ row # NoRow /\ k \in Nodes
      /\ row.version = rec[h].version + 1 /\ row.status = NewStatus(h)
  BY <1>0, NewRowFacts
<1>2. /\ members' = [members EXCEPT ![Creator][k] = row]
      /\ pc' = [pc EXCEPT ![h] = "signed"]
      /\ UNCHANGED <<roomRow, codes, answer, op, rec, inbox>>
  BY DEF SaveMember
<1>3. NewStatus(h)' = NewStatus(h) /\ newRosterVersion(h)' = newRosterVersion(h)
  BY <1>2 DEF NewStatus, newRosterVersion
<1>4. row' = row /\ k' = k
  BY <1>2, <1>3 DEF Row
<1> HIDE DEF row
<1>5. /\ members'[Creator][k] = row
      /\ \A n \in Nodes, m \in Nodes : (n # Creator \/ m # k) => members'[n][m] = members[n][m]
      /\ \A m \in Nodes : members[Creator][m] \in Rows
      /\ pc'[h] = "signed" /\ Creator \in Nodes
      /\ \A g \in Handlers \ {h} : pc'[g] = pc[g]
  BY <1>0, <1>1, <1>2 DEF Typed, TypeOK, Nodes, Procs
<1>a. Signed(h)' /\ \A g \in Handlers \ {h} : ~Signed(g)'
  BY <1>0, <1>5 DEF Signed, NoneSigned
<1>6. \A g \in Handlers : Fresh(g)'
  <2> SUFFICES ASSUME NEW g \in Handlers PROVE Fresh(g)'
    OBVIOUS
  <2>1. Fresh(g) /\ ~NoneSigned'
    BY <1>a DEF Orderly, NoneSigned
  <2>2. Signed(g)' => (members[Creator][op[g].member] = Row(NewStatus(g), newRosterVersion(g)))'
    BY <1>4, <1>5, <1>a DEF row
  <2> QED BY <1>2, <1>5, <2>1, <2>2 DEF Fresh
<1>7. OneSigned'
  BY <1>a DEF OneSigned
<1>8. Top = roomRow[Creator].version /\ Top' = roomRow[Creator].version + 1
      /\ row.version = roomRow[Creator].version + 1 /\ roomRow[Creator].version \in 0..MaxVersion
  <2>1. ~Behind(h)' /\ rec[h].version = roomRow[Creator].version
    BY <1>0, <1>2 DEF Behind
  <2> QED BY <1>0, <1>1, <1>2, <1>a, <2>1, RoomFacts DEF Top, NoneSigned
<1>9. ASSUME NEW m \in Nodes, NEW r \in Rows, Circulates(m, r)'
      PROVE  Circulates(m, r) \/ (m = k /\ r = row)
  BY <1>2, <1>5, <1>9 DEF Circulates
<1>10. \A m \in Nodes, r \in Rows : Circulates(m, r) => r.version <= Top /\ Follows(r, m)
  BY <1>5, <1>8, RowFacts DEF Orderly, Rosters, Follows
<1>11. (\A m \in Nodes : members[Creator][m].version <= Top)'
  BY <1>5, <1>8, RowFacts DEF Orderly, Rosters
<1>12. ASSUME NEW m \in Nodes, NEW r \in Rows, Circulates(m, r)' PROVE Follows(r, m)'
  <2>1. CASE m = k
    BY <1>5, <1>8, <1>9, <1>10, <1>12, <2>1, RowFacts DEF Follows
  <2>2. CASE m # k
    BY <1>5, <1>9, <1>10, <1>12, <2>2 DEF Follows
  <2> QED BY <2>1, <2>2
<1>13. ASSUME NEW m1 \in Nodes, NEW m2 \in Nodes, NEW r1 \in Rows, NEW r2 \in Rows,
              Circulates(m1, r1)', Circulates(m2, r2)', r1 # NoRow, r1.version = r2.version
       PROVE  m1 = m2 /\ r1 = r2
  <2>1. CASE Circulates(m1, r1) /\ Circulates(m2, r2)
    BY <1>13, <2>1 DEF Orderly, Rosters
  <2>2. CASE ~Circulates(m1, r1)
    <3>1. m1 = k /\ r1 = row /\ ~Circulates(m2, r2)
      BY <1>8, <1>9, <1>10, <1>13, <2>2, RowFacts
    <3> QED BY <1>9, <1>13, <3>1
  <2>3. CASE ~Circulates(m2, r2)
    <3>1. m2 = k /\ r2 = row /\ ~Circulates(m1, r1)
      BY <1>8, <1>9, <1>10, <1>13, <2>3, RowFacts
    <3> QED BY <1>9, <1>13, <3>1
  <2> QED BY <2>1, <2>2, <2>3
<1>14. members[Creator][k].status = "removed" => NewStatus(h) = "removed"
  BY <1>0 DEF Fresh, NewStatus, Signing
<1>15. \A m \in Nodes : members[Creator][m].status = "removed"
                          => members'[Creator][m].status = "removed"
  BY <1>1, <1>5, <1>14
<1> QED BY <1>6, <1>7, <1>11, <1>12, <1>13, <1>15 DEF Rosters, Orderly

\* What handleJoin answers at its end is made of the rows of the table, the row
\* it has signed among them.
LEMMA OutcomeCopies ==
  ASSUME Typed, NEW h \in Handlers, Fresh(h), pc[h] \in {"room", "signed"}, JoinOutcome(h),
         UNCHANGED <<members, inbox>>
  PROVE  \A m \in Nodes, r \in Rows : Circulates(m, r)' => Circulates(m, r)
<1>0. h \in Procs /\ Task(h) /\ op[h] \in Ops /\ addrs[Creator] \subseteq Nodes
  BY DEF Typed, TypeOK, Procs, Nodes
<1>1. CASE op[h].kind = "join" /\ NewStatus(h) = "admitted"
  <2> DEFINE j == op[h].member
  <2>1. j \in Joiners
    BY <1>0, <1>1, OpFacts
  <2>2. Row("admitted", newRosterVersion(h)) = members[Creator][j]
    BY <1>0, <1>1 DEF Fresh, Task, Signed
  <2>3. Reply(j, JoinResponse(Row("admitted", newRosterVersion(h)),
                              members[Creator], addrs[Creator]))
    BY <1>1 DEF JoinOutcome
  <2> HIDE DEF j
  <2> QED BY <1>0, <2>1, <2>2, <2>3, ReplyCopies
<1>2. CASE ~(op[h].kind = "join" /\ NewStatus(h) = "admitted")
  <2>1. UNCHANGED answer
    BY <1>2 DEF JoinOutcome, Refuse
  <2> QED BY <2>1 DEF Circulates
<1> QED BY <1>1, <1>2

\* The other steps of a handler.
LEMMA RoomHandler ==
  ASSUME Typed, Typed', Orderly, NEW h \in Handlers, "version" \notin lost',
         \/ JoinGetMember(h) \/ GetMember(h) \/ SaveMemberFails(h)
         \/ SaveRoomState(h) \/ SaveRoomFails(h)
  PROVE  Orderly' /\ UNCHANGED members
<1> USE DEF poll, calls, db
<1>0. /\ h \in Procs /\ Task(h) /\ Fresh(h)
      /\ op[h] \in Ops /\ rec[h] \in Rooms /\ roomRow[Creator] \in Rooms
      /\ members[Creator] \in [Nodes -> Rows] /\ addrs[Creator] \subseteq Nodes
      /\ Creator \in Nodes /\ roomRow[Creator].version \in Nat /\ rec[h].version \in Nat
  <2>1. rec[h] \in Rooms /\ roomRow[Creator] \in Rooms
    BY DEF Typed, TypeOK, Procs, Nodes
  <2> QED BY <2>1, RoomFacts DEF Orderly, Typed, TypeOK, Procs, Nodes
<1>1. UNCHANGED <<members, inbox>>
  BY DEF JoinGetMember, GetMember, SaveMemberFails, SaveRoomState, SaveRoomFails
<1>2. ASSUME Return(h)
      PROVE  /\ pc'[h] = "idle" /\ ~Signed(h)' /\ rec'[h].version = 0
             /\ \A g \in Handlers \ {h} : pc'[g] = pc[g] /\ op'[g] = op[g] /\ rec'[g] = rec[g]
  BY <1>0, <1>2 DEF Return, Typed, TypeOK, Signed, NoRoom, Procs
<1>3. ASSUME NEW l \in {"save", "room"}, pc' = [pc EXCEPT ![h] = l], UNCHANGED <<op, rec>>
      PROVE  /\ pc'[h] = l /\ ~Signed(h)'
             /\ \A g \in Handlers \ {h} : pc'[g] = pc[g] /\ op'[g] = op[g] /\ rec'[g] = rec[g]
  BY <1>0, <1>3 DEF Typed, TypeOK, Signed, Procs
<1>4. CASE JoinGetMember(h)
  <2> DEFINE j == op[h].member
             row == members[Creator][j]
  <2>1. j \in Joiners /\ j \in Nodes /\ row \in Rows /\ op[h].kind = "join" /\ pc[h] = "member"
        /\ UNCHANGED roomRow /\ ~Signed(h)
    BY <1>0, <1>4, OpFacts DEF JoinGetMember, Nodes, Signed
  <2>2. CASE /\ addrs' = [addrs EXCEPT ![Creator] = @ \cup {j}]
             /\ Reply(j, JoinResponse(row, members[Creator], addrs'[Creator]))
             /\ Return(h)
    <3>1. addrs'[Creator] \in SUBSET Nodes
      BY <1>0, <2>1, <2>2 DEF Typed, TypeOK
    <3>2. \A m \in Nodes, r \in Rows : Circulates(m, r)' => Circulates(m, r)
      BY <1>1, <2>1, <2>2, <3>1, ReplyCopies
    <3> QED BY <1>0, <1>1, <1>2, <2>1, <2>2, <3>2, OneActs
  <2>3. CASE Refuse(j) /\ Return(h)
    <3>1. UNCHANGED answer
      BY <2>3 DEF Refuse
    <3>2. \A m \in Nodes, r \in Rows : Circulates(m, r)' => Circulates(m, r)
      BY <1>1, <3>1 DEF Circulates
    <3> QED BY <1>0, <1>1, <1>2, <2>1, <2>3, <3>2, OneActs
  <2>4. CASE /\ Readmits(row.status)
             /\ pc' = [pc EXCEPT ![h] = "save"]
             /\ UNCHANGED <<op, rec, addrs, client, answer>>
    <3>1. row.status # "removed"
      BY <2>4 DEF Readmits
    <3>2. \A m \in Nodes, r \in Rows : Circulates(m, r)' => Circulates(m, r)
      BY <1>1, <2>4 DEF Circulates
    <3>3. rec'[h].version <= roomRow'[Creator].version
      BY <1>0, <2>1, <2>4 DEF Fresh
    <3> QED BY <1>0, <1>1, <1>3, <2>1, <2>4, <3>1, <3>2, <3>3, OneActs
  <2> QED BY <1>4, <2>2, <2>3, <2>4 DEF JoinGetMember
<1>5. CASE GetMember(h)
  <2>1. /\ pc[h] = "member" /\ op[h].kind \in {"approve", "remove"}
        /\ UNCHANGED <<roomRow, answer>> /\ ~Signed(h)
    BY <1>5 DEF GetMember, Signed
  <2>2. \A m \in Nodes, r \in Rows : Circulates(m, r)' => Circulates(m, r)
    BY <1>1, <2>1 DEF Circulates
  <2>3. CASE Return(h)
    BY <1>0, <1>1, <1>2, <2>1, <2>2, <2>3, OneActs
  <2>4. CASE Found(h) /\ pc' = [pc EXCEPT ![h] = "save"] /\ UNCHANGED <<op, rec>>
    <3>1. op[h].kind = "approve" => members[Creator][op[h].member].status # "removed"
      BY <2>4 DEF Found
    <3>2. rec'[h].version <= roomRow'[Creator].version
      BY <1>0, <2>1, <2>4 DEF Fresh
    <3> QED BY <1>0, <1>1, <1>3, <2>1, <2>2, <2>4, <3>1, <3>2, OneActs
  <2> QED BY <1>5, <2>3, <2>4 DEF GetMember
<1>6. CASE SaveMemberFails(h)
  <2>1. pc[h] = "save" /\ UNCHANGED roomRow /\ ~Signed(h)
    BY <1>6 DEF SaveMemberFails, Signed
  <2>2. UNCHANGED answer
    BY <1>6 DEF SaveMemberFails, Refuse
  <2>3. \A m \in Nodes, r \in Rows : Circulates(m, r)' => Circulates(m, r)
    BY <1>1, <2>2 DEF Circulates
  <2>4. CASE Return(h)
    BY <1>0, <1>1, <1>2, <2>1, <2>3, <2>4, OneActs
  <2>5. CASE pc' = [pc EXCEPT ![h] = "room"] /\ UNCHANGED <<op, rec>>
    <3>1. rec'[h].version <= roomRow'[Creator].version
      BY <1>0, <2>1, <2>5 DEF Fresh
    <3> QED BY <1>0, <1>1, <1>3, <2>1, <2>3, <2>5, <3>1, OneActs
  <2> QED BY <1>6, <2>4, <2>5 DEF SaveMemberFails
<1>7. CASE SaveRoomState(h)
  <2>1. /\ pc[h] \in {"room", "signed"} /\ Return(h) /\ JoinOutcome(h)
        /\ roomRow' = [roomRow EXCEPT ![Creator] = NewRoom(h)]
        /\ "version" \notin SetBack(h)
    BY <1>7 DEF SaveRoomState
  <2>2. rec[h].version = roomRow[Creator].version
    BY <2>1 DEF SetBack, Behind
  <2>3. roomRow'[Creator] = NewRoom(h)
    BY <1>0, <2>1 DEF Typed, TypeOK
  <2>4. op[h].kind \in Signing => roomRow'[Creator].version = roomRow[Creator].version + 1
    BY <2>1, <2>2, <2>3, NewRoomFacts
  <2>5. op[h].kind \notin Signing => roomRow'[Creator].version = roomRow[Creator].version
                                     /\ ~Signed(h)
    BY <1>0, <2>1, <2>2, <2>3, NewRoomFacts DEF Task, Signed
  <2>6. \A m \in Nodes, r \in Rows : Circulates(m, r)' => Circulates(m, r)
    BY <1>0, <1>1, <2>1, OutcomeCopies
  <2>7. \/ roomRow'[Creator].version = roomRow[Creator].version /\ ~Signed(h)
        \/ roomRow'[Creator].version > roomRow[Creator].version
    BY <1>0, <2>4, <2>5
  <2>8. rec'[h].version <= roomRow'[Creator].version
    BY <1>0, <1>2, <2>1, <2>4, <2>5
  <2> QED BY <1>1, <1>2, <2>1, <2>6, <2>7, <2>8, OneActs
<1>8. CASE SaveRoomFails(h)
  <2>1. pc[h] \in {"room", "signed"} /\ Return(h) /\ JoinOutcome(h) /\ UNCHANGED roomRow
        /\ ~Signed(h)
    BY <1>8 DEF SaveRoomFails
  <2>2. \A m \in Nodes, r \in Rows : Circulates(m, r)' => Circulates(m, r)
    BY <1>0, <1>1, <2>1, OutcomeCopies
  <2> QED BY <1>0, <1>1, <1>2, <2>1, <2>2, OneActs
<1> QED BY <1>1, <1>4, <1>5, <1>6, <1>7, <1>8
\* A joiner stores rows the creator signed, and changes nothing at the creator.
LEMMA RoomJoiner ==
  ASSUME Typed, Typed', Orderly, NEW j \in Joiners, JoinerStep(j)
  PROVE  Orderly' /\ members'[Creator] = members[Creator]
<1> USE DEF calls, tasks, db
<1>0. /\ j \in Nodes /\ j # Creator /\ Creator \in Nodes /\ j \in Joiners
      /\ members \in [Nodes -> [Nodes -> Rows]] /\ roomRow \in [Nodes -> Rooms]
      /\ answer \in [Joiners -> Answers]
  BY DEF Nodes, Typed, TypeOK, Answers
<1>1. /\ UNCHANGED <<pc, op, rec, inbox>>
      /\ members'[Creator] = members[Creator] /\ roomRow'[Creator] = roomRow[Creator]
      /\ \A n \in Nodes \ {j} : members'[n] = members[n]
  BY <1>0 DEF JoinerStep, JoinAnswered, StoreOwn, StoreRoster, StoreAddresses, JoinTimeout,
              LeaveRoom
<1>2. \A i \in Joiners, m \in Nodes :
        /\ answer'[i].own \in {answer[i].own, NoRow}
        /\ answer'[i].rows[m] \in {answer[i].rows[m], NoRow}
  <2>0. NoAnswer.own = NoRow /\ \A m \in Nodes : NoAnswer.rows[m] = NoRow
    BY AnswerFacts DEF NoRows
  <2>1. CASE UNCHANGED answer
    BY <2>1
  <2>2. CASE answer' = [answer EXCEPT ![j] = NoAnswer]
    BY <1>0, <2>0, <2>2
  <2>3. CASE answer' = [answer EXCEPT ![j].own = NoRow]
    BY <1>0, <2>3 DEF Answers
  <2>4. ASSUME NEW k \in Nodes, answer' = [answer EXCEPT ![j].rows[k] = NoRow]
        PROVE  \A i \in Joiners, m \in Nodes :
                 /\ answer'[i].own \in {answer[i].own, NoRow}
                 /\ answer'[i].rows[m] \in {answer[i].rows[m], NoRow}
    BY <1>0, <2>4 DEF Answers
  <2> QED BY <2>1, <2>2, <2>3, <2>4
          DEF JoinerStep, JoinAnswered, StoreOwn, StoreRoster, StoreAddresses, JoinTimeout,
              LeaveRoom
<1>3. \A m \in Nodes : \/ members'[j][m] = NoRow \/ members'[j][m] = members[j][m]
                       \/ members'[j][m] = answer[j].rows[m]
                       \/ m = j /\ members'[j][m] = answer[j].own
  <2>1. CASE UNCHANGED members
    BY <2>1
  <2>2. CASE members' = [members EXCEPT ![j] = NoRows]
    BY <1>0, <2>2 DEF NoRows
  <2>3. CASE members' = [members EXCEPT ![j][j] = answer[j].own]
    BY <1>0, <2>3
  <2>4. ASSUME NEW k \in Nodes, members' = [members EXCEPT ![j][k] = answer[j].rows[k]]
        PROVE  \A m \in Nodes : members'[j][m] \in {members[j][m], answer[j].rows[m]}
    BY <1>0, <2>4
  <2> QED BY <2>1, <2>2, <2>3, <2>4
          DEF JoinerStep, JoinAnswered, StoreOwn, StoreRoster, StoreAddresses, JoinTimeout,
              LeaveRoom
<1>4. ASSUME NEW m \in Nodes, NEW r \in Rows, Circulates(m, r)'
      PROVE  Circulates(m, r) \/ r = NoRow
  <2>1. ASSUME NEW n \in Nodes, members'[n][m] = r PROVE Circulates(m, r) \/ r = NoRow
    <3>1. CASE n = j
      BY <1>0, <1>3, <2>1, <3>1 DEF Circulates
    <3>2. CASE n # j
      BY <1>1, <2>1, <3>2 DEF Circulates
    <3> QED BY <3>1, <3>2
  <2>2. ASSUME NEW i \in Joiners, answer'[i].rows[m] = r PROVE Circulates(m, r) \/ r = NoRow
    BY <1>2, <2>2 DEF Circulates
  <2>3. CASE m \in Joiners /\ answer'[m].own = r
    BY <1>2, <2>3 DEF Circulates
  <2>4. CASE \E p \in Procs : inbox'[p][m] = r
    BY <1>1, <2>4 DEF Circulates
  <2> QED BY <1>4, <2>1, <2>2, <2>3, <2>4 DEF Circulates
<1> QED BY <1>1, <1>4, CreatorRests

\* A poll copies rows.  The creator's own finds no row newer than those it
\* holds, and where it loses no version it only moves the version forward.
LEMMA RoomPoll ==
  ASSUME Typed, Typed', Orderly, NEW p \in Procs, PollStep(p), "version" \notin lost'
  PROVE  Orderly' /\ members'[Creator] = members[Creator]
<1> USE DEF calls, db
<1> DEFINE n == site(p)
<1>0. /\ n \in Nodes /\ Creator \in Nodes /\ (n = Creator <=> p \in Handlers)
      /\ members \in [Nodes -> [Nodes -> Rows]] /\ roomRow \in [Nodes -> Rooms]
      /\ inbox \in [Procs -> [Nodes -> Rows]] /\ rec \in [Procs -> Rooms]
      /\ pc \in [Procs -> Phases]
      /\ op \in [Procs -> Ops] /\ Task(p)
  BY DEF site, Nodes, Procs, Typed, TypeOK
<1> HIDE DEF n
<1>h. /\ Handlers \subseteq Procs
      /\ p \in Handlers => Fresh(p)
  BY DEF Procs, Orderly
<1>1. UNCHANGED answer
  BY DEF PollStep, SyncMembership, SyncAnswered, SyncFailed, SyncDone, CheckUpdate,
         WriteUpdate, AdvanceVersion
<1>2. ASSUME UNCHANGED <<roomRow, members, op>>, pc[p] \in {"idle", "peers", "apply"},
             \A q \in Procs \ {p} : pc'[q] = pc[q] /\ rec'[q] = rec[q],
             pc'[p] \in {"idle", "peers", "apply"},
             rec'[p] \in {rec[p], roomRow[n], NoRoom},
             \A m \in Nodes, r \in Rows : Circulates(m, r)' => Circulates(m, r) \/ r = NoRow
      PROVE  Orderly' /\ members'[Creator] = members[Creator]
  <2>1. CASE p \in Handlers
    <3>1. rec'[p].version <= roomRow'[Creator].version
      <4>1. roomRow[Creator].version \in Nat /\ NoRoom.version = 0
        BY TopFacts DEF NoRoom
      <4> QED BY <1>0, <1>2, <1>h, <2>1, <4>1 DEF Fresh
    <3>2. ~Signed(p) /\ ~Signed(p)'
      BY <1>2 DEF Signed
    <3>3. \A g \in Handlers \ {p} : pc'[g] = pc[g] /\ op'[g] = op[g] /\ rec'[g] = rec[g]
      BY <1>2, <1>h
    <3> QED BY <1>2, <2>1, <3>1, <3>2, <3>3, OneActs
  <2>2. CASE p \notin Handlers
    <3>1. \A g \in Handlers : pc'[g] = pc[g] /\ op'[g] = op[g] /\ rec'[g] = rec[g]
      BY <1>2, <1>h, <2>2
    <3> QED BY <1>2, <3>1, CreatorRests
  <2> QED BY <2>1, <2>2
<1>3. CASE SyncMembership(p)
  <2>1. /\ pc[p] = "idle" /\ pc' = [pc EXCEPT ![p] = "peers"]
        /\ rec' = [rec EXCEPT ![p] = roomRow[n]]
        /\ UNCHANGED <<roomRow, members, op, inbox>>
    BY <1>3 DEF SyncMembership, n
  <2>2. \A m \in Nodes, r \in Rows : Circulates(m, r)' => Circulates(m, r)
    BY <1>1, <2>1 DEF Circulates
  <2>3. /\ pc'[p] = "peers" /\ rec'[p] = roomRow[n]
        /\ \A q \in Procs \ {p} : pc'[q] = pc[q] /\ rec'[q] = rec[q]
    BY <1>0, <2>1
  <2> QED BY <1>2, <2>1, <2>2, <2>3
<1>4. ASSUME NEW q \in Nodes, SyncAnswered(p, q)
      PROVE  Orderly' /\ members'[Creator] = members[Creator]
  <2> DEFINE rows == rosterSnapshot(q, n)
  <2>0. \A m \in Nodes : rows[m] = NoRow \/ rows[m] = members[q][m]
    BY DEF rosterSnapshot
  <2> HIDE DEF rows
  <2>1. /\ pc[p] = "peers" /\ pc' = [pc EXCEPT ![p] = "apply"]
        /\ inbox' = [inbox EXCEPT ![p] = rows]
        /\ UNCHANGED <<roomRow, members, op, rec>>
    BY <1>4 DEF SyncAnswered, n, rows
  <2>2. pc'[p] = "apply" /\ inbox'[p] = rows /\ \A r \in Procs \ {p} : pc'[r] = pc[r] /\ inbox'[r] = inbox[r]
    BY <1>0, <2>1
  <2>3. \A m \in Nodes, r \in Rows : Circulates(m, r)' => Circulates(m, r) \/ r = NoRow
    BY <1>1, <2>0, <2>1, <2>2 DEF Circulates
  <2> QED BY <1>2, <2>1, <2>2, <2>3
<1>5. ASSUME NEW q \in Nodes, SyncFailed(p, q)
      PROVE  Orderly' /\ members'[Creator] = members[Creator]
  <2>1. UNCHANGED <<roomRow, members, pc, op, rec, inbox>>
    BY <1>5 DEF SyncFailed
  <2>2. \A m \in Nodes, r \in Rows : Circulates(m, r)' => Circulates(m, r)
    BY <1>1, <2>1 DEF Circulates
  <2> QED BY <2>1, <2>2, CreatorRests
<1>6. CASE SyncDone(p)
  <2>1. /\ pc[p] = "peers" /\ pc' = [pc EXCEPT ![p] = "idle"]
        /\ rec' = [rec EXCEPT ![p] = NoRoom]
        /\ UNCHANGED <<roomRow, members, op, inbox>>
    BY <1>6 DEF SyncDone, poll
  <2>2. \A m \in Nodes, r \in Rows : Circulates(m, r)' => Circulates(m, r)
    BY <1>1, <2>1 DEF Circulates
  <2>3. /\ pc'[p] = "idle" /\ rec'[p] = NoRoom
        /\ \A q \in Procs \ {p} : pc'[q] = pc[q] /\ rec'[q] = rec[q]
    BY <1>0, <2>1
  <2> QED BY <1>2, <2>1, <2>2, <2>3
<1>7. ASSUME NEW m \in Nodes, CheckUpdate(p, m)
      PROVE  Orderly' /\ members'[Creator] = members[Creator]
  <2>1. /\ pc[p] = "apply" /\ UNCHANGED <<roomRow, members, rec>>
        /\ \/ /\ inbox[p][m].version > members[n][m].version
              /\ pc' = [pc EXCEPT ![p] = "write"]
              /\ op' = [op EXCEPT ![p] = [kind |-> "write", member |-> m]]
              /\ UNCHANGED inbox
           \/ /\ inbox' = [inbox EXCEPT ![p][m] = NoRow]
              /\ UNCHANGED <<pc, op>>
    BY <1>7 DEF CheckUpdate, n
  <2>2. p \in Handlers => ~(inbox[p][m].version > members[n][m].version)
    <3> SUFFICES ASSUME p \in Handlers
                 PROVE  ~(inbox[p][m].version > members[Creator][m].version)
      BY <1>0
    <3>1. inbox[p][m] \in Rows /\ members[Creator][m] \in Rows
      BY <1>0
    <3>2. Follows(inbox[p][m], m)
      BY <3>1 DEF Orderly, Rosters, Circulates
    <3> QED BY <3>1, <3>2, RowFacts DEF Follows
  <2>3. \A h \in Handlers : pc'[h] = pc[h] /\ op'[h] = op[h]
    BY <1>0, <1>h, <2>1, <2>2
  <2>4. \A r \in Procs, k \in Nodes : inbox'[r][k] = inbox[r][k] \/ inbox'[r][k] = NoRow
    <3>1. CASE inbox' = [inbox EXCEPT ![p][m] = NoRow]
      BY <1>0, <3>1
    <3> QED BY <2>1, <3>1
  <2>5. \A k \in Nodes, r \in Rows : Circulates(k, r)' => Circulates(k, r) \/ r = NoRow
    BY <1>1, <2>1, <2>4 DEF Circulates
  <2> QED BY <2>1, <2>3, <2>5, CreatorRests
<1>8. CASE WriteUpdate(p)
  <2> DEFINE m == op[p].member
  <2>1. /\ pc[p] = "write"
        /\ members' = [members EXCEPT ![n][m] = inbox[p][m]]
        /\ inbox' = [inbox EXCEPT ![p][m] = NoRow]
        /\ pc' = [pc EXCEPT ![p] = "apply"]
        /\ op' = [op EXCEPT ![p] = NoOp]
        /\ UNCHANGED <<roomRow, rec>>
    BY <1>8 DEF WriteUpdate, n
  <2>2. p \notin Handlers /\ n # Creator
    BY <1>0, <1>h, <2>1 DEF Fresh
  <2>3. m \in Nodes
    BY <1>0, <2>1, OpFacts DEF Task
  <2> HIDE DEF m
  <2>4. members'[Creator] = members[Creator]
    BY <1>0, <2>1, <2>2
  <2>5. \A h \in Handlers : pc'[h] = pc[h] /\ op'[h] = op[h]
    BY <1>0, <1>h, <2>1, <2>2
  <2>6. \A r \in Procs, k \in Nodes : inbox'[r][k] = inbox[r][k] \/ inbox'[r][k] = NoRow
    BY <1>0, <2>1
  <2>7. \A i \in Nodes, k \in Nodes : \/ members'[i][k] = members[i][k]
                                      \/ k = m /\ members'[i][k] = inbox[p][m]
    BY <1>0, <2>1, <2>3
  <2>8. ASSUME NEW k \in Nodes, NEW r \in Rows, Circulates(k, r)'
        PROVE  Circulates(k, r) \/ r = NoRow
    BY <1>1, <2>6, <2>7, <2>8 DEF Circulates
  <2> QED BY <2>1, <2>4, <2>5, <2>8, CreatorRests
<1>9. CASE AdvanceVersion(p)
  <2> DEFINE v == Contiguous(members[n])
             advanced == [rec[p] EXCEPT !.version = v]
  <2>0. v \in Nat /\ advanced.version = v
    <3>1. v \in 0..MaxVersion
      BY <1>0, ContiguousFacts
    <3> QED BY <1>0, <3>1, NewVersionFacts
  <2>1. /\ pc[p] = "apply" /\ pc' = [pc EXCEPT ![p] = "peers"]
        /\ \/ /\ v > rec[p].version
              /\ rec' = [rec EXCEPT ![p] = advanced]
              /\ roomRow' = [roomRow EXCEPT ![n] = advanced]
              /\ n = Creator => "version" \notin SetBack(p)
           \/ UNCHANGED <<rec, roomRow>>
        /\ UNCHANGED <<members, op, inbox>>
    BY <1>9 DEF AdvanceVersion, n
  <2> HIDE DEF v, advanced
  <2>2. pc'[p] = "peers" /\ \A q \in Procs \ {p} : pc'[q] = pc[q] /\ rec'[q] = rec[q]
    BY <1>0, <2>1
  <2>3. \A m \in Nodes, r \in Rows : Circulates(m, r)' => Circulates(m, r) \/ r = NoRow
    BY <1>1, <2>1 DEF Circulates
  <2>4. CASE UNCHANGED <<rec, roomRow>>
    BY <1>2, <2>1, <2>2, <2>3, <2>4
  <2>5. CASE /\ v > rec[p].version
             /\ rec' = [rec EXCEPT ![p] = advanced]
             /\ roomRow' = [roomRow EXCEPT ![n] = advanced]
             /\ n = Creator => "version" \notin SetBack(p)
    <3>1. CASE p \in Handlers
      <4>1. rec[p].version = roomRow[Creator].version
        BY <1>0, <2>5, <3>1 DEF SetBack, Behind
      <4>2. roomRow'[Creator].version = v /\ rec'[p].version = v
        BY <1>0, <2>0, <2>5, <3>1
      <4>3. ~Signed(p)'
        BY <2>2 DEF Signed
      <4>4. roomRow'[Creator].version > roomRow[Creator].version
            /\ rec'[p].version <= roomRow'[Creator].version
        BY <2>0, <2>5, <4>1, <4>2
      <4>5. \A g \in Handlers \ {p} : pc'[g] = pc[g] /\ op'[g] = op[g] /\ rec'[g] = rec[g]
        BY <1>h, <2>1, <2>2
      <4> QED BY <2>1, <2>2, <2>3, <3>1, <4>3, <4>4, <4>5, OneActs
    <3>2. CASE p \notin Handlers
      <4>1. \A g \in Handlers : pc'[g] = pc[g] /\ op'[g] = op[g] /\ rec'[g] = rec[g]
        BY <1>h, <2>1, <2>2, <3>2
      <4>2. roomRow'[Creator] = roomRow[Creator]
        BY <1>0, <2>5, <3>2
      <4> QED BY <2>1, <2>3, <4>1, <4>2, CreatorRests
    <3> QED BY <3>1, <3>2
  <2> QED BY <2>1, <2>4, <2>5
<1> QED BY <1>3, <1>4, <1>5, <1>6, <1>7, <1>8, <1>9 DEF PollStep

\* A crash changes no table.  Where it loses no version, nobody at the creator
\* was between its two writes.
LEMMA RoomCrash ==
  ASSUME Typed, Typed', Orderly, NEW n \in Nodes, Crash(n), "version" \notin lost'
  PROVE  Orderly' /\ UNCHANGED members
<1> USE DEF db
<1>1. UNCHANGED <<roomRow, members>>
  BY DEF Crash
<1>2. \A p \in Procs : inbox'[p] = inbox[p] \/ inbox'[p] = NoRows
  BY DEF Crash
<1>3. \A j \in Joiners : answer'[j] = answer[j] \/ answer'[j] = NoAnswer
  BY DEF Crash
<1>4. ASSUME NEW m \in Nodes, NEW r \in Rows, Circulates(m, r)'
      PROVE  Circulates(m, r) \/ r = NoRow
  <2>1. NoRows[m] = NoRow /\ NoAnswer.own = NoRow /\ NoAnswer.rows[m] = NoRow
    BY AnswerFacts DEF NoRows
  <2>2. CASE \E i \in Nodes : members'[i][m] = r
    BY <1>1, <2>2 DEF Circulates
  <2>3. ASSUME NEW j \in Joiners, answer'[j].rows[m] = r PROVE Circulates(m, r) \/ r = NoRow
    BY <1>3, <2>1, <2>3 DEF Circulates
  <2>4. CASE m \in Joiners /\ answer'[m].own = r
    BY <1>3, <2>1, <2>4 DEF Circulates
  <2>5. ASSUME NEW p \in Procs, inbox'[p][m] = r PROVE Circulates(m, r) \/ r = NoRow
    BY <1>2, <2>1, <2>5 DEF Circulates
  <2> QED BY <1>4, <2>2, <2>3, <2>4, <2>5 DEF Circulates
<1>5. CASE n # Creator
  <2>1. \A h \in Handlers : h \in Procs /\ site(h) # n
    BY <1>5 DEF Procs, site
  <2>2. \A h \in Handlers : pc'[h] = pc[h] /\ op'[h] = op[h] /\ rec'[h] = rec[h]
    BY <2>1 DEF Crash
  <2> QED BY <1>1, <1>4, <2>2, CreatorRests
<1>6. CASE n = Creator
  <2>1. \A h \in Handlers : h \in Procs /\ site(h) = n
    BY <1>6 DEF Procs, site
  <2>2. \A h \in Handlers : pc'[h] = "idle" /\ rec'[h] = NoRoom
    BY <2>1 DEF Crash
  <2>3. NoneSigned
    BY <2>1 DEF Crash, NoneSigned
  <2>4. NoneSigned' /\ OneSigned'
    BY <2>2 DEF NoneSigned, Signed, OneSigned
  <2>5. roomRow[Creator].version \in Nat /\ Top = roomRow[Creator].version
    BY <2>3, TopFacts
  <2>6. \A h \in Handlers : Fresh(h)'
    BY <1>1, <2>2, <2>5 DEF Fresh, Signed, NoRoom
  <2>7. Top' = roomRow[Creator].version
    BY <1>1, <2>4 DEF Top, NoneSigned
  <2>8. Rosters'
    BY <1>1, <1>4, <2>5, <2>7, RostersKept DEF Orderly
  <2> QED BY <1>1, <2>4, <2>6, <2>8 DEF Orderly
<1> QED BY <1>5, <1>6

\* The code that admits is the last one handed out, or a write has lost it.
LEMMA NextCode ==
  ASSUME Typed, Typed', CodeCurrent, [Next]_vars, "code" \notin lost'
  PROVE  roomRow'[Creator].code = codes'
<1> USE DEF calls, db, tasks
<1>0. /\ roomRow[Creator].code = codes /\ Creator \in Nodes /\ Creator \notin Joiners
      /\ roomRow \in [Nodes -> Rooms] /\ rec \in [Procs -> Rooms]
      /\ members \in [Nodes -> [Nodes -> Rows]]
  BY LostGrows DEF CodeCurrent, Typed, TypeOK, Nodes
<1>1. CASE UNCHANGED vars
  BY <1>0, <1>1 DEF vars
<1>2. ASSUME NEW h \in Handlers, CreatorStep(h) PROVE roomRow'[Creator].code = codes'
  <2>1. CASE SaveRoomState(h)
    <3>1. /\ roomRow'[Creator] = NewRoom(h) /\ pc[h] \in {"room", "signed"}
          /\ codes' = IF NewCode(h) THEN codes + 1 ELSE codes
          /\ rec[h].code = roomRow[Creator].code
      BY <1>0, <2>1 DEF SaveRoomState, SetBack
    <3> QED BY <1>0, <3>1, NewRoomFacts
  <2>2. CASE SaveRoomFails(h)
    BY <1>0, <2>2 DEF SaveRoomFails
  <2>3. CASE ~(SaveRoomState(h) \/ SaveRoomFails(h))
    <3>1. UNCHANGED <<roomRow, codes>>
      BY <1>2, <2>3 DEF CreatorStep, JoinRequest, ApproveRequest, RemoveRequest, RotateRequest,
         ApprovalRequest, JoinGetMember, GetMember, SaveMember, SaveMemberFails
    <3> QED BY <1>0, <3>1
  <2> QED BY <2>1, <2>2, <2>3
<1>3. ASSUME NEW j \in Joiners, JoinerStep(j) PROVE roomRow'[Creator].code = codes'
  BY <1>0, <1>3 DEF JoinerStep, JoinAnswered, StoreOwn, StoreRoster, StoreAddresses, JoinTimeout,
     LeaveRoom
<1>4. ASSUME NEW p \in Procs, PollStep(p) PROVE roomRow'[Creator].code = codes'
  <2>1. CASE AdvanceVersion(p)
    <3> DEFINE v == Contiguous(members[site(p)])
               advanced == [rec[p] EXCEPT !.version = v]
    <3>1. site(p) \in Nodes
      BY DEF site, Nodes, Procs
    <3>2. v \in 0..MaxVersion
      BY <1>0, <3>1, ContiguousFacts
    <3>3. advanced.code = rec[p].code
      BY <1>0, <3>2, NewVersionFacts
    <3>4. /\ codes' = codes
          /\ \/ UNCHANGED roomRow
             \/ /\ roomRow' = [roomRow EXCEPT ![site(p)] = advanced]
                /\ site(p) = Creator => rec[p].code = roomRow[Creator].code
      BY <2>1 DEF AdvanceVersion, SetBack
    <3> HIDE DEF advanced, v
    <3>5. CASE UNCHANGED roomRow
      BY <1>0, <3>4, <3>5
    <3>6. CASE /\ roomRow' = [roomRow EXCEPT ![site(p)] = advanced]
               /\ site(p) = Creator => rec[p].code = roomRow[Creator].code
      <4>1. CASE site(p) = Creator
        BY <1>0, <3>3, <3>4, <3>6, <4>1
      <4>2. CASE site(p) # Creator
        BY <1>0, <3>4, <3>6, <4>2
      <4> QED BY <4>1, <4>2
    <3> QED BY <3>4, <3>5, <3>6
  <2>2. CASE ~AdvanceVersion(p)
    <3>1. UNCHANGED <<roomRow, codes>>
      BY <1>4, <2>2 DEF PollStep, SyncMembership, SyncAnswered, SyncFailed, SyncDone, CheckUpdate,
         WriteUpdate
    <3> QED BY <1>0, <3>1
  <2> QED BY <2>1, <2>2
<1>5. ASSUME NEW n \in Nodes, Crash(n) PROVE roomRow'[Creator].code = codes'
  BY <1>0, <1>5 DEF Crash
<1> QED BY <1>1, <1>2, <1>3, <1>4, <1>5 DEF Next

\* The inductive step, for any overlap of tasks, any failed save and any crash.
LEMMA NextRoom ==
  ASSUME RoomInv, [Next]_vars
  PROVE  /\ RoomInv'
         /\ \A m \in Nodes : members[Creator][m].status = "removed" /\ "version" \notin lost'
                               => members'[Creator][m].status = "removed"
<1>1. Typed /\ Typed'
  BY NextType DEF RoomInv
<1>2. CodeCurrent'
  BY <1>1, NextCode DEF RoomInv, CodeCurrent
<1>3. ASSUME "version" \notin lost'
      PROVE  /\ Orderly'
             /\ \A m \in Nodes : members[Creator][m].status = "removed"
                                   => members'[Creator][m].status = "removed"
  <2>1. Orderly
    BY <1>3, LostGrows DEF RoomInv
  <2>2. CASE UNCHANGED vars
    <3>1. \A m \in Nodes, r \in Rows : Circulates(m, r)' => Circulates(m, r)
      BY <2>2 DEF Circulates, vars
    <3> QED BY <1>1, <2>1, <2>2, <3>1, CreatorRests DEF vars
  <2>3. ASSUME NEW h \in Handlers, CreatorStep(h)
        PROVE  /\ Orderly'
               /\ \A m \in Nodes : members[Creator][m].status = "removed"
                                     => members'[Creator][m].status = "removed"
    <3>1. CASE SaveMember(h)
      BY <1>1, <1>3, <2>1, <3>1, RoomSave
    <3>2. CASE \/ JoinGetMember(h) \/ GetMember(h) \/ SaveMemberFails(h)
               \/ SaveRoomState(h) \/ SaveRoomFails(h)
      BY <1>1, <1>3, <2>1, <3>2, RoomHandler
    <3>3. CASE \/ \E j \in Joiners, c \in 1..codes : JoinRequest(h, j, c)
               \/ \E m \in Joiners : ApproveRequest(h, m)
               \/ \E m \in Joiners, b \in BOOLEAN : RemoveRequest(h, m, b)
               \/ RotateRequest(h)
               \/ \E b \in BOOLEAN : ApprovalRequest(h, b)
      <4>1. Orderly'
        BY <1>1, <2>1, <3>3, RoomRequest
      <4>2. UNCHANGED members
        BY <3>3 DEF JoinRequest, ApproveRequest, RemoveRequest, RotateRequest,
           ApprovalRequest, db
      <4> QED BY <4>1, <4>2
    <3> QED BY <2>3, <3>1, <3>2, <3>3 DEF CreatorStep
  <2>4. ASSUME NEW j \in Joiners, JoinerStep(j)
        PROVE  Orderly' /\ members'[Creator] = members[Creator]
    BY <1>1, <2>1, <2>4, RoomJoiner
  <2>5. ASSUME NEW p \in Procs, PollStep(p)
        PROVE  Orderly' /\ members'[Creator] = members[Creator]
    BY <1>1, <1>3, <2>1, <2>5, RoomPoll
  <2>6. ASSUME NEW n \in Nodes, Crash(n)
        PROVE  Orderly' /\ members'[Creator] = members[Creator]
    BY <1>1, <1>3, <2>1, <2>6, RoomCrash
  <2> QED BY <2>2, <2>3, <2>4, <2>5, <2>6 DEF Next
<1> QED BY <1>1, <1>2, <1>3 DEF RoomInv

\* However requests, joins, polls, lost answers, failed saves and crashes
\* interleave, the room is orderly until an update of the creator's room row is
\* lost.
THEOREM Invariance == Spec => []RoomInv
<1>1. RoomInv /\ [Next]_vars => RoomInv'
  BY NextRoom
<1> QED BY <1>1, InitRoom, PTL DEF Spec

\* Until a version is lost, no installation holds a row that contradicts the
\* creator's under the same version or a later one: what is out of date is
\* repaired by the next pull (rosterSnapshot, applyMembershipUpdates).
THEOREM CreatorStaysAhead == Spec => []CreatorAhead
<1>1. RoomInv => CreatorAhead
  BY DEF RoomInv, Orderly, Rosters, CreatorAhead, Circulates, Typed, TypeOK
<1> QED BY <1>1, Invariance, PTL

\* Until a version is lost, none is signed for two changes (handleJoin,
\* handleApproveMember, handleRemoveMember).
THEOREM VersionsUnique == Spec => []OneChangePerVersion
<1>1. RoomInv => OneChangePerVersion
  <2> SUFFICES ASSUME RoomInv, "version" \notin lost,
                      NEW n1 \in Nodes, NEW n2 \in Nodes, NEW m1 \in Nodes, NEW m2 \in Nodes,
                      members[n1][m1] # NoRow, members[n1][m1].version = members[n2][m2].version
               PROVE  m1 = m2 /\ members[n1][m1] = members[n2][m2]
    BY DEF OneChangePerVersion
  <2>1. members[n1][m1] \in Rows /\ members[n2][m2] \in Rows
    BY DEF RoomInv, Typed, TypeOK
  <2>2. Circulates(m1, members[n1][m1]) /\ Circulates(m2, members[n2][m2])
    BY DEF Circulates
  <2> QED BY <2>1, <2>2 DEF RoomInv, Orderly, Rosters
<1> QED BY <1>1, Invariance, PTL

\* The code that admits is the last one handed out, or a room row read before
\* the rotation was written back, or the save of the new code failed
\* (handleRotateInvitation, handleRemoveMember).
THEOREM CodeStaysCurrent == Spec => []CodeCurrent
<1>1. RoomInv => CodeCurrent
  BY DEF RoomInv
<1> QED BY <1>1, Invariance, PTL

\* Until a version is lost, a removed member stays removed at the creator,
\* whatever joins and approvals overlap the removal or follow it (handleJoin,
\* handleApproveMember).
THEOREM RemovalStaysFinal == Spec => RemovalIsFinal
<1> DEFINE Final == \A m \in Nodes :
                      members[Creator][m].status = "removed" /\ "version" \notin lost'
                        => members'[Creator][m].status = "removed"
<1>1. RoomInv /\ [Next]_vars => [Final]_vars
  <2> SUFFICES ASSUME RoomInv, [Next]_vars PROVE Final
    OBVIOUS
  <2> QED BY NextRoom
<1> QED BY <1>1, Invariance, PTL DEF Spec, RemovalIsFinal
=============================================================================
