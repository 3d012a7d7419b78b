--------------------------- MODULE ChatTreeProofs ---------------------------
(***************************************************************************)
(* The chats keep one transcript and answer in context, for any number of  *)
(* conversations, messages and overlapping handlers.  ChatInv is the       *)
(* inductive invariant: beside the properties it says, for every handler   *)
(* in progress, that what it read of the tree before its generation still  *)
(* stands when it files what it got.                                       *)
(***************************************************************************)
EXTENDS ChatTree, FiniteSetTheorems, SequenceTheorems, WellFoundedInduction, TLAPS

-----------------------------------------------------------------------------
(* Induction, with the claim as a set of cases *)

\* A set of naturals that has every number whose predecessors it has is Nat.
LEMMA NumberInduct ==
  ASSUME NEW P \in SUBSET Nat,
         \A n \in Nat : (\A m \in Nat : m < n => m \in P) => n \in P
  PROVE  P = Nat
<1> DEFINE Bad == Nat \ P
<1> SUFFICES ASSUME Bad # {} PROVE FALSE
  OBVIOUS
<1>1. PICK n \in Bad : \A m \in Bad : ~(<<m, n>> \in OpToRel(<, Nat))
  <2>1. Bad \in SUBSET Nat
    OBVIOUS
  <2> HIDE DEF Bad
  <2> QED BY <2>1, NatLessThanWellFounded, WFMin
<1>2. \A m \in Bad : ~(m < n)
  BY <1>1 DEF OpToRel
<1> QED BY <1>2

USE ChatAssumption

-----------------------------------------------------------------------------
(* The branch above a message *)

Tables == [Ids -> Rows \cup {NoRow}]

\* Every message hangs below an older one.
Descends(table) == \A i \in Ids : table[i] # NoRow => table[i].parent < i

\* The recursion of branchThrough, for a table.
PathStep(table, g, i) ==
  IF i = Root THEN <<>>
  ELSE IF table[i] = NoRow THEN <<>> ELSE Append(g[table[i].parent], i)
IsPath(table, g) == g = [i \in Ids \cup {Root} |-> PathStep(table, g, i)]
PathOf(table) == CHOOSE g : IsPath(table, g)

\* A stored message has its fields; a missing one is none of them.
LEMMA RowFacts ==
  /\ NoRow \notin Rows
  /\ \A r \in Rows : /\ r.conv \in Convs /\ r.role \in {"user", "assistant"}
                     /\ r.parent \in Ids \cup {Root}
BY DEF Rows, NoRow

\* The parent of a message is in reach of the recursion.
LEMMA ParentFacts ==
  ASSUME NEW T \in Tables, Descends(T), NEW i \in Ids, T[i] # NoRow
  PROVE  /\ T[i] \in Rows /\ T[i].parent \in Ids \cup {Root}
         /\ T[i].parent \in Nat /\ T[i].parent < i
<1>1. T[i] \in Rows
  BY DEF Tables
<1>2. T[i].parent \in Ids \cup {Root} /\ T[i].parent < i
  BY <1>1, RowFacts DEF Descends
<1> QED BY <1>1, <1>2 DEF Ids, Root

\* The recursion has a solution, built up from the root.
LEMMA PathExists ==
  ASSUME NEW T \in Tables, Descends(T)
  PROVE  \E g \in [Ids \cup {Root} -> Seq(Ids)] : IsPath(T, g)
<1> DEFINE S == Ids \cup {Root}
           Upto(n) == {i \in S : i <= n}
           Solves(g, n) == \A i \in Upto(n) : g[i] = PathStep(T, g, i)
           P == {n \in Nat : \E g \in [Upto(n) -> Seq(Ids)] : Solves(g, n)}
<1>1. S \subseteq Nat /\ Root \in S /\ Root = 0
  BY DEF Ids, Root
<1>2. ASSUME NEW n \in Nat, \A m \in Nat : m < n => m \in P PROVE n \in P
  <2>1. CASE n = 0
    <3> DEFINE g == [i \in Upto(0) |-> <<>>]
    <3>1. \A i \in Upto(0) : i = Root
      BY <1>1
    <3>2. Solves(g, 0)
      BY <3>1 DEF PathStep
    <3>3. g \in [Upto(0) -> Seq(Ids)]
      BY EmptySeq
    <3>4. \E f \in [Upto(0) -> Seq(Ids)] : Solves(f, 0)
      <4> HIDE DEF g, Upto, Solves
      <4> QED BY <3>2, <3>3
    <3> HIDE DEF g, Upto, Solves
    <3> QED BY <2>1, <3>4
  <2>2. CASE n > 0
    <3>1. PICK g \in [Upto(n - 1) -> Seq(Ids)] : Solves(g, n - 1)
      <4>1. n - 1 \in P
        <5> HIDE DEF P
        <5> QED BY <1>2, <2>2
      <4> QED BY <4>1
    <3> DEFINE h == [i \in Upto(n) |-> PathStep(T, g, i)]
    <3>2. ASSUME NEW i \in Upto(n), i # Root, T[i] # NoRow
          PROVE  T[i].parent \in Upto(n - 1) /\ T[i].parent \in Upto(n) /\ i \in Ids
      <4>1. i \in Ids /\ i \in Nat /\ i <= n
        BY <1>1, <3>2
      <4>2. T[i].parent \in S /\ T[i].parent \in Nat /\ T[i].parent < i
        BY <3>2, <4>1, ParentFacts
      <4> QED BY <4>1, <4>2
    <3>3. \A i \in Upto(n) : PathStep(T, g, i) \in Seq(Ids)
      <4> SUFFICES ASSUME NEW i \in Upto(n) PROVE PathStep(T, g, i) \in Seq(Ids)
        OBVIOUS
      <4>1. CASE i = Root \/ T[i] = NoRow
        BY <4>1, EmptySeq DEF PathStep
      <4>2. CASE i # Root /\ T[i] # NoRow
        <5>1. g[T[i].parent] \in Seq(Ids) /\ i \in Ids
          BY <3>1, <3>2, <4>2
        <5> QED BY <4>2, <5>1, AppendProperties DEF PathStep
      <4> QED BY <4>1, <4>2
    <3>4. h \in [Upto(n) -> Seq(Ids)]
      BY <3>3
    <3>5. \A i \in Upto(n - 1) : i \in Upto(n) /\ h[i] = g[i]
      BY <1>1, <3>1
    <3>6. Solves(h, n)
      <4> SUFFICES ASSUME NEW i \in Upto(n) PROVE h[i] = PathStep(T, h, i)
        OBVIOUS
      <4>1. h[i] = PathStep(T, g, i)
        OBVIOUS
      <4>2. i # Root /\ T[i] # NoRow => h[T[i].parent] = g[T[i].parent]
        BY <3>2, <3>5
      <4> HIDE DEF h, Upto
      <4> QED BY <4>1, <4>2 DEF PathStep
    <3>7. \E f \in [Upto(n) -> Seq(Ids)] : Solves(f, n)
      <4> HIDE DEF h, Upto, Solves
      <4> QED BY <3>4, <3>6
    <3> HIDE DEF h, Upto, Solves
    <3> QED BY <3>7
  <2> HIDE DEF P
  <2> QED BY <1>2, <2>1, <2>2
<1>3. P = Nat
  <2>1. P \in SUBSET Nat
    OBVIOUS
  <2> HIDE DEF P
  <2> QED BY <1>2, <2>1, NumberInduct
<1>4. PICK g \in [Upto(MaxId) -> Seq(Ids)] : Solves(g, MaxId)
  BY <1>3
<1>5. Upto(MaxId) = S
  BY DEF Ids, Root
<1>6. IsPath(T, g)
  BY <1>4, <1>5 DEF IsPath
<1> HIDE DEF Upto, Solves, P
<1> QED BY <1>4, <1>5, <1>6

\* What branchThrough returns for a message, in terms of what it returns for its
\* parent.
LEMMA Branch ==
  ASSUME NEW T \in Tables, Descends(T)
  PROVE  /\ branchThrough(T, Root) = <<>>
         /\ \A i \in Ids :
              branchThrough(T, i) = IF T[i] = NoRow THEN <<>>
                                    ELSE Append(branchThrough(T, T[i].parent), i)
<1> DEFINE f == PathOf(T)
<1>1. IsPath(T, f)
  BY PathExists DEF PathOf
<1>2. \A i \in Ids \cup {Root} : branchThrough(T, i) = f[i]
  BY Zenon DEF branchThrough, PathOf, IsPath, PathStep
<1> HIDE DEF f
<1>3. \A i \in Ids \cup {Root} : f[i] = PathStep(T, f, i)
  BY <1>1, Zenon DEF IsPath
<1>4. Root \notin Ids
  BY DEF Ids, Root
<1>5. branchThrough(T, Root) = <<>>
  BY <1>2, <1>3 DEF PathStep
<1>6. ASSUME NEW i \in Ids
      PROVE  branchThrough(T, i) = IF T[i] = NoRow THEN <<>>
                                   ELSE Append(branchThrough(T, T[i].parent), i)
  <2>1. branchThrough(T, i) = PathStep(T, f, i)
    BY <1>2, <1>3
  <2>2. CASE T[i] = NoRow
    BY <1>4, <2>1, <2>2 DEF PathStep
  <2>3. CASE T[i] # NoRow
    <3>1. branchThrough(T, T[i].parent) = f[T[i].parent]
      BY <1>2, <2>3, ParentFacts
    <3> QED BY <1>4, <2>1, <2>3, <3>1 DEF PathStep
  <2> QED BY <2>2, <2>3
<1> QED BY <1>5, <1>6

\* A branch is a sequence of message ids.
LEMMA BranchType ==
  ASSUME NEW T \in Tables, Descends(T)
  PROVE  \A p \in Ids \cup {Root} : branchThrough(T, p) \in Seq(Ids)
<1> DEFINE P == {n \in Nat : n \in Ids \cup {Root} => branchThrough(T, n) \in Seq(Ids)}
<1>1. ASSUME NEW n \in Nat, \A m \in Nat : m < n => m \in P PROVE n \in P
  <2>1. CASE n = Root \/ n \notin Ids \/ T[n] = NoRow
    BY <2>1, Branch, EmptySeq
  <2>2. CASE n # Root /\ n \in Ids /\ T[n] # NoRow
    <3>1. T[n].parent \in Ids \cup {Root} /\ T[n].parent \in P
      BY <1>1, <2>2, ParentFacts
    <3>2. branchThrough(T, T[n].parent) \in Seq(Ids)
      BY <3>1
    <3>3. branchThrough(T, n) = Append(branchThrough(T, T[n].parent), n)
      BY <2>2, Branch
    <3>4. branchThrough(T, n) \in Seq(Ids)
      BY <2>2, <3>2, <3>3, AppendProperties
    <3> QED BY <3>4
  <2> QED BY <2>1, <2>2
<1>2. P = Nat
  <2>1. P \in SUBSET Nat
    OBVIOUS
  <2> HIDE DEF P
  <2> QED BY <1>1, <2>1, NumberInduct
<1>3. Ids \cup {Root} \subseteq Nat
  BY DEF Ids, Root
<1> QED BY <1>2, <1>3

\* Two tables that agree on a set of messages that has the parents of its
\* members give them the same branches.
LEMMA SameBranch ==
  ASSUME NEW T \in Tables, Descends(T), NEW U \in Tables, Descends(U), NEW D,
         \A p \in D \cap Ids :
           /\ T[p] = NoRow <=> U[p] = NoRow
           /\ T[p] # NoRow => T[p].parent = U[p].parent /\ T[p].parent \in D
  PROVE  \A p \in D \cap (Ids \cup {Root}) : branchThrough(T, p) = branchThrough(U, p)
<1> DEFINE P == {n \in Nat : n \in D \cap (Ids \cup {Root})
                                => branchThrough(T, n) = branchThrough(U, n)}
<1>1. ASSUME NEW n \in Nat, \A m \in Nat : m < n => m \in P PROVE n \in P
  <2>1. CASE n = Root \/ n \notin Ids
    BY <2>1, Branch
  <2>2. CASE n \in Ids /\ n \in D /\ T[n] = NoRow
    BY <2>2, Branch
  <2>3. CASE n \in Ids /\ n \in D /\ T[n] # NoRow
    <3> DEFINE q == T[n].parent
    <3>1. q \in Ids \cup {Root} /\ q \in Nat /\ q < n
      BY <2>3, ParentFacts
    <3>2. q \in D /\ U[n] # NoRow /\ U[n].parent = q
      BY <2>3
    <3>3. branchThrough(T, q) = branchThrough(U, q)
      BY <1>1, <3>1, <3>2
    <3>4. branchThrough(T, n) = Append(branchThrough(T, q), n)
      BY <2>3, Branch
    <3>5. branchThrough(U, n) = Append(branchThrough(U, q), n)
      BY <2>3, <3>2, Branch
    <3>6. branchThrough(T, n) = branchThrough(U, n)
      BY <3>3, <3>4, <3>5
    <3> QED BY <3>6
  <2>4. CASE n \notin D
    BY <2>4
  <2> QED BY <2>1, <2>2, <2>3, <2>4
<1>2. P = Nat
  <2>1. P \in SUBSET Nat
    OBVIOUS
  <2> HIDE DEF P
  <2> QED BY <1>1, <2>1, NumberInduct
<1>3. Ids \cup {Root} \subseteq Nat
  BY DEF Ids, Root
<1> QED BY <1>2, <1>3

\* The messages of one conversation are a table of their own.
LEMMA ListFacts ==
  ASSUME NEW T \in Tables, Descends(T), NEW c
  PROVE  /\ ListMessages(T, c) \in Tables /\ Descends(ListMessages(T, c))
         /\ \A i \in Ids : ListMessages(T, c)[i] = IF T[i] # NoRow /\ T[i].conv = c
                                                   THEN T[i] ELSE NoRow
<1>1. \A i \in Ids : ListMessages(T, c)[i] = IF T[i] # NoRow /\ T[i].conv = c
                                             THEN T[i] ELSE NoRow
  BY DEF ListMessages
<1>2. ListMessages(T, c) \in Tables
  BY DEF ListMessages, Tables
<1>3. Descends(ListMessages(T, c))
  BY <1>1 DEF Descends
<1> QED BY <1>1, <1>2, <1>3

-----------------------------------------------------------------------------
(* The inductive invariant *)

Working == {"ask", "open", "stream", "turn", "reply", "edit", "answer"}

\* The records a handler can be, in the order of its life.
Gens == [pc : Working, conv : Convs, noSave : BOOLEAN, parent : Ids \cup {Root},
         user : Ids \cup {Root}, history : Seq(Ids), content : BOOLEAN]
Forgets == [pc : {"forget"}, conv : Convs]
Handlers == {Idle} \cup Forgets \cup Gens

\* A handler that will file its answer in the table, and one that has yet to
\* file a question of its own before it.
Filing(k) == k.pc \in Working /\ ~k.noSave
Pending(k) ==
  Filing(k) /\ (k.pc \in {"ask", "edit"} \/ (k.pc \in {"open", "stream"} /\ k.user # Root))

\* The handlers that will draw one more id, for their answer.
Drawing == {t \in Tasks : task[t].pc \in Working}

\* A no-save turn never reaches the table, a saved one never the memory.
Phased(k) ==
  /\ k.pc \in {"turn", "reply"} => k.noSave
  /\ k.pc \in {"ask", "edit", "answer"} => ~k.noSave
  /\ k.pc \in Working => (k.noSave \/ k.pc \in {"ask", "edit"} => k.user # Root)

\* Turns kept in memory stay within their bound.
TurnsOK == turns \in [Convs -> Seq(Ids)] /\ \A c \in Convs : Len(turns[c]) <= MaxTurns

Typed ==
  /\ conv \in [Convs -> {"none", "saved", "nosave", "deleted"}]
  /\ row \in Tables
  /\ TurnsOK
  /\ drawn \in 0..MaxId
  /\ seen \in [Ids -> Seq(Ids)]
  /\ task \in [Tasks -> Handlers] /\ \A t \in Tasks : Phased(task[t])
  /\ drawn + Cardinality(Drawing) <= MaxId

\* The place a handler has chosen for what it will file: below an id that has
\* been drawn.
Home(t) ==
  /\ conv[task[t].conv] # "none"
  /\ task[t].parent <= drawn

\* The id of a question that is not filed yet: nothing hangs below it.
Unborn(t) ==
  /\ task[t].user \in 1..drawn
  /\ task[t].parent < task[t].user
  /\ row[task[t].user] = NoRow
  /\ \A m \in Ids : row[m] # NoRow => row[m].parent # task[t].user
  /\ \A s \in Tasks : Filing(task[s]) => task[s].parent # task[t].user
  /\ \A s \in Tasks \ {t} : Pending(task[s]) => task[s].user # task[t].user

\* What the model was given is still what stands above the answer's place.
Context(t) ==
  IF Pending(task[t])
  THEN (task[t].pc # "ask" /\ conv[task[t].conv] = "saved")
         => task[t].history = Append(branchThrough(ListMessages(row, task[t].conv),
                                                   task[t].parent), task[t].user)
  ELSE (task[t].parent # Root /\ row[task[t].parent] # NoRow)
         => /\ row[task[t].parent].role = "user"
            /\ row[task[t].parent].conv = task[t].conv
            /\ task[t].history = branchThrough(ListMessages(row, task[t].conv),
                                               task[t].parent)

TaskOK(t) ==
  /\ Filing(task[t]) => Home(t) /\ Context(t)
  /\ Pending(task[t]) => Unborn(t)

\* A message that is stored has been drawn.
Drawn == \A m \in Ids : row[m] # NoRow => m <= drawn

ChatInv ==
  /\ Typed
  /\ Drawn
  /\ TranscriptSound
  /\ AnsweredInContext
  /\ \A t \in Tasks : TaskOK(t)

\* In a sound table every message hangs below an older one.
LEMMA SoundDescends ==
  ASSUME Typed, TranscriptSound
  PROVE  Descends(row)
<1> SUFFICES ASSUME NEW i \in Ids, row[i] # NoRow PROVE row[i].parent < i
  BY DEF Descends
<1>1. row[i].conv \in Convs
  BY RowFacts DEF Typed, Tables
<1>2. i \in Stored(row[i].conv)
  BY DEF Stored
<1> QED BY <1>1, <1>2 DEF TranscriptSound

\* What the invariant says of one message.
LEMMA StoredFacts ==
  ASSUME Typed, TranscriptSound, NEW m \in Ids, row[m] # NoRow
  PROVE  /\ row[m] \in Rows /\ row[m].conv \in Convs
         /\ m \in Stored(row[m].conv) /\ conv[row[m].conv] = "saved"
         /\ row[m].parent \in Ids \cup {Root} /\ row[m].parent \in Nat
         /\ row[m].parent < m
<1>1. row[m] \in Rows /\ row[m].conv \in Convs
  BY RowFacts DEF Typed, Tables
<1>2. m \in Stored(row[m].conv)
  BY DEF Stored
<1>3. conv[row[m].conv] = "saved"
  BY <1>1, <1>2 DEF TranscriptSound
<1>4. row[m].parent \in Ids \cup {Root} /\ row[m].parent \in Nat /\ row[m].parent < m
  BY SoundDescends, ParentFacts DEF Typed
<1> QED BY <1>1, <1>2, <1>3, <1>4

\* A handler at work is a whole generation record.
LEMMA GenFacts ==
  ASSUME Typed, NEW t \in Tasks, task[t].pc \in Working
  PROVE  /\ task[t] \in Gens /\ task[t].conv \in Convs
         /\ task[t].parent \in Ids \cup {Root} /\ task[t].parent \in Nat
         /\ task[t].user \in Ids \cup {Root} /\ task[t].user \in Nat
         /\ task[t].history \in Seq(Ids)
<1>1. task[t] \in Handlers
  BY DEF Typed
<1>2. task[t] \notin Forgets /\ task[t] # Idle
  BY DEF Forgets, Idle, Working
<1>3. task[t] \in Gens
  BY <1>1, <1>2 DEF Handlers
<1>4. /\ task[t].conv \in Convs /\ task[t].parent \in Ids \cup {Root}
      /\ task[t].user \in Ids \cup {Root} /\ task[t].history \in Seq(Ids)
  BY <1>3 DEF Gens
<1> QED BY <1>3, <1>4 DEF Ids, Root

-----------------------------------------------------------------------------
(* Steps of the table *)

\* A message keeps all but its active mark.
Keeps(j) ==
  /\ row'[j] = NoRow <=> row[j] = NoRow
  /\ row[j] # NoRow => /\ row'[j].conv = row[j].conv
                       /\ row'[j].role = row[j].role
                       /\ row'[j].parent = row[j].parent

\* A step of the table: the message b is stored, the messages of the
\* conversations in gone are deleted, and every other one stays.
Moves(b, gone) ==
  /\ row' \in Tables /\ Descends(row')
  /\ \A j \in Ids \ {b} : IF row[j] # NoRow /\ row[j].conv \in gone
                          THEN row'[j] = NoRow ELSE Keeps(j)
  /\ b \in Ids => /\ row[b] = NoRow
                  /\ \A m \in Ids : row[m] # NoRow => row[m].parent # b

\* Such a step leaves the branch above every place in a conversation that stays
\* as it was.
LEMMA BranchKept ==
  ASSUME Typed, TranscriptSound, NEW b \in Ids \cup {Root}, NEW gone, Moves(b, gone),
         NEW p \in Ids \cup {Root}, p = Root \/ p # b, NEW c, c \notin gone
  PROVE  branchThrough(ListMessages(row', c), p) = branchThrough(ListMessages(row, c), p)
<1> DEFINE D == {i \in Ids \cup {Root} : i = Root \/ i # b}
<1>1. row \in Tables /\ Descends(row) /\ row' \in Tables /\ Descends(row')
  BY SoundDescends DEF Typed, Moves
<1>2. PICK T \in Tables : T = ListMessages(row, c)
  BY <1>1, ListFacts
<1>3. PICK U \in Tables : U = ListMessages(row', c)
  BY <1>1, ListFacts
<1>4. /\ Descends(T)
      /\ \A i \in Ids : T[i] = IF row[i] # NoRow /\ row[i].conv = c THEN row[i] ELSE NoRow
  BY <1>1, <1>2, ListFacts
<1>5. /\ Descends(U)
      /\ \A i \in Ids : U[i] = IF row'[i] # NoRow /\ row'[i].conv = c THEN row'[i] ELSE NoRow
  BY <1>1, <1>3, ListFacts
<1>6. ASSUME NEW i \in D \cap Ids
      PROVE  /\ T[i] = NoRow <=> U[i] = NoRow
             /\ T[i] # NoRow => T[i].parent = U[i].parent /\ T[i].parent \in D
  <2>1. i \in Ids /\ i # b
    BY DEF Ids, Root
  <2>2. CASE row[i] # NoRow /\ row[i].conv = c
    <3>1. Keeps(i)
      BY <2>1, <2>2 DEF Moves
    <3>2. T[i] = row[i] /\ U[i] = row'[i] /\ row'[i] # NoRow /\ row'[i].parent = row[i].parent
      BY <1>4, <1>5, <2>1, <2>2, <3>1 DEF Keeps
    <3>3. row[i].parent \in Ids \cup {Root}
      BY <2>1, <2>2, StoredFacts
    <3>4. row[i].parent = Root \/ row[i].parent # b
      BY <2>1, <2>2 DEF Moves
    <3> QED BY <2>2, <3>2, <3>3, <3>4
  <2>3. CASE ~(row[i] # NoRow /\ row[i].conv = c)
    <3>1. row'[i] = NoRow \/ Keeps(i)
      BY <2>1 DEF Moves
    <3>2. ~(row'[i] # NoRow /\ row'[i].conv = c)
      BY <2>3, <3>1 DEF Keeps
    <3> QED BY <1>4, <1>5, <2>1, <2>3, <3>2
  <2> QED BY <2>2, <2>3
<1>7. p \in D \cap (Ids \cup {Root})
  OBVIOUS
<1>8. \A q \in D \cap (Ids \cup {Root}) : branchThrough(T, q) = branchThrough(U, q)
  <2> HIDE DEF D
  <2> QED BY <1>4, <1>5, <1>6, SameBranch
<1> QED BY <1>2, <1>3, <1>7, <1>8

\* What was answered in context stays so, whatever is added or deleted.
LEMMA AnsweredKept ==
  ASSUME Typed, TranscriptSound, AnsweredInContext,
         NEW b \in Ids \cup {Root}, NEW gone, Moves(b, gone),
         \A m \in Ids : row[m] # NoRow => seen'[m] = seen[m],
         (b \in Ids /\ row'[b].role = "assistant" /\ row'[b].parent # Root
            /\ row'[row'[b].parent] # NoRow)
           => /\ row'[row'[b].parent].role = "user"
              /\ row'[row'[b].parent].conv = row'[b].conv
              /\ seen'[b] = branchThrough(ListMessages(row', row'[b].conv), row'[b].parent)
  PROVE  AnsweredInContext'
<1> SUFFICES ASSUME NEW m \in Ids, row'[m] # NoRow, row'[m].role = "assistant",
                    row'[m].parent # Root, row'[row'[m].parent] # NoRow
             PROVE  /\ row'[row'[m].parent].role = "user"
                    /\ row'[row'[m].parent].conv = row'[m].conv
                    /\ seen'[m] = branchThrough(ListMessages(row', row'[m].conv),
                                                row'[m].parent)
  BY DEF AnsweredInContext
<1>1. CASE m = b
  BY <1>1
<1>2. CASE m # b
  <2>1. row[m] # NoRow /\ row[m].conv \notin gone /\ Keeps(m)
    BY <1>2 DEF Moves, Keeps
  <2>2. PICK q, c : q = row[m].parent /\ c = row[m].conv
    OBVIOUS
  <2>3. row'[m].parent = q /\ row'[m].conv = c /\ row[m].role = "assistant" /\ c \notin gone
    BY <2>1, <2>2 DEF Keeps
  <2>4. q \in Ids /\ q # b
    BY <2>1, <2>2, <2>3, StoredFacts DEF Moves
  <2>5. row[q] # NoRow /\ Keeps(q)
    BY <2>3, <2>4 DEF Moves, Keeps
  <2>6. /\ row[q].role = "user" /\ row[q].conv = c
        /\ seen[m] = branchThrough(ListMessages(row, c), q)
    BY <2>1, <2>2, <2>3, <2>4, <2>5 DEF AnsweredInContext
  <2>7. branchThrough(ListMessages(row', c), q) = branchThrough(ListMessages(row, c), q)
    BY <2>3, <2>4, BranchKept
  <2> QED BY <2>1, <2>3, <2>5, <2>6, <2>7 DEF Keeps
<1> QED BY <1>1, <1>2

\* What SaveMessage makes of the table, message by message.
LEMMA InsertRows ==
  ASSUME Typed, NEW i \in Ids, NEW c \in Convs, NEW p \in Ids \cup {Root},
         NEW role \in {"user", "assistant"}, conv[c] = "saved",
         row' = SaveMessage(i, Message(c, role, p))
  PROVE  /\ row' \in Tables
         /\ row'[i] # NoRow /\ row'[i].conv = c /\ row'[i].role = role
         /\ row'[i].parent = p /\ row'[i].active
         /\ \A j \in Ids \ {i} :
              /\ Keeps(j)
              /\ row[j] # NoRow =>
                   IF row[j].conv = c /\ row[j].parent = p THEN ~row'[j].active
                   ELSE row'[j] = row[j]
<1> DEFINE r == Message(c, role, p)
           dim(j) == j \in Stored(c) /\ row[j].parent = p
           out(j) == [row[j] EXCEPT !.active = FALSE]
<1>1. r \in Rows /\ r.conv = c /\ r.role = role /\ r.parent = p /\ r.active = TRUE
  BY DEF Message, Rows
<1>2. row' = [j \in Ids |-> IF j = i THEN r ELSE IF dim(j) THEN out(j) ELSE row[j]]
  BY <1>1 DEF SaveMessage
<1>3. ASSUME NEW j \in Ids, dim(j)
      PROVE  /\ out(j) \in Rows /\ out(j).conv = row[j].conv /\ out(j).role = row[j].role
             /\ out(j).parent = row[j].parent /\ out(j).active = FALSE
  <2>1. row[j] \in Rows
    BY <1>3 DEF Typed, Tables, Stored
  <2> QED BY <2>1 DEF Rows
<1>4. row'[i] = r /\ \A j \in Ids \ {i} : row'[j] = IF dim(j) THEN out(j) ELSE row[j]
  BY <1>2
<1>5. row' \in Tables
  <2>1. \A j \in Ids : row'[j] \in Rows \cup {NoRow}
    <3> SUFFICES ASSUME NEW j \in Ids PROVE row'[j] \in Rows \cup {NoRow}
      OBVIOUS
    <3>1. row[j] \in Rows \cup {NoRow}
      BY DEF Typed, Tables
    <3>2. CASE j # i /\ dim(j)
      <4>1. row'[j] = out(j) /\ out(j) \in Rows
        BY <1>3, <1>4, <3>2
      <4> QED BY <4>1
    <3>3. CASE j # i /\ ~dim(j)
      <4>1. row'[j] = row[j]
        BY <1>4, <3>3
      <4> QED BY <3>1, <4>1
    <3> QED BY <1>1, <1>4, <3>2, <3>3
  <2>2. row' = [j \in Ids |-> row'[j]]
    BY <1>2
  <2> QED BY <2>1, <2>2 DEF Tables
<1>6. ASSUME NEW j \in Ids \ {i}
      PROVE  /\ Keeps(j)
             /\ row[j] # NoRow =>
                  IF row[j].conv = c /\ row[j].parent = p THEN ~row'[j].active
                  ELSE row'[j] = row[j]
  <2>1. CASE dim(j)
    <3>1. row[j] # NoRow /\ row[j].conv = c /\ row[j].parent = p
      BY <2>1 DEF Stored
    <3>2. row'[j] = out(j) /\ row'[j] # NoRow
      BY <1>3, <1>4, <2>1, RowFacts
    <3> HIDE DEF dim, out, r
    <3> QED BY <1>3, <2>1, <3>1, <3>2 DEF Keeps
  <2>2. CASE ~dim(j)
    <3>1. row'[j] = row[j]
      BY <1>4, <2>2
    <3>2. row[j] # NoRow => ~(row[j].conv = c /\ row[j].parent = p)
      BY <2>2 DEF Stored
    <3> HIDE DEF dim, out, r
    <3> QED BY <3>1, <3>2 DEF Keeps
  <2> QED BY <2>1, <2>2
<1>7. row'[i] # NoRow
  BY <1>1, <1>4, RowFacts
<1> HIDE DEF dim, out, r
<1> QED BY <1>1, <1>4, <1>5, <1>6, <1>7

\* SaveMessage of a message that nothing hangs below yet, below an older id.
LEMMA InsertStep ==
  ASSUME Typed, TranscriptSound, NEW i \in Ids, NEW c \in Convs,
         NEW p \in Ids \cup {Root}, NEW role \in {"user", "assistant"},
         conv[c] = "saved", row[i] = NoRow,
         \A m \in Ids : row[m] # NoRow => row[m].parent # i,
         p < i,
         row' = SaveMessage(i, Message(c, role, p)), conv' = conv
  PROVE  Moves(i, {}) /\ TranscriptSound'
<1>1. /\ row' \in Tables
      /\ row'[i] # NoRow /\ row'[i].conv = c /\ row'[i].parent = p /\ row'[i].active
      /\ \A j \in Ids \ {i} : Keeps(j)
  BY InsertRows
<1>2. ASSUME NEW j \in Ids \ {i}, row[j] # NoRow
      PROVE  IF row[j].conv = c /\ row[j].parent = p THEN ~row'[j].active
             ELSE row'[j] = row[j]
  BY <1>2, InsertRows
<1>3. Descends(row')
  <2> SUFFICES ASSUME NEW j \in Ids, row'[j] # NoRow PROVE row'[j].parent < j
    BY DEF Descends
  <2>1. CASE j # i
    BY <1>1, <2>1, StoredFacts DEF Keeps
  <2> QED BY <1>1, <2>1
<1>4. Moves(i, {})
  BY <1>1, <1>3 DEF Moves
<1>5. ASSUME NEW d \in Convs
      PROVE  \A j \in Ids : j \in Stored(d)' <=> (j \in Stored(d) \/ (j = i /\ d = c))
  BY <1>1 DEF Stored, Keeps
<1>6. ASSUME NEW d \in Convs, NEW m \in Stored(d)'
      PROVE  /\ Cardinality({j \in Stored(d)' : row'[j].parent = row'[m].parent
                                                /\ row'[j].active}) = 1
             /\ row'[m].parent < m
  <2> DEFINE G == {j \in Stored(d)' : row'[j].parent = row'[m].parent /\ row'[j].active}
  <2>1. m \in Ids /\ row'[m] # NoRow /\ row'[m].conv = d
    BY DEF Stored
  <2>2. CASE d = c /\ row'[m].parent = p
    <3>1. G = {i}
      <4>1. i \in G
        BY <1>1, <1>5, <2>2
      <4>2. ASSUME NEW j \in G, j # i PROVE FALSE
        <5>1. j \in Ids /\ row[j] # NoRow /\ row[j].conv = c /\ row[j].parent = p
          BY <1>1, <2>2, <4>2 DEF Stored, Keeps
        <5> QED BY <1>2, <4>2, <5>1
      <4> QED BY <4>1, <4>2
    <3>2. Cardinality(G) = 1
      BY <3>1, FS_Singleton
    <3>3. row'[m].parent < m
      BY <1>3, <2>1 DEF Descends
    <3> QED BY <2>2, <3>2, <3>3
  <2>3. CASE ~(d = c /\ row'[m].parent = p)
    <3>1. /\ m # i /\ m \in Stored(d) /\ row[m] # NoRow /\ row[m].conv = d
          /\ row'[m].parent = row[m].parent
      BY <1>1, <1>5, <2>1, <2>3 DEF Stored, Keeps
    <3> DEFINE H == {j \in Stored(d) : row[j].parent = row[m].parent /\ row[j].active}
    <3>2. ASSUME NEW j \in Ids PROVE j \in G <=> j \in H
      <4>1. CASE j = i
        <5>1. j \notin H
          BY <4>1 DEF Stored
        <5>2. j \in Stored(d)' => d = c
          BY <1>1, <4>1 DEF Stored
        <5>3. j \notin G
          BY <1>1, <2>3, <4>1, <5>2
        <5> QED BY <5>1, <5>3
      <4>2. CASE j # i /\ j \in Stored(d) /\ row[j].parent = row[m].parent
        <5>1. row[j] # NoRow /\ row[j].conv = d
          BY <4>2 DEF Stored
        <5>2. row'[j] = row[j]
          BY <1>2, <2>3, <3>1, <4>2, <5>1
        <5> QED BY <1>5, <3>1, <4>2, <5>2
      <4>3. CASE j # i /\ ~(j \in Stored(d) /\ row[j].parent = row[m].parent)
        <5>1. j \in Stored(d) => row'[j].parent = row[j].parent
          BY <1>1, <4>3 DEF Stored, Keeps
        <5> QED BY <1>5, <3>1, <4>3, <5>1
      <4> QED BY <4>1, <4>2, <4>3
    <3>3. G = H
      <4>1. G \subseteq Ids /\ H \subseteq Ids
        BY DEF Stored
      <4> HIDE DEF G, H
      <4> QED BY <3>2, <4>1
    <3>4. Cardinality(H) = 1
      BY <3>1 DEF TranscriptSound
    <3>5. row'[m].parent < m
      BY <1>3, <2>1 DEF Descends
    <3> QED BY <3>1, <3>3, <3>4, <3>5
  <2> QED BY <2>2, <2>3
<1>7. ASSUME NEW d \in Convs, conv'[d] # "saved" PROVE Stored(d)' = {}
  <2>1. Stored(d) = {} /\ d # c
    BY <1>7 DEF TranscriptSound
  <2>2. Stored(d)' \subseteq Ids
    BY DEF Stored
  <2> QED BY <1>5, <2>1, <2>2
<1>8. TranscriptSound'
  BY <1>6, <1>7 DEF TranscriptSound
<1> QED BY <1>4, <1>8

\* What ActivateMessage makes of the table, message by message.
LEMMA ActivateRows ==
  ASSUME Typed, NEW c \in Convs, NEW a \in Stored(c), row' = ActivateMessage(c, a)
  PROVE  /\ row' \in Tables
         /\ \A j \in Ids :
              /\ Keeps(j)
              /\ row[j] # NoRow =>
                   IF row[j].conv = c /\ row[j].parent = row[a].parent
                   THEN row'[j].active <=> j = a ELSE row'[j] = row[j]
<1> DEFINE slot(j) == j \in Stored(c) /\ row[j].parent = row[a].parent
           out(j) == [row[j] EXCEPT !.active = (j = a)]
<1>1. row' = [j \in Ids |-> IF slot(j) THEN out(j) ELSE row[j]]
  BY DEF ActivateMessage
<1>2. ASSUME NEW j \in Ids, slot(j)
      PROVE  /\ out(j) \in Rows /\ out(j).conv = row[j].conv /\ out(j).role = row[j].role
             /\ out(j).parent = row[j].parent /\ out(j).active = (j = a)
  <2>1. row[j] \in Rows
    BY <1>2 DEF Typed, Tables, Stored
  <2> QED BY <2>1 DEF Rows
<1>3. \A j \in Ids : row'[j] = IF slot(j) THEN out(j) ELSE row[j]
  BY <1>1
<1>4. row' \in Tables
  <2>1. ASSUME NEW j \in Ids PROVE row'[j] \in Rows \cup {NoRow}
    <3>1. row[j] \in Rows \cup {NoRow}
      BY DEF Typed, Tables
    <3>2. CASE slot(j)
      <4>1. row'[j] = out(j) /\ out(j) \in Rows
        BY <1>2, <1>3, <3>2
      <4> QED BY <4>1
    <3>3. CASE ~slot(j)
      <4>1. row'[j] = row[j]
        BY <1>3, <3>3
      <4> QED BY <3>1, <4>1
    <3> QED BY <3>2, <3>3
  <2>2. row' = [j \in Ids |-> row'[j]]
    BY <1>1
  <2> QED BY <2>1, <2>2 DEF Tables
<1>5. ASSUME NEW j \in Ids
      PROVE  /\ Keeps(j)
             /\ row[j] # NoRow =>
                  IF row[j].conv = c /\ row[j].parent = row[a].parent
                  THEN row'[j].active <=> j = a ELSE row'[j] = row[j]
  <2>1. CASE slot(j)
    <3>1. row[j] # NoRow /\ row[j].conv = c /\ row[j].parent = row[a].parent
      BY <2>1 DEF Stored
    <3>2. row'[j] = out(j) /\ row'[j] # NoRow
      BY <1>2, <1>3, <2>1, RowFacts
    <3>3. row'[j].active <=> j = a
      BY <1>2, <2>1, <3>2
    <3> HIDE DEF slot, out
    <3> QED BY <1>2, <2>1, <3>1, <3>2, <3>3 DEF Keeps
  <2>2. CASE ~slot(j)
    <3>1. row'[j] = row[j]
      BY <1>3, <2>2
    <3>2. row[j] # NoRow => ~(row[j].conv = c /\ row[j].parent = row[a].parent)
      BY <2>2 DEF Stored
    <3> HIDE DEF slot, out
    <3> QED BY <3>1, <3>2 DEF Keeps
  <2> QED BY <2>1, <2>2
<1> QED BY <1>4, <1>5

\* ActivateMessage moves the active mark among siblings and nothing else.
LEMMA ActivateStep ==
  ASSUME Typed, TranscriptSound, NEW c \in Convs, NEW a \in Stored(c),
         row' = ActivateMessage(c, a), conv' = conv
  PROVE  Moves(Root, {}) /\ TranscriptSound'
<1>1. row' \in Tables /\ \A j \in Ids : Keeps(j)
  BY ActivateRows
<1>2. ASSUME NEW j \in Ids, row[j] # NoRow
      PROVE  IF row[j].conv = c /\ row[j].parent = row[a].parent
             THEN row'[j].active <=> j = a ELSE row'[j] = row[j]
  BY <1>2, ActivateRows
<1>3. Descends(row')
  BY <1>1, StoredFacts DEF Descends, Keeps
<1>4. Moves(Root, {})
  BY <1>1, <1>3 DEF Moves, Ids, Root
<1>5. ASSUME NEW d \in Convs PROVE Stored(d)' = Stored(d)
  BY <1>1 DEF Stored, Keeps
<1>6. ASSUME NEW d \in Convs, NEW m \in Stored(d)
      PROVE  /\ Cardinality({j \in Stored(d)' : row'[j].parent = row'[m].parent
                                                /\ row'[j].active}) = 1
             /\ row'[m].parent < m
  <2> DEFINE G == {j \in Stored(d)' : row'[j].parent = row'[m].parent /\ row'[j].active}
             H == {j \in Stored(d) : row[j].parent = row[m].parent /\ row[j].active}
  <2>1. m \in Ids /\ row[m] # NoRow /\ row[m].conv = d /\ row'[m].parent = row[m].parent
    BY <1>1 DEF Stored, Keeps
  <2>2. \A j \in Stored(d) : /\ j \in Ids /\ row[j] # NoRow /\ row[j].conv = d
                             /\ row'[j].parent = row[j].parent
    BY <1>1 DEF Stored, Keeps
  <2>3. Cardinality(G) = 1
    <3>1. CASE d = c /\ row[m].parent = row[a].parent
      <4>1. a \in Stored(d) /\ row[a].parent = row[m].parent
        BY <3>1
      <4>2. a \in G
        BY <1>2, <1>5, <2>1, <2>2, <3>1, <4>1
      <4>3. ASSUME NEW j \in G PROVE j = a
        BY <1>2, <1>5, <2>1, <2>2, <3>1
      <4>4. G = {a}
        <5> HIDE DEF G
        <5> QED BY <4>2, <4>3
      <4> QED BY <4>4, FS_Singleton
    <3>2. CASE ~(d = c /\ row[m].parent = row[a].parent)
      <4>1. ASSUME NEW j \in Stored(d) PROVE j \in G <=> j \in H
        <5>1. CASE row[j].parent = row[m].parent
          <6>1. row'[j] = row[j]
            BY <1>2, <2>2, <3>2, <5>1
          <6> QED BY <1>5, <2>1, <6>1
        <5>2. CASE row[j].parent # row[m].parent
          BY <1>5, <2>1, <2>2, <5>2
        <5> QED BY <5>1, <5>2
      <4>2. G \subseteq Stored(d) /\ H \subseteq Stored(d)
        BY <1>5
      <4>3. G = H
        <5> HIDE DEF G, H
        <5> QED BY <4>1, <4>2
      <4> QED BY <4>3 DEF TranscriptSound
    <3> QED BY <3>1, <3>2
  <2>4. row[m].parent < m
    BY <2>1, StoredFacts
  <2> QED BY <2>1, <2>3, <2>4
<1>7. TranscriptSound'
  BY <1>5, <1>6 DEF TranscriptSound
<1> QED BY <1>4, <1>7

\* The deletion of a conversation takes its messages and no other.
LEMMA DeleteStep ==
  ASSUME Typed, TranscriptSound, NEW c \in Convs,
         row' = [i \in Ids |-> IF i \in Stored(c) THEN NoRow ELSE row[i]],
         conv' = [conv EXCEPT ![c] = "deleted"]
  PROVE  Moves(Root, {c}) /\ TranscriptSound'
<1>1. \A j \in Ids : row'[j] = IF j \in Stored(c) THEN NoRow ELSE row[j]
  OBVIOUS
<1>2. row' \in Tables
  BY DEF Typed, Tables
<1>3. Descends(row')
  BY <1>1, StoredFacts DEF Descends
<1>4. Moves(Root, {c})
  <2>1. ASSUME NEW j \in Ids
        PROVE  IF row[j] # NoRow /\ row[j].conv \in {c} THEN row'[j] = NoRow ELSE Keeps(j)
    BY <1>1 DEF Stored, Keeps
  <2> QED BY <1>2, <1>3, <2>1 DEF Moves, Ids, Root
<1>5. Stored(c)' = {}
  BY <1>1 DEF Stored
<1>6. ASSUME NEW d \in Convs, d # c
      PROVE  Stored(d)' = Stored(d) /\ \A j \in Stored(d) : j \in Ids /\ row'[j] = row[j]
  BY <1>1, <1>6 DEF Stored
<1>7. ASSUME NEW d \in Convs, d # c, NEW m \in Stored(d)
      PROVE  /\ Cardinality({j \in Stored(d)' : row'[j].parent = row'[m].parent
                                                /\ row'[j].active}) = 1
             /\ row'[m].parent < m
  <2> DEFINE G == {j \in Stored(d)' : row'[j].parent = row'[m].parent /\ row'[j].active}
             H == {j \in Stored(d) : row[j].parent = row[m].parent /\ row[j].active}
  <2>1. Stored(d)' = Stored(d) /\ \A j \in Stored(d) : j \in Ids /\ row'[j] = row[j]
    BY <1>6, <1>7
  <2>2. G = H
    BY <2>1
  <2>3. Cardinality(H) = 1 /\ row[m].parent < m
    BY DEF TranscriptSound
  <2>4. row'[m] = row[m]
    BY <2>1
  <2> HIDE DEF G, H
  <2>5. Cardinality(G) = 1
    BY <2>2, <2>3
  <2> QED BY <2>3, <2>4, <2>5 DEF G
<1>8. ASSUME NEW d \in Convs, d # c PROVE conv'[d] = conv[d]
  BY <1>8 DEF Typed
<1>9. TranscriptSound'
  BY <1>5, <1>6, <1>7, <1>8 DEF TranscriptSound
<1> QED BY <1>4, <1>9

-----------------------------------------------------------------------------
(* Handlers that do not move *)

\* A conversation is created once, and one that is deleted stays deleted.
ConvStep(gone) ==
  \A c \in Convs : /\ conv[c] # "none" => conv'[c] # "none"
                   /\ conv'[c] = "saved" => conv[c] \in {"none", "saved"}
                   /\ c \in gone => conv'[c] # "saved"

\* What a step of the handlers in M leaves to the others: their places, and the
\* ids of the questions they have not filed yet.
Clear(M, b) ==
  \A s \in Tasks \ M :
    /\ task'[s] = task[s]
    /\ Filing(task[s]) => b = Root \/ task[s].parent # b
    /\ Pending(task[s]) =>
         /\ task[s].user # b
         /\ b \in Ids /\ row'[b] # NoRow => row'[b].parent # task[s].user
         /\ \A r \in M : /\ Filing(task[r])' => task'[r].parent # task[s].user
                         /\ Pending(task[r])' => task'[r].user # task[s].user

\* Under such a step a handler keeps its place, its question and its context.
LEMMA OthersKept ==
  ASSUME ChatInv, NEW M \in SUBSET Tasks, NEW b \in Ids \cup {Root}, NEW gone,
         ConvStep(gone), Moves(b, gone), Clear(M, b), drawn' \in Nat, drawn <= drawn',
         NEW s \in Tasks \ M
  PROVE  TaskOK(s)'
<1>1. Typed /\ TranscriptSound /\ TaskOK(s) /\ s \in Tasks /\ drawn \in Nat
  BY DEF ChatInv, Typed
<1> DEFINE k == task[s]
           c == k.conv
           p == k.parent
           u == k.user
<1>2. task'[s] = k
  BY DEF Clear
<1>3. ASSUME Filing(k) PROVE Home(s)' /\ Context(s)'
  <2>1. Home(s) /\ Context(s) /\ k.pc \in Working
    BY <1>1, <1>3 DEF TaskOK, Filing
  <2>2. c \in Convs /\ p \in Ids \cup {Root} /\ p \in Nat
    BY <1>1, <2>1, GenFacts
  <2>3. conv[c] # "none" /\ p <= drawn
    BY <2>1 DEF Home
  <2>4. p = Root \/ p # b
    BY <1>3 DEF Clear
  <2>5. Home(s)'
    <3>1. conv'[c] # "none"
      BY <2>2, <2>3 DEF ConvStep
    <3>2. p <= drawn'
      BY <1>1, <2>2, <2>3
    <3> QED BY <1>2, <3>1, <3>2 DEF Home
  <2>6. CASE Pending(k)
    <3>1. ASSUME k.pc # "ask", conv'[c] = "saved"
          PROVE  k.history = Append(branchThrough(ListMessages(row', c), p), u)
      <4>1. conv[c] = "saved" /\ c \notin gone
        BY <2>2, <2>3, <3>1 DEF ConvStep
      <4>2. k.history = Append(branchThrough(ListMessages(row, c), p), u)
        BY <2>1, <2>6, <3>1, <4>1 DEF Context
      <4>3. branchThrough(ListMessages(row', c), p) = branchThrough(ListMessages(row, c), p)
        BY <1>1, <2>2, <2>4, <4>1, BranchKept
      <4> QED BY <4>2, <4>3
    <3>2. Pending(task'[s])
      BY <1>2, <2>6
    <3>3. Context(s)'
      BY <1>2, <3>1, <3>2 DEF Context
    <3> QED BY <2>5, <3>3
  <2>7. CASE ~Pending(k)
    <3>1. ASSUME p # Root, row'[p] # NoRow
          PROVE  /\ row'[p].role = "user" /\ row'[p].conv = c
                 /\ k.history = branchThrough(ListMessages(row', c), p)
      <4>1. p \in Ids \ {b}
        BY <2>2, <2>4, <3>1
      <4>2. row[p] # NoRow /\ row[p].conv \notin gone /\ Keeps(p)
        BY <3>1, <4>1 DEF Moves, Keeps
      <4>3. /\ row[p].role = "user" /\ row[p].conv = c
            /\ k.history = branchThrough(ListMessages(row, c), p)
        BY <2>1, <2>7, <3>1, <4>2 DEF Context
      <4>4. branchThrough(ListMessages(row', c), p) = branchThrough(ListMessages(row, c), p)
        BY <1>1, <2>2, <2>4, <4>2, <4>3, BranchKept
      <4> QED BY <4>2, <4>3, <4>4 DEF Keeps
    <3>2. ~Pending(task'[s])
      BY <1>2, <2>7
    <3>3. Context(s)'
      BY <1>2, <3>1, <3>2 DEF Context
    <3> QED BY <2>5, <3>3
  <2> QED BY <2>6, <2>7
<1>4. ASSUME Pending(k) PROVE Unborn(s)'
  <2>1. Unborn(s) /\ k.pc \in Working
    BY <1>1, <1>4 DEF TaskOK, Pending, Filing
  <2>2. u \in 1..drawn /\ p < u /\ row[u] = NoRow /\ u \in Ids /\ u # b
    <3>1. u \in Ids \cup {Root}
      BY <1>1, <2>1, GenFacts
    <3> QED BY <1>4, <2>1, <3>1 DEF Unborn, Clear, Root
  <2>3. u \in 1..drawn'
    BY <1>1, <2>2
  <2>4. row'[u] = NoRow
    BY <2>2 DEF Moves, Keeps
  <2>5. ASSUME NEW m \in Ids, row'[m] # NoRow PROVE row'[m].parent # u
    <3>1. CASE m = b
      BY <1>4, <2>5, <3>1 DEF Clear
    <3>2. CASE m # b
      <4>1. row[m] # NoRow /\ row'[m].parent = row[m].parent
        BY <2>5, <3>2 DEF Moves, Keeps
      <4> QED BY <2>1, <4>1 DEF Unborn
    <3> QED BY <3>1, <3>2
  <2>6. ASSUME NEW r \in Tasks, Filing(task'[r]) PROVE task'[r].parent # u
    <3>1. CASE r \in M
      BY <1>4, <2>6, <3>1 DEF Clear, Filing
    <3>2. CASE r \notin M
      <4>1. task'[r] = task[r]
        BY <3>2 DEF Clear
      <4> QED BY <2>1, <2>6, <4>1 DEF Unborn
    <3> QED BY <3>1, <3>2
  <2>7. ASSUME NEW r \in Tasks \ {s}, Pending(task'[r]) PROVE task'[r].user # u
    <3>1. CASE r \in M
      BY <1>4, <2>7, <3>1 DEF Clear, Pending, Filing
    <3>2. CASE r \notin M
      <4>1. task'[r] = task[r]
        BY <3>2 DEF Clear
      <4> QED BY <2>1, <2>7, <4>1 DEF Unborn
    <3> QED BY <3>1, <3>2
  <2> QED BY <1>2, <2>2, <2>3, <2>4, <2>5, <2>6, <2>7 DEF Unborn
<1> HIDE DEF k
<1>5. Filing(task'[s]) => Filing(k)
  BY <1>2
<1>6. Pending(task'[s]) => Pending(k)
  BY <1>2
<1> QED BY <1>3, <1>4, <1>5, <1>6 DEF TaskOK

-----------------------------------------------------------------------------
(* The handler that moves *)

\* One handler becomes k; what that does to the number of ids still to draw.
LEMMA TaskSet ==
  ASSUME Typed, NEW t \in Tasks, NEW k \in Handlers, Phased(k),
         task' = [task EXCEPT ![t] = k]
  PROVE  /\ task'[t] = k /\ \A s \in Tasks \ {t} : task'[s] = task[s]
         /\ task' \in [Tasks -> Handlers] /\ \A s \in Tasks : Phased(task'[s])
         /\ Cardinality(Drawing) \in Nat /\ Cardinality(Drawing') \in Nat
         /\ Cardinality(Drawing) <= Cardinality(Busy) /\ Cardinality(Busy) \in Nat
         /\ Cardinality(Drawing') <= Cardinality(Drawing) + 1
         /\ (k.pc \in Working => task[t].pc \in Working)
              => Cardinality(Drawing') <= Cardinality(Drawing)
         /\ (k.pc \notin Working /\ task[t].pc \in Working)
              => Cardinality(Drawing') = Cardinality(Drawing) - 1
<1>1. task'[t] = k /\ \A s \in Tasks \ {t} : task'[s] = task[s]
  BY DEF Typed
<1>2. task' \in [Tasks -> Handlers]
  BY DEF Typed
<1>3. \A s \in Tasks : Phased(task'[s])
  <2> SUFFICES ASSUME NEW s \in Tasks PROVE Phased(task'[s])
    OBVIOUS
  <2>1. Phased(task[s])
    BY DEF Typed
  <2>2. task'[s] = k \/ task'[s] = task[s]
    BY <1>1
  <2> QED BY <2>1, <2>2
<1>4. IsFiniteSet(Drawing) /\ IsFiniteSet(Busy) /\ Drawing \subseteq Busy
  <2>1. Drawing \subseteq Tasks /\ Busy \subseteq Tasks /\ Drawing \subseteq Busy
    BY DEF Drawing, Busy, Working
  <2> QED BY <2>1, FS_Subset
<1>5. /\ Cardinality(Drawing) \in Nat /\ Cardinality(Busy) \in Nat
      /\ Cardinality(Drawing) <= Cardinality(Busy)
  BY <1>4, FS_CardinalityType, FS_Subset
<1>6. CASE k.pc \in Working
  <2>1. Drawing' = Drawing \cup {t}
    BY <1>1, <1>6 DEF Drawing
  <2>2. task[t].pc \in Working <=> t \in Drawing
    BY DEF Drawing
  <2>3. Cardinality(Drawing') = IF t \in Drawing THEN Cardinality(Drawing)
                                                 ELSE Cardinality(Drawing) + 1
    BY <1>4, <2>1, FS_AddElement
  <2> QED BY <1>1, <1>2, <1>3, <1>5, <1>6, <2>2, <2>3
<1>7. CASE k.pc \notin Working
  <2>1. Drawing' = Drawing \ {t}
    BY <1>1, <1>7 DEF Drawing
  <2>2. task[t].pc \in Working <=> t \in Drawing
    BY DEF Drawing
  <2>3. Cardinality(Drawing') = IF t \in Drawing THEN Cardinality(Drawing) - 1
                                                 ELSE Cardinality(Drawing)
    BY <1>4, <2>1, FS_RemoveElement
  <2>4. t \in Drawing => Cardinality(Drawing) > 0
    BY <1>4, FS_EmptySet, <1>5
  <2> QED BY <1>1, <1>2, <1>3, <1>5, <1>7, <2>2, <2>3, <2>4
<1> QED BY <1>6, <1>7

\* The next id is new to the table and to every handler.
LEMMA Fresh ==
  ASSUME ChatInv, drawn + 1 <= MaxId
  PROVE  /\ drawn \in Nat /\ drawn + 1 \in Ids /\ row[drawn + 1] = NoRow
         /\ \A m \in Ids : row[m] # NoRow => row[m].parent # drawn + 1
         /\ \A s \in Tasks : /\ Filing(task[s]) => task[s].parent # drawn + 1
                             /\ Pending(task[s]) => task[s].user # drawn + 1
<1>1. Typed /\ TranscriptSound /\ Drawn /\ drawn \in Nat
  BY DEF ChatInv, Typed
<1>2. drawn + 1 \in Ids
  BY <1>1 DEF Ids
<1>3. row[drawn + 1] = NoRow
  BY <1>1, <1>2 DEF Drawn
<1>4. ASSUME NEW m \in Ids, row[m] # NoRow PROVE row[m].parent # drawn + 1
  <2>1. m <= drawn /\ m \in Nat
    BY <1>1, <1>4 DEF Drawn, Ids
  <2>2. row[m].parent \in Nat /\ row[m].parent < m
    BY <1>1, <1>4, StoredFacts
  <2> QED BY <1>1, <2>1, <2>2
<1>5. ASSUME NEW s \in Tasks, Filing(task[s]) PROVE task[s].parent # drawn + 1
  <2>1. task[s].parent <= drawn /\ task[s].pc \in Working
    BY <1>5 DEF ChatInv, TaskOK, Home, Filing
  <2>2. task[s].parent \in Nat
    BY <1>1, <2>1, GenFacts
  <2> QED BY <1>1, <2>1, <2>2
<1>6. ASSUME NEW s \in Tasks, Pending(task[s]) PROVE task[s].user # drawn + 1
  <2>1. task[s].user \in 1..drawn
    BY <1>6 DEF ChatInv, TaskOK, Unborn
  <2> QED BY <1>1, <2>1
<1> QED BY <1>1, <1>2, <1>3, <1>4, <1>5, <1>6

\* A table that stays is a step of the table in which nothing moves.
LEMMA TableStays ==
  ASSUME Typed, TranscriptSound, row' = row
  PROVE  Moves(Root, {})
BY SoundDescends DEF Typed, Moves, Keeps, Ids, Root

\* A step of the other variables leaves the transcripts as they are.
LEMMA SoundStays ==
  ASSUME TranscriptSound, row' = row, conv' = conv
  PROVE  TranscriptSound'
BY DEF TranscriptSound, Stored

\* A handler that is not at work has nothing to file.
LEMMA RestOK ==
  ASSUME NEW t, task'[t].pc \notin Working
  PROVE  TaskOK(t)' /\ ~Filing(task[t])' /\ ~Pending(task[t])'
BY DEF TaskOK, Filing, Pending

\* Both kinds of handler at rest.
LEMMA RestFacts ==
  /\ Idle \in Handlers /\ Idle.pc \notin Working /\ Phased(Idle)
  /\ \A c \in Convs : /\ [pc |-> "forget", conv |-> c] \in Handlers
                      /\ [pc |-> "forget", conv |-> c].pc \notin Working
                      /\ Phased([pc |-> "forget", conv |-> c])
BY DEF Handlers, Forgets, Idle, Working, Phased

\* The types after a step of one handler, in parts.
LEMMA TypedMove ==
  ASSUME Typed, NEW t \in Tasks, NEW k \in Handlers, Phased(k),
         task' = [task EXCEPT ![t] = k],
         conv' \in [Convs -> {"none", "saved", "nosave", "deleted"}],
         row' \in Tables, TurnsOK', seen' \in [Ids -> Seq(Ids)],
         drawn' \in Nat, drawn' + Cardinality(Drawing') <= MaxId
  PROVE  Typed'
<1>1. /\ task' \in [Tasks -> Handlers] /\ \A s \in Tasks : Phased(task'[s])
      /\ Cardinality(Drawing') \in Nat
  BY TaskSet
<1>2. drawn' \in 0..MaxId
  BY <1>1
<1> QED BY <1>1, <1>2 DEF Typed

\* A handler returns and files nothing more.
LEMMA EndStep ==
  ASSUME ChatInv, NEW t \in Tasks, task' = [task EXCEPT ![t] = Idle], TurnsOK',
         UNCHANGED <<conv, row, drawn, seen>>
  PROVE  ChatInv'
<1>1. Typed /\ TranscriptSound /\ AnsweredInContext /\ Drawn /\ drawn \in Nat
  BY DEF ChatInv, Typed
<1>2. /\ task'[t] = Idle /\ \A s \in Tasks \ {t} : task'[s] = task[s]
      /\ Cardinality(Drawing') <= Cardinality(Drawing)
      /\ Cardinality(Drawing) \in Nat /\ Cardinality(Drawing') \in Nat
  BY <1>1, RestFacts, TaskSet
<1>3. Typed'
  <2>1. drawn' + Cardinality(Drawing') <= MaxId
    BY <1>1, <1>2 DEF Typed
  <2> QED BY <1>1, <2>1, RestFacts, TypedMove DEF Typed
<1>4. Moves(Root, {}) /\ TranscriptSound'
  BY <1>1, TableStays, SoundStays
<1>5. AnsweredInContext'
  BY <1>1 DEF AnsweredInContext
<1>6. TaskOK(t)' /\ ~Filing(task[t])' /\ ~Pending(task[t])'
  BY <1>2, RestFacts, RestOK
<1>7. Clear({t}, Root)
  <2> SUFFICES ASSUME NEW s \in Tasks \ {t}, Pending(task[s]) PROVE task[s].user # Root
    BY <1>2, <1>6 DEF Clear, Ids, Root
  <2> QED BY DEF ChatInv, TaskOK, Unborn, Root
<1>8. \A s \in Tasks \ {t} : TaskOK(s)'
  <2>1. ConvStep({})
    BY <1>1 DEF ConvStep, Typed
  <2> QED BY <1>1, <1>4, <1>7, <2>1, OthersKept
<1>9. Drawn'
  BY <1>1 DEF Drawn
<1> QED BY <1>3, <1>4, <1>5, <1>6, <1>8, <1>9 DEF ChatInv

\* A handler goes on with the same record.
LEMMA AdvanceStep ==
  ASSUME ChatInv, NEW t \in Tasks, NEW k \in Gens, task' = [task EXCEPT ![t] = k],
         task[t].pc \in Working \ {"ask"}, k.pc \in Working \ {"ask"}, Phased(k),
         k.conv = task[t].conv, k.parent = task[t].parent, k.user = task[t].user,
         k.history = task[t].history,
         Filing(k) <=> Filing(task[t]), Pending(k) <=> Pending(task[t]),
         TurnsOK', UNCHANGED <<conv, row, drawn, seen>>
  PROVE  ChatInv'
<1>1. Typed /\ TranscriptSound /\ AnsweredInContext /\ Drawn /\ drawn \in Nat
  BY DEF ChatInv, Typed
<1>2. k \in Handlers
  BY DEF Handlers
<1>3. /\ task'[t] = k /\ \A s \in Tasks \ {t} : task'[s] = task[s]
      /\ Cardinality(Drawing') <= Cardinality(Drawing)
      /\ Cardinality(Drawing) \in Nat /\ Cardinality(Drawing') \in Nat
  BY <1>1, <1>2, TaskSet
<1>4. Typed'
  <2>1. drawn' + Cardinality(Drawing') <= MaxId
    BY <1>1, <1>3 DEF Typed
  <2> QED BY <1>1, <1>2, <2>1, TypedMove DEF Typed
<1>5. Moves(Root, {}) /\ TranscriptSound'
  BY <1>1, TableStays, SoundStays
<1>6. AnsweredInContext'
  BY <1>1 DEF AnsweredInContext
<1>7. \A s \in Tasks : /\ Filing(task'[s]) <=> Filing(task[s])
                       /\ Pending(task'[s]) <=> Pending(task[s])
                       /\ Filing(task[s]) => task'[s].parent = task[s].parent
                       /\ Pending(task[s]) => task'[s].user = task[s].user
  <2> SUFFICES ASSUME NEW s \in Tasks
               PROVE  /\ Filing(task'[s]) <=> Filing(task[s])
                      /\ Pending(task'[s]) <=> Pending(task[s])
                      /\ task'[s].parent = task[s].parent
                      /\ task'[s].user = task[s].user
    OBVIOUS
  <2>1. CASE s = t
    BY <1>3, <2>1
  <2>2. CASE s # t
    <3>1. task'[s] = task[s]
      BY <1>3, <2>2
    <3> QED BY <3>1
  <2> QED BY <2>1, <2>2
<1>8. TaskOK(t)'
  <2>1. TaskOK(t)
    BY DEF ChatInv
  <2>2. Filing(task'[t]) => Home(t)' /\ Context(t)'
    <3>1. Filing(task'[t]) => Home(t) /\ Context(t)
      BY <1>7, <2>1 DEF TaskOK
    <3>2. Home(t) => Home(t)'
      BY <1>3 DEF Home, Stored
    <3>3. Context(t) => Context(t)'
      <4>1. Pending(task'[t]) <=> Pending(task[t])
        BY <1>7
      <4>2. task[t].pc # "ask" /\ task'[t].pc # "ask"
        BY <1>3 DEF Working
      <4> QED BY <1>3, <4>1, <4>2 DEF Context
    <3> QED BY <3>1, <3>2, <3>3
  <2>3. Pending(task'[t]) => Unborn(t)'
    <3>1. Pending(task'[t]) => Unborn(t)
      BY <1>7, <2>1 DEF TaskOK
    <3>2. Unborn(t) => Unborn(t)'
      BY <1>3, <1>7 DEF Unborn
    <3> QED BY <3>1, <3>2
  <2> QED BY <2>2, <2>3 DEF TaskOK
<1>9. Clear({t}, Root)
  <2>1. ASSUME NEW s \in Tasks \ {t}, Pending(task[s])
        PROVE  /\ task[s].user # Root
               /\ Filing(task'[t]) => task'[t].parent # task[s].user
               /\ Pending(task'[t]) => task'[t].user # task[s].user
    <3>1. Unborn(s)
      BY <2>1 DEF ChatInv, TaskOK
    <3> QED BY <1>7, <3>1 DEF Unborn, Root
  <2>2. Root \notin Ids
    BY DEF Root, Ids
  <2>3. Filing(task'[t]) <=> Filing(task[t])'
    BY DEF Filing
  <2>4. Pending(task'[t]) <=> Pending(task[t])'
    BY DEF Pending, Filing
  <2> QED BY <1>3, <2>1, <2>2, <2>3, <2>4 DEF Clear
<1>10. \A s \in Tasks \ {t} : TaskOK(s)'
  <2>1. ConvStep({})
    BY <1>1 DEF ConvStep, Typed
  <2> QED BY <1>1, <1>5, <1>9, <2>1, OthersKept
<1>11. Drawn'
  BY <1>1 DEF Drawn
<1> QED BY <1>4, <1>5, <1>6, <1>8, <1>10, <1>11 DEF ChatInv

-----------------------------------------------------------------------------
(* The steps, one lemma each *)

\* appendNoSaveTurn keeps a transcript within its bound.
LEMMA AppendTurn ==
  ASSUME TurnsOK, NEW c \in Convs, NEW m \in Ids,
         turns' = [turns EXCEPT ![c] = appendNoSaveTurn(c, m)]
  PROVE  TurnsOK'
<1> DEFINE q == turns[c]
<1>1. q \in Seq(Ids) /\ Len(q) \in Nat /\ Len(q) <= MaxTurns
  BY LenProperties DEF TurnsOK
<1>2. appendNoSaveTurn(c, m) \in Seq(Ids) /\ Len(appendNoSaveTurn(c, m)) <= MaxTurns
  <2>1. CASE Len(q) < MaxTurns
    <3>1. appendNoSaveTurn(c, m) = Append(q, m)
      BY <2>1 DEF appendNoSaveTurn
    <3>2. Append(q, m) \in Seq(Ids) /\ Len(Append(q, m)) = Len(q) + 1
      BY <1>1, AppendProperties
    <3> QED BY <1>1, <2>1, <3>1, <3>2
  <2>2. CASE ~(Len(q) < MaxTurns)
    <3>1. appendNoSaveTurn(c, m) = Append(Tail(q), m)
      BY <2>2 DEF appendNoSaveTurn
    <3>2. Len(q) = MaxTurns /\ q # <<>>
      BY <1>1, <2>2, EmptySeq
    <3>3. Tail(q) \in Seq(Ids) /\ Len(Tail(q)) = Len(q) - 1
      BY <1>1, <3>2, HeadTailProperties
    <3>4. /\ Append(Tail(q), m) \in Seq(Ids)
          /\ Len(Append(Tail(q), m)) = Len(Tail(q)) + 1
      BY <3>3, AppendProperties
    <3> QED BY <1>1, <3>1, <3>2, <3>3, <3>4
  <2> QED BY <2>1, <2>2
<1> HIDE DEF q
<1> QED BY <1>2 DEF TurnsOK

\* The fields of a handler at work and the bounds its phase sets.
LEMMA GenRecord ==
  ASSUME Typed, NEW t \in Tasks, task[t].pc \in Working, NEW pc \in Working
  PROVE  \E k \in Gens :
           /\ [task EXCEPT ![t].pc = pc] = [task EXCEPT ![t] = k]
           /\ k.pc = pc /\ k.conv = task[t].conv /\ k.noSave = task[t].noSave
           /\ k.parent = task[t].parent /\ k.user = task[t].user
           /\ k.history = task[t].history /\ k.content = task[t].content
<1> DEFINE k == [task[t] EXCEPT !.pc = pc]
<1>1. task[t] \in Gens
  BY GenFacts
<1>2. /\ k \in Gens
      /\ k.pc = pc /\ k.conv = task[t].conv /\ k.noSave = task[t].noSave
      /\ k.parent = task[t].parent /\ k.user = task[t].user
      /\ k.history = task[t].history /\ k.content = task[t].content
  BY <1>1 DEF Gens
<1>3. [task EXCEPT ![t].pc = pc] = [task EXCEPT ![t] = k]
  OBVIOUS
<1> QED BY <1>2, <1>3

\* From the answered request to its end, the record says what is filed next.
LEMMA PhaseStep ==
  ASSUME Typed, NEW t \in Tasks, NEW k \in Gens,
         k.noSave = task[t].noSave, k.user = task[t].user,
         \/ task[t].pc = "open" /\ k.pc = "stream"
         \/ task[t].pc = "stream" /\ k.pc = "stream"
         \/ task[t].pc = "stream" /\ k.noSave /\ k.pc = "turn"
         \/ task[t].pc = "stream" /\ ~k.noSave /\ k.user # Root /\ k.pc = "edit"
         \/ task[t].pc = "stream" /\ ~k.noSave /\ k.user = Root /\ k.pc = "answer"
         \/ task[t].pc = "turn" /\ k.pc = "reply"
  PROVE  /\ Phased(k) /\ (Filing(k) <=> Filing(task[t]))
         /\ Pending(k) <=> Pending(task[t])
         /\ task[t].pc \in Working \ {"ask"} /\ k.pc \in Working \ {"ask"}
<1>1. Phased(task[t])
  BY DEF Typed
<1>2. task[t].pc \in Working \ {"ask"} /\ k.pc \in Working \ {"ask"}
  BY DEF Working
<1>3. Filing(k) <=> Filing(task[t])
  BY <1>2 DEF Filing
<1>4. Phased(k)
  BY <1>1, <1>2 DEF Phased
<1>5. Pending(k) <=> Pending(task[t])
  <2>1. CASE Filing(k)
    <3>1. ~k.noSave /\ ~task[t].noSave
      BY <1>3, <2>1 DEF Filing
    <3> QED BY <1>1, <1>3, <2>1, <3>1 DEF Pending, Phased
  <2> QED BY <1>3, <2>1 DEF Pending
<1> QED BY <1>2, <1>3, <1>4, <1>5

\* Refused
LEMMA RefusedStep ==
  ASSUME ChatInv, NEW t \in Tasks, Refused(t)
  PROVE  ChatInv'
<1>1. TurnsOK'
  BY DEF ChatInv, Typed, TurnsOK, Refused
<1> QED BY <1>1, EndStep DEF Refused, Done

\* forgetNoSaveTurns
LEMMA ForgetStep ==
  ASSUME ChatInv, NEW t \in Tasks, forgetNoSaveTurns(t)
  PROVE  ChatInv'
<1>1. TurnsOK'
  <2>1. TurnsOK /\ turns' = [turns EXCEPT ![task[t].conv] = <<>>]
    BY DEF ChatInv, Typed, forgetNoSaveTurns
  <2>2. <<>> \in Seq(Ids) /\ Len(<<>>) = 0 /\ 0 <= MaxTurns
    BY EmptySeq
  <2>3. \A c \in Convs : turns'[c] = turns[c] \/ turns'[c] = <<>>
    BY <2>1 DEF TurnsOK
  <2>4. turns' \in [Convs -> Seq(Ids)]
    BY <2>1, <2>2 DEF TurnsOK
  <2> QED BY <2>1, <2>2, <2>3, <2>4 DEF TurnsOK
<1> QED BY <1>1, EndStep DEF forgetNoSaveTurns

\* OpenStream
LEMMA OpenStep ==
  ASSUME ChatInv, NEW t \in Tasks, OpenStream(t)
  PROVE  ChatInv'
<1>1. Typed /\ TurnsOK' /\ task[t].pc = "open" /\ task[t].pc \in Working
  BY DEF ChatInv, Typed, TurnsOK, OpenStream, At, Working
<1>2. PICK k \in Gens :
        /\ task' = [task EXCEPT ![t] = k]
        /\ k.pc = "stream" /\ k.conv = task[t].conv /\ k.noSave = task[t].noSave
        /\ k.parent = task[t].parent /\ k.user = task[t].user
        /\ k.history = task[t].history
  <2>1. task' = [task EXCEPT ![t].pc = "stream"]
    BY DEF OpenStream
  <2>2. PICK pc \in Working : pc = "stream"
    BY DEF Working
  <2>3. PICK k \in Gens :
          /\ [task EXCEPT ![t].pc = pc] = [task EXCEPT ![t] = k]
          /\ k.pc = pc /\ k.conv = task[t].conv /\ k.noSave = task[t].noSave
          /\ k.parent = task[t].parent /\ k.user = task[t].user
          /\ k.history = task[t].history /\ k.content = task[t].content
    BY <1>1, GenRecord, Zenon
  <2>4. task' = [task EXCEPT ![t] = k]
    BY <2>1, <2>2, <2>3, Zenon
  <2> QED BY <2>2, <2>3, <2>4
<1>3. /\ Phased(k) /\ (Filing(k) <=> Filing(task[t])) /\ (Pending(k) <=> Pending(task[t]))
      /\ task[t].pc \in Working \ {"ask"} /\ k.pc \in Working \ {"ask"}
  BY <1>1, <1>2, PhaseStep
<1> QED BY <1>1, <1>2, <1>3, AdvanceStep DEF OpenStream

\* Emit
LEMMA EmitStep ==
  ASSUME ChatInv, NEW t \in Tasks, Emit(t)
  PROVE  ChatInv'
<1>1. Typed /\ TurnsOK' /\ task[t].pc = "stream" /\ task[t].pc \in Working
  BY DEF ChatInv, Typed, TurnsOK, Emit, At, Working
<1> DEFINE k == [task[t] EXCEPT !.content = TRUE]
<1>2. task[t] \in Gens
  BY <1>1, GenFacts
<1>3. /\ k \in Gens
      /\ k.pc = task[t].pc /\ k.conv = task[t].conv /\ k.noSave = task[t].noSave
      /\ k.parent = task[t].parent /\ k.user = task[t].user
      /\ k.history = task[t].history
  BY <1>2 DEF Gens
<1>4. task' = [task EXCEPT ![t] = k]
  BY DEF Emit
<1> HIDE DEF k
<1>5. /\ Phased(k) /\ (Filing(k) <=> Filing(task[t])) /\ (Pending(k) <=> Pending(task[t]))
      /\ task[t].pc \in Working \ {"ask"} /\ k.pc \in Working \ {"ask"}
  BY <1>1, <1>3, PhaseStep
<1> QED BY <1>1, <1>3, <1>4, <1>5, AdvanceStep DEF Emit

\* StreamEnd
LEMMA StreamEndStep ==
  ASSUME ChatInv, NEW t \in Tasks, StreamEnd(t)
  PROVE  ChatInv'
<1>1. Typed /\ TurnsOK' /\ task[t].pc = "stream" /\ task[t].pc \in Working
  BY DEF ChatInv, Typed, TurnsOK, StreamEnd, At, Working
<1>2. CASE ~(task[t].noSave \/ task[t].content)
  BY <1>1, <1>2, EndStep DEF StreamEnd, Done
<1>3. CASE task[t].noSave \/ task[t].content
  <2> DEFINE next == IF task[t].noSave THEN "turn"
                     ELSE IF task[t].user # Root THEN "edit" ELSE "answer"
  <2>1. task' = [task EXCEPT ![t].pc = next] /\ next \in Working
    BY <1>3 DEF StreamEnd, Working
  <2>2. PICK k \in Gens :
          /\ task' = [task EXCEPT ![t] = k]
          /\ k.pc = next /\ k.conv = task[t].conv /\ k.noSave = task[t].noSave
          /\ k.parent = task[t].parent /\ k.user = task[t].user
          /\ k.history = task[t].history
    <3> HIDE DEF next
    <3>1. PICK pc \in Working : pc = next
      BY <2>1
    <3>2. PICK k \in Gens :
            /\ [task EXCEPT ![t].pc = pc] = [task EXCEPT ![t] = k]
            /\ k.pc = pc /\ k.conv = task[t].conv /\ k.noSave = task[t].noSave
            /\ k.parent = task[t].parent /\ k.user = task[t].user
            /\ k.history = task[t].history /\ k.content = task[t].content
      BY <1>1, GenRecord, Zenon
    <3>3. task' = [task EXCEPT ![t] = k]
      BY <2>1, <3>1, <3>2, Zenon
    <3> QED BY <3>1, <3>2, <3>3
  <2>3. /\ Phased(k) /\ (Filing(k) <=> Filing(task[t])) /\ (Pending(k) <=> Pending(task[t]))
        /\ task[t].pc \in Working \ {"ask"} /\ k.pc \in Working \ {"ask"}
    BY <1>1, <2>2, PhaseStep
  <2> HIDE DEF next
  <2> QED BY <1>1, <2>2, <2>3, AdvanceStep DEF StreamEnd
<1> QED BY <1>2, <1>3

\* AppendQuestion
LEMMA AppendQuestionStep ==
  ASSUME ChatInv, NEW t \in Tasks, AppendQuestion(t)
  PROVE  ChatInv'
<1>1. Typed /\ task[t].pc = "turn" /\ task[t].pc \in Working
  BY DEF ChatInv, AppendQuestion, At, Working
<1>2. TurnsOK'
  <2>1. task[t].user # Root
    BY <1>1 DEF Typed, Phased
  <2>2. task[t].user \in Ids /\ task[t].conv \in Convs /\ TurnsOK
    BY <1>1, <2>1, GenFacts DEF Typed
  <2> QED BY <2>2, AppendTurn DEF AppendQuestion
<1>3. CASE ~task[t].content
  BY <1>2, <1>3, EndStep DEF AppendQuestion, Done
<1>4. CASE task[t].content
  <2>1. task' = [task EXCEPT ![t].pc = "reply"]
    BY <1>4 DEF AppendQuestion
  <2>2. PICK k \in Gens :
          /\ task' = [task EXCEPT ![t] = k]
          /\ k.pc = "reply" /\ k.conv = task[t].conv /\ k.noSave = task[t].noSave
          /\ k.parent = task[t].parent /\ k.user = task[t].user
          /\ k.history = task[t].history
    <3>1. PICK pc \in Working : pc = "reply"
      BY DEF Working
    <3>2. PICK k \in Gens :
            /\ [task EXCEPT ![t].pc = pc] = [task EXCEPT ![t] = k]
            /\ k.pc = pc /\ k.conv = task[t].conv /\ k.noSave = task[t].noSave
            /\ k.parent = task[t].parent /\ k.user = task[t].user
            /\ k.history = task[t].history /\ k.content = task[t].content
      BY <1>1, GenRecord, Zenon
    <3>3. task' = [task EXCEPT ![t] = k]
      BY <2>1, <3>1, <3>2, Zenon
    <3> QED BY <3>1, <3>2, <3>3
  <2>3. /\ Phased(k) /\ (Filing(k) <=> Filing(task[t])) /\ (Pending(k) <=> Pending(task[t]))
        /\ task[t].pc \in Working \ {"ask"} /\ k.pc \in Working \ {"ask"}
    BY <1>1, <2>2, PhaseStep
  <2> QED BY <1>1, <1>2, <2>2, <2>3, AdvanceStep DEF AppendQuestion
<1> QED BY <1>3, <1>4

\* CreateChat
LEMMA CreateStep ==
  ASSUME ChatInv, NEW c \in Convs, NEW mode \in {"saved", "nosave"}, CreateChat(c, mode)
  PROVE  ChatInv'
<1>1. /\ Typed /\ TranscriptSound /\ AnsweredInContext /\ Drawn /\ drawn \in Nat
      /\ conv[c] = "none" /\ conv' = [conv EXCEPT ![c] = mode]
      /\ row' = row /\ turns' = turns /\ drawn' = drawn /\ task' = task /\ seen' = seen
  BY DEF ChatInv, Typed, CreateChat
<1>2. Typed'
  <2>1. TurnsOK' /\ Drawing' = Drawing
    BY <1>1 DEF Typed, TurnsOK, Drawing
  <2>2. conv' \in [Convs -> {"none", "saved", "nosave", "deleted"}]
    BY <1>1 DEF Typed
  <2> QED BY <1>1, <2>1, <2>2 DEF Typed
<1>3. Moves(Root, {})
  BY <1>1, TableStays
<1>4. TranscriptSound'
  <2> DEFINE Shape(d) ==
        \A m \in Stored(d) :
          /\ Cardinality({j \in Stored(d) : row[j].parent = row[m].parent
                                            /\ row[j].active}) = 1
          /\ row[m].parent < m
  <2>1. ASSUME NEW d \in Convs PROVE Shape(d)'
    <3>1. Shape(d)
      BY <1>1 DEF TranscriptSound
    <3>2. Stored(d)' = Stored(d) /\ row' = row
      BY <1>1 DEF Stored
    <3> QED BY ONLY <3>1, <3>2
  <2>2. ASSUME NEW d \in Convs, conv'[d] # "saved" PROVE Stored(d)' = {}
    <3>1. conv[d] # "saved"
      BY <1>1, <2>2 DEF Typed
    <3>2. Stored(d) = {}
      BY <1>1, <3>1 DEF TranscriptSound
    <3> QED BY <1>1, <3>2 DEF Stored
  <2> QED BY <2>1, <2>2 DEF TranscriptSound
<1>5. AnsweredInContext' /\ Drawn'
  BY <1>1 DEF AnsweredInContext, Drawn
<1>6. ConvStep({})
  BY <1>1 DEF ConvStep, Typed
<1>7. Clear({}, Root)
  <2> SUFFICES ASSUME NEW s \in Tasks, Pending(task[s]) PROVE task[s].user # Root
    BY <1>1 DEF Clear, Ids, Root
  <2> QED BY DEF ChatInv, TaskOK, Unborn, Root
<1>8. \A s \in Tasks \ {} : TaskOK(s)'
  BY <1>1, <1>3, <1>6, <1>7, OthersKept
<1> QED BY <1>2, <1>4, <1>5, <1>8 DEF ChatInv

\* SelectVariant
LEMMA SelectStep ==
  ASSUME ChatInv, NEW c \in Convs, NEW a \in Ids, SelectVariant(c, a)
  PROVE  ChatInv'
<1>1. /\ Typed /\ TranscriptSound /\ AnsweredInContext /\ Drawn /\ drawn \in Nat
      /\ a \in Stored(c) /\ row' = ActivateMessage(c, a) /\ conv' = conv
      /\ turns' = turns /\ drawn' = drawn /\ task' = task /\ seen' = seen
  BY DEF ChatInv, Typed, SelectVariant
<1>2. Moves(Root, {}) /\ TranscriptSound'
  BY <1>1, ActivateStep
<1>3. Typed'
  <2>1. TurnsOK' /\ Drawing' = Drawing
    BY <1>1 DEF Typed, TurnsOK, Drawing
  <2>2. row' \in Tables
    BY <1>2 DEF Moves
  <2> QED BY <1>1, <2>1, <2>2 DEF Typed
<1>4. Root \notin Ids /\ Root \in Ids \cup {Root}
  BY DEF Root, Ids
<1>5. AnsweredInContext'
  BY <1>1, <1>2, <1>4, AnsweredKept
<1>6. Drawn'
  <2> SUFFICES ASSUME NEW m \in Ids, row'[m] # NoRow PROVE m <= drawn
    BY <1>1 DEF Drawn
  <2>1. row[m] # NoRow
    BY <1>2, <1>4 DEF Moves, Keeps
  <2> QED BY <1>1, <2>1 DEF Drawn
<1>7. ConvStep({})
  BY <1>1 DEF ConvStep, Typed
<1>8. Clear({}, Root)
  <2> SUFFICES ASSUME NEW s \in Tasks, Pending(task[s]) PROVE task[s].user # Root
    BY <1>1, <1>4 DEF Clear
  <2> QED BY DEF ChatInv, TaskOK, Unborn, Root
<1>9. \A s \in Tasks \ {} : TaskOK(s)'
  BY <1>1, <1>2, <1>7, <1>8, OthersKept
<1> QED BY <1>2, <1>3, <1>5, <1>6, <1>9 DEF ChatInv

\* handleDeleteChat
LEMMA DeleteChatStep ==
  ASSUME ChatInv, NEW t \in Tasks, NEW c \in Convs, DeleteChat(t, c)
  PROVE  ChatInv'
<1> DEFINE k == [pc |-> "forget", conv |-> c]
<1>1. /\ Typed /\ TranscriptSound /\ AnsweredInContext /\ Drawn /\ drawn \in Nat
      /\ row' = [i \in Ids |-> IF i \in Stored(c) THEN NoRow ELSE row[i]]
      /\ conv' = [conv EXCEPT ![c] = "deleted"] /\ task' = [task EXCEPT ![t] = k]
      /\ turns' = turns /\ drawn' = drawn /\ seen' = seen
  BY DEF ChatInv, Typed, DeleteChat
<1>2. k \in Handlers /\ k.pc \notin Working /\ Phased(k)
  BY RestFacts
<1> HIDE DEF k
<1>3. Moves(Root, {c}) /\ TranscriptSound'
  BY <1>1, DeleteStep
<1>4. /\ task'[t] = k /\ \A s \in Tasks \ {t} : task'[s] = task[s]
      /\ Cardinality(Drawing') <= Cardinality(Drawing)
      /\ Cardinality(Drawing) \in Nat /\ Cardinality(Drawing') \in Nat
  BY <1>1, <1>2, TaskSet
<1>5. Typed'
  <2>1. drawn' + Cardinality(Drawing') <= MaxId
    BY <1>1, <1>4 DEF Typed
  <2>2. TurnsOK'
    BY <1>1 DEF Typed, TurnsOK
  <2>3. row' \in Tables
    BY <1>3 DEF Moves
  <2>4. conv' \in [Convs -> {"none", "saved", "nosave", "deleted"}]
    BY <1>1 DEF Typed
  <2>5. seen' \in [Ids -> Seq(Ids)]
    BY <1>1 DEF Typed
  <2> QED BY <1>1, <1>2, <2>1, <2>2, <2>3, <2>4, <2>5, TypedMove
<1>6. Root \notin Ids /\ Root \in Ids \cup {Root}
  BY DEF Root, Ids
<1>7. AnsweredInContext'
  BY <1>1, <1>3, <1>6, AnsweredKept
<1>8. Drawn'
  BY <1>1 DEF Drawn
<1>9. TaskOK(t)' /\ ~Filing(task[t])' /\ ~Pending(task[t])'
  BY <1>2, <1>4, RestOK
<1>10. ConvStep({c})
  BY <1>1 DEF ConvStep, Typed
<1>11. Clear({t}, Root)
  <2> SUFFICES ASSUME NEW s \in Tasks \ {t}, Pending(task[s]) PROVE task[s].user # Root
    BY <1>4, <1>6, <1>9 DEF Clear
  <2> QED BY DEF ChatInv, TaskOK, Unborn, Root
<1>12. \A s \in Tasks \ {t} : TaskOK(s)'
  BY <1>1, <1>3, <1>6, <1>10, <1>11, OthersKept
<1> QED BY <1>3, <1>5, <1>7, <1>8, <1>9, <1>12 DEF ChatInv

\* Crash
LEMMA CrashStep ==
  ASSUME ChatInv, Crash
  PROVE  ChatInv'
<1>1. /\ Typed /\ TranscriptSound /\ AnsweredInContext /\ Drawn
      /\ task' = [t \in Tasks |-> Idle] /\ turns' = [c \in Convs |-> <<>>]
      /\ conv' = conv /\ row' = row /\ drawn' = drawn /\ seen' = seen
  BY DEF ChatInv, Crash
<1>2. Typed'
  <2>1. Drawing' = {}
    BY <1>1, RestFacts DEF Drawing
  <2>2. TurnsOK'
    <3>1. <<>> \in Seq(Ids) /\ Len(<<>>) = 0 /\ 0 <= MaxTurns
      BY EmptySeq
    <3> QED BY <1>1, <3>1 DEF TurnsOK
  <2>3. task' \in [Tasks -> Handlers] /\ \A t \in Tasks : Phased(task'[t])
    BY <1>1, RestFacts
  <2>4. drawn' + Cardinality(Drawing') <= MaxId
    BY <1>1, <2>1, FS_EmptySet DEF Typed
  <2> QED BY <1>1, <2>2, <2>3, <2>4 DEF Typed
<1>3. TranscriptSound' /\ AnsweredInContext' /\ Drawn'
  BY <1>1, SoundStays DEF AnsweredInContext, Drawn
<1>4. \A t \in Tasks : TaskOK(t)'
  BY <1>1, RestFacts, RestOK
<1> QED BY <1>2, <1>3, <1>4 DEF ChatInv

\* A set of message ids that is not empty has a largest member.
LEMMA LargestIn ==
  ASSUME NEW S \in SUBSET Ids, S # {}
  PROVE  Max(S) \in S
<1> DEFINE Top == \E x \in S : \A y \in S : x >= y
           P == {n \in Nat : (\E x \in S : MaxId - x = n) => Top}
<1>1. S \subseteq Nat /\ \A x \in S : MaxId - x \in Nat
  BY DEF Ids
<1>2. ASSUME NEW n \in Nat, \A m \in Nat : m < n => m \in P PROVE n \in P
  <2> SUFFICES ASSUME NEW x \in S, MaxId - x = n PROVE Top
    OBVIOUS
  <2>1. CASE \A y \in S : x >= y
    BY <2>1
  <2>2. CASE \E y \in S : ~(x >= y)
    <3>1. PICK y \in S : ~(x >= y)
      BY <2>2
    <3>2. x \in Nat /\ y \in Nat /\ MaxId - y \in Nat /\ MaxId - y < n
      BY <1>1, <3>1
    <3>3. MaxId - y \in P
      BY <1>2, <3>2
    <3> QED BY <3>3
  <2> QED BY <2>1, <2>2
<1>3. P = Nat
  <2>1. P \in SUBSET Nat
    OBVIOUS
  <2> HIDE DEF P
  <2> QED BY <1>2, <2>1, NumberInduct
<1>4. Top
  <2>1. PICK x \in S : TRUE
    OBVIOUS
  <2>2. MaxId - x \in P
    BY <1>1, <1>3
  <2> QED BY <2>2
<1> QED BY <1>4 DEF Max

\* The tip of the branch shown is a message of the conversation, or the root.
LEMMA TipFacts ==
  ASSUME NEW c
  PROVE  Tip(c) \in Stored(c) \cup {Root}
<1>1. activeBranch(c) \subseteq Stored(c) /\ Stored(c) \subseteq Ids
  BY DEF activeBranch, Stored
<1>2. CASE activeBranch(c) # {}
  <2>1. Max(activeBranch(c)) \in activeBranch(c)
    BY <1>1, <1>2, LargestIn
  <2> QED BY <1>1, <1>2, <2>1 DEF Tip
<1> QED BY <1>2 DEF Tip

\* A handler starts: it has a place in the tree and the context above it, and
\* its question, if it has one, a new id.
LEMMA StartStep ==
  ASSUME ChatInv, NEW t \in Tasks, task[t].pc = "idle", NEW k \in Gens, Phased(k),
         task' = [task EXCEPT ![t] = k], UNCHANGED <<conv, row, turns, seen>>,
         drawn' \in {drawn, drawn + 1}, drawn' + Cardinality(Busy) + 1 <= MaxId,
         Filing(k) => /\ conv[k.conv] # "none" /\ k.parent <= drawn
                      /\ \A s \in Tasks : Pending(task[s]) => k.parent # task[s].user,
         Pending(k) => /\ k.user = drawn + 1 /\ drawn' = drawn + 1
                       /\ k.pc # "ask" =>
                            k.history = Append(branchThrough(ListMessages(row, k.conv),
                                                             k.parent), k.user),
         (Filing(k) /\ ~Pending(k) /\ k.parent # Root /\ row[k.parent] # NoRow)
           => /\ row[k.parent].role = "user" /\ row[k.parent].conv = k.conv
              /\ k.history = branchThrough(ListMessages(row, k.conv), k.parent)
  PROVE  ChatInv'
<1>1. Typed /\ TranscriptSound /\ AnsweredInContext /\ Drawn /\ drawn \in Nat
  BY DEF ChatInv, Typed
<1>2. k \in Handlers
  BY DEF Handlers
<1>3. /\ task'[t] = k /\ \A s \in Tasks \ {t} : task'[s] = task[s]
      /\ Cardinality(Drawing') <= Cardinality(Drawing) + 1
      /\ Cardinality(Drawing) <= Cardinality(Busy) /\ Cardinality(Busy) \in Nat
      /\ Cardinality(Drawing) \in Nat /\ Cardinality(Drawing') \in Nat
  BY <1>1, <1>2, TaskSet
<1>4. drawn' \in Nat /\ drawn <= drawn' /\ drawn' <= MaxId
  BY <1>1, <1>3
<1>5. Typed'
  <2>1. drawn' + Cardinality(Drawing') <= MaxId
    BY <1>3, <1>4
  <2>2. TurnsOK'
    BY <1>1 DEF Typed, TurnsOK
  <2> QED BY <1>1, <1>2, <1>4, <2>1, <2>2, TypedMove DEF Typed
<1>6. Moves(Root, {}) /\ TranscriptSound'
  BY <1>1, TableStays, SoundStays
<1>7. AnsweredInContext' /\ Drawn'
  BY <1>1, <1>4 DEF AnsweredInContext, Drawn, Ids
<1>8. ~Filing(task[t]) /\ ~Pending(task[t])
  BY DEF Filing, Pending, Working
<1>9. /\ k.parent \in Nat /\ k.parent \in Ids \cup {Root}
      /\ Filing(task'[t]) <=> Filing(k)
      /\ Pending(task'[t]) <=> Pending(k)
  BY <1>3 DEF Gens, Ids, Root
<1>10. ASSUME Pending(k)
       PROVE  /\ Filing(k) /\ drawn + 1 \in Ids /\ row[drawn + 1] = NoRow
              /\ \A m \in Ids : row[m] # NoRow => row[m].parent # drawn + 1
              /\ \A s \in Tasks : /\ Filing(task[s]) => task[s].parent # drawn + 1
                                  /\ Pending(task[s]) => task[s].user # drawn + 1
  <2>1. drawn + 1 <= MaxId
    BY <1>4, <1>10
  <2>2. Filing(k)
    BY <1>10 DEF Pending
  <2> QED BY <2>1, <2>2, Fresh
<1>11. TaskOK(t)'
  <2>1. Filing(k) => Home(t)'
    BY <1>1, <1>3, <1>4, <1>9 DEF Home, Stored
  <2>2. Filing(k) => Context(t)'
    BY <1>3, <1>9 DEF Context
  <2>3. ASSUME Pending(k) PROVE Unborn(t)'
    <3>1. k.user \in 1..drawn' /\ k.parent < k.user
      BY <1>1, <1>9, <1>10, <2>3
    <3>2. row'[k.user] = NoRow /\ \A m \in Ids : row'[m] # NoRow => row'[m].parent # k.user
      BY <1>10, <2>3
    <3>3. ASSUME NEW s \in Tasks, Filing(task'[s]) PROVE task'[s].parent # k.user
      <4>1. CASE s = t
        BY <1>1, <1>3, <1>9, <1>10, <2>3, <4>1
      <4>2. CASE s # t
        <5>1. task'[s] = task[s]
          BY <1>3, <4>2
        <5> QED BY <1>10, <2>3, <3>3, <5>1
      <4> QED BY <4>1, <4>2
    <3>4. ASSUME NEW s \in Tasks \ {t}, Pending(task'[s]) PROVE task'[s].user # k.user
      <4>1. task'[s] = task[s]
        BY <1>3
      <4> QED BY <1>10, <2>3, <3>4, <4>1
    <3> QED BY <1>3, <3>1, <3>2, <3>3, <3>4 DEF Unborn
  <2> QED BY <1>9, <2>1, <2>2, <2>3 DEF TaskOK
<1>12. Clear({t}, Root)
  <2>1. ASSUME NEW s \in Tasks \ {t}, Pending(task[s])
        PROVE  /\ task[s].user # Root
               /\ Filing(task'[t]) => task'[t].parent # task[s].user
               /\ Pending(task'[t]) => task'[t].user # task[s].user
    <3>1. task[s].user # Root
      BY <2>1 DEF ChatInv, TaskOK, Unborn, Root
    <3> QED BY <1>3, <1>9, <1>10, <2>1, <3>1
  <2>2. Root \notin Ids
    BY DEF Root, Ids
  <2>3. Filing(task'[t]) <=> Filing(task[t])'
    BY DEF Filing
  <2>4. Pending(task'[t]) <=> Pending(task[t])'
    BY DEF Pending, Filing
  <2> QED BY <1>3, <2>1, <2>2, <2>3, <2>4 DEF Clear
<1>13. \A s \in Tasks \ {t} : TaskOK(s)'
  <2>1. ConvStep({})
    BY <1>1 DEF ConvStep, Typed
  <2> QED BY <1>1, <1>4, <1>6, <1>12, <2>1, OthersKept
<1> QED BY <1>5, <1>6, <1>7, <1>11, <1>13 DEF ChatInv

\* A stored message, or the parent of one, is no place another handler's
\* question has been given.
LEMMA PlaceFree ==
  ASSUME ChatInv, NEW c \in Convs, NEW m \in Stored(c)
  PROVE  /\ m \in Ids /\ row[m] # NoRow /\ row[m].conv = c /\ conv[c] = "saved"
         /\ m <= drawn /\ row[m].parent <= drawn
         /\ row[m].parent \in Ids \cup {Root}
         /\ \A s \in Tasks : Pending(task[s]) => /\ m # task[s].user
                                                 /\ row[m].parent # task[s].user
                                                 /\ Root # task[s].user
<1>1. Typed /\ TranscriptSound /\ Drawn /\ drawn \in Nat
  BY DEF ChatInv, Typed
<1>2. m \in Ids /\ row[m] # NoRow /\ row[m].conv = c
  BY DEF Stored
<1>3. /\ conv[c] = "saved" /\ row[m].parent \in Ids \cup {Root}
      /\ row[m].parent \in Nat /\ row[m].parent < m
  BY <1>1, <1>2, StoredFacts
<1>4. m <= drawn /\ row[m].parent <= drawn
  BY <1>1, <1>2, <1>3 DEF Drawn, Ids
<1>5. ASSUME NEW s \in Tasks, Pending(task[s])
      PROVE  /\ m # task[s].user /\ row[m].parent # task[s].user
             /\ Root # task[s].user
  BY <1>2, <1>5 DEF ChatInv, TaskOK, Unborn, Root
<1> QED BY <1>2, <1>3, <1>4, <1>5

\* An id a client can name is no question a handler has yet to file.
LEMMA NamedFree ==
  ASSUME ChatInv, NEW m \in 1..drawn \ Unfiled
  PROVE  /\ m \in Ids /\ m <= drawn
         /\ \A s \in Tasks : Pending(task[s]) => m # task[s].user
<1>1. m \in Ids /\ m <= drawn
  BY DEF ChatInv, Typed, Ids
<1>2. ASSUME NEW s \in Tasks, Pending(task[s]) PROVE m # task[s].user
  <2>1. task[s].pc \in {"ask", "edit", "open", "stream"}
    BY <1>2 DEF Pending
  <2>2. task[s].user \in Unfiled
    BY <2>1 DEF Unfiled
  <2> QED BY <2>2
<1> QED BY <1>1, <1>2

\* handleSendMessage
LEMMA SendStep ==
  ASSUME ChatInv, NEW t \in Tasks, NEW c \in Convs, NEW m \in Ids \cup {Root},
         SendMessage(t, c, m)
  PROVE  ChatInv'
<1>1. /\ Typed /\ TranscriptSound /\ drawn \in Nat /\ task[t].pc = "idle"
      /\ drawn' = drawn + 1 /\ drawn + Cardinality(Busy) + 2 <= MaxId
      /\ UNCHANGED <<conv, row, turns, seen>>
  BY DEF ChatInv, Typed, SendMessage, MayDraw
<1>2. Cardinality(Busy) \in Nat
  <2>1. Busy \subseteq Tasks
    BY DEF Busy
  <2> QED BY <2>1, FS_Subset, FS_CardinalityType
<1>3. drawn' \in Ids /\ drawn' # Root /\ drawn' + Cardinality(Busy) + 1 <= MaxId
  BY <1>1, <1>2 DEF Ids, Root
<1>4. Root \in Ids \cup {Root}
  OBVIOUS
<1>5. CASE conv[c] = "nosave" /\ Start(t, "open", c, Root, drawn', Append(turns[c], drawn'))
  <2>1. Append(turns[c], drawn') \in Seq(Ids)
    BY <1>1, <1>3, AppendProperties DEF Typed, TurnsOK
  <2>2. PICK u \in Ids : u = drawn'
    BY <1>3
  <2>3. PICK h \in Seq(Ids) : h = Append(turns[c], drawn')
    BY <2>1
  <2>4. PICK k \in Gens :
           /\ task' = [task EXCEPT ![t] = k]
           /\ k.pc = "open" /\ k.conv = c /\ k.parent = Root /\ k.user = u /\ k.history = h
           /\ k.noSave <=> conv[c] = "nosave"
    <3>1. PICK n : n = (conv[c] = "nosave")
      OBVIOUS
    <3>2. PICK k : k = [pc |-> "open", conv |-> c, noSave |-> n, parent |-> Root,
                        user |-> u, history |-> h, content |-> FALSE]
      OBVIOUS
    <3>3. task' = [task EXCEPT ![t] = k]
      BY <1>5, <2>2, <2>3, <3>1, <3>2, Zenon DEF Start
    <3>4. n \in BOOLEAN
      BY <3>1
    <3>5. k \in Gens
      BY <1>4, <3>2, <3>4 DEF Gens, Working
    <3>6. /\ k.pc = "open" /\ k.conv = c /\ k.parent = Root /\ k.user = u
          /\ k.history = h /\ k.noSave = n
      BY <3>2
    <3> QED BY <3>1, <3>3, <3>5, <3>6
  <2>5. ~Filing(k) /\ ~Pending(k)
    BY <1>5, <2>4 DEF Filing, Pending
  <2>6. Phased(k)
    BY <1>3, <1>5, <2>2, <2>4 DEF Phased
  <2> QED BY <1>1, <1>3, <2>4, <2>5, <2>6, StartStep
<1>6. CASE /\ conv[c] = "saved"
           /\ Start(t, "ask", c, IF m = Root THEN Tip(c) ELSE m, drawn', <<>>)
  <2>1. PICK p \in Ids \cup {Root} : p = IF m = Root THEN Tip(c) ELSE m
    BY TipFacts DEF Stored
  <2>2. PICK u \in Ids : u = drawn'
    BY <1>3
  <2>3. PICK k \in Gens :
           /\ task' = [task EXCEPT ![t] = k]
           /\ k.pc = "ask" /\ k.conv = c /\ k.parent = p /\ k.user = u /\ k.history = <<>>
           /\ k.noSave <=> conv[c] = "nosave"
    <3>1. PICK n : n = (conv[c] = "nosave")
      OBVIOUS
    <3>2. PICK k : k = [pc |-> "ask", conv |-> c, noSave |-> n, parent |-> p,
                        user |-> u, history |-> <<>>, content |-> FALSE]
      OBVIOUS
    <3>3. task' = [task EXCEPT ![t] = k]
      BY <1>6, <2>1, <2>2, <3>1, <3>2, Zenon DEF Start
    <3>4. p \in Ids \cup {Root} /\ <<>> \in Seq(Ids)
      BY EmptySeq
    <3>5. n \in BOOLEAN
      BY <3>1
    <3>6. k \in Gens
      BY <3>4, <3>2, <3>5 DEF Gens, Working
    <3>7. /\ k.pc = "ask" /\ k.conv = c /\ k.parent = p /\ k.user = u
          /\ k.history = <<>> /\ k.noSave = n
      BY <3>2
    <3> QED BY <3>1, <3>3, <3>6, <3>7
  <2>4. ~k.noSave /\ Filing(k) /\ Pending(k)
    BY <1>6, <2>3 DEF Filing, Pending, Working
  <2>5. Phased(k)
    BY <1>3, <2>2, <2>3, <2>4 DEF Phased
  <2>6. p <= drawn /\ \A s \in Tasks : Pending(task[s]) => p # task[s].user
    <3>1. CASE p = Root
      BY <1>1, <3>1 DEF ChatInv, TaskOK, Unborn, Root
    <3>2. CASE p \in Stored(c)
      BY <3>2, PlaceFree
    <3>3. CASE p \in 1..drawn \ Unfiled
      BY <3>3, NamedFree
    <3>4. m \in {Root} \cup (1..drawn \ Unfiled)
      BY DEF SendMessage
    <3> QED BY <2>1, <3>1, <3>2, <3>3, <3>4, TipFacts
  <2> QED BY <1>1, <1>3, <1>6, <2>2, <2>3, <2>4, <2>5, <2>6, StartStep
<1> QED BY <1>5, <1>6 DEF SendMessage

\* What stands above an answer is a question of its conversation.
LEMMA ParentOfAnswer ==
  ASSUME ChatInv, NEW m \in Ids, row[m] # NoRow, row[m].role = "assistant",
         row[m].parent # Root, row[row[m].parent] # NoRow
  PROVE  row[row[m].parent].role = "user" /\ row[row[m].parent].conv = row[m].conv
BY DEF ChatInv, AnsweredInContext

\* handleRegenerateMessage
LEMMA RegenerateStep ==
  ASSUME ChatInv, NEW t \in Tasks, NEW c \in Convs, NEW m \in Ids,
         RegenerateMessage(t, c, m)
  PROVE  ChatInv'
<1>1. /\ Typed /\ TranscriptSound /\ drawn \in Nat /\ task[t].pc = "idle"
      /\ drawn' = drawn /\ drawn + Cardinality(Busy) + 1 <= MaxId
      /\ UNCHANGED <<conv, row, turns, seen>>
      /\ m \in Stored(c) /\ row[m].role = "assistant"
  BY DEF ChatInv, Typed, RegenerateMessage, MayDraw
<1>2. PICK p \in Ids \cup {Root} : p = row[m].parent
  BY <1>1, PlaceFree
<1>3. branchThrough(ListMessages(row, c), p) \in Seq(Ids)
  BY <1>1, SoundDescends, ListFacts, BranchType DEF Typed
<1>4. PICK k \in Gens :
        /\ task' = [task EXCEPT ![t] = k]
        /\ k.pc = "open" /\ k.conv = c /\ k.parent = p /\ k.user = Root
        /\ k.history = branchThrough(ListMessages(row, c), p)
        /\ k.noSave <=> conv[c] = "nosave"
  <2>1. PICK h \in Seq(Ids) : h = branchThrough(ListMessages(row, c), p)
    BY <1>3
  <2>2. PICK n : n = (conv[c] = "nosave")
    OBVIOUS
  <2>3. PICK k : k = [pc |-> "open", conv |-> c, noSave |-> n, parent |-> p,
                      user |-> Root, history |-> h, content |-> FALSE]
    OBVIOUS
  <2>4. task' = [task EXCEPT ![t] = k]
    BY <1>2, <2>1, <2>2, <2>3, Zenon DEF RegenerateMessage, Start, branchContext
  <2>5. n \in BOOLEAN
    BY <2>2
  <2>6. k \in Gens
    BY <2>3, <2>5 DEF Gens, Working
  <2>7. /\ k.pc = "open" /\ k.conv = c /\ k.parent = p /\ k.user = Root
        /\ k.history = h /\ k.noSave = n
    BY <2>3
  <2> QED BY <2>1, <2>2, <2>4, <2>6, <2>7
<1>5. ~k.noSave /\ Filing(k) /\ ~Pending(k)
  BY <1>1, <1>4, PlaceFree DEF Filing, Pending, Working
<1>6. Phased(k)
  BY <1>4, <1>5 DEF Phased
<1>7. /\ conv[c] # "none" /\ p <= drawn
      /\ \A s \in Tasks : Pending(task[s]) => p # task[s].user
  BY <1>1, <1>2, PlaceFree
<1>8. p # Root /\ row[p] # NoRow => row[p].role = "user" /\ row[p].conv = c
  BY <1>1, <1>2, ParentOfAnswer DEF Stored
<1> QED BY <1>1, <1>4, <1>5, <1>6, <1>7, <1>8, StartStep

\* handleEditChatMessage
LEMMA EditStep ==
  ASSUME ChatInv, NEW t \in Tasks, NEW c \in Convs, NEW m \in Ids,
         EditChatMessage(t, c, m)
  PROVE  ChatInv'
<1>1. /\ Typed /\ TranscriptSound /\ drawn \in Nat /\ task[t].pc = "idle"
      /\ drawn' = drawn + 1 /\ drawn + Cardinality(Busy) + 2 <= MaxId
      /\ UNCHANGED <<conv, row, turns, seen>> /\ m \in Stored(c)
  BY DEF ChatInv, Typed, EditChatMessage, MayDraw
<1>2. Cardinality(Busy) \in Nat
  <2>1. Busy \subseteq Tasks
    BY DEF Busy
  <2> QED BY <2>1, FS_Subset, FS_CardinalityType
<1>3. drawn' \in Ids /\ drawn' # Root /\ drawn' + Cardinality(Busy) + 1 <= MaxId
  BY <1>1, <1>2 DEF Ids, Root
<1>4. PICK p \in Ids \cup {Root} : p = row[m].parent
  BY <1>1, PlaceFree
<1>5. PICK u \in Ids : u = drawn'
  BY <1>3
<1>6. Append(branchThrough(ListMessages(row, c), p), u) \in Seq(Ids)
  BY <1>1, SoundDescends, ListFacts, BranchType, AppendProperties DEF Typed
<1>7. PICK k \in Gens :
        /\ task' = [task EXCEPT ![t] = k]
        /\ k.pc = "open" /\ k.conv = c /\ k.parent = p /\ k.user = u
        /\ k.history = Append(branchThrough(ListMessages(row, c), p), u)
        /\ k.noSave <=> conv[c] = "nosave"
  <2>1. PICK h \in Seq(Ids) : h = Append(branchThrough(ListMessages(row, c), p), u)
    BY <1>6
  <2>2. PICK n : n = (conv[c] = "nosave")
    OBVIOUS
  <2>3. PICK k : k = [pc |-> "open", conv |-> c, noSave |-> n, parent |-> p,
                      user |-> u, history |-> h, content |-> FALSE]
    OBVIOUS
  <2>4. task' = [task EXCEPT ![t] = k]
    BY <1>4, <1>5, <2>1, <2>2, <2>3, Zenon DEF EditChatMessage, Start, branchContext
  <2>5. n \in BOOLEAN
    BY <2>2
  <2>6. k \in Gens
    BY <2>3, <2>5 DEF Gens, Working
  <2>7. /\ k.pc = "open" /\ k.conv = c /\ k.parent = p /\ k.user = u
        /\ k.history = h /\ k.noSave = n
    BY <2>3
  <2> QED BY <2>1, <2>2, <2>4, <2>6, <2>7
<1>8. ~k.noSave /\ Filing(k) /\ Pending(k)
  BY <1>1, <1>3, <1>5, <1>7, PlaceFree DEF Filing, Pending, Working
<1>9. Phased(k)
  BY <1>7, <1>8 DEF Phased
<1>10. /\ conv[c] # "none" /\ p <= drawn
        /\ \A s \in Tasks : Pending(task[s]) => p # task[s].user
  BY <1>1, <1>4, PlaceFree
<1> QED BY <1>1, <1>3, <1>5, <1>7, <1>8, <1>9, <1>10, StartStep

\* A handler that has yet to file its question holds a free id below an older one.
LEMMA PendingFacts ==
  ASSUME ChatInv, NEW t \in Tasks, Pending(task[t])
  PROVE  /\ task[t].pc \in Working /\ task[t] \in Gens /\ Filing(task[t])
         /\ task[t].conv \in Convs /\ conv[task[t].conv] # "none"
         /\ task[t].parent \in Ids \cup {Root} /\ task[t].user \in Ids
         /\ task[t].user <= drawn /\ task[t].parent < task[t].user
         /\ row[task[t].user] = NoRow
         /\ \A m \in Ids : row[m] # NoRow => row[m].parent # task[t].user
<1>1. Filing(task[t]) /\ task[t].pc \in Working
  BY DEF Pending, Filing
<1>2. Home(t) /\ Unborn(t) /\ Typed
  BY <1>1 DEF ChatInv, TaskOK
<1>3. /\ task[t] \in Gens /\ task[t].conv \in Convs
      /\ task[t].parent \in Ids \cup {Root} /\ task[t].user \in Ids \cup {Root}
  BY <1>1, <1>2, GenFacts
<1>4. task[t].user \in Ids /\ task[t].user <= drawn
  BY <1>2, <1>3 DEF Unborn, Root, Typed
<1> QED BY <1>1, <1>2, <1>3, <1>4 DEF Home, Unborn

\* The question is stored: the table moves by it, and the branch that ends in it
\* is the one above its place and the question.
LEMMA QuestionStored ==
  ASSUME ChatInv, NEW t \in Tasks, Pending(task[t]), conv[task[t].conv] = "saved",
         row' = SaveMessage(task[t].user, Message(task[t].conv, "user", task[t].parent)),
         conv' = conv
  PROVE  /\ Moves(task[t].user, {}) /\ TranscriptSound'
         /\ row'[task[t].user] # NoRow /\ row'[task[t].user].conv = task[t].conv
         /\ row'[task[t].user].role = "user" /\ row'[task[t].user].parent = task[t].parent
         /\ branchThrough(ListMessages(row', task[t].conv), task[t].user)
              = Append(branchThrough(ListMessages(row, task[t].conv), task[t].parent),
                       task[t].user)
<1>1. PICK q \in Ids, c \in Convs, p \in Ids \cup {Root} :
        q = task[t].user /\ c = task[t].conv /\ p = task[t].parent
  BY PendingFacts
<1>2. /\ Typed /\ TranscriptSound /\ row[q] = NoRow /\ p < q
      /\ \A m \in Ids : row[m] # NoRow => row[m].parent # q
  BY <1>1, PendingFacts DEF ChatInv
<1>3. row' = SaveMessage(q, Message(c, "user", p)) /\ conv[c] = "saved"
  BY <1>1
<1>4. Moves(q, {}) /\ TranscriptSound'
  BY <1>2, <1>3, InsertStep
<1>5. /\ row'[q] # NoRow /\ row'[q].conv = c /\ row'[q].role = "user"
      /\ row'[q].parent = p
  BY <1>2, <1>3, InsertRows
<1>6. branchThrough(ListMessages(row', c), q)
        = Append(branchThrough(ListMessages(row', c), p), q)
  <2>1. row' \in Tables /\ Descends(row')
    BY <1>4 DEF Moves
  <2>2. PICK U \in Tables : U = ListMessages(row', c)
    BY <2>1, ListFacts
  <2>3. Descends(U) /\ U[q] = row'[q]
    BY <1>5, <2>1, <2>2, ListFacts
  <2> QED BY <1>5, <2>2, <2>3, Branch
<1>7. branchThrough(ListMessages(row', c), p) = branchThrough(ListMessages(row, c), p)
  <2>1. p # q
    BY <1>2 DEF Ids, Root
  <2> QED BY <1>2, <1>4, <2>1, BranchKept
<1> QED BY <1>1, <1>4, <1>5, <1>6, <1>7

\* The question is filed, or its conversation is gone or the save has failed; the
\* answer will stand below it.
LEMMA QuestionStep ==
  ASSUME ChatInv, NEW t \in Tasks, Pending(task[t]), NEW k \in Gens, Phased(k),
         Filing(k), ~Pending(k), k.conv = task[t].conv, k.parent = task[t].user,
         task' = [task EXCEPT ![t] = k], UNCHANGED <<conv, turns, drawn, seen>>,
         \/ row' = row
         \/ /\ conv[task[t].conv] = "saved"
            /\ row' = SaveMessage(task[t].user,
                                  Message(task[t].conv, "user", task[t].parent))
            /\ k.history = branchThrough(ListMessages(row', task[t].conv), task[t].user)
  PROVE  ChatInv'
<1>1. Typed /\ TranscriptSound /\ AnsweredInContext /\ Drawn /\ drawn \in Nat
  BY DEF ChatInv, Typed
<1>2. PICK q \in Ids, c \in Convs : q = task[t].user /\ c = task[t].conv
  BY PendingFacts
<1>3. k \in Handlers
  BY DEF Handlers
<1>4. /\ task'[t] = k /\ \A s \in Tasks \ {t} : task'[s] = task[s]
      /\ Cardinality(Drawing') <= Cardinality(Drawing)
      /\ Cardinality(Drawing) \in Nat /\ Cardinality(Drawing') \in Nat
  BY <1>1, <1>3, PendingFacts, TaskSet
<1>5. /\ conv[c] # "none" /\ q <= drawn /\ row[q] = NoRow
      /\ \A m \in Ids : row[m] # NoRow => row[m].parent # q
  BY <1>2, PendingFacts
<1>6. Root \notin Ids /\ q \in Ids \cup {Root} /\ Root \in Ids \cup {Root}
  BY DEF Ids, Root
<1>7. ConvStep({})
  BY <1>1 DEF ConvStep, Typed
<1>8. TurnsOK'
  BY <1>1 DEF Typed, TurnsOK
<1>9. drawn' + Cardinality(Drawing') <= MaxId
  BY <1>1, <1>4 DEF Typed
<1>10. (Filing(task'[t]) <=> Filing(task[t])') /\ (Pending(task'[t]) <=> Pending(task[t])')
  BY DEF Filing, Pending
<1>11. ~Pending(task'[t]) /\ Filing(task'[t]) /\ k.parent = q /\ k.conv = c
  BY <1>2, <1>4
<1>12. ASSUME NEW s \in Tasks \ {t}, Pending(task[s])
       PROVE  /\ task[s].user # Root /\ task[s].user # q
              /\ task[t].parent # task[s].user
  BY <1>2, <1>12, PendingFacts DEF ChatInv, TaskOK, Unborn, Root
<1>13. ASSUME NEW s \in Tasks \ {t}, Filing(task[s]) PROVE task[s].parent # q
  BY <1>2, <1>13 DEF ChatInv, TaskOK, Unborn
<1>14. CASE row' = row
  <2>1. Moves(Root, {}) /\ TranscriptSound'
    BY <1>1, <1>14, TableStays, SoundStays
  <2>2. AnsweredInContext' /\ Drawn'
    BY <1>1, <1>14 DEF AnsweredInContext, Drawn
  <2>3. TaskOK(t)'
    <3>1. Home(t)'
      BY <1>4, <1>5, <1>11, <1>14 DEF Home
    <3>2. Context(t)'
      BY <1>4, <1>5, <1>11, <1>14 DEF Context
    <3> QED BY <1>10, <1>11, <3>1, <3>2 DEF TaskOK
  <2>4. Clear({t}, Root)
    BY <1>4, <1>6, <1>10, <1>11, <1>12 DEF Clear
  <2>5. ASSUME NEW s \in Tasks \ {t} PROVE TaskOK(s)'
    <3>1. drawn' \in Nat /\ drawn <= drawn' /\ {t} \in SUBSET Tasks
      BY <1>1
    <3> QED BY <1>6, <1>7, <2>1, <2>4, <3>1, OthersKept
  <2>6. Typed'
    BY <1>1, <1>3, <1>8, <1>9, <1>14, TypedMove DEF Typed
  <2> QED BY <2>1, <2>2, <2>3, <2>5, <2>6 DEF ChatInv
<1>15. CASE /\ conv[c] = "saved"
            /\ row' = SaveMessage(q, Message(c, "user", task[t].parent))
            /\ k.history = branchThrough(ListMessages(row', c), q)
  <2>1. /\ Moves(q, {}) /\ TranscriptSound'
        /\ row'[q] # NoRow /\ row'[q].conv = c /\ row'[q].role = "user"
        /\ row'[q].parent = task[t].parent
    BY <1>2, <1>15, QuestionStored
  <2>2. AnsweredInContext'
    BY <1>1, <1>6, <2>1, AnsweredKept
  <2>3. Drawn'
    <3> SUFFICES ASSUME NEW m \in Ids, row'[m] # NoRow PROVE m <= drawn
      BY DEF Drawn
    <3>1. CASE m # q
      <4>1. row[m] # NoRow
        BY <2>1, <3>1 DEF Moves, Keeps
      <4> QED BY <1>1, <4>1 DEF Drawn
    <3> QED BY <1>5, <3>1
  <2>4. TaskOK(t)'
    <3>1. Home(t)'
      BY <1>4, <1>5, <1>11 DEF Home
    <3>2. Context(t)'
      BY <1>4, <1>11, <1>15, <2>1 DEF Context
    <3> QED BY <1>10, <1>11, <3>1, <3>2 DEF TaskOK
  <2>5. Clear({t}, q)
    BY <1>4, <1>10, <1>11, <1>12, <1>13, <2>1 DEF Clear
  <2>6. ASSUME NEW s \in Tasks \ {t} PROVE TaskOK(s)'
    <3>1. drawn' \in Nat /\ drawn <= drawn' /\ {t} \in SUBSET Tasks
      BY <1>1
    <3> QED BY <1>6, <1>7, <2>1, <2>5, <3>1, OthersKept
  <2>7. Typed'
    <3>1. row' \in Tables
      BY <2>1 DEF Moves
    <3> QED BY <1>1, <1>3, <1>8, <1>9, <3>1, TypedMove DEF Typed
  <2> QED BY <2>1, <2>2, <2>3, <2>4, <2>6, <2>7 DEF ChatInv
<1> QED BY <1>2, <1>14, <1>15

\* SaveMessage into a conversation that is gone changes nothing.
LEMMA SaveRefused ==
  ASSUME NEW i, NEW c, NEW role, NEW p, conv[c] # "saved"
  PROVE  SaveMessage(i, Message(c, role, p)) = row
BY DEF SaveMessage, Message

\* handleSendMessage, from the insert of the question to the read of the branch
LEMMA SaveQuestionStep ==
  ASSUME ChatInv, NEW t \in Tasks, SaveQuestion(t)
  PROVE  ChatInv'
<1>1. Typed /\ task[t].pc = "ask" /\ task[t].pc \in Working
  BY DEF ChatInv, SaveQuestion, Working
<1>2. ~task[t].noSave
  BY <1>1 DEF Typed, Phased
<1>3. Pending(task[t])
  BY <1>1, <1>2 DEF Pending, Filing
<1>4. PICK q \in Ids, c \in Convs, p \in Ids \cup {Root} :
        q = task[t].user /\ c = task[t].conv /\ p = task[t].parent
  BY <1>3, PendingFacts
<1>5. PICK table \in {SaveMessage(q, Message(c, "user", p)), row} :
        /\ row' = table
        /\ task' = [task EXCEPT ![t].pc = "open", ![t].parent = q, ![t].user = Root,
                                ![t].history = branchThrough(ListMessages(table, c), q)]
  BY <1>4 DEF SaveQuestion, branchContext
<1>6. row' = row \/ (conv[c] = "saved" /\ row' = SaveMessage(q, Message(c, "user", p)))
  BY <1>5, SaveRefused
<1>7. branchThrough(ListMessages(row', c), q) \in Seq(Ids)
  <2>1. TranscriptSound /\ UNCHANGED <<conv, turns, drawn, seen>>
    BY DEF ChatInv, SaveQuestion
  <2>2. row' \in Tables /\ Descends(row')
    <3>1. CASE row' = row
      BY <1>1, <2>1, <3>1, SoundDescends DEF Typed
    <3>2. CASE conv[c] = "saved" /\ row' = SaveMessage(q, Message(c, "user", p))
      <4>1. Moves(q, {})
        BY <1>3, <1>4, <2>1, <3>2, QuestionStored
      <4> QED BY <4>1 DEF Moves
    <3> QED BY <1>6, <3>1, <3>2
  <2> QED BY <2>2, ListFacts, BranchType
<1>8. PICK h \in Seq(Ids) : h = branchThrough(ListMessages(row', c), q)
  BY <1>7
<1> DEFINE k == [task[t] EXCEPT !.pc = "open", !.parent = q, !.user = Root, !.history = h]
<1>9. task[t] \in Gens
  BY <1>1, GenFacts
<1>10. /\ k \in Gens /\ k.pc = "open" /\ k.conv = task[t].conv
       /\ k.noSave = task[t].noSave /\ k.parent = q /\ k.user = Root /\ k.history = h
  BY <1>9 DEF Gens, Working
<1>11. task' = [task EXCEPT ![t] = k]
  BY <1>5, <1>8
<1> HIDE DEF k
<1>12. Filing(k) /\ ~Pending(k) /\ Phased(k)
  BY <1>2, <1>10 DEF Filing, Pending, Phased, Working
<1>13. UNCHANGED <<conv, turns, drawn, seen>>
  BY DEF SaveQuestion
<1> QED BY <1>3, <1>4, <1>6, <1>8, <1>10, <1>11, <1>12, <1>13, QuestionStep

\* streamGeneration, the insert of an edited question
LEMMA SavePendingStep ==
  ASSUME ChatInv, NEW t \in Tasks, SavePendingUser(t)
  PROVE  ChatInv'
<1>1. /\ Typed /\ task[t].pc = "edit" /\ task[t].pc \in Working
      /\ UNCHANGED <<conv, turns, drawn, seen>>
  BY DEF ChatInv, SavePendingUser, At, Working
<1>2. ~task[t].noSave
  BY <1>1 DEF Typed, Phased
<1>3. Pending(task[t]) /\ Filing(task[t])
  BY <1>1, <1>2 DEF Pending, Filing
<1>4. PICK q \in Ids, c \in Convs, p \in Ids \cup {Root} :
        q = task[t].user /\ c = task[t].conv /\ p = task[t].parent
  BY <1>3, PendingFacts
<1>5. row' \in {SaveMessage(q, Message(c, "user", p)), row}
  BY <1>4 DEF SavePendingUser
<1>6. row' = row \/ (conv[c] = "saved" /\ row' = SaveMessage(q, Message(c, "user", p)))
  BY <1>5, SaveRefused
<1>7. ASSUME conv[c] = "saved", row' = SaveMessage(q, Message(c, "user", p))
      PROVE  task[t].history = branchThrough(ListMessages(row', c), q)
  <2>1. task[t].history = Append(branchThrough(ListMessages(row, c), p), q)
    BY <1>1, <1>3, <1>4, <1>7 DEF ChatInv, TaskOK, Context
  <2>2. branchThrough(ListMessages(row', c), q)
          = Append(branchThrough(ListMessages(row, c), p), q)
    BY <1>1, <1>3, <1>4, <1>7, QuestionStored
  <2> QED BY <2>1, <2>2
<1> DEFINE k == [task[t] EXCEPT !.pc = "answer", !.parent = q]
<1>8. task[t] \in Gens
  BY <1>1, GenFacts
<1>9. /\ k \in Gens /\ k.pc = "answer" /\ k.conv = task[t].conv
      /\ k.noSave = task[t].noSave /\ k.parent = q /\ k.history = task[t].history
  BY <1>8 DEF Gens, Working
<1>10. task' = [task EXCEPT ![t] = k]
  BY <1>4 DEF SavePendingUser
<1> HIDE DEF k
<1>11. Filing(k) /\ ~Pending(k) /\ Phased(k)
  BY <1>2, <1>9 DEF Filing, Pending, Phased, Working
<1> QED BY <1>1, <1>3, <1>4, <1>6, <1>7, <1>9, <1>10, <1>11, QuestionStep

\* A handler draws the id of its answer, stores it or not, and returns.
LEMMA AnswerStep ==
  ASSUME ChatInv, NEW t \in Tasks, task[t].pc \in Working,
         task' = [task EXCEPT ![t] = Idle], drawn' = drawn + 1, conv' = conv, TurnsOK',
         seen' = [seen EXCEPT ![drawn'] = task[t].history],
         \/ row' = row
         \/ /\ task[t].pc = "answer" /\ conv[task[t].conv] = "saved"
            /\ row' = SaveMessage(drawn', Message(task[t].conv, "assistant",
                                                  task[t].parent))
  PROVE  ChatInv'
<1>1. Typed /\ TranscriptSound /\ AnsweredInContext /\ Drawn /\ drawn \in Nat
  BY DEF ChatInv, Typed
<1>2. /\ task'[t] = Idle /\ \A s \in Tasks \ {t} : task'[s] = task[s]
      /\ Cardinality(Drawing') = Cardinality(Drawing) - 1
      /\ Cardinality(Drawing) \in Nat /\ Cardinality(Drawing') \in Nat
  BY <1>1, RestFacts, TaskSet
<1>3. drawn' \in Nat /\ drawn <= drawn' /\ drawn + 1 <= MaxId
      /\ drawn' + Cardinality(Drawing') <= MaxId
  BY <1>1, <1>2 DEF Typed
<1>4. PICK b \in Ids : b = drawn'
  BY <1>3, Fresh
<1>5. /\ row[b] = NoRow /\ \A m \in Ids : row[m] # NoRow => row[m].parent # b
      /\ \A s \in Tasks : /\ Filing(task[s]) => task[s].parent # b
                          /\ Pending(task[s]) => task[s].user # b
  BY <1>3, <1>4, Fresh
<1>6. task[t].history \in Seq(Ids)
  BY <1>1, GenFacts
<1>7. /\ seen' \in [Ids -> Seq(Ids)] /\ seen'[b] = task[t].history
      /\ \A m \in Ids : row[m] # NoRow => seen'[m] = seen[m]
  BY <1>1, <1>4, <1>5, <1>6 DEF Typed
<1>8. TaskOK(t)' /\ ~Filing(task[t])' /\ ~Pending(task[t])'
  BY <1>2, RestFacts, RestOK
<1>9. Root \notin Ids /\ Root \in Ids \cup {Root} /\ b \in Ids \cup {Root}
  BY DEF Ids, Root
<1>10. ConvStep({})
  BY <1>1 DEF ConvStep, Typed
<1>11. row' \in Tables => Typed'
  BY <1>1, <1>3, <1>7, RestFacts, TypedMove DEF Typed
<1>12. \A s \in Tasks \ {t} : Pending(task[s]) => task[s].user # Root
  BY DEF ChatInv, TaskOK, Unborn, Root
<1>13. CASE row' = row
  <2>1. Moves(Root, {}) /\ TranscriptSound'
    BY <1>1, <1>13, TableStays, SoundStays
  <2>2. AnsweredInContext'
    BY <1>1, <1>7, <1>9, <2>1, AnsweredKept
  <2>3. Drawn'
    BY <1>1, <1>3, <1>13 DEF Drawn, Ids
  <2>4. Clear({t}, Root)
    BY <1>2, <1>8, <1>9, <1>12 DEF Clear
  <2>5. \A s \in Tasks \ {t} : TaskOK(s)'
    BY <1>3, <1>9, <1>10, <2>1, <2>4, OthersKept
  <2>6. Typed'
    BY <1>11, <2>1 DEF Moves
  <2> QED BY <1>8, <2>1, <2>2, <2>3, <2>5, <2>6 DEF ChatInv
<1>14. CASE /\ task[t].pc = "answer" /\ conv[task[t].conv] = "saved"
            /\ row' = SaveMessage(drawn', Message(task[t].conv, "assistant",
                                                  task[t].parent))
  <2>1. ~task[t].noSave
    BY <1>1, <1>14 DEF Typed, Phased
  <2>2. Filing(task[t]) /\ ~Pending(task[t])
    BY <1>14, <2>1 DEF Filing, Pending, Working
  <2>3. Home(t) /\ Context(t)
    BY <2>2 DEF ChatInv, TaskOK
  <2>4. PICK c \in Convs, p \in Ids \cup {Root} : c = task[t].conv /\ p = task[t].parent
    BY <1>1, GenFacts
  <2>5. /\ conv[c] = "saved" /\ p <= drawn
        /\ row' = SaveMessage(b, Message(c, "assistant", p))
    BY <1>4, <1>14, <2>3, <2>4 DEF Home
  <2>6. p < b /\ p # b
    BY <1>1, <1>4, <2>5 DEF Ids, Root
  <2>7. Moves(b, {}) /\ TranscriptSound'
    BY <1>1, <1>5, <2>5, <2>6, InsertStep
  <2>8. /\ row'[b] # NoRow /\ row'[b].conv = c /\ row'[b].role = "assistant"
        /\ row'[b].parent = p
    BY <1>1, <2>5, InsertRows
  <2>9. ASSUME p # Root, row'[p] # NoRow
        PROVE  /\ row'[p].role = "user" /\ row'[p].conv = c
               /\ seen'[b] = branchThrough(ListMessages(row', c), p)
    <3>1. p \in Ids \ {b}
      BY <2>6, <2>9
    <3>2. Keeps(p) /\ row[p] # NoRow
      BY <2>7, <2>9, <3>1 DEF Moves, Keeps
    <3>3. /\ row[p].role = "user" /\ row[p].conv = c
          /\ task[t].history = branchThrough(ListMessages(row, c), p)
      BY <2>2, <2>3, <2>4, <2>9, <3>2 DEF Context
    <3>4. branchThrough(ListMessages(row', c), p) = branchThrough(ListMessages(row, c), p)
      BY <1>1, <1>9, <2>6, <2>7, BranchKept
    <3> QED BY <1>7, <3>2, <3>3, <3>4 DEF Keeps
  <2>10. AnsweredInContext'
    BY <1>1, <1>7, <1>9, <2>7, <2>8, <2>9, AnsweredKept
  <2>11. Drawn'
    <3> SUFFICES ASSUME NEW m \in Ids, row'[m] # NoRow PROVE m <= drawn'
      BY DEF Drawn
    <3>1. CASE m # b
      <4>1. row[m] # NoRow
        BY <2>7, <3>1 DEF Moves, Keeps
      <4> QED BY <1>1, <1>3, <4>1 DEF Drawn, Ids
    <3> QED BY <1>3, <1>4, <3>1
  <2>12. Clear({t}, b)
    <3>1. \A s \in Tasks \ {t} : Pending(task[s]) => p # task[s].user
      BY <2>2, <2>4 DEF ChatInv, TaskOK, Unborn
    <3> QED BY <1>2, <1>5, <1>8, <2>8, <3>1 DEF Clear
  <2>13. \A s \in Tasks \ {t} : TaskOK(s)'
    BY <1>3, <1>9, <1>10, <2>7, <2>12, OthersKept
  <2>14. Typed'
    BY <1>11, <2>7 DEF Moves
  <2> QED BY <1>8, <2>7, <2>10, <2>11, <2>13, <2>14 DEF ChatInv
<1> QED BY <1>13, <1>14

\* AppendAnswer
LEMMA AppendAnswerStep ==
  ASSUME ChatInv, NEW t \in Tasks, AppendAnswer(t)
  PROVE  ChatInv'
<1>1. /\ Typed /\ task[t].pc \in Working /\ drawn \in Nat
      /\ task' = [task EXCEPT ![t] = Idle] /\ drawn' = drawn + 1
      /\ conv' = conv /\ row' = row
      /\ seen' = [seen EXCEPT ![drawn'] = task[t].history]
      /\ turns' = [turns EXCEPT ![task[t].conv] = appendNoSaveTurn(task[t].conv, drawn')]
  BY DEF ChatInv, Typed, AppendAnswer, At, Done, Working
<1>2. drawn + 1 <= MaxId
  <2>1. /\ Cardinality(Drawing') = Cardinality(Drawing) - 1
        /\ Cardinality(Drawing) \in Nat /\ Cardinality(Drawing') \in Nat
    BY <1>1, RestFacts, TaskSet
  <2> QED BY <1>1, <2>1 DEF Typed
<1>3. PICK b \in Ids, c \in Convs : b = drawn' /\ c = task[t].conv
  BY <1>1, <1>2, Fresh, GenFacts
<1>4. TurnsOK'
  BY <1>1, <1>3, AppendTurn DEF Typed
<1> QED BY <1>1, <1>4, AnswerStep

\* SaveAnswer
LEMMA SaveAnswerStep ==
  ASSUME ChatInv, NEW t \in Tasks, SaveAnswer(t)
  PROVE  ChatInv'
<1>1. /\ Typed /\ task[t].pc = "answer" /\ task[t].pc \in Working
      /\ task' = [task EXCEPT ![t] = Idle] /\ drawn' = drawn + 1
      /\ conv' = conv /\ turns' = turns
      /\ seen' = [seen EXCEPT ![drawn'] = task[t].history]
      /\ row' \in {SaveMessage(drawn', Message(task[t].conv, "assistant",
                                               task[t].parent)), row}
  BY DEF ChatInv, SaveAnswer, At, Done, Working
<1>2. TurnsOK'
  BY <1>1 DEF Typed, TurnsOK
<1>3. \/ row' = row
      \/ /\ conv[task[t].conv] = "saved"
         /\ row' = SaveMessage(drawn', Message(task[t].conv, "assistant", task[t].parent))
  BY <1>1, SaveRefused
<1> QED BY <1>1, <1>2, <1>3, AnswerStep

-----------------------------------------------------------------------------
(* The theorems *)

\* The chats begin empty.
LEMMA InitInv == Init => ChatInv
<1> SUFFICES ASSUME Init PROVE ChatInv
  OBVIOUS
<1>1. Typed
  <2>1. Drawing = {}
    BY RestFacts DEF Init, Drawing
  <2>2. <<>> \in Seq(Ids) /\ Len(<<>>) = 0 /\ 0 <= MaxTurns
    BY EmptySeq
  <2>3. TurnsOK /\ seen \in [Ids -> Seq(Ids)]
    BY <2>2 DEF Init, TurnsOK
  <2>4. task \in [Tasks -> Handlers] /\ \A t \in Tasks : Phased(task[t])
    BY RestFacts DEF Init
  <2>5. drawn \in 0..MaxId /\ drawn + Cardinality(Drawing) <= MaxId
    BY <2>1, FS_EmptySet DEF Init
  <2>6. row \in Tables /\ conv \in [Convs -> {"none", "saved", "nosave", "deleted"}]
    BY DEF Init, Tables
  <2> QED BY <2>3, <2>4, <2>5, <2>6 DEF Typed
<1>2. Drawn /\ TranscriptSound /\ AnsweredInContext
  BY DEF Init, Drawn, TranscriptSound, AnsweredInContext, Stored
<1>3. \A t \in Tasks : TaskOK(t)
  BY RestFacts DEF Init, TaskOK, Filing, Pending
<1> QED BY <1>1, <1>2, <1>3 DEF ChatInv

\* Every step keeps the invariant: one case per action.
LEMMA NextInv == ChatInv /\ [Next]_vars => ChatInv'
<1> SUFFICES ASSUME ChatInv, [Next]_vars PROVE ChatInv'
  OBVIOUS
<1>1. CASE Next
  <2>1. ASSUME NEW c \in Convs, NEW mode \in {"saved", "nosave"}, CreateChat(c, mode)
        PROVE  ChatInv'
    BY <2>1, CreateStep
  <2>2. ASSUME NEW c \in Convs, NEW m \in Ids, SelectVariant(c, m) PROVE ChatInv'
    BY <2>2, SelectStep
  <2>3. ASSUME NEW c \in Convs, NEW t \in Tasks, DeleteChat(t, c) PROVE ChatInv'
    BY <2>3, DeleteChatStep
  <2>4. ASSUME NEW c \in Convs, NEW t \in Tasks, NEW m \in Ids \cup {Root},
               SendMessage(t, c, m)
        PROVE  ChatInv'
    BY <2>4, SendStep
  <2>5. ASSUME NEW c \in Convs, NEW t \in Tasks, NEW m \in Ids, RegenerateMessage(t, c, m)
        PROVE  ChatInv'
    BY <2>5, RegenerateStep
  <2>6. ASSUME NEW c \in Convs, NEW t \in Tasks, NEW m \in Ids, EditChatMessage(t, c, m)
        PROVE  ChatInv'
    BY <2>6, EditStep
  <2>7. ASSUME NEW t \in Tasks, forgetNoSaveTurns(t) PROVE ChatInv'
    BY <2>7, ForgetStep
  <2>8. ASSUME NEW t \in Tasks, Generate(t) PROVE ChatInv'
    BY <2>8, SaveQuestionStep, RefusedStep, OpenStep, EmitStep, StreamEndStep,
       AppendQuestionStep, AppendAnswerStep, SavePendingStep, SaveAnswerStep
       DEF Generate
  <2>9. CASE Crash
    BY <2>9, CrashStep
  <2> QED BY <1>1, <2>1, <2>2, <2>3, <2>4, <2>5, <2>6, <2>7, <2>8, <2>9 DEF Next
<1>2. CASE UNCHANGED vars
  <2>1. /\ conv' = conv /\ row' = row /\ turns' = turns /\ drawn' = drawn
        /\ task' = task /\ seen' = seen
    BY <1>2 DEF vars
  <2>2. Typed'
    BY <2>1 DEF ChatInv, Typed, TurnsOK, Drawing
  <2>3. Drawn' /\ AnsweredInContext'
    BY <2>1 DEF ChatInv, Drawn, AnsweredInContext
  <2>4. TranscriptSound'
    BY <2>1, SoundStays DEF ChatInv
  <2>5. ASSUME NEW t \in Tasks PROVE TaskOK(t)'
    BY <2>1 DEF ChatInv, TaskOK, Filing, Pending, Home, Context, Unborn, Stored
  <2> QED BY <2>2, <2>3, <2>4, <2>5 DEF ChatInv
<1> QED BY <1>1, <1>2

\* The inductive invariant holds in every state of every behaviour: the tree is
\* sound, and every handler in progress still has its place, its question's id
\* and the context it gave the model, whatever other handlers, switches of
\* variants and deletions did meanwhile (handleSendMessage, streamGeneration).
THEOREM Invariance == Spec => []ChatInv
BY InitInv, NextInv, PTL DEF Spec

\* Every variable stays in its domain and a no-save transcript within
\* maxNoSaveTurns (appendNoSaveTurn), for any number of handlers.
THEOREM TypeCorrect == Spec => []TypeOK
<1>1. ChatInv => TypeOK
  <2> SUFFICES ASSUME ChatInv PROVE TypeOK
    OBVIOUS
  <2>1. Typed
    BY DEF ChatInv
  <2>2. \A t \in Tasks : task[t].pc \in {"idle", "forget", "ask", "open", "stream",
                                        "turn", "reply", "edit", "answer"}
    <3> SUFFICES ASSUME NEW t \in Tasks
                 PROVE  task[t].pc \in {"idle", "forget"} \cup Working
      BY DEF Working
    <3>1. task[t] \in {Idle} \cup Forgets \cup Gens
      BY <2>1 DEF Typed, Handlers
    <3> QED BY <3>1 DEF Idle, Forgets, Gens
  <2> QED BY <2>1, <2>2 DEF TypeOK, Typed, Tables, TurnsOK
<1> QED BY <1>1, Invariance, PTL

\* For any number of conversations, messages and overlapping handlers, one
\* transcript is shown, whatever parent a client names: exactly one active
\* message among those of a conversation that name the same parent, no message
\* above itself, nothing left of a deleted or a no-save conversation
\* (SaveMessage, ActivateMessage, handleSendMessage, handleDeleteChat).
THEOREM TranscriptsStaySound == Spec => []TranscriptSound
<1>1. ChatInv => TranscriptSound
  BY DEF ChatInv
<1> QED BY <1>1, Invariance, PTL

\* Every stored answer stands below the question it answers, in the same
\* conversation, and was given exactly the messages of it above that question, however its generation interleaved with the rest
\* (branchContext, streamGeneration).
THEOREM AnswersStayInContext == Spec => []AnsweredInContext
<1>1. ChatInv => AnsweredInContext
  BY DEF ChatInv
<1> QED BY <1>1, Invariance, PTL
=============================================================================
