------------------------------ MODULE ChatTree ------------------------------
(***************************************************************************)
(* The owner's chats.  A saved conversation is a tree of messages in which *)
(* a regenerated answer or an edited question is a sibling of the one it   *)
(* replaces, and the chain of active messages from the root is what is     *)
(* shown.  A no-save conversation is a list of turns in memory.            *)
(*                                                                         *)
(* A handler is a task: it reads the tree, streams a generation that may   *)
(* last for minutes, and only then files what it got.  Tasks interleave    *)
(* with each other, with switches between variants and with deletions.     *)
(* Message ids are random in the code; here they are numbers drawn in the  *)
(* order of created_at, by which siblings are sorted.  The text of a       *)
(* message is its id.                                                      *)
(***************************************************************************)
EXTENDS Integers, Sequences, FiniteSets, FiniteSetsExt, Functions

CONSTANTS
  Convs,       \* conversation ids, each used once
  Tasks,       \* handlers that may run at the same time
  MaxId,       \* bound on the messages drawn
  MaxTurns     \* maxNoSaveTurns, 100 in the code

ASSUME ChatAssumption == MaxId \in Nat /\ MaxTurns \in Nat \ {0} /\ IsFiniteSet(Tasks)

VARIABLES
  conv,     \* conversations: none, saved, nosave, deleted
  row,      \* the messages table
  turns,    \* noSaveTurns
  drawn,    \* the ids drawn so far are 1..drawn
  task,     \* the handlers in progress
  seen      \* history: what the model was given for each answer

vars == <<conv, row, turns, drawn, task, seen>>

Ids == 1..MaxId
Root == 0          \* the empty parent id
NoRow == [role |-> "none"]
Idle == [pc |-> "idle"]
Rows == [conv : Convs, role : {"user", "assistant"}, parent : Ids \cup {Root},
         active : BOOLEAN]

Init ==
  /\ conv = [c \in Convs |-> "none"]
  /\ row = [i \in Ids |-> NoRow]
  /\ turns = [c \in Convs |-> <<>>]
  /\ drawn = 0
  /\ task = [t \in Tasks |-> Idle]
  /\ seen = [i \in Ids |-> <<>>]

Stored(c) == {i \in Ids : row[i] # NoRow /\ row[i].conv = c}

\* The rows of one conversation, all its branches.
ListMessages(table, c) ==
  [i \in Ids |-> IF table[i] = NoRow THEN NoRow
                 ELSE IF table[i].conv = c THEN table[i] ELSE NoRow]

-----------------------------------------------------------------------------
(* The tree *)

\* branchThrough: from a message up to the root, or up to the first ancestor
\* that the table has not.
branchThrough(table, m) ==
  LET path[i \in Ids \cup {Root}] ==
        IF i = Root THEN <<>>
        ELSE IF table[i] = NoRow THEN <<>>
        ELSE Append(path[table[i].parent], i)
  IN  path[m]

\* Where activeBranch hangs a message of c: one whose parent is not a message
\* of c counts as a root.
Above(c, i) == IF row[i].parent \in Stored(c) THEN row[i].parent ELSE Root

pickActive(group) ==
  LET active == {i \in group : row[i].active}
  IN  IF active = {} THEN Max(group) ELSE Min(active)

Picked(c, i) == i = pickActive({j \in Stored(c) : Above(c, j) = Above(c, i)})

\* activeBranch, as the set of messages on it.
activeBranch(c) ==
  {m \in Stored(c) :
     \A a \in Range(branchThrough(ListMessages(row, c), m)) : Picked(c, a)}

\* Its last message.  A parent is drawn before its children.
Tip(c) == IF activeBranch(c) = {} THEN Root ELSE Max(activeBranch(c))

branchContext_Visible(table, c, m) == branchThrough(ListMessages(row, c), Tip(c))
\* What the model is given for an answer to m.
branchContext(table, c, m) == branchThrough(ListMessages(table, c), m)

SaveMessage_TwoActive(i, r) ==
  IF conv[r.conv] = "saved" THEN [row EXCEPT ![i] = r] ELSE row
\* The table after the insert: the siblings lose the active mark.  The foreign
\* key refuses a message of a conversation that is gone, and the callers
\* ignore that.
SaveMessage(i, r) ==
  IF conv[r.conv] = "saved"
  THEN [j \in Ids |->
          IF j = i THEN r
          ELSE IF j \in Stored(r.conv) /\ row[j].parent = r.parent
               THEN [row[j] EXCEPT !.active = FALSE] ELSE row[j]]
  ELSE row

Message(c, role, parent) ==
  [conv |-> c, role |-> role, parent |-> parent, active |-> TRUE]

-----------------------------------------------------------------------------
(* Conversations *)

CreateChat(c, mode) ==
  /\ conv[c] = "none"
  /\ conv' = [conv EXCEPT ![c] = mode]
  /\ UNCHANGED <<row, turns, drawn, task, seen>>

\* handleDeleteChat: the row goes with all its messages, the turns in memory
\* follow in a critical section of their own.
DeleteChat(t, c) ==
  /\ task[t].pc = "idle" /\ conv[c] # "none"
  /\ conv' = [conv EXCEPT ![c] = "deleted"]
  /\ row' = [i \in Ids |-> IF i \in Stored(c) THEN NoRow ELSE row[i]]
  /\ task' = [task EXCEPT ![t] = [pc |-> "forget", conv |-> c]]
  /\ UNCHANGED <<turns, drawn, seen>>

forgetNoSaveTurns(t) ==
  /\ task[t].pc = "forget"
  /\ turns' = [turns EXCEPT ![task[t].conv] = <<>>]
  /\ task' = [task EXCEPT ![t] = Idle]
  /\ UNCHANGED <<conv, row, drawn, seen>>

\* The table once m holds the slot among its siblings.
ActivateMessage(c, m) ==
  [j \in Ids |-> IF j \in Stored(c) /\ row[j].parent = row[m].parent
                 THEN [row[j] EXCEPT !.active = (j = m)] ELSE row[j]]

SelectVariant(c, m) ==
  /\ m \in Stored(c)
  /\ row' = ActivateMessage(c, m)
  /\ UNCHANGED <<conv, turns, drawn, task, seen>>

-----------------------------------------------------------------------------
(* Asking *)

Busy == {t \in Tasks : task[t].pc # "idle"}

\* A handler starts only while an id is left for every answer under way and for
\* the n that it needs itself.
MayDraw(t, n) == task[t].pc = "idle" /\ drawn + Cardinality(Busy) + n <= MaxId

\* The generation record; noSave is read with the conversation, once.
Start(t, pc, c, parent, user, ctx) ==
  task' = [task EXCEPT ![t] =
    [pc |-> pc, conv |-> c, noSave |-> conv[c] = "nosave", parent |-> parent,
     user |-> user, history |-> ctx, content |-> FALSE]]

\* Questions a handler holds and has not stored: their random ids are known to
\* nobody else.
Unfiled == {task[t].user : t \in {s \in Tasks : task[s].pc \notin {"idle", "forget", "answer"}}}

\* handleSendMessage up to the id of the question.  The parent is the tip of
\* the branch shown at this moment, or whatever id the client names: nothing
\* checks that it is a message of this conversation, or of any.  A no-save chat
\* has no use for it.
SendMessage(t, c, parent) ==
  /\ MayDraw(t, 2)
  /\ parent \in {Root} \cup (1..drawn \ Unfiled)
  /\ drawn' = drawn + 1
  /\ \/ /\ conv[c] = "nosave"
        /\ Start(t, "open", c, Root, drawn', Append(turns[c], drawn'))
     \/ /\ conv[c] = "saved"
        /\ Start(t, "ask", c, IF parent = Root THEN Tip(c) ELSE parent,
                 drawn', <<>>)
  /\ UNCHANGED <<conv, row, turns, seen>>

\* The question is saved before there is an answer, and read back as the end
\* of the context.  The error of a failed save is dropped.
SaveQuestion(t) ==
  LET q == task[t].user
      c == task[t].conv
  IN  /\ task[t].pc = "ask"
      /\ \E table \in {SaveMessage(q, Message(c, "user", task[t].parent)), row} :
           /\ row' = table
           /\ task' = [task EXCEPT ![t].pc = "open", ![t].parent = q, ![t].user = Root,
                         ![t].history = branchContext(table, c, q)]
      /\ UNCHANGED <<conv, turns, drawn, seen>>

\* The new answer gets the parent of the one it replaces.
RegenerateMessage(t, c, m) ==
  /\ MayDraw(t, 1)
  /\ m \in Stored(c) /\ row[m].role = "assistant"
  /\ Start(t, "open", c, row[m].parent, Root, branchContext(row, c, row[m].parent))
  /\ UNCHANGED <<conv, row, turns, drawn, seen>>

\* The new question gets the parent of the one it replaces and is stored only
\* with its answer.
EditChatMessage(t, c, m) ==
  /\ MayDraw(t, 2)
  /\ m \in Stored(c) /\ row[m].role = "user"
  /\ drawn' = drawn + 1
  /\ Start(t, "open", c, row[m].parent, drawn',
           Append(branchContext(row, c, row[m].parent), drawn'))
  /\ UNCHANGED <<conv, row, turns, seen>>

-----------------------------------------------------------------------------
(* streamGeneration *)

At(t, pc) == task[t].pc = pc
Done(t) == task' = [task EXCEPT ![t] = Idle]

\* An unknown thinking level, a model that is not offered, a host that cannot
\* be reached or that answers with an error: nothing more is stored.
Refused(t) ==
  /\ At(t, "open")
  /\ Done(t)
  /\ UNCHANGED <<conv, row, turns, drawn, seen>>

OpenStream(t) ==
  /\ At(t, "open")
  /\ task' = [task EXCEPT ![t].pc = "stream"]
  /\ UNCHANGED <<conv, row, turns, drawn, seen>>

\* emit
Emit(t) ==
  /\ At(t, "stream")
  /\ task' = [task EXCEPT ![t].content = TRUE]
  /\ UNCHANGED <<conv, row, turns, drawn, seen>>

\* relayPeerStream or Execute returns, complete or interrupted: what is filed
\* next.  Without content a saved chat keeps nothing, also not an edit.
StreamEnd(t) ==
  LET k == task[t]
      next == IF k.noSave THEN "turn"
              ELSE IF k.user # Root THEN "edit" ELSE "answer"
  IN  /\ At(t, "stream")
      /\ IF k.noSave \/ k.content THEN task' = [task EXCEPT ![t].pc = next]
                                ELSE Done(t)
      /\ UNCHANGED <<conv, row, turns, drawn, seen>>

appendNoSaveTurn_Unbounded(c, m) == Append(turns[c], m)
appendNoSaveTurn(c, m) ==
  IF Len(turns[c]) < MaxTurns THEN Append(turns[c], m)
                              ELSE Append(Tail(turns[c]), m)

AppendQuestion(t) ==
  LET k == task[t]
  IN  /\ At(t, "turn")
      /\ turns' = [turns EXCEPT ![k.conv] = appendNoSaveTurn(k.conv, k.user)]
      /\ IF k.content THEN task' = [task EXCEPT ![t].pc = "reply"] ELSE Done(t)
      /\ UNCHANGED <<conv, row, drawn, seen>>

AppendAnswer(t) ==
  LET k == task[t]
  IN  /\ At(t, "reply")
      /\ drawn' = drawn + 1
      /\ turns' = [turns EXCEPT ![k.conv] = appendNoSaveTurn(k.conv, drawn')]
      /\ seen' = [seen EXCEPT ![drawn'] = k.history]
      /\ Done(t)
      /\ UNCHANGED <<conv, row>>

\* The edited question and its answer are two transactions.
SavePendingUser(t) ==
  LET k == task[t]
  IN  /\ At(t, "edit")
      /\ row' \in {SaveMessage(k.user, Message(k.conv, "user", k.parent)), row}
      /\ task' = [task EXCEPT ![t].pc = "answer", ![t].parent = k.user]
      /\ UNCHANGED <<conv, turns, drawn, seen>>

SaveAnswer(t) ==
  LET k == task[t]
  IN  /\ At(t, "answer")
      /\ drawn' = drawn + 1
      /\ row' \in {SaveMessage(drawn', Message(k.conv, "assistant", k.parent)), row}
      /\ seen' = [seen EXCEPT ![drawn'] = k.history]
      /\ Done(t)
      /\ UNCHANGED <<conv, turns>>

\* The process ends: handlers and no-save turns are gone, the tables stay.
Crash ==
  /\ task' = [t \in Tasks |-> Idle]
  /\ turns' = [c \in Convs |-> <<>>]
  /\ UNCHANGED <<conv, row, drawn, seen>>

Generate(t) ==
  \/ SaveQuestion(t)
  \/ Refused(t)
  \/ OpenStream(t)
  \/ Emit(t)
  \/ StreamEnd(t)
  \/ AppendQuestion(t)
  \/ AppendAnswer(t)
  \/ SavePendingUser(t)
  \/ SaveAnswer(t)

Next ==
  \/ \E c \in Convs :
       \/ \E mode \in {"saved", "nosave"} : CreateChat(c, mode)
       \/ \E m \in Ids : SelectVariant(c, m)
       \/ \E t \in Tasks :
            \/ DeleteChat(t, c)
            \/ \E m \in Ids \cup {Root} : SendMessage(t, c, m)
            \/ \E m \in Ids : RegenerateMessage(t, c, m) \/ EditChatMessage(t, c, m)
  \/ \E t \in Tasks : forgetNoSaveTurns(t) \/ Generate(t)
  \/ Crash

Spec == Init /\ [][Next]_vars

-----------------------------------------------------------------------------
(* What the chats promise. *)

\* Every variable stays in its domain; a no-save transcript stays within its
\* bound (appendNoSaveTurn).
TypeOK ==
  /\ conv \in [Convs -> {"none", "saved", "nosave", "deleted"}]
  /\ row \in [Ids -> Rows \cup {NoRow}]
  /\ \A c \in Convs : turns[c] \in Seq(Ids) /\ Len(turns[c]) <= MaxTurns
  /\ drawn \in 0..MaxId
  /\ \A t \in Tasks : task[t].pc \in {"idle", "forget", "ask", "open", "stream",
                                     "turn", "reply", "edit", "answer"}
  /\ seen \in [Ids -> Seq(Ids)]

\* Whatever overlaps with whatever, and whatever parent a client names, the
\* messages of a conversation that name the same parent have exactly one active
\* among them and no message is above itself, so one transcript is shown and
\* the walks up the tree end (SaveMessage, ActivateMessage, branchThrough); a
\* generation that outlives its conversation, or belongs to a no-save one,
\* leaves nothing in the table.  The parent named need not be a message of the
\* conversation: such a message counts as a root.
TranscriptSound ==
  \A c \in Convs :
    /\ conv[c] # "saved" => Stored(c) = {}
    /\ \A m \in Stored(c) :
         /\ Cardinality({j \in Stored(c) : row[j].parent = row[m].parent
                                           /\ row[j].active}) = 1
         /\ row[m].parent < m

\* An answer stands below the question it answers, in the same conversation,
\* and the model was given exactly the chain of messages above it, cut where
\* the chain leaves the conversation: not the answer it replaces, and not
\* the branch another handler or a switch of variants has brought into view
\* meanwhile (branchContext, streamGeneration).
AnsweredInContext ==
  \A m \in Ids :
    (row[m] # NoRow /\ row[m].role = "assistant" /\ row[m].parent # Root) =>
      LET q == row[m].parent
      IN  row[q] # NoRow =>
            /\ row[q].role = "user" /\ row[q].conv = row[m].conv
            /\ seen[m] = branchThrough(ListMessages(row, row[m].conv), q)

=============================================================================
