--------------------------- MODULE ReceiptsProofs ---------------------------
(***************************************************************************)
(* The exchange of receipts keeps its promises for any members, requests,  *)
(* page sizes and limits and any number of sessions side by side.          *)
(* ReceiptInv is the inductive invariant: it says of every session in      *)
(* progress that what it owes its member and has not delivered yet still   *)
(* lies ahead of the page cursors.  The leaderboards agree because the     *)
(* number of receipts counted for a pair and a day does not depend on the  *)
(* order in which they are met.                                            *)
(***************************************************************************)
EXTENDS Receipts, FiniteSetTheorems, FunctionTheorems, SequenceTheorems,
        WellFoundedInduction, TLAPS

-----------------------------------------------------------------------------
(* Finite sets *)

\* A nonempty set of naturals has a least member.
LEMMA LeastOf ==
  ASSUME NEW S \in SUBSET Nat, S # {}
  PROVE  \E x \in S : \A y \in S : x <= y
<1>1. PICK x \in S : \A y \in S : ~(<<y, x>> \in OpToRel(<, Nat))
  BY NatLessThanWellFounded, WFMin
<1>2. \A y \in S : ~(y < x)
  BY <1>1 DEF OpToRel
<1> QED BY <1>2

\* A set of naturals that has every number whose predecessors it has is Nat.
LEMMA NumberInduct ==
  ASSUME NEW P \in SUBSET Nat,
         \A n \in Nat : (\A m \in Nat : m < n => m \in P) => n \in P
  PROVE  P = Nat
<1> SUFFICES ASSUME Nat \ P # {} PROVE FALSE
  OBVIOUS
<1>1. PICK n \in Nat \ P : \A m \in Nat \ P : n <= m
  BY LeastOf
<1> QED BY <1>1

\* A finite set that is not empty has a first member in any strict order R.
LEMMA FirstOf ==
  ASSUME NEW S, IsFiniteSet(S), S # {}, NEW R,
         \A x \in S : <<x, x>> \notin R,
         \A x, y, z \in S : <<x, y>> \in R /\ <<y, z>> \in R => <<x, z>> \in R
  PROVE  \E x \in S : \A y \in S : <<y, x>> \notin R
<1> DEFINE B(x) == {y \in S : <<y, x>> \in R}
           N == {Cardinality(B(x)) : x \in S}
<1>1. \A x \in S : IsFiniteSet(B(x)) /\ Cardinality(B(x)) \in Nat
  BY FS_Subset, FS_CardinalityType
<1>2. PICK n \in N : \A k \in N : n <= k
  <2>1. N \in SUBSET Nat /\ N # {}
    <3> HIDE DEF B
    <3> QED BY <1>1
  <2> HIDE DEF N
  <2> QED BY <2>1, LeastOf
<1>3. PICK x \in S : n = Cardinality(B(x))
  OBVIOUS
<1>4. ASSUME NEW y \in S, <<y, x>> \in R PROVE FALSE
  <2>1. B(y) \in SUBSET B(x)
    BY <1>4
  <2>2. y \in B(x) /\ y \notin B(y)
    BY <1>4
  <2>3. Cardinality(B(y)) <= Cardinality(B(x)) /\ Cardinality(B(x)) # Cardinality(B(y))
    <3> HIDE DEF B
    <3> QED BY <1>1, <2>1, <2>2, FS_Subset
  <2>4. Cardinality(B(x)) <= Cardinality(B(y))
    <3> HIDE DEF B
    <3> QED BY <1>2, <1>3
  <2> HIDE DEF B
  <2> QED BY <1>1, <2>3, <2>4
<1> QED BY <1>4

USE ReceiptAssumption

-----------------------------------------------------------------------------
(* The invariant *)

Signed == {i \in Ids : receipt[i] # NoReceipt}
Records == [host : Members, requester : Members, time : Times]
Phases == {"idle", "peers", "ask", "asked", "answered"}
Statuses == {"none", "local", "replicated"}

Rounds ==
  [pc : Phases, todo : SUBSET Members, push : SUBSET Ids, peer : Members \cup {Nobody},
   page : 0..(MaxPages - 1), pageCursors : SUBSET Ids, held : SUBSET Ids,
   pull : SUBSET Ids, owed : SUBSET Ids]

\* Every variable stays in its domain, and only finitely many receipts have been
\* signed so far.
Typed ==
  /\ receipt \in [Ids -> Records \cup {NoReceipt}]
  /\ wire \cup acks \subseteq Signed
  /\ store \in [Members -> [Ids -> Statuses]]
  /\ \A m \in Members : ListReceiptIDs(m) \subseteq Signed
  /\ optOut \in [Members -> BOOLEAN]
  /\ roster \in [Members -> SUBSET Members]
  /\ now \in Times
  /\ sync \in [Members -> Rounds]
  /\ IsFiniteSet(Signed)

\* A page cursor j hides i from the pages that follow.
Passed(i, j) == SamePair(i, j) /\ (i = j \/ InPair(i, j))

\* What holds of the round at member m wherever it is.
Carried(m) ==
  LET s == sync[m]
  IN  /\ s.push \cup s.held \subseteq ListReceiptIDs(m)
      /\ s.pull \cup s.pageCursors \subseteq Signed
      /\ s.pc \in {"ask", "asked", "answered"} => s.peer \in Members
      /\ s.owed # {} => s.peer \in Members /\ s.owed \subseteq ListReceiptIDs(s.peer)
      /\ \A i \in s.owed : VerifyReceipt(m, i)

\* Between two pages: what is still owed lies ahead of the cursors.
Ahead(m) ==
  LET s == sync[m]
  IN  /\ s.pc \in {"idle", "peers"} => s.page = 0
      /\ s.pc # "answered" =>
           IF s.page = 0 THEN s.owed = {} /\ s.pageCursors = {}
           ELSE /\ s.pageCursors # {}
                /\ \A i \in s.owed \ ListReceiptIDs(m) : \A j \in s.pageCursors : ~Passed(i, j)

\* When an answer is there: what is still owed is in it, or comes after it.
Coming(m) ==
  LET s == sync[m]
  IN  s.pc = "answered" =>
        \A i \in s.owed \ ListReceiptIDs(m) :
          i \in s.pull \/ (s.pull # {} /\ \A j \in s.pull : ~Passed(i, j))

SessionOK(m) == Carried(m) /\ Ahead(m) /\ Coming(m)

\* The inductive invariant.
ReceiptInv == Typed /\ \A m \in Members : SessionOK(m)

\* A receipt that was signed has its fields.
LEMMA SignedFacts ==
  ASSUME receipt \in [Ids -> Records \cup {NoReceipt}], NEW i \in Signed
  PROVE  /\ i \in Ids /\ i \in Nat
         /\ receipt[i] \in Records
         /\ Host(i) \in Members /\ Requester(i) \in Members /\ Time(i) \in Times
         /\ Host(i) \in Nat /\ Requester(i) \in Nat /\ Time(i) \in Nat
<1>1. i \in Ids /\ receipt[i] \in Records
  BY DEF Signed
<1>2. Host(i) \in Members /\ Requester(i) \in Members /\ Time(i) \in Times
  BY <1>1 DEF Records, Host, Requester, Time
<1>3. \A t \in Times : t \in Nat
  BY DEF Times
<1> QED BY <1>1, <1>2, <1>3

\* A round has its fields.
LEMMA RoundFacts ==
  ASSUME sync \in [Members -> Rounds], NEW m \in Members
  PROVE  /\ sync[m] \in Rounds
         /\ sync[m].pc \in Phases /\ sync[m].todo \in SUBSET Members
         /\ sync[m].push \in SUBSET Ids /\ sync[m].peer \in Members \cup {Nobody}
         /\ sync[m].page \in 0..(MaxPages - 1) /\ sync[m].pageCursors \in SUBSET Ids
         /\ sync[m].held \in SUBSET Ids /\ sync[m].pull \in SUBSET Ids
         /\ sync[m].owed \in SUBSET Ids
<1>1. sync[m] \in Rounds
  OBVIOUS
<1> QED BY <1>1 DEF Rounds

\* The fresh rounds.
LEMMA RoundType ==
  ASSUME NEW pc \in Phases, NEW todo \in SUBSET Members, NEW push \in SUBSET Ids
  PROVE  Round(pc, todo, push) \in Rounds
<1>1. 0 \in 0..(MaxPages - 1)
  OBVIOUS
<1> QED BY <1>1 DEF Round, Rounds, Nobody

\* TypeOK is what the runs check of Typed.
LEMMA TypedTypeOK == Typed => TypeOK
<1> SUFFICES ASSUME Typed PROVE TypeOK
  OBVIOUS
<1>1. /\ receipt \in [Ids -> [host : Members, requester : Members, time : Times] \cup {NoReceipt}]
      /\ wire \cup acks \subseteq {i \in Ids : receipt[i] # NoReceipt}
      /\ store \in [Members -> [Ids -> {"none", "local", "replicated"}]]
      /\ \A m \in Members : \A i \in ListReceiptIDs(m) : receipt[i] # NoReceipt
      /\ optOut \in [Members -> BOOLEAN] /\ roster \in [Members -> SUBSET Members]
      /\ now \in Times
  BY DEF Typed, Records, Signed, Statuses
<1>2. ASSUME NEW m \in Members
      PROVE  /\ sync[m].pc \in {"idle", "peers", "ask", "asked", "answered"}
             /\ sync[m].page \in 0..(MaxPages - 1)
             /\ sync[m].peer \in Members \cup {Nobody}
             /\ sync[m].push \cup sync[m].held \cup sync[m].pull \subseteq Ids
  BY RoundFacts DEF Typed, Phases
<1> QED BY <1>1, <1>2 DEF TypeOK

-----------------------------------------------------------------------------
(* What every step does *)

\* Receipts are never changed, and what a member holds or knows only grows.
Grows ==
  /\ \A i \in Signed : i \in Signed' /\ receipt'[i] = receipt[i]
  /\ \A m \in Members : ListReceiptIDs(m) \subseteq ListReceiptIDs(m)'
  /\ \A m \in Members : roster[m] \subseteq roster'[m]

\* SaveReceipt adds the set to what the member holds.
LEMMA SaveFacts ==
  ASSUME store \in [Members -> [Ids -> Statuses]], NEW m \in Members,
         NEW set \in SUBSET Ids, NEW status \in {"local", "replicated"},
         store' = SaveReceipt(m, set, status)
  PROVE  /\ store' \in [Members -> [Ids -> Statuses]]
         /\ ListReceiptIDs(m)' = ListReceiptIDs(m) \cup set
         /\ \A k \in Members \ {m} : ListReceiptIDs(k)' = ListReceiptIDs(k)
         /\ \A k \in Members : ListReceiptIDs(k) \subseteq ListReceiptIDs(k)'
<1>1. store' = [store EXCEPT ![m] = [i \in Ids |-> IF i \in set THEN status ELSE store[m][i]]]
  BY DEF SaveReceipt
<1>2. store' \in [Members -> [Ids -> Statuses]]
  <2>1. [i \in Ids |-> IF i \in set THEN status ELSE store[m][i]] \in [Ids -> Statuses]
    <3>1. status \in Statuses
      BY DEF Statuses
    <3>2. store[m] \in [Ids -> Statuses]
      OBVIOUS
    <3>3. \A i \in Ids : (IF i \in set THEN status ELSE store[m][i]) \in Statuses
      BY <3>1, <3>2
    <3> QED BY <3>3
  <2> QED BY <1>1, <2>1
<1>3. \A i \in Ids : store'[m][i] = IF i \in set THEN status ELSE store[m][i]
  BY <1>1
<1>4. \A k \in Members \ {m} : store'[k] = store[k]
  BY <1>1
<1>5. ListReceiptIDs(m)' = ListReceiptIDs(m) \cup set
  BY <1>3 DEF ListReceiptIDs
<1>6. \A k \in Members \ {m} : ListReceiptIDs(k)' = ListReceiptIDs(k)
  BY <1>4 DEF ListReceiptIDs
<1> QED BY <1>2, <1>5, <1>6

\* A step that leaves the receipts alone and adds signed ones to one store.
LEMMA SaveGrows ==
  ASSUME Typed, NEW m \in Members, NEW set \in SUBSET Signed,
         NEW status \in {"local", "replicated"},
         store' = SaveReceipt(m, set, status), UNCHANGED <<receipt, roster>>
  PROVE  /\ Grows
         /\ Signed' = Signed
         /\ store' \in [Members -> [Ids -> Statuses]]
         /\ \A k \in Members : ListReceiptIDs(k)' \subseteq Signed'
         /\ ListReceiptIDs(m)' = ListReceiptIDs(m) \cup set
<1>1. Signed' = Signed /\ set \in SUBSET Ids
  BY DEF Signed
<1>2. store \in [Members -> [Ids -> Statuses]] /\ \A k \in Members : ListReceiptIDs(k) \subseteq Signed
  BY DEF Typed
<1>3. /\ store' \in [Members -> [Ids -> Statuses]]
      /\ ListReceiptIDs(m)' = ListReceiptIDs(m) \cup set
      /\ \A k \in Members \ {m} : ListReceiptIDs(k)' = ListReceiptIDs(k)
      /\ \A k \in Members : ListReceiptIDs(k) \subseteq ListReceiptIDs(k)'
  BY <1>1, <1>2, SaveFacts
<1>4. \A k \in Members : ListReceiptIDs(k)' \subseteq Signed'
  BY <1>1, <1>2, <1>3
<1> QED BY <1>1, <1>3, <1>4 DEF Grows

\* A step that leaves receipts, stores and rosters alone.
LEMMA StillGrows ==
  ASSUME Typed, UNCHANGED <<receipt, store, roster>>
  PROVE  /\ Grows /\ Signed' = Signed
         /\ \A k \in Members : ListReceiptIDs(k)' = ListReceiptIDs(k)
BY DEF Grows, Signed, ListReceiptIDs

\* Passed and VerifyReceipt are about signed receipts, which stay what they are.
LEMMA FactsKept ==
  ASSUME Typed, Grows, NEW i \in Signed
  PROVE  /\ \A j \in Signed : Passed(i, j)' <=> Passed(i, j)
         /\ \A m \in Members : VerifyReceipt(m, i) => VerifyReceipt(m, i)'
<1>1. \A j \in Signed : receipt'[j] = receipt[j]
  BY DEF Grows
<1>2. \A m \in Members : roster[m] \subseteq roster'[m]
  BY DEF Grows
<1>3. \A m \in Members : VerifyReceipt(m, i) => VerifyReceipt(m, i)'
  BY <1>1, <1>2 DEF VerifyReceipt, VerifyHost, VerifyRequester, Host, Requester
<1>4. \A j \in Signed : Passed(i, j)' <=> Passed(i, j)
  BY <1>1 DEF Passed, SamePair, InPair, Host, Requester, Time
<1> QED BY <1>3, <1>4

\* A round that a step does not touch keeps its place.
LEMMA SessionKept ==
  ASSUME ReceiptInv, Grows, NEW m \in Members, sync'[m] = sync[m]
  PROVE  SessionOK(m)'
<1> DEFINE s == sync[m]
<1>1. Typed /\ Carried(m) /\ Ahead(m) /\ Coming(m)
  BY DEF ReceiptInv, SessionOK
<1>2. s \in Rounds /\ \A k \in Members : ListReceiptIDs(k) \subseteq Signed
  BY <1>1 DEF Typed
<1>3. /\ s.push \cup s.held \subseteq ListReceiptIDs(m)
      /\ s.pull \cup s.pageCursors \subseteq Signed
      /\ s.pc \in {"ask", "asked", "answered"} => s.peer \in Members
      /\ s.owed # {} => s.peer \in Members /\ s.owed \subseteq ListReceiptIDs(s.peer)
      /\ \A i \in s.owed : VerifyReceipt(m, i)
  BY <1>1 DEF Carried
<1>4. s.owed \subseteq Signed
  BY <1>2, <1>3
<1>5. /\ \A i \in Signed : i \in Signed'
      /\ \A k \in Members : ListReceiptIDs(k) \subseteq ListReceiptIDs(k)'
  BY DEF Grows
<1>6. Carried(m)'
  <2>1. \A i \in s.owed : VerifyReceipt(m, i)'
    BY <1>1, <1>3, <1>4, FactsKept
  <2>2. /\ s.owed # {} => s.peer \in Members
        /\ \A k \in Members : s.owed # {} /\ k = s.peer => s.owed \subseteq ListReceiptIDs(k)'
    BY <1>3, <1>5
  <2>3. /\ s.push \cup s.held \subseteq ListReceiptIDs(m)'
        /\ s.pull \cup s.pageCursors \subseteq Signed'
    BY <1>3, <1>5
  <2>4. sync'[m] = s
    OBVIOUS
  <2> HIDE DEF s
  <2> QED BY <1>3, <2>1, <2>2, <2>3, <2>4 DEF Carried
<1>7. \A i \in s.owed : \A j \in s.pageCursors \cup s.pull : Passed(i, j)' => Passed(i, j)
  BY <1>1, <1>3, <1>4, FactsKept
<1>8. Ahead(m)'
  <2>1. /\ s.pc \in {"idle", "peers"} => s.page = 0
        /\ s.pc # "answered" =>
             IF s.page = 0 THEN s.owed = {} /\ s.pageCursors = {}
             ELSE /\ s.pageCursors # {}
                  /\ \A i \in s.owed \ ListReceiptIDs(m) :
                       \A j \in s.pageCursors : ~Passed(i, j)
    BY <1>1 DEF Ahead
  <2>2. /\ s.pc \in {"idle", "peers"} => s.page = 0
        /\ s.pc # "answered" =>
             IF s.page = 0 THEN s.owed = {} /\ s.pageCursors = {}
             ELSE /\ s.pageCursors # {}
                  /\ \A i \in s.owed \ ListReceiptIDs(m)' :
                       \A j \in s.pageCursors : ~Passed(i, j)'
    <3> HIDE DEF s
    <3> QED BY <1>5, <1>7, <2>1
  <2>3. sync'[m] = s
    OBVIOUS
  <2> HIDE DEF s
  <2> QED BY <2>2, <2>3 DEF Ahead
<1>9. Coming(m)'
  <2>1. s.pc = "answered" =>
          \A i \in s.owed \ ListReceiptIDs(m) :
            i \in s.pull \/ (s.pull # {} /\ \A j \in s.pull : ~Passed(i, j))
    BY <1>1 DEF Coming
  <2>2. s.pc = "answered" =>
          \A i \in s.owed \ ListReceiptIDs(m)' :
            i \in s.pull \/ (s.pull # {} /\ \A j \in s.pull : ~Passed(i, j)')
    <3> HIDE DEF s
    <3> QED BY <1>5, <1>7, <2>1
  <2>3. sync'[m] = s
    OBVIOUS
  <2> HIDE DEF s
  <2> QED BY <2>2, <2>3 DEF Coming
<1> QED BY <1>6, <1>8, <1>9 DEF SessionOK

-----------------------------------------------------------------------------
(* Pages and cursors *)

\* Before and the order of a pair are strict orders on the signed receipts.
LEMMA Orders ==
  ASSUME Typed
  PROVE  /\ \A i \in Signed : ~Before(i, i) /\ ~InPair(i, i)
         /\ \A i, j, k \in Signed : Before(i, j) /\ Before(j, k) => Before(i, k)
         /\ \A i, j, k \in Signed : InPair(i, j) /\ InPair(j, k) => InPair(i, k)
<1>1. \A i \in Signed : /\ i \in Nat /\ Host(i) \in Nat
                        /\ Requester(i) \in Nat /\ Time(i) \in Nat
  BY SignedFacts DEF Typed
<1>2. \A i \in Signed : ~Before(i, i) /\ ~InPair(i, i)
  BY <1>1 DEF Before, SamePair, InPair
<1>3. \A i, j, k \in Signed : InPair(i, j) /\ InPair(j, k) => InPair(i, k)
  BY <1>1 DEF InPair
<1>4. \A i, j, k \in Signed : Before(i, j) /\ Before(j, k) => Before(i, k)
  BY <1>1, <1>3 DEF Before, SamePair
<1> QED BY <1>2, <1>3, <1>4

\* A page is a beginning of what the requester wants: not empty unless nothing
\* is wanted, and nothing that it leaves out is hidden by what it holds.
LEMMA PageFacts ==
  ASSUME Typed, NEW Q \in SUBSET Signed, NEW held, NEW cursors
  PROVE  LET pull == ListReceiptsAfterCursor(Q, held, cursors)
         IN  /\ pull \subseteq Q
             /\ \A i \in Q \ pull : \/ Skipped(i, held, cursors)
                                    \/ pull # {} /\ \A j \in pull : ~Passed(i, j)
<1> DEFINE want == {i \in Q : ~Skipped(i, held, cursors)}
           B(i) == {j \in want : Before(j, i)}
           pull == {i \in want : Cardinality(B(i)) < PageSize}
<1>1. pull = ListReceiptsAfterCursor(Q, held, cursors)
  BY DEF ListReceiptsAfterCursor
<1>2. want \in SUBSET Signed /\ IsFiniteSet(Signed)
  BY DEF Typed
<1>3. IsFiniteSet(want) /\ \A i \in want : IsFiniteSet(B(i)) /\ Cardinality(B(i)) \in Nat
  <2> HIDE DEF want
  <2>1. IsFiniteSet(want)
    BY <1>2, FS_Subset
  <2>2. \A i \in want : B(i) \in SUBSET want
    OBVIOUS
  <2> HIDE DEF B
  <2> QED BY <2>1, <2>2, FS_Subset, FS_CardinalityType
<1>4. ASSUME want # {} PROVE pull # {}
  <2> DEFINE R == {p \in want \X want : Before(p[1], p[2])}
  <2>1. PICK i \in want : \A j \in want : <<j, i>> \notin R
    <3>1. \A x \in want : <<x, x>> \notin R
      BY <1>2, Orders
    <3>2. \A x, y, z \in want : <<x, y>> \in R /\ <<y, z>> \in R => <<x, z>> \in R
      BY <1>2, Orders
    <3> HIDE DEF R, want
    <3> QED BY <1>3, <1>4, <3>1, <3>2, FirstOf
  <2>2. B(i) = {}
    BY <2>1
  <2>3. Cardinality(B(i)) = 0
    BY <2>2, FS_EmptySet
  <2>4. i \in pull
    <3> HIDE DEF B, want
    <3> QED BY <2>3
  <2> QED BY <2>4
<1>5. ASSUME NEW i \in want, i \notin pull, NEW j \in pull PROVE ~Passed(i, j)
  <2> SUFFICES ASSUME Passed(i, j) PROVE FALSE
    OBVIOUS
  <2>1. Before(i, j) /\ j \in want
    BY <1>5 DEF Passed, Before
  <2>2. B(i) \in SUBSET B(j)
    BY <1>2, <2>1, Orders
  <2>3. Cardinality(B(i)) <= Cardinality(B(j))
    <3> HIDE DEF B, want
    <3> QED BY <1>3, <2>1, <2>2, FS_Subset
  <2>4. Cardinality(B(j)) < PageSize /\ ~(Cardinality(B(i)) < PageSize)
    <3> HIDE DEF B, want
    <3> QED BY <1>5
  <2> HIDE DEF B, want
  <2> QED BY <1>3, <2>1, <2>3, <2>4
<1>6. pull \subseteq Q
  OBVIOUS
<1>7. ASSUME NEW i \in Q, i \notin pull, ~Skipped(i, held, cursors)
      PROVE  pull # {} /\ \A j \in pull : ~Passed(i, j)
  <2>1. i \in want
    BY <1>7
  <2> HIDE DEF want, pull
  <2> QED BY <1>4, <1>5, <1>7, <2>1
<1> HIDE DEF want, pull
<1> QED BY <1>1, <1>6, <1>7

\* A page that is not empty has page cursors.
LEMMA CursorFacts ==
  ASSUME Typed, NEW pull \in SUBSET Signed, pull # {}
  PROVE  NextPageCursors(pull) # {} /\ NextPageCursors(pull) \subseteq pull
<1> DEFINE R == {p \in pull \X pull : SamePair(p[2], p[1]) /\ InPair(p[2], p[1])}
<1>1. IsFiniteSet(pull)
  BY FS_Subset DEF Typed
<1>2. \A x \in pull : <<x, x>> \notin R
  BY Orders
<1>3. \A x, y, z \in pull : <<x, y>> \in R /\ <<y, z>> \in R => <<x, z>> \in R
  BY Orders DEF SamePair
<1>4. PICK i \in pull : \A j \in pull : <<j, i>> \notin R
  <2> HIDE DEF R
  <2> QED BY <1>1, <1>2, <1>3, FirstOf
<1>5. i \in NextPageCursors(pull)
  BY <1>4 DEF NextPageCursors
<1> QED BY <1>5 DEF NextPageCursors

\* The cursor of a pair is the time of a receipt held of it, or below all.
LEMMA CursorTime ==
  ASSUME Typed, NEW held \in SUBSET Signed, NEW i \in Signed,
         Time(i) <= ReceiptCursor(held, i)
  PROVE  \E j \in held : SamePair(i, j) /\ Time(i) <= Time(j)
<1> DEFINE T == {Time(j) : j \in {k \in held : SamePair(i, k)}}
           S == {-1} \cup T
<1>1. \A j \in Signed : Time(j) \in Nat /\ Time(j) \in 0..MaxTime
  BY SignedFacts DEF Typed, Times
<1>2. S \in SUBSET Int /\ S # {} /\ \A x \in S : x <= MaxTime
  BY <1>1
<1>3. \E x \in S : \A y \in S : x >= y
  <2> DEFINE N == {MaxTime - x : x \in S}
  <2>1. N \in SUBSET Nat /\ N # {}
    <3> HIDE DEF S
    <3> QED BY <1>2
  <2>2. PICK n \in N : \A k \in N : n <= k
    <3> HIDE DEF N
    <3> QED BY <2>1, LeastOf
  <2>3. PICK x \in S : n = MaxTime - x
    OBVIOUS
  <2>4. \A y \in S : x >= y
    <3> SUFFICES ASSUME NEW y \in S PROVE x >= y
      OBVIOUS
    <3>1. MaxTime - y \in N
      <4> HIDE DEF S
      <4> QED OBVIOUS
    <3>2. n <= MaxTime - y
      <4> HIDE DEF N, S
      <4> QED BY <2>2, <3>1
    <3>3. x \in Int /\ y \in Int
      <4> HIDE DEF S
      <4> QED BY <1>2
    <3> HIDE DEF S, N
    <3> QED BY <2>3, <3>2, <3>3
  <2> QED BY <2>4
<1>4. Max(S) \in S
  <2> HIDE DEF S
  <2> QED BY <1>3, Zenon DEF Max
<1>5. ReceiptCursor(held, i) = Max(S)
  BY DEF ReceiptCursor
<1>6. Max(S) # -1
  BY <1>1, <1>5
<1> QED BY <1>4, <1>5, <1>6

\* Nothing that a first request asks for is passed over when it is served.
LEMMA AskedNotSkipped ==
  ASSUME Typed, NEW Q \in SUBSET Signed, NEW held \in SUBSET Signed, NEW i \in AskedFor(Q, held)
  PROVE  i \in Q /\ ~Skipped(i, held, {})
<1>1. i \in Q /\ i \in Signed
  BY DEF AskedFor
<1>2. IsFiniteSet(held) /\ Cardinality(held) \in Nat
  BY FS_Subset, FS_CardinalityType DEF Typed
<1>3. \A j \in Signed : Time(j) \in Nat
  BY SignedFacts DEF Typed
<1>4. CASE Cardinality(held) <= KnownLimit
  <2>1. KnownIDs(held) = held /\ i \notin held
    BY <1>2, <1>4 DEF KnownIDs, AskedFor
  <2>2. held = {} => ~(Time(i) <= ReceiptCursor(held, i))
    BY <1>1, CursorTime
  <2> QED BY <1>1, <2>1, <2>2 DEF Skipped
<1>5. CASE Cardinality(held) > KnownLimit
  <2>1. KnownIDs(held) = {} /\ \A j \in held : SamePair(i, j) => Time(j) < Time(i)
    BY <1>2, <1>5 DEF KnownIDs, AskedFor
  <2>2. ~(Time(i) <= ReceiptCursor(held, i))
    BY <1>1, <1>3, <2>1, CursorTime
  <2> QED BY <1>1, <2>1, <2>2 DEF Skipped
<1> QED BY <1>2, <1>4, <1>5

-----------------------------------------------------------------------------
(* The steps that touch no round *)

\* What remains to be shown of a step whose effect on the rounds is known to be
\* confined to one member.
LEMMA OthersKept ==
  ASSUME ReceiptInv, Grows, NEW m \in Members, Typed', SessionOK(m)',
         \A k \in Members \ {m} : sync'[k] = sync[k]
  PROVE  ReceiptInv'
<1>1. \A k \in Members \ {m} : SessionOK(k)'
  BY SessionKept
<1> QED BY <1>1 DEF ReceiptInv

\* Nor has anything to be shown of a step that touches none.
LEMMA AllKept ==
  ASSUME ReceiptInv, Grows, Typed', sync' = sync
  PROVE  ReceiptInv'
<1>1. \A k \in Members : SessionOK(k)'
  BY SessionKept
<1> QED BY <1>1 DEF ReceiptInv

\* The host signs a receipt for an answer.
LEMMA SignHostKeeps ==
  ASSUME ReceiptInv, NEW i \in Ids, SignHost(i)
  PROVE  ReceiptInv'
<1> DEFINE r == [host |-> Asks[i].host, requester |-> Asks[i].requester, time |-> now]
<1>1. Typed
  BY DEF ReceiptInv
<1>2. /\ receipt[i] = NoReceipt /\ receipt' = [receipt EXCEPT ![i] = r]
      /\ wire' = wire \cup {i}
      /\ UNCHANGED <<acks, store, optOut, roster, now, sync>>
  BY DEF SignHost
<1>3. r \in Records
  BY <1>1 DEF Typed, Records
<1>4. r # NoReceipt
  <2>1. r.host # 0 /\ NoReceipt.host = 0
    BY DEF NoReceipt
  <2> HIDE DEF r
  <2> QED BY <2>1
<1> HIDE DEF r
<1>5. receipt' \in [Ids -> Records \cup {NoReceipt}]
  BY <1>1, <1>2, <1>3 DEF Typed
<1>6. Signed' = Signed \cup {i} /\ \A k \in Signed : receipt'[k] = receipt[k]
  BY <1>1, <1>2, <1>4 DEF Signed, Typed
<1>7. \A m \in Members : ListReceiptIDs(m)' = ListReceiptIDs(m)
  BY <1>2 DEF ListReceiptIDs
<1>8. Grows
  BY <1>2, <1>6, <1>7 DEF Grows
<1>9. IsFiniteSet(Signed')
  BY <1>1, <1>6, FS_AddElement DEF Typed
<1>10. Typed'
  BY <1>1, <1>2, <1>5, <1>6, <1>7, <1>9 DEF Typed
<1> QED BY <1>2, <1>8, <1>10, AllKept

\* The requester takes the receipt, or not.
LEMMA InboundReceiptKeeps ==
  ASSUME ReceiptInv, NEW i \in Ids, InboundReceipt(i)
  PROVE  ReceiptInv'
<1> DEFINE m == Requester(i)
<1>1. Typed /\ i \in Signed
  BY DEF ReceiptInv, Typed, InboundReceipt
<1>2. m \in Members
  BY <1>1, SignedFacts DEF Typed
<1>3. wire' = wire \ {i} /\ UNCHANGED <<receipt, optOut, roster, now, sync>>
  BY DEF InboundReceipt
<1>4. CASE UNCHANGED <<acks, store>>
  <2>1. Grows /\ Signed' = Signed /\ \A k \in Members : ListReceiptIDs(k)' = ListReceiptIDs(k)
    BY <1>1, <1>3, <1>4, StillGrows
  <2>2. Typed'
    BY <1>1, <1>3, <1>4, <2>1 DEF Typed
  <2> QED BY <1>3, <2>1, <2>2, AllKept
<1>5. CASE store' = SaveReceipt(m, {i}, "local") /\ acks' = acks \cup {i}
  <2> HIDE DEF m
  <2>1. /\ Grows /\ Signed' = Signed /\ store' \in [Members -> [Ids -> Statuses]]
        /\ \A k \in Members : ListReceiptIDs(k)' \subseteq Signed'
    BY <1>1, <1>2, <1>3, <1>5, SaveGrows
  <2>2. Typed'
    BY <1>1, <1>3, <1>5, <2>1 DEF Typed
  <2> QED BY <1>3, <2>1, <2>2, AllKept
<1> QED BY <1>4, <1>5 DEF InboundReceipt

\* The host takes the counter-signed receipt, or not.
LEMMA ContributionsAckKeeps ==
  ASSUME ReceiptInv, NEW i \in Ids, ContributionsAck(i)
  PROVE  ReceiptInv'
<1> DEFINE m == Host(i)
<1>1. Typed /\ i \in Signed
  BY DEF ReceiptInv, Typed, ContributionsAck
<1>2. m \in Members
  BY <1>1, SignedFacts DEF Typed
<1>3. acks' = acks \ {i} /\ UNCHANGED <<receipt, wire, optOut, roster, now, sync>>
  BY DEF ContributionsAck
<1>4. CASE store' = store
  <2>1. Grows /\ Signed' = Signed /\ \A k \in Members : ListReceiptIDs(k)' = ListReceiptIDs(k)
    BY <1>1, <1>3, <1>4, StillGrows
  <2>2. Typed'
    BY <1>1, <1>3, <1>4, <2>1 DEF Typed
  <2> QED BY <1>3, <2>1, <2>2, AllKept
<1>5. CASE store' = SaveReceipt(m, {i}, "replicated")
  <2> HIDE DEF m
  <2>1. /\ Grows /\ Signed' = Signed /\ store' \in [Members -> [Ids -> Statuses]]
        /\ \A k \in Members : ListReceiptIDs(k)' \subseteq Signed'
    BY <1>1, <1>2, <1>3, <1>5, SaveGrows
  <2>2. Typed'
    BY <1>1, <1>3, <1>5, <2>1 DEF Typed
  <2> QED BY <1>3, <2>1, <2>2, AllKept
<1> QED BY <1>4, <1>5 DEF ContributionsAck

\* The owner's setting, and the clock.
LEMMA SettingsAndTickKeep ==
  ASSUME ReceiptInv,
         Tick \/ \E m \in Members : SaveContributionsSettings(m)
  PROVE  ReceiptInv'
<1>1. Typed
  BY DEF ReceiptInv
<1>2. UNCHANGED <<receipt, wire, acks, store, roster, sync>>
  BY DEF Tick, SaveContributionsSettings
<1>3. Grows /\ Signed' = Signed /\ \A k \in Members : ListReceiptIDs(k)' = ListReceiptIDs(k)
  BY <1>1, <1>2, StillGrows
<1>4. now' \in Times /\ optOut' \in [Members -> BOOLEAN]
  <2>1. CASE Tick
    BY <1>1, <2>1 DEF Typed, Tick, Times
  <2>2. ASSUME NEW m \in Members, SaveContributionsSettings(m)
        PROVE  now' \in Times /\ optOut' \in [Members -> BOOLEAN]
    BY <1>1, <2>2 DEF Typed, SaveContributionsSettings
  <2> QED BY <2>1, <2>2
<1>5. Typed'
  BY <1>1, <1>2, <1>3, <1>4 DEF Typed
<1> QED BY <1>2, <1>3, <1>5, AllKept

\* A roster catches up.
LEMMA LearnMemberKeeps ==
  ASSUME ReceiptInv, NEW m \in Members, NEW n \in Members, LearnMember(m, n)
  PROVE  ReceiptInv'
<1>1. Typed
  BY DEF ReceiptInv
<1>2. /\ roster' = [roster EXCEPT ![m] = @ \cup {n}]
      /\ UNCHANGED <<receipt, wire, acks, store, optOut, now, sync>>
  BY DEF LearnMember
<1>3. Signed' = Signed /\ \A k \in Members : ListReceiptIDs(k)' = ListReceiptIDs(k)
  BY <1>2 DEF Signed, ListReceiptIDs
<1>4. roster' \in [Members -> SUBSET Members] /\ \A k \in Members : roster[k] \subseteq roster'[k]
  BY <1>1, <1>2 DEF Typed
<1>5. Grows
  BY <1>2, <1>3, <1>4 DEF Grows
<1>6. Typed'
  BY <1>1, <1>2, <1>3, <1>4 DEF Typed
<1> QED BY <1>2, <1>5, <1>6, AllKept

-----------------------------------------------------------------------------
(* The steps of a round *)

\* A round without a session owes nothing.
LEMMA FreshSession ==
  ASSUME NEW m \in Members, NEW pc \in {"idle", "peers"}, NEW todo, NEW push,
         sync'[m] = Round(pc, todo, push), push \subseteq ListReceiptIDs(m)'
  PROVE  SessionOK(m)'
<1> DEFINE s == sync'[m]
<1>1. /\ s.pc = pc /\ s.push = push /\ s.held = {} /\ s.pull = {} /\ s.pageCursors = {}
      /\ s.owed = {} /\ s.page = 0
  BY DEF Round
<1> HIDE DEF s
<1>2. Carried(m)'
  BY <1>1 DEF Carried, s
<1>3. Ahead(m)' /\ Coming(m)'
  BY <1>1 DEF Ahead, Coming, s
<1> QED BY <1>2, <1>3 DEF SessionOK

\* A step that leaves everything alone but the round of one member.
LEMMA RoundStep ==
  ASSUME ReceiptInv, NEW m \in Members, NEW r \in Rounds,
         sync' = [sync EXCEPT ![m] = r],
         UNCHANGED <<receipt, wire, acks, store, optOut, roster, now>>
  PROVE  /\ Grows /\ Typed' /\ Signed' = Signed /\ sync'[m] = r
         /\ \A k \in Members : ListReceiptIDs(k)' = ListReceiptIDs(k)
         /\ SessionOK(m)' => ReceiptInv'
<1>1. Typed
  BY DEF ReceiptInv
<1>2. Grows /\ Signed' = Signed /\ \A k \in Members : ListReceiptIDs(k)' = ListReceiptIDs(k)
  BY <1>1, StillGrows
<1>3. /\ sync' \in [Members -> Rounds] /\ sync'[m] = r
      /\ \A k \in Members \ {m} : sync'[k] = sync[k]
  BY <1>1 DEF Typed
<1>4. Typed'
  BY <1>1, <1>2, <1>3 DEF Typed
<1> QED BY <1>2, <1>3, <1>4, OthersKept

\* Rounds begin, end and leave a peer with nothing owed.
LEMMA StartKeeps ==
  ASSUME ReceiptInv, NEW m \in Members,
         SyncStart(m) \/ SyncFails(m) \/ SyncCancelled(m)
  PROVE  ReceiptInv'
<1>1. Typed /\ Carried(m) /\ sync[m] \in Rounds
  BY RoundFacts DEF ReceiptInv, SessionOK, Typed
<1>2. sync[m].push \subseteq ListReceiptIDs(m) /\ sync[m].push \in SUBSET Ids
      /\ sync[m].todo \in SUBSET Members
  BY <1>1, RoundFacts DEF Carried, Typed
<1>3. UNCHANGED <<receipt, wire, acks, store, optOut, roster, now>>
  BY DEF SyncStart, SyncFails, SyncCancelled
<1>4. PICK pc \in {"idle", "peers"}, todo \in SUBSET Members, push \in SUBSET ListReceiptIDs(m) :
        sync' = [sync EXCEPT ![m] = Round(pc, todo, push)]
  <2>1. CASE SyncStart(m)
    <3> DEFINE p == {i \in Ids : store[m][i] = "local"}
    <3>1. p \subseteq ListReceiptIDs(m)
      BY DEF ListReceiptIDs
    <3>2. sync' = [sync EXCEPT ![m] = Round("peers", Members \ {m}, p)]
      BY <2>1 DEF SyncStart
    <3> HIDE DEF p
    <3> QED BY <3>1, <3>2
  <2>2. CASE SyncFails(m)
    <3>1. sync' = [sync EXCEPT ![m] = Round("peers", sync[m].todo, sync[m].push)]
      BY <2>2 DEF SyncFails, LeavePeer
    <3> QED BY <1>2, <3>1
  <2>3. CASE SyncCancelled(m)
    <3>1. sync' = [sync EXCEPT ![m] = Round("idle", {}, {})]
      BY <2>3 DEF SyncCancelled, NoSync
    <3> QED BY <3>1
  <2> QED BY <2>1, <2>2, <2>3
<1>5. Round(pc, todo, push) \in Rounds
  <2>1. push \in SUBSET Ids /\ pc \in Phases
    BY DEF ListReceiptIDs, Phases
  <2> QED BY <2>1, RoundType
<1>6. /\ sync'[m] = Round(pc, todo, push) /\ ListReceiptIDs(m)' = ListReceiptIDs(m)
      /\ SessionOK(m)' => ReceiptInv'
  BY <1>3, <1>4, <1>5, RoundStep
<1>7. SessionOK(m)'
  BY <1>6, FreshSession
<1> QED BY <1>6, <1>7

\* A peer is taken up.
LEMMA SyncPeerKeeps ==
  ASSUME ReceiptInv, NEW m \in Members, NEW q \in Members, SyncPeer(m, q)
  PROVE  ReceiptInv'
<1> DEFINE s == sync[m]
           r == [s EXCEPT !.pc = "ask", !.todo = @ \ {q}, !.peer = q]
<1>1. Typed /\ Carried(m) /\ Ahead(m) /\ s \in Rounds
  BY RoundFacts DEF ReceiptInv, SessionOK, Typed
<1>2. /\ r \in Rounds /\ r.pc = "ask" /\ r.peer = q /\ r.page = s.page /\ r.push = s.push
      /\ r.held = s.held /\ r.pull = s.pull /\ r.pageCursors = s.pageCursors /\ r.owed = s.owed
  <2> HIDE DEF s
  <2> QED BY <1>1 DEF Rounds, Phases
<1>3. sync' = [sync EXCEPT ![m] = r] /\ s.pc = "peers"
      /\ UNCHANGED <<receipt, wire, acks, store, optOut, roster, now>>
  BY <1>1 DEF SyncPeer, Typed
<1>4. /\ s.push \cup s.held \subseteq ListReceiptIDs(m)
      /\ s.pull \cup s.pageCursors \subseteq Signed
      /\ s.page = 0 /\ s.owed = {} /\ s.pageCursors = {}
  BY <1>1, <1>3 DEF Carried, Ahead
<1> HIDE DEF r, s
<1>5. /\ sync'[m] = r /\ ListReceiptIDs(m)' = ListReceiptIDs(m) /\ Signed' = Signed
      /\ SessionOK(m)' => ReceiptInv'
  BY <1>2, <1>3, RoundStep
<1>6. Carried(m)'
  BY <1>2, <1>4, <1>5 DEF Carried
<1>7. Ahead(m)' /\ Coming(m)'
  BY <1>2, <1>4, <1>5 DEF Ahead, Coming
<1> QED BY <1>5, <1>6, <1>7 DEF SessionOK

\* A request is made from the store as it is.
LEMMA SyncRequestKeeps ==
  ASSUME ReceiptInv, NEW m \in Members, SyncRequest(m)
  PROVE  ReceiptInv'
<1> DEFINE s == sync[m]
           r == [s EXCEPT !.pc = "asked", !.held = ListReceiptIDs(m)]
<1>1. Typed /\ Carried(m) /\ Ahead(m) /\ s \in Rounds
  BY RoundFacts DEF ReceiptInv, SessionOK, Typed
<1>2. /\ r \in Rounds /\ r.pc = "asked" /\ r.held = ListReceiptIDs(m) /\ r.peer = s.peer
      /\ r.page = s.page /\ r.push = s.push /\ r.pull = s.pull
      /\ r.pageCursors = s.pageCursors /\ r.owed = s.owed
  <2>1. ListReceiptIDs(m) \in SUBSET Ids
    BY DEF ListReceiptIDs
  <2> HIDE DEF s
  <2> QED BY <1>1, <2>1 DEF Rounds, Phases
<1>3. sync' = [sync EXCEPT ![m] = r] /\ s.pc = "ask"
      /\ UNCHANGED <<receipt, wire, acks, store, optOut, roster, now>>
  BY <1>1 DEF SyncRequest, Typed
<1>4. /\ s.push \cup s.held \subseteq ListReceiptIDs(m)
      /\ s.pull \cup s.pageCursors \subseteq Signed
      /\ s.peer \in Members
      /\ s.owed # {} => s.owed \subseteq ListReceiptIDs(s.peer)
      /\ \A i \in s.owed : VerifyReceipt(m, i)
  BY <1>1, <1>3 DEF Carried
<1>5. IF s.page = 0 THEN s.owed = {} /\ s.pageCursors = {}
      ELSE /\ s.pageCursors # {}
           /\ \A i \in s.owed \ ListReceiptIDs(m) : \A j \in s.pageCursors : ~Passed(i, j)
  BY <1>1, <1>3 DEF Ahead
<1>6. s.owed \subseteq Signed
  BY <1>1, <1>4 DEF Typed
<1> HIDE DEF r, s
<1>7. /\ Grows /\ sync'[m] = r /\ Signed' = Signed
      /\ \A k \in Members : ListReceiptIDs(k)' = ListReceiptIDs(k)
      /\ SessionOK(m)' => ReceiptInv'
  BY <1>2, <1>3, RoundStep
<1>8. \A i \in s.owed : /\ VerifyReceipt(m, i)'
                        /\ \A j \in s.pageCursors : Passed(i, j)' => Passed(i, j)
  BY <1>1, <1>4, <1>6, <1>7, FactsKept
<1>9. Carried(m)'
  <2>1. \A k \in Members : s.owed # {} /\ k = s.peer => s.owed \subseteq ListReceiptIDs(k)'
    BY <1>4, <1>7
  <2> QED BY <1>2, <1>4, <1>7, <1>8, <2>1 DEF Carried
<1>10. Ahead(m)'
  <2>1. IF s.page = 0 THEN s.owed = {} /\ s.pageCursors = {}
        ELSE /\ s.pageCursors # {}
             /\ \A i \in s.owed \ ListReceiptIDs(m)' : \A j \in s.pageCursors : ~Passed(i, j)'
    BY <1>5, <1>7, <1>8
  <2> QED BY <1>2, <1>7, <2>1 DEF Ahead
<1>11. Coming(m)'
  BY <1>2, <1>7 DEF Coming
<1> QED BY <1>7, <1>9, <1>10, <1>11 DEF SessionOK

\* A step that files receipts at one member and changes the round of one.
LEMMA FilingStep ==
  ASSUME ReceiptInv, NEW m \in Members, NEW r \in Rounds, sync' = [sync EXCEPT ![m] = r],
         NEW n \in Members, NEW set \in SUBSET Signed,
         store' = SaveReceipt(n, set, "replicated"),
         UNCHANGED <<receipt, wire, acks, optOut, roster, now>>
  PROVE  /\ Grows /\ Typed' /\ Signed' = Signed /\ sync'[m] = r
         /\ ListReceiptIDs(n)' = ListReceiptIDs(n) \cup set
         /\ SessionOK(m)' => ReceiptInv'
<1>1. Typed
  BY DEF ReceiptInv
<1>2. /\ Grows /\ Signed' = Signed /\ store' \in [Members -> [Ids -> Statuses]]
      /\ \A k \in Members : ListReceiptIDs(k)' \subseteq Signed'
      /\ ListReceiptIDs(n)' = ListReceiptIDs(n) \cup set
  BY <1>1, SaveGrows
<1>3. /\ sync' \in [Members -> Rounds] /\ sync'[m] = r
      /\ \A k \in Members \ {m} : sync'[k] = sync[k]
  BY <1>1 DEF Typed
<1>4. Typed'
  BY <1>1, <1>2, <1>3 DEF Typed
<1> QED BY <1>2, <1>3, <1>4, OthersKept

\* The peer files what it is sent and answers with a page.
LEMMA ContributionsSyncKeeps ==
  ASSUME ReceiptInv, NEW m \in Members, ContributionsSync(m)
  PROVE  ReceiptInv'
<1> DEFINE s == sync[m]
           p == s.peer
           pushed == IF s.page = 0 THEN {i \in s.push : VerifyReceipt(p, i)} ELSE {}
           Q == ListReceiptIDs(p) \cup pushed
           pull == ListReceiptsAfterCursor(Q, s.held, s.pageCursors)
           owed == IF s.page > 0 THEN s.owed
                   ELSE {i \in AskedFor(Q, s.held) : VerifyReceipt(m, i)}
           r == [s EXCEPT !.pc = "answered", !.pull = pull, !.owed = owed]
<1>1. Typed /\ Carried(m) /\ Ahead(m) /\ s \in Rounds
  BY RoundFacts DEF ReceiptInv, SessionOK, Typed
<1>2. /\ s.pc = "asked" /\ store' = SaveReceipt(p, pushed, "replicated")
      /\ UNCHANGED <<receipt, wire, acks, optOut, roster, now>>
  BY DEF ContributionsSync
<1>3. sync' = [sync EXCEPT ![m] = r]
  BY <1>1 DEF ContributionsSync, Typed
<1>4. /\ s.push \cup s.held \subseteq ListReceiptIDs(m)
      /\ s.pull \cup s.pageCursors \subseteq Signed
      /\ p \in Members
      /\ s.owed # {} => s.owed \subseteq ListReceiptIDs(p)
      /\ \A i \in s.owed : VerifyReceipt(m, i)
      /\ s.page \in 0..(MaxPages - 1)
  BY <1>1, <1>2, RoundFacts DEF Carried, Typed
<1>5. IF s.page = 0 THEN s.owed = {} /\ s.pageCursors = {}
      ELSE /\ s.pageCursors # {}
           /\ \A i \in s.owed \ ListReceiptIDs(m) : \A j \in s.pageCursors : ~Passed(i, j)
  BY <1>1, <1>2 DEF Ahead
<1>6. /\ \A k \in Members : ListReceiptIDs(k) \subseteq Signed
      /\ s.held \in SUBSET Signed /\ s.owed \in SUBSET Signed
      /\ pushed \in SUBSET Signed /\ Q \in SUBSET Signed
  <2>1. \A k \in Members : ListReceiptIDs(k) \subseteq Signed
    BY <1>1 DEF Typed
  <2>2. s.held \in SUBSET Signed /\ s.owed \in SUBSET Signed /\ s.push \in SUBSET Signed
    BY <1>4, <2>1
  <2>3. pushed \in SUBSET Signed
    BY <2>2
  <2> HIDE DEF pushed
  <2> QED BY <1>4, <2>1, <2>2, <2>3
<1>7. /\ pull \subseteq Q
      /\ \A i \in Q \ pull : \/ Skipped(i, s.held, s.pageCursors)
                             \/ pull # {} /\ \A j \in pull : ~Passed(i, j)
  <2> HIDE DEF Q, s
  <2> QED BY <1>1, <1>6, PageFacts
<1>8. owed \subseteq Q /\ \A i \in owed : VerifyReceipt(m, i)
  <2> HIDE DEF s, pushed
  <2>1. CASE s.page > 0
    BY <1>4, <2>1
  <2>2. CASE ~(s.page > 0)
    BY <2>2 DEF AskedFor
  <2> QED BY <2>1, <2>2
<1>9. ASSUME NEW i \in owed, i \notin ListReceiptIDs(m)
      PROVE  ~Skipped(i, s.held, s.pageCursors)
  <2> HIDE DEF s, Q, pull
  <2>1. CASE s.page > 0
    <3>1. i \in s.owed
      BY <1>9, <2>1
    <3>2. s.pageCursors # {} /\ \A j \in s.pageCursors : ~Passed(i, j)
      BY <1>4, <1>5, <1>9, <2>1, <3>1
    <3>3. i \notin KnownIDs(s.held)
      BY <1>4, <1>9 DEF KnownIDs
    <3> QED BY <3>2, <3>3 DEF Skipped, Passed
  <2>2. CASE ~(s.page > 0)
    <3>1. i \in AskedFor(Q, s.held) /\ s.pageCursors = {}
      BY <1>4, <1>5, <1>9, <2>2
    <3> QED BY <1>1, <1>6, <3>1, AskedNotSkipped
  <2> QED BY <2>1, <2>2
<1>10. pull \in SUBSET Ids /\ owed \in SUBSET Ids
  <2>1. Signed \subseteq Ids
    BY DEF Signed
  <2> HIDE DEF Q, pull, owed
  <2> QED BY <1>6, <1>7, <1>8, <2>1
<1>11. /\ r \in Rounds /\ r.pc = "answered" /\ r.pull = pull /\ r.owed = owed
       /\ r.push = s.push /\ r.held = s.held /\ r.peer = p /\ r.page = s.page
       /\ r.pageCursors = s.pageCursors
  <2>1. s \in Rounds
    BY <1>1
  <2> HIDE DEF s, pull, owed
  <2> QED BY <1>10, <2>1 DEF Rounds, Phases
<1> HIDE DEF s, pushed, pull, owed, r
<1>12. PICK q \in Members : q = p
  BY <1>4
<1>13. /\ Grows /\ Signed' = Signed /\ sync'[m] = r
       /\ ListReceiptIDs(q)' = ListReceiptIDs(q) \cup pushed
       /\ SessionOK(m)' => ReceiptInv'
  <2>1. /\ r \in Rounds /\ pushed \in SUBSET Signed
        /\ store' = SaveReceipt(q, pushed, "replicated")
    BY <1>2, <1>6, <1>11, <1>12
  <2>2. UNCHANGED <<receipt, wire, acks, optOut, roster, now>>
    BY <1>2
  <2> QED BY <1>3, <2>1, <2>2, FilingStep
<1>14. ListReceiptIDs(q)' = Q
  BY <1>12, <1>13
<1> HIDE DEF Q
<1>15. \A k \in Members : ListReceiptIDs(k) \subseteq ListReceiptIDs(k)'
  BY <1>13 DEF Grows
<1>16. \A i \in owed : /\ VerifyReceipt(m, i)'
                       /\ \A j \in pull : Passed(i, j)' => Passed(i, j)
  BY <1>1, <1>6, <1>7, <1>8, <1>13, FactsKept
<1>17. Carried(m)'
  <2>1. \A k \in Members : k = r.peer => r.owed \subseteq ListReceiptIDs(k)'
    BY <1>8, <1>11, <1>12, <1>14
  <2>2. r.push \cup r.held \subseteq ListReceiptIDs(m)'
    BY <1>4, <1>11, <1>15
  <2>3. r.pull \cup r.pageCursors \subseteq Signed'
    BY <1>4, <1>6, <1>7, <1>11, <1>13
  <2>4. r.peer \in Members /\ \A i \in r.owed : VerifyReceipt(m, i)'
    BY <1>4, <1>11, <1>16
  <2> QED BY <1>13, <2>1, <2>2, <2>3, <2>4 DEF Carried
<1>18. Ahead(m)'
  BY <1>11, <1>13 DEF Ahead
<1>19. Coming(m)'
  <2>1. \A i \in owed \ ListReceiptIDs(m)' :
          i \in pull \/ (pull # {} /\ \A j \in pull : ~Passed(i, j)')
    BY <1>7, <1>8, <1>9, <1>15, <1>16
  <2> QED BY <1>11, <1>13, <2>1 DEF Coming
<1> QED BY <1>13, <1>17, <1>18, <1>19 DEF SessionOK

\* The answer is filed, and the session goes on or ends.
LEMMA SyncApplyKeeps ==
  ASSUME ReceiptInv, NEW m \in Members, SyncApply(m)
  PROVE  ReceiptInv'
<1> DEFINE s == sync[m]
           applied == {i \in s.pull : VerifyReceipt(m, i)}
           cursors == NextPageCursors(s.pull)
<1>1. Typed /\ Carried(m) /\ Coming(m) /\ s \in Rounds
  BY RoundFacts DEF ReceiptInv, SessionOK, Typed
<1>2. /\ s.pc = "answered" /\ store' = SaveReceipt(m, applied, "replicated")
      /\ UNCHANGED <<receipt, wire, acks, optOut, roster, now>>
  BY DEF SyncApply
<1>3. /\ s.push \cup s.held \subseteq ListReceiptIDs(m)
      /\ s.pull \cup s.pageCursors \subseteq Signed
      /\ s.peer \in Members
      /\ s.owed # {} => s.owed \subseteq ListReceiptIDs(s.peer)
      /\ \A i \in s.owed : VerifyReceipt(m, i)
      /\ s.page \in 0..(MaxPages - 1)
      /\ s.push \in SUBSET Ids /\ s.todo \in SUBSET Members /\ applied \in SUBSET Signed
  BY <1>1, <1>2, RoundFacts DEF Carried, Typed
<1>4. \A i \in s.owed \ ListReceiptIDs(m) :
        i \in s.pull \/ \A j \in s.pull : ~Passed(i, j)
  BY <1>1, <1>2 DEF Coming
<1>5. CASE LeavePeer(m)
  <2> DEFINE r == Round("peers", s.todo, s.push)
  <2>1. sync' = [sync EXCEPT ![m] = r]
    BY <1>5 DEF LeavePeer
  <2>2. r \in Rounds
    BY <1>3, RoundType DEF Phases
  <2> HIDE DEF r, s, applied
  <2>3. /\ Grows /\ sync'[m] = r
        /\ SessionOK(m)' => ReceiptInv'
    BY <1>2, <1>3, <2>1, <2>2, FilingStep
  <2>4. s.push \subseteq ListReceiptIDs(m)'
    BY <1>3, <2>3 DEF Grows
  <2>5. SessionOK(m)'
    BY <2>3, <2>4, FreshSession DEF r
  <2> QED BY <2>3, <2>5
<1>6. CASE ~LeavePeer(m)
  <2> DEFINE r == [s EXCEPT !.pc = "ask", !.page = @ + 1, !.held = {}, !.pull = {},
                            !.pageCursors = cursors]
  <2>1. sync' = [sync EXCEPT ![m] = r] /\ applied # {} /\ ~Exhausted(m)
    BY <1>1, <1>6 DEF SyncApply, Typed
  <2>2. s.page + 1 \in 0..(MaxPages - 1) /\ s.page + 1 # 0
    BY <1>3, <2>1 DEF Exhausted
  <2>3. cursors # {} /\ cursors \subseteq s.pull
    <3>1. s.pull \in SUBSET Signed /\ s.pull # {}
      BY <1>3, <2>1
    <3> HIDE DEF s
    <3> QED BY <1>1, <3>1, CursorFacts
  <2>4. cursors \in SUBSET Ids
    BY <1>3, <2>3 DEF Signed
  <2>5. /\ r \in Rounds /\ r.pc = "ask" /\ r.page = s.page + 1 /\ r.held = {} /\ r.pull = {}
        /\ r.pageCursors = cursors /\ r.push = s.push /\ r.peer = s.peer /\ r.owed = s.owed
    <3>1. s \in Rounds
      BY <1>1
    <3> HIDE DEF s, cursors
    <3> QED BY <2>2, <2>4, <3>1 DEF Rounds, Phases
  <2>6. \A i \in s.pull \cap s.owed : i \in applied
    BY <1>3
  <2> HIDE DEF r, s, applied, cursors
  <2>7. /\ Grows /\ Signed' = Signed /\ sync'[m] = r
        /\ ListReceiptIDs(m)' = ListReceiptIDs(m) \cup applied
        /\ SessionOK(m)' => ReceiptInv'
    <3>1. r \in Rounds /\ applied \in SUBSET Signed /\ sync' = [sync EXCEPT ![m] = r]
      BY <1>3, <2>1, <2>5
    <3> QED BY <1>2, <3>1, FilingStep
  <2>8. \A k \in Members : ListReceiptIDs(k) \subseteq ListReceiptIDs(k)'
    BY <2>7 DEF Grows
  <2>9. s.owed \subseteq Signed
    BY <1>1, <1>3 DEF Typed
  <2>10. \A i \in s.owed : /\ VerifyReceipt(m, i)'
                           /\ \A j \in cursors : Passed(i, j)' => Passed(i, j)
    BY <1>1, <1>3, <2>3, <2>7, <2>9, FactsKept
  <2>11. Carried(m)'
    <3>1. \A k \in Members : r.owed # {} /\ k = r.peer => r.owed \subseteq ListReceiptIDs(k)'
      BY <1>3, <2>5, <2>8
    <3>2. /\ r.push \cup r.held \subseteq ListReceiptIDs(m)'
          /\ r.pull \cup r.pageCursors \subseteq Signed'
      BY <1>3, <2>3, <2>5, <2>7
    <3>3. r.peer \in Members /\ \A i \in r.owed : VerifyReceipt(m, i)'
      BY <1>3, <2>5, <2>10
    <3> QED BY <2>7, <3>1, <3>2, <3>3 DEF Carried
  <2>12. Ahead(m)'
    <3>1. \A i \in s.owed \ ListReceiptIDs(m)' : \A j \in cursors : ~Passed(i, j)'
      BY <1>4, <2>3, <2>6, <2>7, <2>10
    <3>2. r.page # 0 /\ r.pc = "ask" /\ r.pageCursors # {}
      BY <2>2, <2>3, <2>5
    <3>3. \A i \in r.owed \ ListReceiptIDs(m)' : \A j \in r.pageCursors : ~Passed(i, j)'
      BY <2>5, <3>1
    <3> QED BY <2>7, <3>2, <3>3 DEF Ahead
  <2>13. Coming(m)'
    BY <2>5, <2>7 DEF Coming
  <2> QED BY <2>7, <2>11, <2>12, <2>13 DEF SessionOK
<1> QED BY <1>5, <1>6

\* Every pushed receipt is marked replicated.
LEMMA SyncFinishKeeps ==
  ASSUME ReceiptInv, NEW m \in Members, SyncFinish(m)
  PROVE  ReceiptInv'
<1> DEFINE s == sync[m]
           r == Round("idle", {}, {})
<1>1. Typed /\ Carried(m)
  BY DEF ReceiptInv, SessionOK
<1>2. /\ store' = SaveReceipt(m, s.push, "replicated") /\ sync' = [sync EXCEPT ![m] = r]
      /\ UNCHANGED <<receipt, wire, acks, optOut, roster, now>>
  BY DEF SyncFinish, NoSync
<1>3. s.push \in SUBSET Signed
  BY <1>1 DEF Carried, Typed
<1>4. r \in Rounds
  BY RoundType DEF Phases
<1> HIDE DEF r, s
<1>5. sync'[m] = r /\ (SessionOK(m)' => ReceiptInv')
  BY <1>2, <1>3, <1>4, FilingStep
<1>6. SessionOK(m)'
  BY <1>5, FreshSession DEF r
<1> QED BY <1>5, <1>6

-----------------------------------------------------------------------------
(* The theorems about sessions *)

\* The initial state satisfies the invariant.
LEMMA InitReceiptInv == Init => ReceiptInv
<1> SUFFICES ASSUME Init PROVE ReceiptInv
  OBVIOUS
<1>1. Signed = {} /\ \A m \in Members : ListReceiptIDs(m) = {}
  BY DEF Init, Signed, ListReceiptIDs
<1>2. NoSync \in Rounds
  BY RoundType DEF NoSync, Phases
<1>3. Typed
  <2>1. 0 \in Times
    BY DEF Times
  <2>2. IsFiniteSet({})
    BY FS_EmptySet
  <2> QED BY <1>1, <1>2, <2>1, <2>2 DEF Init, Typed, Statuses
<1>4. ASSUME NEW m \in Members PROVE SessionOK(m)
  <2> DEFINE s == sync[m]
  <2>1. /\ s.pc = "idle" /\ s.push = {} /\ s.held = {} /\ s.pull = {} /\ s.pageCursors = {}
        /\ s.owed = {} /\ s.page = 0
    BY DEF Init, NoSync, Round
  <2> QED BY <2>1 DEF SessionOK, Carried, Ahead, Coming
<1> QED BY <1>3, <1>4 DEF ReceiptInv

\* Every step keeps it.
LEMMA NextReceiptInv == ReceiptInv /\ [Next]_vars => ReceiptInv'
<1> SUFFICES ASSUME ReceiptInv, [Next]_vars PROVE ReceiptInv'
  OBVIOUS
<1>1. CASE UNCHANGED vars
  <2>1. Typed
    BY DEF ReceiptInv
  <2>2. Grows
    BY <1>1, <2>1, StillGrows DEF vars
  <2>3. Typed'
    BY <1>1, <2>1 DEF vars, Typed, Signed, ListReceiptIDs
  <2> QED BY <1>1, <2>2, <2>3, AllKept DEF vars
<1>2. ASSUME NEW i \in Ids, SignHost(i) \/ InboundReceipt(i) \/ ContributionsAck(i)
      PROVE  ReceiptInv'
  BY <1>2, SignHostKeeps, InboundReceiptKeeps, ContributionsAckKeeps
<1>3. CASE Tick \/ \E m \in Members : SaveContributionsSettings(m)
  BY <1>3, SettingsAndTickKeep
<1>4. ASSUME NEW m \in Members,
             \/ SyncStart(m) \/ SyncRequest(m) \/ ContributionsSync(m) \/ SyncApply(m)
             \/ SyncFails(m) \/ SyncFinish(m) \/ SyncCancelled(m)
      PROVE  ReceiptInv'
  BY <1>4, StartKeeps, SyncRequestKeeps, ContributionsSyncKeeps, SyncApplyKeeps, SyncFinishKeeps
<1>5. ASSUME NEW m \in Members, NEW n \in Members, LearnMember(m, n) \/ SyncPeer(m, n)
      PROVE  ReceiptInv'
  BY <1>5, LearnMemberKeeps, SyncPeerKeeps
<1> QED BY <1>1, <1>2, <1>3, <1>4, <1>5 DEF Next

\* ReceiptInv holds in every reachable state of the exchange.
THEOREM Invariance == Spec => []ReceiptInv
BY InitReceiptInv, NextReceiptInv, PTL DEF Spec

\* The variables of the exchange keep their types: stores hold only what a host
\* signed, and a session stays within its pages (syncReceiptsWithPeer).
THEOREM TypeCorrect == Spec => []TypeOK
<1>1. ReceiptInv => TypeOK
  BY TypedTypeOK DEF ReceiptInv
<1> QED BY <1>1, Invariance, PTL

\* When an answer comes back empty, everything the session owes is there.
LEMMA NothingBehind ==
  ASSUME ReceiptInv, NEW m \in Members, SyncApply(m), sync[m].pull = {}
  PROVE  sync[m].owed \subseteq ListReceiptIDs(m)
<1>1. Coming(m) /\ sync[m].pc = "answered"
  BY DEF ReceiptInv, SessionOK, SyncApply
<1> QED BY <1>1 DEF Coming

\* A session that ends because the peer has nothing more to send has delivered
\* all its first request asked for, for any page size, any number of pages and
\* any number of receipts of one second (ListReceiptsAfterCursor).
THEOREM SessionsLeaveNothing == Spec => SessionComplete
<1>1. ReceiptInv /\ [Next]_vars =>
        [\A m \in Members : (SyncApply(m) /\ sync[m].pull = {}) =>
            sync[m].owed \subseteq ListReceiptIDs(m)]_vars
  BY NothingBehind
<1> QED BY <1>1, Invariance, PTL DEF Spec, SessionComplete

-----------------------------------------------------------------------------
(* What CalculateLeaderboard counts *)

\* Two sets have the same size when they have as many members in every class of
\* a partition; cls gives the class of a member.
LEMMA SameSizeByClass ==
  ASSUME NEW E, IsFiniteSet(E), NEW A \in SUBSET E, NEW B \in SUBSET E,
         NEW cls, \A x \in E : x \in cls[x] /\ \A y \in E : y \in cls[x] => cls[y] = cls[x],
         \A x \in E : Cardinality(A \cap cls[x]) = Cardinality(B \cap cls[x])
  PROVE  Cardinality(A) = Cardinality(B)
<1> DEFINE Bij(c) == Bijection(A \cap c, B \cap c)
           g(c) == CHOOSE f : f \in Bij(c)
           h == [x \in A |-> g(cls[x])[x]]
<1>1. ASSUME NEW x \in E PROVE g(cls[x]) \in Bij(cls[x])
  <2>1. IsFiniteSet(A \cap cls[x]) /\ IsFiniteSet(B \cap cls[x])
    <3>1. A \cap cls[x] \in SUBSET E /\ B \cap cls[x] \in SUBSET E
      OBVIOUS
    <3> QED BY <3>1, FS_Subset
  <2>2. ExistsBijection(A \cap cls[x], B \cap cls[x])
    BY <2>1, FS_SameCardinalityBij
  <2>3. Bij(cls[x]) # {}
    BY <2>2 DEF ExistsBijection
  <2> HIDE DEF Bij
  <2> QED BY <2>3
<1>2. ASSUME NEW c, NEW f \in Bij(c)
      PROVE  /\ \A x \in A \cap c : f[x] \in B \cap c
             /\ \A x, y \in A \cap c : f[x] = f[y] => x = y
             /\ \A z \in B \cap c : \E x \in A \cap c : f[x] = z
  BY <1>2 DEF Bijection, Injection, Surjection, IsInjective
<1> HIDE DEF Bij, g
<1>3. \A x \in A : h[x] \in B /\ h[x] \in cls[x]
  BY <1>1, <1>2
<1>4. ASSUME NEW x \in A, NEW y \in A, h[x] = h[y] PROVE x = y
  <2>1. cls[h[x]] = cls[x] /\ cls[h[y]] = cls[y]
    <3> HIDE DEF h
    <3> QED BY <1>3
  <2>2. cls[x] = cls[y]
    <3> HIDE DEF h
    <3> QED BY <1>4, <2>1
  <2>3. g(cls[x])[x] = g(cls[x])[y] /\ x \in A \cap cls[x] /\ y \in A \cap cls[x]
    BY <1>4, <2>2
  <2> QED BY <1>1, <1>2, <2>3
<1>5. ASSUME NEW z \in B PROVE \E x \in A : h[x] = z
  <2>1. PICK x \in A \cap cls[z] : g(cls[z])[x] = z
    BY <1>1, <1>2
  <2>2. cls[x] = cls[z]
    BY <2>1
  <2> QED BY <2>1, <2>2
<1>6. h \in [A -> B] /\ DOMAIN h = A
  <2>1. h = [x \in A |-> h[x]]
    OBVIOUS
  <2> HIDE DEF h
  <2> QED BY <1>3, <2>1
<1> HIDE DEF h
<1>7. h \in Bijection(A, B)
  BY <1>4, <1>5, <1>6 DEF Bijection, Injection, Surjection, IsInjective
<1>8. ExistsBijection(A, B)
  BY <1>7 DEF ExistsBijection
<1>9. IsFiniteSet(A)
  BY FS_Subset
<1> QED BY <1>8, <1>9, FS_Bijection

\* The recursion of Counted.
CountStep(m, n, order, g, k) ==
  IF k = 0 THEN {}
  ELSE IF /\ Eligible(m, n, order[k])
          /\ Cardinality({j \in g[k - 1] : SameKey(order[k], j)}) < MaxPerPairDay
       THEN g[k - 1] \cup {order[k]}
       ELSE g[k - 1]
IsCount(m, n, order, g) == g = [k \in 0..Len(order) |-> CountStep(m, n, order, g, k)]
CountFun(m, n, order) == CHOOSE g : IsCount(m, n, order, g)

\* The recursion has a solution, built up position by position.
LEMMA CountExists ==
  ASSUME NEW m, NEW n, NEW order, Len(order) \in Nat
  PROVE  \E g : IsCount(m, n, order, g)
<1> DEFINE Step(g, k) == CountStep(m, n, order, g, k)
           Solves(g, top) == g = [k \in 0..top |-> Step(g, k)]
           P == {top \in Nat : \E g : Solves(g, top)}
<1>1. ASSUME NEW top \in Nat, \A k \in Nat : k < top => k \in P PROVE top \in P
  <2>1. CASE top = 0
    <3> DEFINE g == [k \in 0..0 |-> {}]
    <3>1. \A k \in 0..0 : Step(g, k) = {}
      BY DEF CountStep
    <3>2. g = [k \in 0..0 |-> Step(g, k)]
      <4> HIDE DEF Step
      <4> QED BY <3>1
    <3>3. Solves(g, 0)
      BY <3>2
    <3> HIDE DEF g, Solves
    <3> QED BY <2>1, <3>3
  <2>2. CASE top > 0
    <3>1. PICK g : Solves(g, top - 1)
      <4>1. top - 1 \in P
        <5> HIDE DEF P
        <5> QED BY <1>1, <2>2
      <4> HIDE DEF Solves
      <4> QED BY <4>1
    <3> DEFINE h == [k \in 0..top |-> Step(g, k)]
    <3>2. \A k \in 0..(top - 1) : g[k] = Step(g, k)
      <4> HIDE DEF Step
      <4> QED BY <3>1
    <3>3. \A k \in 0..(top - 1) : k \in 0..top /\ h[k] = g[k]
      <4> HIDE DEF Step
      <4> QED BY <3>2
    <3>4. ASSUME NEW k \in 0..top PROVE Step(h, k) = Step(g, k)
      <4>1. k # 0 => k - 1 \in 0..(top - 1)
        OBVIOUS
      <4>2. k # 0 => h[k - 1] = g[k - 1]
        <5> HIDE DEF h
        <5> QED BY <3>3, <4>1
      <4> HIDE DEF h
      <4> QED BY <4>2 DEF CountStep
    <3>5. h = [k \in 0..top |-> Step(h, k)]
      <4>1. h = [k \in 0..top |-> Step(g, k)]
        OBVIOUS
      <4> HIDE DEF h, Step
      <4> QED BY <3>4, <4>1
    <3>6. Solves(h, top)
      BY <3>5
    <3> HIDE DEF h, Solves
    <3> QED BY <3>6
  <2> HIDE DEF P
  <2> QED BY <1>1, <2>1, <2>2
<1>2. P = Nat
  <2>1. P \in SUBSET Nat
    OBVIOUS
  <2> HIDE DEF P
  <2> QED BY <1>1, <2>1, NumberInduct
<1>3. \E g : Solves(g, Len(order))
  <2> HIDE DEF Solves
  <2> QED BY <1>2
<1> QED BY <1>3 DEF IsCount

\* What Counted computes, in terms of its recursion.
LEMMA CountedEquation ==
  ASSUME NEW m, NEW n, NEW order, Len(order) \in Nat
  PROVE  /\ Counted(m, n, order) = CountFun(m, n, order)[Len(order)]
         /\ \A k \in 0..Len(order) :
              CountFun(m, n, order)[k] = CountStep(m, n, order, CountFun(m, n, order), k)
<1> DEFINE f == CountFun(m, n, order)
<1>1. IsCount(m, n, order, f)
  BY CountExists DEF CountFun
<1>2. Counted(m, n, order) = f[Len(order)]
  BY Zenon DEF Counted, CountFun, IsCount, CountStep
<1> HIDE DEF f
<1>3. \A k \in 0..Len(order) : f[k] = CountStep(m, n, order, f, k)
  BY <1>1, Zenon DEF IsCount
<1> QED BY <1>2, <1>3 DEF f

\* An order of SetToSeqs meets every member of its finite set once.
LEMMA OrderFacts ==
  ASSUME NEW S, IsFiniteSet(S), NEW order \in SetToSeqs(S)
  PROVE  /\ Len(order) \in Nat
         /\ \A a \in 1..Len(order) : order[a] \in S
         /\ \A a, b \in 1..Len(order) : order[a] = order[b] => a = b
         /\ \A x \in S : \E a \in 1..Len(order) : order[a] = x
<1> DEFINE N == Cardinality(S)
<1>1. N \in Nat
  BY FS_CardinalityType
<1>2. /\ order \in [1..N -> S]
      /\ \A a, b \in 1..N : a # b => order[a] # order[b]
  BY DEF SetToSeqs
<1> HIDE DEF N
<1>3. order \in Seq(S)
  BY <1>1, <1>2, SeqDef
<1>4. Len(order) \in Nat /\ DOMAIN order = 1..Len(order)
  BY <1>3, LenProperties
<1>5. Len(order) = N
  <2>1. 1..Len(order) = 1..N
    BY <1>2, <1>4
  <2>2. ASSUME NEW b \in Nat PROVE Cardinality(1..b) = b
    <3>1. Cardinality(1..b) = IF 1 > b THEN 0 ELSE b - 1 + 1
      BY FS_Interval
    <3> QED BY <3>1
  <2>3. Cardinality(1..Len(order)) = Len(order) /\ Cardinality(1..N) = N
    BY <1>1, <1>4, <2>2
  <2> QED BY <2>1, <2>3
<1>6. order \in Injection(1..N, S)
  BY <1>2 DEF Injection, IsInjective
<1>7. Cardinality(1..N) = Cardinality(S)
  BY <1>1, FS_Interval DEF N
<1>8. order \in Surjection(1..N, S)
  BY <1>6, <1>7, FS_Injection
<1>9. \A x \in S : \E a \in 1..N : order[a] = x
  BY <1>8 DEF Surjection
<1> QED BY <1>1, <1>2, <1>5, <1>9

\* Receipts with the same key.
Key(i, S) == {j \in S : SameKey(i, j)}

\* SameKey is an equivalence.
LEMMA KeyFacts ==
  ASSUME NEW S, NEW i, NEW j
  PROVE  /\ SameKey(i, i)
         /\ SameKey(i, j) => SameKey(j, i) /\ Key(i, S) = Key(j, S)
<1>1. \A x : SameKey(i, j) => (SameKey(i, x) <=> SameKey(j, x))
  BY DEF SameKey, SamePair
<1> QED BY <1>1 DEF SameKey, SamePair, Key

\* One more receipt with a key, or none.
LEMMA KeyAdd ==
  ASSUME NEW G, IsFiniteSet(G), NEW x, x \notin G, NEW i
  PROVE  /\ IsFiniteSet(Key(i, G)) /\ Cardinality(Key(i, G)) \in Nat
         /\ SameKey(i, x) => Cardinality(Key(i, G \cup {x})) = Cardinality(Key(i, G)) + 1
         /\ ~SameKey(i, x) => Key(i, G \cup {x}) = Key(i, G)
<1>1. Key(i, G) \in SUBSET G
  BY DEF Key
<1>2. IsFiniteSet(Key(i, G)) /\ Cardinality(Key(i, G)) \in Nat
  BY <1>1, FS_Subset, FS_CardinalityType
<1>3. SameKey(i, x) => Key(i, G \cup {x}) = Key(i, G) \cup {x}
  BY DEF Key
<1>4. ~SameKey(i, x) => Key(i, G \cup {x}) = Key(i, G)
  BY DEF Key
<1>5. x \notin Key(i, G)
  BY <1>1
<1> QED BY <1>2, <1>3, <1>4, <1>5, FS_AddElement

\* Of the eligible receipts with one key, Counted takes all or the first
\* MaxPerPairDay it meets.
LEMMA CountedFacts ==
  ASSUME NEW m, NEW n, NEW S, IsFiniteSet(S), NEW order \in SetToSeqs(S)
  PROVE  LET C == Counted(m, n, order)
         IN  /\ C \subseteq {i \in S : Eligible(m, n, i)}
             /\ \A i \in S : Cardinality(Key(i, C)) <= MaxPerPairDay
             /\ \A i \in S : Eligible(m, n, i) =>
                  i \in C \/ Cardinality(Key(i, C)) = MaxPerPairDay
<1> DEFINE N == Len(order)
           g == CountFun(m, n, order)
           Met(k) == {order[a] : a \in 1..k}
           Limited(k) == \A i \in S : Cardinality(Key(i, g[k])) <= MaxPerPairDay
           Full(k) == \A a \in 1..k : Eligible(m, n, order[a]) =>
                        \/ order[a] \in g[k]
                        \/ Cardinality(Key(order[a], g[k])) = MaxPerPairDay
           Claim(k) == /\ g[k] \subseteq Met(k) /\ \A i \in g[k] : Eligible(m, n, i)
                       /\ Limited(k) /\ Full(k)
           P == {k \in Nat : k <= N => Claim(k)}
<1>1. /\ N \in Nat
      /\ \A a \in 1..N : order[a] \in S
      /\ \A a, b \in 1..N : order[a] = order[b] => a = b
      /\ \A x \in S : \E a \in 1..N : order[a] = x
  BY OrderFacts
<1>2. /\ Counted(m, n, order) = g[N]
      /\ \A k \in 0..N : g[k] = CountStep(m, n, order, g, k)
  BY <1>1, CountedEquation
<1> HIDE DEF N, g
<1>3. MaxPerPairDay \in Nat /\ MaxPerPairDay > 0
  OBVIOUS
<1>4. Claim(0)
  <2>1. g[0] = {}
    <3>1. 0 \in 0..N
      BY <1>1
    <3>2. g[0] = CountStep(m, n, order, g, 0)
      BY <1>2, <3>1
    <3> QED BY <3>2 DEF CountStep
  <2>2. \A i \in S : Cardinality(Key(i, g[0])) = 0
    BY <2>1, FS_EmptySet DEF Key
  <2> QED BY <1>3, <2>1, <2>2
<1>5. ASSUME NEW k \in Nat, k + 1 <= N, Claim(k) PROVE Claim(k + 1)
  <2> DEFINE G == g[k]
             H == g[k + 1]
             x == order[k + 1]
             B == Cardinality(Key(x, G))
  <2>1. H = IF Eligible(m, n, x) /\ B < MaxPerPairDay THEN G \cup {x} ELSE G
    <3>1. k + 1 \in 0..N /\ k + 1 # 0 /\ (k + 1) - 1 = k
      BY <1>1, <1>5
    <3>2. H = CountStep(m, n, order, g, k + 1)
      BY <1>2, <3>1
    <3> QED BY <3>1, <3>2 DEF CountStep, Key
  <2>2. /\ G \subseteq Met(k) /\ \A i \in G : Eligible(m, n, i)
        /\ Limited(k) /\ Full(k)
    BY <1>5
  <2>3. k + 1 \in 1..N /\ x \in S /\ \A a \in 1..k : a \in 1..N /\ a # k + 1 /\ a \in 1..(k + 1)
    BY <1>1, <1>5
  <2>4. x \notin G
    <3>1. \A a \in 1..k : order[a] # x
      BY <1>1, <2>3
    <3> QED BY <2>2, <3>1
  <2>5. IsFiniteSet(G)
    <3>1. G \in SUBSET S
      BY <1>1, <2>2, <2>3
    <3> QED BY <3>1, FS_Subset
  <2>6. Met(k + 1) = Met(k) \cup {x}
    <3>1. 1..(k + 1) = 1..k \cup {k + 1}
      OBVIOUS
    <3> QED BY <3>1
  <2>7. /\ \A i \in S : Cardinality(Key(i, G)) <= MaxPerPairDay
        /\ \A a \in 1..k : Eligible(m, n, order[a]) =>
             order[a] \in G \/ Cardinality(Key(order[a], G)) = MaxPerPairDay
    BY <2>2
  <2>8. 1..(k + 1) = 1..k \cup {k + 1}
    OBVIOUS
  <2>9. SameKey(x, x) /\ B \in Nat
    BY <2>4, <2>5, KeyFacts, KeyAdd
  <2> HIDE DEF G, H, x, Met
  <2>10. CASE Eligible(m, n, x) /\ B < MaxPerPairDay
    <3>1. H = G \cup {x}
      BY <2>1, <2>10
    <3>2. H \subseteq Met(k + 1) /\ \A i \in H : Eligible(m, n, i)
      BY <2>2, <2>6, <2>10, <3>1
    <3>3. ASSUME NEW i \in S PROVE Cardinality(Key(i, H)) <= MaxPerPairDay
      <4>1. CASE SameKey(i, x)
        <5>1. Cardinality(Key(i, H)) = Cardinality(Key(i, G)) + 1 /\ Key(i, G) = Key(x, G)
          BY <2>4, <2>5, <3>1, <4>1, KeyAdd, KeyFacts
        <5> QED BY <1>3, <2>9, <2>10, <5>1
      <4>2. CASE ~SameKey(i, x)
        BY <2>4, <2>5, <2>7, <3>1, <4>2, KeyAdd
      <4> QED BY <4>1, <4>2
    <3>4. ASSUME NEW a \in 1..(k + 1), Eligible(m, n, order[a]), order[a] \notin H
          PROVE  Cardinality(Key(order[a], H)) = MaxPerPairDay
      <4>1. a \in 1..k
        BY <2>8, <3>1, <3>4 DEF x
      <4>2. Cardinality(Key(order[a], G)) = MaxPerPairDay
        BY <2>7, <3>1, <3>4, <4>1
      <4>3. ~SameKey(order[a], x)
        <5> SUFFICES ASSUME SameKey(order[a], x) PROVE FALSE
          OBVIOUS
        <5>1. Key(order[a], G) = Key(x, G)
          BY KeyFacts
        <5> QED BY <1>3, <2>9, <2>10, <4>2, <5>1
      <4> QED BY <2>4, <2>5, <3>1, <4>2, <4>3, KeyAdd
    <3> QED BY <3>2, <3>3, <3>4 DEF H
  <2>11. CASE ~(Eligible(m, n, x) /\ B < MaxPerPairDay)
    <3>1. H = G
      BY <2>1, <2>11
    <3>2. H \subseteq Met(k + 1) /\ \A i \in H : Eligible(m, n, i)
      BY <2>2, <2>6, <3>1
    <3>3. Eligible(m, n, x) => Cardinality(Key(x, H)) = MaxPerPairDay
      BY <1>3, <2>3, <2>7, <2>9, <2>11, <3>1
    <3>4. ASSUME NEW a \in 1..(k + 1), Eligible(m, n, order[a]), order[a] \notin H
          PROVE  Cardinality(Key(order[a], H)) = MaxPerPairDay
      BY <2>7, <2>8, <3>1, <3>3, <3>4 DEF x
    <3> QED BY <2>7, <3>1, <3>2, <3>4 DEF H
  <2> QED BY <2>10, <2>11
<1>6. N \in P
  <2> HIDE DEF Claim
  <2>1. ASSUME NEW k \in Nat, \A j \in Nat : j < k => j \in P PROVE k \in P
    <3>1. CASE k = 0
      BY <1>4, <3>1
    <3>2. CASE k > 0 /\ k <= N
      <4>1. k - 1 \in Nat /\ k - 1 < k /\ k - 1 <= N /\ (k - 1) + 1 = k
        BY <1>1, <3>2
      <4>2. Claim(k - 1)
        BY <2>1, <4>1
      <4>3. Claim((k - 1) + 1)
        BY <1>5, <3>2, <4>1, <4>2
      <4> QED BY <4>1, <4>3
    <3>3. CASE ~(k <= N)
      BY <3>3
    <3> QED BY <3>1, <3>2, <3>3
  <2>2. P \in SUBSET Nat
    OBVIOUS
  <2> HIDE DEF P
  <2>3. P = Nat
    BY <2>1, <2>2, NumberInduct
  <2> QED BY <1>1, <2>3
<1>7. Claim(N)
  <2> HIDE DEF Claim
  <2> QED BY <1>1, <1>6
<1>8. g[N] \subseteq {i \in S : Eligible(m, n, i)}
  BY <1>1, <1>7
<1>9. \A i \in S : Eligible(m, n, i) => i \in g[N] \/ Cardinality(Key(i, g[N])) = MaxPerPairDay
  BY <1>1, <1>7
<1> QED BY <1>2, <1>7, <1>8, <1>9

\* Member m, who opted out, leaves its own entry out.
Hides(m, h) == optOut[m] /\ h = m

\* The eligible receipts of a host that this leaderboard does not hide.
Standing(S, t, h) ==
  {i \in S : Time(i) >= t - Window /\ Time(i) <= t + Skew /\ Host(i) = h}

\* What one leaderboard counts for such a host: of every key all its receipts, or
\* as many as the limit allows.
LEMMA OwnFacts ==
  ASSUME NEW S, IsFiniteSet(S), NEW m, NEW t, NEW h, NEW order \in SetToSeqs(S),
         ~Hides(m, h)
  PROVE  LET E == Standing(S, t, h)
             A == {i \in Counted(m, t, order) : Host(i) = h}
         IN  /\ A \subseteq E
             /\ \A i \in E : /\ Key(i, A) \subseteq Key(i, E)
                             /\ Cardinality(Key(i, A)) <= MaxPerPairDay
                             /\ \/ Key(i, A) = Key(i, E)
                                \/ Cardinality(Key(i, A)) = MaxPerPairDay
<1> DEFINE E == Standing(S, t, h)
           C == Counted(m, t, order)
           A == {i \in C : Host(i) = h}
<1>1. /\ C \subseteq {i \in S : Eligible(m, t, i)}
      /\ \A i \in S : Cardinality(Key(i, C)) <= MaxPerPairDay
      /\ \A i \in S : Eligible(m, t, i) =>
           i \in C \/ Cardinality(Key(i, C)) = MaxPerPairDay
  BY CountedFacts
<1>2. E = {i \in S : Eligible(m, t, i) /\ Host(i) = h}
  BY DEF Standing, Eligible, Hides
<1> HIDE DEF C, E
<1>3. A \subseteq E
  BY <1>1, <1>2
<1>4. ASSUME NEW i \in E
      PROVE  /\ Key(i, A) \subseteq Key(i, E)
             /\ Cardinality(Key(i, A)) <= MaxPerPairDay
             /\ \/ Key(i, A) = Key(i, E)
                \/ Cardinality(Key(i, A)) = MaxPerPairDay
  <2>1. Host(i) = h /\ i \in S
    BY <1>2
  <2>2. Key(i, A) = Key(i, C)
    BY <2>1 DEF Key, SameKey, SamePair
  <2>3. Key(i, A) \subseteq Key(i, E)
    BY <1>3 DEF Key
  <2>4. CASE Key(i, E) \subseteq A
    <3>1. Key(i, E) \subseteq Key(i, A)
      BY <2>4 DEF Key
    <3> QED BY <1>1, <2>1, <2>2, <2>3, <3>1
  <2>5. CASE ~(Key(i, E) \subseteq A)
    <3>1. PICK j \in Key(i, E) : j \notin A
      BY <2>5
    <3>2. j \in E /\ SameKey(i, j)
      BY <3>1 DEF Key
    <3>3. j \in S /\ Eligible(m, t, j) /\ Host(j) = h
      BY <1>2, <3>2
    <3>4. Cardinality(Key(j, C)) = MaxPerPairDay
      BY <1>1, <3>1, <3>3
    <3>5. Key(i, C) = Key(j, C)
      BY <3>2, KeyFacts
    <3> QED BY <1>1, <2>1, <2>2, <2>3, <3>4, <3>5
  <2> QED BY <2>4, <2>5
<1> QED BY <1>3, <1>4 DEF C, E

\* Two leaderboards over the same receipts have the same entry for a host that
\* neither hides, in whatever order they meet them.
LEMMA SameEntry ==
  ASSUME NEW S, IsFiniteSet(S), NEW m, NEW n, NEW t, NEW h,
         NEW o \in SetToSeqs(S), NEW q \in SetToSeqs(S),
         ~Hides(m, h), ~Hides(n, h)
  PROVE  Entry(h, Counted(m, t, o)) = Entry(h, Counted(n, t, q))
<1> DEFINE E == Standing(S, t, h)
           A == {i \in Counted(m, t, o) : Host(i) = h}
           B == {i \in Counted(n, t, q) : Host(i) = h}
           cls == [i \in E |-> Key(i, E)]
<1>1. IsFiniteSet(E)
  <2>1. E \in SUBSET S
    BY DEF Standing
  <2> QED BY <2>1, FS_Subset
<1>2. /\ A \subseteq E
      /\ \A i \in E : /\ Key(i, A) \subseteq Key(i, E)
                      /\ Cardinality(Key(i, A)) <= MaxPerPairDay
                      /\ \/ Key(i, A) = Key(i, E)
                         \/ Cardinality(Key(i, A)) = MaxPerPairDay
  BY OwnFacts
<1>3. /\ B \subseteq E
      /\ \A i \in E : /\ Key(i, B) \subseteq Key(i, E)
                      /\ Cardinality(Key(i, B)) <= MaxPerPairDay
                      /\ \/ Key(i, B) = Key(i, E)
                         \/ Cardinality(Key(i, B)) = MaxPerPairDay
  BY OwnFacts
<1>4. Entry(h, Counted(m, t, o)) = [score |-> Cardinality(A), helped |-> {Requester(i) : i \in A}]
  BY DEF Entry
<1>5. Entry(h, Counted(n, t, q)) = [score |-> Cardinality(B), helped |-> {Requester(i) : i \in B}]
  BY DEF Entry
<1> HIDE DEF E, A, B
<1>6. MaxPerPairDay \in Nat \ {0}
  OBVIOUS
<1>7. ASSUME NEW i \in E
      PROVE  /\ IsFiniteSet(Key(i, A)) /\ IsFiniteSet(Key(i, B))
             /\ Cardinality(Key(i, A)) \in Nat
             /\ Cardinality(Key(i, A)) = Cardinality(Key(i, B))
  <2>1. IsFiniteSet(Key(i, E))
    <3>1. Key(i, E) \in SUBSET E
      BY DEF Key
    <3> QED BY <1>1, <3>1, FS_Subset
  <2>2. /\ IsFiniteSet(Key(i, A)) /\ IsFiniteSet(Key(i, B))
        /\ Cardinality(Key(i, A)) <= Cardinality(Key(i, E))
        /\ Cardinality(Key(i, B)) <= Cardinality(Key(i, E))
    BY <1>2, <1>3, <2>1, FS_Subset
  <2>3. /\ Cardinality(Key(i, A)) \in Nat /\ Cardinality(Key(i, B)) \in Nat
        /\ Cardinality(Key(i, E)) \in Nat
    BY <2>1, <2>2, FS_CardinalityType
  <2>4. /\ Cardinality(Key(i, A)) <= MaxPerPairDay /\ Cardinality(Key(i, B)) <= MaxPerPairDay
        /\ \/ Cardinality(Key(i, A)) = Cardinality(Key(i, E))
           \/ Cardinality(Key(i, A)) = MaxPerPairDay
        /\ \/ Cardinality(Key(i, B)) = Cardinality(Key(i, E))
           \/ Cardinality(Key(i, B)) = MaxPerPairDay
    BY <1>2, <1>3
  <2> QED BY <1>6, <2>2, <2>3, <2>4
<1>8. Cardinality(A) = Cardinality(B)
  <2>1. \A x \in E : x \in cls[x] /\ \A y \in E : y \in cls[x] => cls[y] = cls[x]
    <3> SUFFICES ASSUME NEW x \in E
                 PROVE  x \in cls[x] /\ \A y \in E : y \in cls[x] => cls[y] = cls[x]
      OBVIOUS
    <3>1. x \in Key(x, E)
      BY KeyFacts DEF Key
    <3>2. \A y \in E : y \in Key(x, E) => Key(y, E) = Key(x, E)
      BY KeyFacts DEF Key
    <3> QED BY <3>1, <3>2
  <2>2. \A x \in E : A \cap cls[x] = Key(x, A) /\ B \cap cls[x] = Key(x, B)
    BY <1>2, <1>3 DEF Key
  <2>3. \A x \in E : Cardinality(A \cap cls[x]) = Cardinality(B \cap cls[x])
    BY <1>7, <2>2
  <2>4. A \in SUBSET E /\ B \in SUBSET E
    BY <1>2, <1>3
  <2> HIDE DEF cls
  <2> QED BY <1>1, <2>1, <2>3, <2>4, SameSizeByClass
<1>9. ASSUME NEW i \in E
      PROVE  /\ i \in A => \E j \in B : Requester(j) = Requester(i)
             /\ i \in B => \E j \in A : Requester(j) = Requester(i)
  <2>1. Key(i, A) = {} <=> Key(i, B) = {}
    BY <1>7, FS_EmptySet
  <2>2. /\ i \in A => i \in Key(i, A)
        /\ i \in B => i \in Key(i, B)
    BY KeyFacts DEF Key
  <2>3. \A j \in Key(i, A) : j \in A /\ Requester(j) = Requester(i)
    BY DEF Key, SameKey, SamePair
  <2>4. \A j \in Key(i, B) : j \in B /\ Requester(j) = Requester(i)
    BY DEF Key, SameKey, SamePair
  <2> QED BY <2>1, <2>2, <2>3, <2>4
<1>10. {Requester(i) : i \in A} = {Requester(i) : i \in B}
  BY <1>2, <1>3, <1>9
<1> QED BY <1>4, <1>5, <1>8, <1>10

\* Members who hold the same receipts show the same leaderboard, for any number
\* of receipts, any limit and any order of their stores (CalculateLeaderboard).
THEOREM LeaderboardsStayAgreed == Spec => []LeaderboardsAgree
<1>1. ReceiptInv => LeaderboardsAgree
  <2> SUFFICES ASSUME Typed,
                      NEW m \in Members, NEW n \in Members, NEW t \in Times,
                      ListReceiptIDs(m) = ListReceiptIDs(n),
                      NEW h \in Members \ {k \in {m, n} : optOut[k]},
                      NEW k \in {m, n}, NEW l \in {m, n},
                      NEW o \in ListReceipts(m), NEW q \in ListReceipts(m)
               PROVE  CalculateLeaderboard(k, t, o)[h] = CalculateLeaderboard(l, t, q)[h]
    BY DEF ReceiptInv, LeaderboardsAgree
  <2>1. IsFiniteSet(ListReceiptIDs(m))
    BY FS_Subset DEF Typed
  <2>2. o \in SetToSeqs(ListReceiptIDs(m)) /\ q \in SetToSeqs(ListReceiptIDs(m))
    BY DEF ListReceipts
  <2>3. ~Hides(k, h) /\ ~Hides(l, h)
    BY DEF Hides
  <2>4. Entry(h, Counted(k, t, o)) = Entry(h, Counted(l, t, q))
    <3> DEFINE S == ListReceiptIDs(m)
    <3>1. IsFiniteSet(S) /\ o \in SetToSeqs(S) /\ q \in SetToSeqs(S)
      BY <2>1, <2>2
    <3> HIDE DEF S
    <3> QED BY <2>3, <3>1, SameEntry
  <2> QED BY <2>4 DEF CalculateLeaderboard
<1> QED BY <1>1, Invariance, PTL
=============================================================================
