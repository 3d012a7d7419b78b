------------------------------ MODULE Catalog ------------------------------
(***************************************************************************)
(* The hosted models of one node, the catalogue of advertisements the node *)
(* keeps of them, and the catalogue of a peer that polls the node.         *)
(*                                                                         *)
(* Every handler that changes a row ends in advertiseLocalModels, which    *)
(* also runs on a timer.  It looks at the disk unless it did so lately,    *)
(* updates and reads the rows, asks the runner, which may take seconds,    *)
(* and files its ads when that answers, so several of them overlap: each   *)
(* is a task.  Time is reduced to whether an ad is still fresh.            *)
(***************************************************************************)
EXTENDS Integers, FiniteSets

CONSTANTS
  Models,     \* model ids
  Files,      \* paths of weights
  ArtifactID, \* the id the inventory gives to a path
  Tasks,      \* handlers and refreshes of the host that may overlap
  Timer,      \* the task of catalogLoop
  Polls,      \* reads of the host's catalogue that may overlap
  MaxRev      \* bound on the revisions: the inventory may add the last one

ASSUME CatalogAssumption ==
  /\ ArtifactID \in [Files -> Models]
  /\ Timer \in Tasks
  /\ MaxRev \in Nat \ {0, 1}

VARIABLES
  row,      \* hosted_models
  file,     \* the weights on the disk
  engine,   \* the runner: unreachable, empty, or the model it has loaded
  task,     \* the handlers in progress
  own,      \* the host's catalogue of its own models
  peer,     \* the peer's catalogue of them
  poll      \* answers on their way to the peer

vars == <<row, file, engine, task, own, peer, poll>>

None == [rev |-> 0]
NoFile == "none"
NoPoll == [m \in Models |-> None]
Idle == [pc |-> "idle"]
Revs == 1..MaxRev

Rows == [managed : BOOLEAN, file : Files \cup {NoFile}, enabled : BOOLEAN,
         published : BOOLEAN, rev : Revs]
Availabilities == {"ready", "unloaded", "offline"}
Ads == [rev : 1..(MaxRev + 1), avail : Availabilities, fresh : BOOLEAN]

Init ==
  /\ row = [m \in Models |-> None]
  /\ file \in SUBSET Files
  /\ engine = "empty"
  /\ task = [t \in Tasks |-> Idle]
  /\ own = [m \in Models |-> None]
  /\ peer = [m \in Models |-> None]
  /\ poll = [p \in Polls |-> NoPoll]

Exists(m) == row[m] # None
Offered(r) == r # None /\ r.enabled /\ r.published
NextRev(m) == IF Exists(m) THEN row[m].rev + 1 ELSE 1

-----------------------------------------------------------------------------
(* Upsert: an older revision is refused. *)

Upsert(cat, m, ad) == IF cat[m] # None /\ ad.rev < cat[m].rev THEN cat[m] ELSE ad

\* ListAvailable.
ListAvailable(cat) == {m \in Models : cat[m] # None /\ cat[m].fresh /\ cat[m].avail # "offline"}

-----------------------------------------------------------------------------
(* The owner's handlers.  Each ends in advertiseLocalModels. *)

\* ListHostedModels is done and the runner is asked; what is not offered does
\* not matter any more.
Probe(rows) ==
  [pc |-> "probe", rows |-> [m \in Models |-> IF Offered(rows[m]) THEN rows[m] ELSE None]]

\* advertiseLocalModels begins with the disk (ListArtifacts), or goes straight
\* to the rows (ListHostedModels) when syncManagedInventoryThrottled skips it.
Begin(t, rows) ==
  /\ task[t] = Idle
  /\ \/ task' = [task EXCEPT ![t] = [pc |-> "scan", seen |-> file]]
     \/ task' = [task EXCEPT ![t] = Probe(rows)]

Saved(t, m, r) ==
  /\ r.rev < MaxRev
  /\ row' = [row EXCEPT ![m] = r]
  /\ Begin(t, row')

\* A managed row only comes from a preparation, a load or the inventory.
SaveHostedModel(t, m, managed, enabled, published) ==
  /\ managed => Exists(m) /\ row[m].managed
  /\ Saved(t, m, [managed |-> managed,
                  file |-> IF Exists(m) /\ row[m].managed THEN row[m].file ELSE NoFile,
                  enabled |-> enabled, published |-> published, rev |-> NextRev(m)])
  /\ UNCHANGED <<file, engine, own, peer, poll>>

DeleteHostedModel(t, m) ==
  /\ Exists(m)
  /\ row' = [row EXCEPT ![m] = None]
  /\ Begin(t, row')
  /\ UNCHANGED <<file, engine, own, peer, poll>>

\* A request that leaves published out keeps what the row says.
managedRecordFor(m, f, published, preserveEnabled) ==
  [managed |-> TRUE, file |-> f, published |-> published, rev |-> NextRev(m),
   enabled |-> preserveEnabled /\ Exists(m) /\ ~published => row[m].enabled]

PrepareManagedModel(t, m, f, published) ==
  /\ f \in file
  /\ Saved(t, m, managedRecordFor(m, f, published, TRUE))
  /\ UNCHANGED <<file, engine, own, peer, poll>>

\* The runner has loaded the model; a load that fails only advertises.
LoadManagedModel(t, m, f, published) ==
  /\ engine # "unreachable" /\ f \in file
  /\ Saved(t, m, managedRecordFor(m, f, published, FALSE))
  /\ engine' = m
  /\ UNCHANGED <<file, own, peer, poll>>

UnloadManagedModel(t) ==
  /\ engine # "unreachable"
  /\ engine' = "empty"
  /\ Begin(t, row)
  /\ UNCHANGED <<row, file, own, peer, poll>>

\* A tick of catalogLoop, a failed load, a catalogue read by the owner.
Refresh(t) ==
  /\ Begin(t, row)
  /\ UNCHANGED <<row, file, engine, own, peer, poll>>

-----------------------------------------------------------------------------
(* advertiseLocalModels *)

\* The row syncManagedInventory saves of a model after it saw these files, if
\* it changes one: a row whose file is gone is disabled, a file that no row
\* names gets one.
Inventoried(m, seen) ==
  LET found == {f \in seen : ArtifactID[f] = m
                  /\ ~\E k \in Models : Exists(k) /\ row[k].managed /\ row[k].file = f}
  IN  IF Exists(m)
      THEN IF row[m].managed /\ row[m].enabled /\ row[m].file \notin seen
           THEN [row[m] EXCEPT !.enabled = FALSE, !.rev = @ + 1] ELSE None
      ELSE IF found = {} THEN None
           ELSE [managed |-> TRUE, file |-> CHOOSE f \in found : TRUE,
                 enabled |-> TRUE, published |-> FALSE, rev |-> 1]

\* It lists the rows after the files and saves after that: a handler may have
\* saved or deleted a row meanwhile.
ListRows(t) ==
  /\ task[t].pc = "scan"
  /\ task' = [task EXCEPT ![t] = [pc |-> "save", saves |->
               [m \in Models |-> Inventoried(m, task[t].seen)]]]
  /\ UNCHANGED <<row, file, engine, own, peer, poll>>

syncManagedInventory(t) ==
  LET saves == task[t].saves
  IN  /\ task[t].pc = "save"
      /\ row' = [m \in Models |-> IF saves[m] = None THEN row[m] ELSE saves[m]]
      /\ task' = [task EXCEPT ![t] = Probe(row')]
      /\ UNCHANGED <<file, engine, own, peer, poll>>

Availability(m, r) ==
  IF ~r.managed \/ engine = m THEN "ready"
  ELSE IF engine = "unreachable" THEN "offline" ELSE "unloaded"

\* What the catalogue says of a model after this run: its ad, or an offline
\* tombstone when it is no longer offered.
Advertised_NoTombstone(m, r) ==
  IF Offered(r)
  THEN Upsert(own, m, [rev |-> r.rev, avail |-> Availability(m, r), fresh |-> TRUE])
  ELSE own[m]
Advertised_Again(m, r) ==
  IF Offered(r)
  THEN Upsert(own, m, [rev |-> r.rev, avail |-> Availability(m, r), fresh |-> TRUE])
  ELSE IF own[m] = None THEN own[m]
  ELSE [rev |-> own[m].rev + 1, avail |-> "offline", fresh |-> TRUE]
Advertised(m, r) ==
  IF Offered(r)
  THEN Upsert(own, m, [rev |-> r.rev, avail |-> Availability(m, r), fresh |-> TRUE])
  ELSE IF own[m] = None \/ own[m].avail = "offline" THEN own[m]
  ELSE [rev |-> own[m].rev + 1, avail |-> "offline", fresh |-> TRUE]

\* The runner answers, or does not, and the ads are filed.
AdvertiseEnd(t) ==
  /\ task[t].pc = "probe"
  /\ own' = [m \in Models |-> Advertised(m, task[t].rows[m])]
  /\ task' = [task EXCEPT ![t] = Idle]
  /\ UNCHANGED <<row, file, engine, peer, poll>>

-----------------------------------------------------------------------------
(* The peer, and what else happens *)

\* handleCatalog answers from the rows.
PeerCatalog == [m \in Models |->
  IF Offered(row[m]) THEN [rev |-> row[m].rev, avail |-> "ready", fresh |-> TRUE] ELSE None]

PollServed(p) ==
  /\ poll[p] = NoPoll
  /\ poll' = [poll EXCEPT ![p] = PeerCatalog]
  /\ UNCHANGED <<row, file, engine, task, own, peer>>

\* handleGetCatalog at the peer stores the answer.
PollAnswered(p) ==
  /\ poll[p] # NoPoll
  /\ peer' = [m \in Models |->
                IF poll[p][m] = None THEN peer[m] ELSE Upsert(peer, m, poll[p][m])]
  /\ poll' = [poll EXCEPT ![p] = NoPoll]
  /\ UNCHANGED <<row, file, engine, task, own>>

PollLost(p) ==
  /\ poll[p] # NoPoll
  /\ poll' = [poll EXCEPT ![p] = NoPoll]
  /\ UNCHANGED <<row, file, engine, task, own, peer>>

\* StaleAdTimeoutSeconds pass at the peer.  The host refreshes its own ads in
\* time, so they stay fresh here.
PeerAge(m) ==
  /\ peer[m] # None /\ peer[m].fresh
  /\ peer' = [peer EXCEPT ![m].fresh = FALSE]
  /\ UNCHANGED <<row, file, engine, task, own, poll>>

\* Requests load models, idle engines are released, the runner goes and comes.
EngineChanges ==
  /\ \E e \in {"unreachable", "empty"} \cup {m \in Models : Offered(row[m]) /\ row[m].managed} :
       engine' = e /\ e # engine
  /\ UNCHANGED <<row, file, task, own, peer, poll>>

\* A download ends, or an artifact is deleted.
FileChanges(f) ==
  /\ file' = IF f \in file THEN file \ {f} ELSE file \cup {f}
  /\ UNCHANGED <<row, engine, task, own, peer, poll>>

Handler(t) ==
  \/ \E m \in Models :
       \/ \E managed, enabled, published \in BOOLEAN :
            SaveHostedModel(t, m, managed, enabled, published)
       \/ DeleteHostedModel(t, m)
       \/ \E f \in Files, published \in BOOLEAN :
            PrepareManagedModel(t, m, f, published) \/ LoadManagedModel(t, m, f, published)
  \/ UnloadManagedModel(t)

Advertise(t) == ListRows(t) \/ syncManagedInventory(t) \/ AdvertiseEnd(t)

Next ==
  \/ \E t \in Tasks \ {Timer} : Handler(t)
  \/ \E t \in Tasks : Refresh(t) \/ Advertise(t)
  \/ \E p \in Polls : PollServed(p) \/ PollAnswered(p) \/ PollLost(p)
  \/ \E m \in Models : PeerAge(m)
  \/ EngineChanges
  \/ \E f \in Files : FileChanges(f)

Spec == Init /\ [][Next]_vars

\* catalogLoop never stops, what has begun ends (the runner and the peers are
\* asked under a timeout), and time passes.
FairSpec ==
  /\ Spec
  /\ WF_vars(Refresh(Timer))
  /\ \A t \in Tasks : WF_vars(Advertise(t))
  /\ \A p \in Polls : WF_vars(PollAnswered(p) \/ PollLost(p))
  /\ \A m \in Models : WF_vars(PeerAge(m))

-----------------------------------------------------------------------------
(* What the catalogue promises. *)

\* Every variable stays in its domain.
TypeOK ==
  /\ row \in [Models -> Rows \cup {None}]
  /\ file \subseteq Files
  /\ engine \in Models \cup {"unreachable", "empty"}
  /\ \A t \in Tasks : task[t].pc \in {"idle", "scan", "save", "probe"}
  /\ {own, peer} \cup {poll[p] : p \in Polls} \subseteq [Models -> Ads \cup {None}]

\* A model that stays withdrawn (its row deleted, disabled or no longer
\* published) ends up listed nowhere, though refreshes and answers from before
\* the withdrawal may file it again (the tombstones of advertiseLocalModels,
\* StaleAdTimeoutSeconds).
WithdrawnDisappears ==
  \A m \in Models :
    <>[]~Offered(row[m]) => <>[](m \notin ListAvailable(own) \cup ListAvailable(peer))

\* Once nothing is in progress, the host's catalogue holds no newer revision of
\* a model the owner shares than its row has: a newer one is a tombstone that
\* Upsert keeps against every later refresh, so the model stays unlisted
\* (advertiseLocalModels, which is to keep its owner from being told "selected
\* model is offline or host is unreachable" for a model the runner serves).
SharedIsOffered ==
  \A m \in Models :
    ((\A t \in Tasks : task[t] = Idle) /\ Offered(row[m]) /\ own[m] # None)
      => own[m].rev <= row[m].rev

=============================================================================
