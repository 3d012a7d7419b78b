# Woolwire: a TLA+ verification project

Woolwire is a self-hosted application by which a small group of people share
the language models that run on their own machines. Every installation has a
database, a local API for its owner, a peer API for the other members of the
room and, optionally, a runner companion that owns one `llama-server` process.
There is no central server: the installation that created the room signs the
roster, everything else is exchanged between members.

This directory holds TLA+ models of the parts of that program where
interleavings, failures and ordering decide whether it is correct, TLC
configurations that check them, and proofs for TLAPS. All paths below are
relative to `src/`.

- [Inventory](#inventory)
- [Modules and the code](#modules-and-the-code)
- [Runs](#runs)
- [Fairness](#fairness)
- [Proofs](#proofs)
- [What the checks found](#what-the-checks-found)
- [Limits](#limits)
- [Plan](#plan)

To check a configuration or a proof:

    tlc -workers 2 -config MCFairQueue.cfg MCFairQueue
    tlapm FairQueueProofs.tla        # the same for the other Proofs modules

## Inventory

### Parts that are modelled

| Part | State | Operations | What is hard |
| --- | --- | --- | --- |
| Fair request queue, `internal/inference/queue.go` | limits, counters, one FIFO per member, rotation, items by key | Submit, execute, Cancel, CancelMember, SetLimits, Close | a waiter's timer or context races the dispatch of its item; limits change under load; one request id is retried |
| Managed engine lifecycle, `internal/inference/service.go` | lifecycle gate, idle timer and generation, `demandLoaded`, `manualPinned`, policy | Execute, Load/UnloadManagedModel, timer callbacks, SetIdleUnload, SetRunner, Close | a fired timer waits for the gate while the world changes; the answer of a runner call is lost |
| Runner controller, `internal/runner/controller.go` | status, loaded arguments, engine process, last requester, `modelMu`, cancel function | load with draft fallback, unload, restart, inference, cancel, reaper, Close | the engine dies at any time; its reaper runs late; one lock for the handlers, another for the fields |
| Room membership, `internal/peerapi/server.go`, `internal/localapi/{server,background}.go` | per installation: room row, signed memberships, peer addresses | join, approve, remove, rotate, approval mode, leave, background roster poll | handlers read a row, sign, and write the whole row back; rows travel through peers in any order |
| Community log, `internal/community`, `internal/localapi/community.go`, `internal/peerapi/replication.go` | per installation: signed events with an author number and a replication mark | post, edit, delete, moderate, sync with every peer page by page, materialise | gaps below a cursor, failed pages, lost answers, order of arrival |
| Chats, `internal/localapi/{chats,chatbranch}.go` | a tree of messages per saved conversation, turns in memory for a no-save one | create, delete, send, regenerate, edit, select a variant, stream, save | the tree is read before a generation of minutes and written after it; the question and the answer of an edit are two transactions |
| Artifacts, `internal/hosting/{artifacts,hfcache}.go` | files, blobs, manifests, budget, jobs with their open transfer and staging file | download with companions, cancel, import, delete, set the budget, restart | transfers run without the lock and are charged chunk by chunk; blobs are shared between revisions and with other tools |
| Contribution receipts, `internal/contributions`, `internal/localapi/contributions.go`, `internal/peerapi/replication.go` | per installation: receipts with a replication mark, opt-out | sign, counter-sign, acknowledge, opt out, sync page by page, leaderboard | cursors by second, pages that end inside one, ids left out beyond a limit, both stores growing meanwhile |
| Catalogue, `internal/catalog/ad.go`, `internal/localapi/{models,managed}.go`, `internal/peerapi/server.go` | rows of hosted models, signed ads with revisions at the host and at each peer | save, delete, prepare, load, unload, inventory scan, refresh, poll | refreshes overlap, each with rows it read seconds ago; withdrawing is a tombstone one revision up |

How they interact: the local API and the peer API both submit generations to
the fair queue; the function that the queue runs is `Service.Execute`, which
takes the lifecycle gate and calls the runner controller over HTTP. Removing a
member (owner request or a roster row that arrives by poll) calls
`FairQueue.CancelMember`. The peer API admits a connection by looking the
caller's device key up in the roster that room membership maintains. The
community log and the contribution receipts accept only events of admitted
members. All of them share one SQLite database in which a single statement is
atomic (`store.mu`), while a handler is several statements. A chat reads the
host's catalogue before it submits a generation; a generation for another
member ends in a receipt; deleting an artifact is what the next inventory scan
finds, and the scan ends in an advertisement.

What makes each part correct:

- *Queue*: no slot is leaked, charged twice or left idle while somebody waits;
  the counters agree with the queues; no member is starved by another's deep
  queue; every call returns.
- *Lifecycle*: an engine the owner pinned is never released by the timer; no
  generation is interrupted; a demand-loaded engine is released in the end and
  never forgotten; a policy of "never" leaves no release behind.
- *Runner*: at most one engine process that was not told to stop, and no
  process without a reaper; two members never share one; a request is served by
  the model it names; the status tells the truth and is never stuck; a cancel
  hits the request that runs.
- *Membership*: every copy of the roster is the creator's or older; a version
  is signed for one change; a removal is final; a rotated code is dead.
- *Log*: an author's numbers grow; an exchange leaves nothing behind; every
  event reaches every member; what was deleted stays deleted.
- *Chats*: one transcript is visible; an answer stands below the question and
  the context it was generated from; a deleted chat leaves no rows.
- *Artifacts*: nothing grows beyond the budget; a failed transfer leaves nothing
  that weighs on it; deleting one model damages no other.
- *Receipts*: a session fetches what it asked for; equal stores give equal
  leaderboards.
- *Catalogue*: a shared model is listed and a withdrawn one disappears.

### Parts that are not modelled

| Part | Why |
| --- | --- |
| Community text sanitiser | a pure function on text; no property depends on the content of a message |
| Owner setup and sessions, `internal/localapi/server.go` | authentication: rests on cryptography and randomness, not on an order of steps |
| GGUF reader, hub client, hardware, model paths | parsing and I/O without state |
| Relaying in the inference transport, adapters, SSE, OpenAI endpoint | streams of text; what they call into is modelled, and a stream's outcomes are in `ChatTree` |
| Schema, migrations, settings | SQL; the statements the modules use are atomic reads and writes of rows |
| Transport, identity, TLS | networking and cryptography, taken as perfect |
| Metrics, build information, process wiring, web interface | reporting, wiring and presentation |

Inside the modelled parts, what is left out is listed under [Limits](#limits).

## Modules and the code

`PROJECT.json` maps every definition to its lines.

**SlotPool** is the abstract specification of the queue: a pool of slots, a
line per member, and calls that are new, parked, holding a slot, done, refused
or gone. It says what a caller may rely on and nothing about counters,
rotations, flags or locks.

**FairQueue** is `queue.go` with its data structures. One action is one
critical section of `q.mu`, except that the loop of `dispatchNextLocked` is one
action per iteration (`DispatchOne`), with `lock` held in between. The `select`
at the end of `Submit` is three actions, `WakeReady`, `QueueTimeout` and
`ContextDone`, which may all be enabled at once. `bypass` is a history variable:
how often each member was served since another began to wait.
`ImplementsSlotPool` is the refinement.

**ManagedLifecycle** is `service.go`. Processes are the calls of `Execute`, the
owner's calls and the callbacks of the timer. One action is one critical
section of `stateMu` or one call of the runner. Durations are abstracted, so a
timer may fire and a context may end at any time; a generation number is only
ever compared with the current one, so a callback carries the comparison.
`Faults` names the ways a runner call may fail: before or after it took effect,
with or without its answer, or with a load that the runner finishes only after
the call was given up (`late`). The runner itself is reduced to the model it
holds. Two history variables name the windows in which the code loses track of an
engine: `adrift` (it came about where the service could not see it, or it was
pinned when a later owner load failed) and `stranded` (an owner's unload stopped
the timer and failed).

**RunnerController** is `controller.go`. Handlers hold `modelMu` for their whole
visit; reapers, cancels, Close and the death of the engine interleave with each
of their critical sections. Engine arguments are a model and a draft flag.
`stopEngineLocked` only sends SIGKILL: the process is `killed` until it ends, and
the next engine may start beside it. `served` and `procArgs` are history
variables, and so is `unseen`: the engine was reaped between a handler's last look
at it and the status that handler writes.

**RoomMembership** has one database per installation and one task per handler
in progress. `Begin` reads the room row, `GetMember` the member, `SaveMember`
and `SaveRoomState` write; each is one SQL statement and each save may fail, with
its error ignored where the code ignores it. Tasks of the creator overlap freely,
and write back whole rows that they read earlier. The history variable `lost`
records when that costs an update: a version signed on an outdated row, or signed
and not recorded, or a code set back or not saved. The joiner stores the answer
to a join statement by statement (`JoinAnswered`, `StoreOwn`, `StoreRoster`,
`StoreAddresses`). The background poll is `SyncMembership`,
`SyncAnswered`/`SyncFailed` per peer, `CheckUpdate` and `WriteUpdate` per row and
`AdvanceVersion`. A crash discards tasks and keeps the tables.

**CommunityLog** has one log per installation. An event never changes once it
is signed, so its content is global and a log is a set of ids; which id an
event gets is its hash, so ids are chosen freely. `ReadSeq` and
`PostMessage`/`EditMessage`/`DeleteMessage`/`ModerateMessage` are the two
database accesses of a handler, between which another request of the same owner
may sign under the same number. `seen` and `before` are history variables: what an
author had signed when a request began, which tells requests that overlapped from
those that did not. `ListEventsAfterCursor` is the query that answers a page, from
cursors, gaps, ids and conflicts. `Winners`, `Before`, `Applies` and `Hidden` are
`Materialize`.

**ChatTree** has one task per handler in progress. `SendMessage`,
`RegenerateMessage` and `EditChatMessage` read the tree and fix the parent and
the context (a send may name any message id as its parent, also one of another
conversation or one that is gone: the code does not check it, and such a question
counts as a root); `OpenStream`, `Emit` and `StreamEnd` are `streamGeneration`;
`SaveQuestion`, `SavePendingUser` and `SaveAnswer` are its transactions, each of
which may fail without the handler noticing. `activeBranch`, `branchThrough` and
`pickActive` are the functions of `chatbranch.go`. `seen` is a history
variable: the context each answer was generated from.

**Artifacts** has one job per download. `startTransfer`, `chargeTransfer`
(inside `ReadChunk`), `placeDownload` and `finishTransfer` are the critical
sections of the manager's lock; a job works through the model and its
companions and may fail at each step or be cancelled. A path always brings the
same bytes, so a snapshot entry names `Content[path]`. `Restart` forgets the
jobs and keeps the disk: their staging files become `stale`.

**Receipts** has one store per member. `SignHost`, `InboundReceipt` and
`ContributionsAck` are the life of a receipt, with loss on either way. A page of
a session is `SyncRequest`, `ContributionsSync` at the peer and `SyncApply`.
`ListReceiptsAfterCursor` is the query. `owed` is a history variable: of what the
session's first request asked for, the part whose signers the member knew then.
`CalculateLeaderboard` takes the order
in which the store returns receipts as a parameter, since SQL leaves the order
of equal timestamps open.

**Catalog** has one host, one peer and one task per handler or refresh. Every
handler ends in `advertiseLocalModels`, which is `ListRows`,
`syncManagedInventory` and `AdvertiseEnd`, with the probe of the runner before
the last. A poll is `PollServed` and `PollAnswered` or `PollLost`; `PeerAge`
makes an ad stale.

**FairQueueProofs**, **ManagedLifecycleProofs**, **RunnerControllerProofs**,
**RoomMembershipProofs**, **CommunityLogProofs**, **ArtifactsProofs**,
**ChatTreeProofs** and **ReceiptsProofs** hold the proofs about the module they
are named after, with the lemmas on sequences, sums and induction they use.
**MC** modules give constants their values.

## Runs

| Run | Instance | Properties | What it shows |
| --- | --- | --- | --- |
| `queue` | 2 members, 4 calls, three of one member, of which one retries the request id of another; 3 limit settings | TypeOK, Bookkeeping, SlotsHeld, WorkConserving, BoundedBypass, SlotsWithinLimit, ImplementsSlotPool, EveryCallReturns | no interleaving corrupts the queue, a deep queue starves nobody, every call returns, and it implements the abstract pool |
| `lifecycle_safety` | 2 models, 3 requests (one misconfigured), an owner, 2 callbacks, all faults, any engine at boot | TypeOK, ReleaseDiscipline, NeverForgotten, Uninterrupted | pins, policies and generations are respected and no engine is forgotten through every fault, but for the windows `adrift` and `stranded` name |
| `lifecycle_liveness` | 4 requests (one external), no owner calls, every fault but a failing probe and a late load | IdleEngineReleased | a demand-loaded engine is released in the end |
| `runner_safety` | 2 handlers, 2 engine processes, 2 models, 2 members, 7 requests | TypeOK, ModelMuExact, EngineOwned, RequestsIsolated, StatusTruthful | crashes, slow deaths and late reapers leave one engine that was not told to stop, one member per engine, a truthful status (but for the window `unseen` names) and no lost lock |
| `room_safety` | the creator, which may crash, and a joiner, 4 versions, 2 codes, 2 tasks in progress, saves that fail | TypeOK, CreatorAhead, OneChangePerVersion, CodeCurrent, RemovalIsFinal | up to the step that loses an update of the room row, roster rows only ever lag behind the creator's, and codes and removals stay |
| `community_safety` | 2 members, 3 events, 2 overlapping requests of the creator and one of the other member, one exchange of pages at a time, pages of 1, ids sent up to 1 event | TypeOK, NumbersGrow, SyncComplete, HiddenStaysHidden | only requests that overlap share a number; an exchange leaves behind at most the loser of such a number; a hidden message shows again only when its deletion overlapped another request |
| `community_liveness` | 2 members, 3 events, 2 overlapping requests of one member, which post, pages of 2, no ids sent | EveryEventSpreads | every event spreads, through gaps and with shared numbers, unless events that share numbers fill a page ahead of it |
| `chats` | 2 conversations, 2 handlers at a time, 5 messages, 3 no-save turns, any parent named | TypeOK, TranscriptSound, AnsweredInContext | overlapping sends, edits, regenerations and switches leave one transcript and every answer in its context |
| `artifacts` | 2 jobs, 5 paths over 2 contents, a foreign cache entry, budgets 3 and 5 | TypeOK, CacheSound, NothingLeft, BudgetRespected | the budget holds and no cache entry is damaged, through failures at every stage |
| `receipts` | 3 members, 3 receipts of 2 pairs, 2 seconds, pages of 1, ids sent up to 1, cap of 1 | TypeOK, LeaderboardsAgree, SessionComplete | a session that ends by itself fetched what it asked for; equal stores show equal leaderboards |
| `catalog` | 1 model whose id the inventory shares, the refresh timer and one handler, 1 poll, 3 revisions | TypeOK, WithdrawnDisappears | a withdrawn model disappears from both catalogues |
| `catalog_shared` | the same | SharedIsOffered (violated) | see [What the checks found](#what-the-checks-found) |

The two runs of the log are separate because liveness with every kind of event
takes too long; the two of the lifecycle because liveness fails by the code once
the owner intervenes (see below). The largest instance has about 1.1 million
states (`community_safety`), and no run takes longer than about two and a half
minutes. `room_safety` stops exploring a behaviour once an update of the room row
was lost: all its properties speak of what happens before.

Why the bounds are enough. *Queue*: two members are needed for rotation, three
calls of one of them for a queue deeper than one, a shared request id for the
duplicate check, and limits of one and two slots for lowering and raising them.
*Lifecycle*: a second model for the switch, a second callback for one that is
stale while another is fresh. *Runner*: a second process, so that a killed or dead
one waits for its reaper beside a live one. *Room*: two tasks, so that every pair
of handlers overlaps; a member that is admitted, removed and asks again; four
versions for an admission, a removal and two more changes beside them. That rows
also travel between members without the creator, and that a joiner crashes, is left
to the theorems: a second joiner makes the run too large. *Log*: with ids sent only for a log of one event,
both ways of naming what is missing are used; with pages of one event every
exchange is paged; three events are a message, its deletion and a later edit, or
two events of one number and one of another author. *Chats*: five messages are a
question with its answer, and an overlapping turn beside or below them; two
conversations, so that a deletion can hit the wrong one and a question can name a
parent in the other. *Artifacts*: a model with a companion next to a download of unknown size
and one larger than announced, over budgets that hold one and two of them; two
revisions and another tool share a blob. *Receipts*: two receipts of one pair
in one second for a page that ends between them and for the cap, a third of
another pair, and a member whose roster lacks one of the signers. *Catalogue*:
the race needs two overlapping refreshes and one model; three revisions are
sharing, withdrawing and sharing again.

Deadlock is checked in every run.

Each property of a passing run is paired in `PROJECT.json` with a mutant of the
code (a dropped guard, a missing reset, an off-by-one) under which TLC finds it
violated.

## Fairness

- `FairQueue`: the dispatch loop keeps running; a goroutine whose channel is
  closed is scheduled; `runFn` returns, since `execute` bounds it with
  `ExecTimeout`. Nothing is assumed of the queue timer or of callers.
- `ManagedLifecycle`: runner calls return (their contexts end), a running timer
  fires, the gate is a channel that serves its waiters in order (strong
  fairness of `acquireManaged`), and a runner asked again and again to unload
  does so in the end (strong fairness of `CallbackUnloadOK`).
- `CommunityLog`: the sync loop keeps running (it has a ticker) and a peer that
  is asked again and again answers a page now and then. Without the last
  assumption two members could simply be disconnected for ever.
- `Catalog`: `catalogLoop` has a ticker; the runner and the peers are asked
  under a timeout, so what has begun ends, answered or lost; time passes.

No liveness is claimed for the other modules. Receipts spread only when an owner
asks (`POST /api/v1/contributions/sync`), a generation lasts as long as its
stream, and a handler of the runner waits for an engine that may take its time;
for the last, `ModelMuExact` shows that no path loses the lock, so a waiter
always waits for a handler that is at work.

## Proofs

Every safety property that a passing run checks is also a theorem, for any
values of the constants, except the types of `Catalog`; so is the refinement of
`SlotPool`. Each proof module names an inductive invariant, shows
that `Init` implies it and that every step keeps it (one lemma or one case per
action), and derives the properties from it.

    FairQueueProofs         TypeOK, Bookkeeping, SlotsHeld, WorkConserving,
                            BoundedBypass, SlotsWithinLimit, ImplementsSlotPool
    ManagedLifecycleProofs  TypeOK, ReleaseDiscipline, Uninterrupted,
                            NeverForgotten
    RunnerControllerProofs  TypeOK, ModelMuExact, EngineOwned, StatusTruthful;
                            RequestsIsolated under Named
    RoomMembershipProofs    TypeOK, CreatorAhead, OneChangePerVersion, CodeCurrent,
                            RemovalIsFinal
    CommunityLogProofs      TypeOK, NumbersGrow, HiddenStaysHidden, SyncComplete
    ArtifactsProofs         TypeOK, NothingLeft, CacheSound, BudgetRespected
    ChatTreeProofs          TypeOK, TranscriptSound, AnsweredInContext
    ReceiptsProofs          TypeOK, SessionComplete, LeaderboardsAgree

### Assumptions and windows

The assumptions on constants say that members, models and so on are assigned as
the code assigns them, that limits are numbers, and that there are finitely many
handlers, jobs and files, as in a process. They are evaluated by TLC in every run.

One theorem has a hypothesis that restricts the constants further. `Named`
(runner): every inference request names its member. A request that does not
overwrites `lastRequester` with nobody (`internal/runner/controller.go:969`). The
only client, `StreamChat` in `internal/hosting/runner_client.go`, is called from
`internal/inference/service.go:599` with the member that
`internal/peerapi/inference.go:78`, `internal/localapi/chats.go:664` and
`internal/localapi/openai.go:242` pass on.

Where the code has a window in which a promise fails, the models keep the window
and the property names it through a history variable, so that it says where the
promise ends and that it ends nowhere else:

- `adrift` and `stranded` (`NeverForgotten`): an engine the service cannot see or
  does not remember, a release that an owner's failed unload stopped
  (`internal/inference/service.go:202`, `:238`).
- `unseen` (`StatusTruthful`): an engine reaped between the last look at it and the
  write of ready or busy (`internal/runner/controller.go:741`, `:968`).
- `lost` (`CreatorAhead`, `OneChangePerVersion`, `CodeCurrent`, `RemovalIsFinal`):
  an update of the creator's room row that an overlapping task, a failed save or a
  crash has lost (`internal/peerapi/server.go:288`, `:302`).
- `before` (`NumbersGrow`, `HiddenStaysHidden`): requests of one owner that
  overlapped, which may sign under one number (`internal/store/store.go:1003`).

### The arguments

*Queue.* `FairQueueInv` is the conjunction of the properties with three
strengthenings. `FlagsExact`: an item's `removed` and `dispatched` flags agree
with where its goroutine is; without it a dispatched item could be thought to be
in a queue. `LockExact`: the lock is held inside the dispatch loop only while the
loop's condition holds, so that `WorkConserving` is restored when it is released.
`BypassOrder`: a member further ahead in the rotation has not been served since a
member behind it began to wait; `BoundedBypass` alone is not inductive, since the
second service of a member is excluded by its place behind the waiting one.
`Bookkeeping` is the conjunction of `CountersExact`, `RotationExact`,
`QueuesExact` and `RequestsUnique`, each with a theorem of its own.

*Refinement.* `QueueImplementsPool` maps each item to its fate in the pool and each
member's queue to its line. `Fates` gives the fate of an item from its flags and
its goroutine, `FateMoves` what changes when one item moves, `HoldingCount` that
the charged slots are the items that hold one; then every action is a step of
`SlotPool` or a stutter (`NextPool`). The invariant is needed twice: an item that
leaves is at a known place in its line, and the counter the code compares with
the limit is the number of holders.

*Lifecycle.* `LifecycleInv` adds `GateExact` (only the gate's holder is in a gated
phase) and `LoadingFlags` (a request that loads has cleared both flags, an owner
that loads has set the pin): a callback between its check and its unload holds the
gate, so nobody can pin the engine in between. `ReleaseInv` adds, for
`NeverForgotten`, that a release which may happen is ahead or covered by somebody
at the runner (`ReleaseKept`), and that a resident engine is known to the flags,
adrift, or remembered by a load in progress (`EngineKnown`): between the failure of
a load and the answer of its probe, the flags alone say nothing.

*Runner.* `RunnerInv` says who is past `modelMu`, which processes run in each phase
of a launch (`EnginePhases`, `Known`), that each has its reaper (`Reaped`) and that
the recorded arguments describe them (`LoadedPhases`); a late reaper then finds
that its process is not the registered one. `ReadyInv` extends the claim about
ready and busy to the handlers about to write them. `ServedInv` adds whom an engine
has served.

*Room.* `RoomInv` says that, until a version is lost, at most one task is between
its two writes (`OneSigned`), what a task has read is not ahead of what is stored
and what it signed is still there (`Fresh`), and every row in any table, answer or
inbox is the creator's or older, with no two rows at one version (`Rosters`).
`CreatorAhead` speaks only of the tables and is not inductive without the rows on
their way; `RemovalIsFinal` needs that a task which admits a member on an up-to-date
room row did not find it removed.

*Log.* `LogInv` adds `OwnKept` (an author holds all of its own events, whatever its
peers send) and `SeenBelow` (the number a request has read is above those of the
events signed before it began, though not above those signed since).
`HiddenStaysHidden` follows because the event that hid a message can only lose its
place to one of the same number, and those overlapped. `SyncComplete` follows from
the query alone: when a page is empty, the cursors, the gaps, the listed ids and the
numbers held twice account for every event the peer holds. Numbers have no gap of
more than one, so that the number of ids bounds them (`Counted`).

*Artifacts.* `Stands` says, for each phase of a job, which of the transfer, the
reservation and the staging file it has. `Recorded` says that a file a running
job has placed lost its manifest only with the file. `BudgetRespected` compares
sums over jobs and files before and after a step: the lemmas at the top of the
module show that the sum over a finite set has the recursive equation, splits off a member, grows
with its terms and changes by one term when one term changes.

*Chats.* `ChatInv` adds, for every handler in progress, `Home` (its place is below
an id that was drawn before), `Unborn` (nothing hangs below the question it has
yet to file, no client can have named it, and no other handler has its id) and
`Context` (what the model was given is still what stands above that place, as far
as its own conversation reaches).
`Moves` describes a step of the table as one message stored, the messages of one
conversation deleted, and every other one kept but for its active mark;
`InsertStep`, `ActivateStep` and `DeleteStep` show that the three statements are
such steps, `BranchKept` that they leave the branch above every other message
alone, and `OthersKept` that a handler that does not move keeps its place, its
question and its context. `branchThrough` is recursive: `PathExists` builds its
solution from the root, `Branch` is its equation, `SameBranch` compares it in two
tables.

*Receipts.* A session asks for page after page while receipts are signed and
delivered at both ends. `ReceiptInv` says for every session in progress that the
peer holds what is owed and the requester would accept it (`Carried`), that no
page cursor hides an owed receipt that is not stored yet (`Ahead`) and that, once
the peer has answered, such a receipt is in the page or not hidden by any of it
(`Coming`); `SessionComplete` alone looks only at the last page. It is kept
because receipts never change and stores and rosters only grow (`Grows`), because
a page is the beginning of what was asked for (`PageFacts`) and moves the cursors
no further than its last receipt (`CursorFacts`, `CursorTime`), and because what
is asked for once is not skipped by a later request (`AskedNotSkipped`). That a
page has a last receipt needs that only finitely many were signed, which is a
conjunct of `Typed`. The leaderboard counts along a sequence: `CountedEquation`
gives the recursion its equation, `CountedFacts` shows that of each pair and day
all receipts are counted or exactly `MaxPerPairDay`, so two orders of one store
count equally many of each, and `SameSizeByClass` puts the days of a host together
(`LeaderboardsAgree`).

Induction is used with the claim as a set (`NumberInduct`, `SubsetInduct`): a set
of naturals that has every number whose predecessors it has is `Nat`.

### Only model-checked

- Liveness: `EveryCallReturns`, `IdleEngineReleased`, `EveryEventSpreads`,
  `WithdrawnDisappears`. The prover has no rules for fairness and `ENABLED`.
- `Catalog`: `TypeOK`. Its other properties are a liveness property and the one the
  code violates, so there is no invariant that matters to prove. Its types need
  `MaxRev` to be at least 2: with 1 TLC shows a row that the inventory adds at the
  last revision and disables at the next.

## What the checks found

`catalog_shared` shows a statement in the repository that the code does not
meet. `advertiseLocalModels` lists the rows, asks the runner for up to five
seconds, and only then files its ads. One that listed the rows before a model
was shared finds the ad that the owner's own refresh has filed meanwhile, takes
it for one of a withdrawn model, and replaces it by a tombstone one revision up
(`internal/localapi/models.go:683`). Every later refresh advertises the row at
its own, lower revision, which `Upsert` refuses: the host's own catalogue keeps
the shared model offline until the owner saves the row again, against the
comment at `internal/localapi/models.go:583-589`, by which the refresh is there so
that the owner is not told "selected model is offline or host is unreachable" for a
model the runner is serving. Peers are served from the rows and are not affected.

Seen while modelling, without a run of their own:

- *Lifecycle*: a failed explicit load forgets an engine that was itself loaded
  explicitly and survived (`internal/inference/service.go:202` keeps no
  previous pin, against the comment at lines 208-212). An explicit unload that
  fails stops the idle timer and does not arm it again (line 238). A load that
  the runner finishes after its call was given up leaves an engine the service
  does not know. With `stranded` taken out of `NeverForgotten`, TLC shows the
  second; with `adrift` taken out, an empty runner at boot and
  `Faults <- MCNoHealthFault`, the first.
- *Runner*: an engine that exits between its last health answer and the write of
  the ready status is reported ready (`internal/runner/controller.go:741`,
  against the comment at lines 706-707). Close between the start of an engine and
  its registration leaves the process behind (line 700). A killed engine is not
  waited for before the next is started on its port (line 805). A cancel carries
  no request id and ends whichever request is served when it arrives
  (`docs/API.md:340` says no more than "Cancel the active inference").
- *Room*: two overlapping handlers of the creator read the same room row and
  sign the same version, so that a removal can carry a version that peers already
  hold (`docs/ARCHITECTURE.md:68` calls updates monotonically versioned); the later
  write can bring a rotated code back, and an approval that overlaps a removal
  readmits the member, since `SaveMember` is an unconditional upsert. A crash or an
  ignored error between the two writes has the same effect on versions. With `lost`
  taken out of the properties and of the bound in `MCRoomMembership`, TLC finds each
  of the four violated.
- *Log*: local events are marked replicated although no peer was reached
  (`internal/localapi/community.go:635`); the gap mechanism makes up for it,
  which is what `community_liveness` shows. Two overlapping requests of one owner
  sign under one number, and every member then drops the event with the larger
  id; a deletion dropped so shows its message again. `ConflictedAuthors`, by which
  "the author is surfaced" (`internal/community/materialize.go:50-55`), is read by
  no code outside tests. Once ids are no longer listed, events that share a number
  are sent with every page until the page limit, and a page full of them keeps back
  everything that sorts behind it (`PushedOut`).
- *Chats*: a no-save generation that ends after its conversation was deleted
  puts its turns back into memory (`internal/localapi/chats.go:697`, against
  `docs/REVIEW_TASKS.md:436`). An edited question can be saved without its
  answer, or the answer without it (line 716), against the comment above it. The
  `parent_id` of a send is stored unchecked (line 239): a question whose parent is
  not in its conversation counts as a root and may be hidden behind the first
  active one.
- *Artifacts*: a staging file that a crash leaves behind is counted against the
  budget for ever, since nothing removes it. Between the placement of a
  companion and the write of its role it is listed as a model. A step that
  completes a download rewrites the manifest of an artifact deleted meanwhile.
- *Receipts*: with more than 500 receipts the ids are left out of a request, and
  a receipt older than its pair's newest is then never fetched. A page of which
  every receipt is refused ends the session. The page cursors cover only the pairs
  of the last page (`internal/peerapi/replication.go:305-312`), so without ids the
  pairs that are finished are sent again until the page limit.
- *Catalogue*: peers are always told "ready" (`internal/peerapi/server.go:440`),
  also of a model that is unloaded, against `internal/localapi/managed.go:569`.
- *Inference transport*: the peer API opens the event stream before it submits,
  so a full queue reaches the requester as an empty stream that completed.

## Limits

- `room_safety` has one joiner, which does not crash, and two tasks in progress at a
  time; the theorems cover any number and any crash. A node runs one poll at a time. Failed saves are modelled on the
  creator's side only. `rosterSnapshot` leaves out the branch for a request
  without known versions, which no caller in the repository sends to that endpoint.
  The creator's own room is never closed.
- `runner_safety` uses inference requests that name their member, as both
  callers in the repository do; a request without one clears `lastRequester`,
  and the next member then shares the engine of the previous one.
- `lifecycle_liveness` leaves out the owner's calls, a failing health probe and a
  load that succeeds late, because of the behaviours above: after them the service
  may not know what is loaded, and nothing releases it. `lifecycle_safety` has them
  all. An unload that takes effect late is a crash of the engine.
- `CommunityLog`: a round trip of an exchange is one step, and a node runs one
  exchange at a time; logs only grow here, so a request that was built from an
  older log is answered with more, never with less. Every event is accepted: the
  refusals of `AcceptInboundEvent`, and with them the session that ends on a page
  of refused events, are left out. All timestamps are equal in the runs, so the
  order of events is by number and id; `community_liveness` only posts, since no
  step of an exchange looks at the kind of an event. Channels, read marks and
  retention are not in the model.
- `ChatTree`: ids are drawn in the order of creation times, so two messages of
  one moment are not considered. The choice of host and thinking level, listing,
  and the text of messages are left out.
- `Artifacts`: the migration of flat downloads, the fallback from links to
  copies, failed writes of a manifest and the discovery scan are left out.
- `Receipts`: `SessionComplete` speaks of sessions that end because the peer has
  nothing more to send, and of what the session's first request asked for and the
  member could verify then; that a push is lost is not caught by it. A member runs one round at a time; receipts are never deleted, as in the code.
- `Catalog`: a handler's read and save of one row are one step, and so are the ads
  and tombstones that one refresh files (the code files them one after the other
  over the list it read; each concerns another model). The branch of the scan that
  finds a changed row (renames, thinking support), which can save a stale copy of
  the row, rows without a file name, and the test and discover handlers are left
  out. `WithdrawnDisappears` says nothing of a row that a stale scan brings back.
- Signatures and TLS are perfect. SQL statements succeed, except the saves of a
  generation in `ChatTree` and those of the creator in `RoomMembership`.

## Plan

1. Done: the models; the proofs listed under [Proofs](#proofs).
2. Proofs that are left: `TypeOK` of `Catalog`; the four liveness properties need
   a prover with rules for fairness.
3. Extend the log with channels, and with retention once the numbers it frees
   are understood; add the changed branch of the scan to `Catalog`.
4. A composition of the roster with the queue: a member that was removed holds
   no slot for ever and gets no new one.
