# TLA+ models of ForgeDesk

ForgeDesk is a Go web application (PostgreSQL, server-side HTML, one WebSocket
hub, an agent orchestrator) in which members of an organization write tickets,
refine them in *feature debates* with several AI providers, and hand them to
coding agents. This directory holds TLA+ models of its stateful parts, the TLC
configurations that check them and TLAPS proofs of what matters most.

Paths below are relative to the repository. `queries.go` is
`internal/models/queries.go`, `debate.go` is `internal/handlers/debate.go`.

## 1. The system

### Components

| Component | State | Operations | Where | Module |
|---|---|---|---|---|
| Debate rounds and text | `feature_debates`, `feature_debate_rounds`, `tickets.description_markdown` | start, reserve / refine / insert / clear, accept, reject, undo, approve, abandon, edit seed, ticket update | `debate.go`, `tickets.go`, `assistant.go`, `queries.go` | `DebateRounds`, `DebateDoc` |
| Effort scoring and retry sweep | `effort_*` columns, attempts, leases | score after accept, apply if not stale, claim a batch, retry, back off | `debate.go`, `queries.go`, `cmd/server/main.go` | `DebateScoring` |
| Debate spend | `total_cost_micros`, `debate_spend`, `project_costs` | charge refiner and scorer, monthly rollup in cents, edits by staff | `queries.go`, `costs.go` | `DebateScoring` |
| Round caps and budget | counts over rounds, ledger, `organizations.monthly_budget_cents` | check, then reserve; set the budget | `debate.go`, `orgs.go` | `RoundGates` |
| Organization members | `org_memberships` | add, remove, change role, create with owner | `orgs.go`, `queries.go` | `OrgOwners` |
| Invitations | `invitations` | create, register, accept, decline, revoke, resend, expire | `invitations.go`, `orgs.go` | `Invitations` |
| Agent dispatcher | `tickets.status`, `agent_mode`, `agent_name` | poll, plan, implement, report an error | `internal/orchestrator` | `AgentDispatch` |
| Agent workspaces | git clones and worktrees | clone, worktree, commit, push | `orchestrator/workspace.go` | `AgentDispatch` (in part) |
| Project chat | rooms, send buffers, one AI lock per project and replica, `ai_messages` | connect, register, broadcast, answer | `internal/ws`, `assistant.go` | `ChatRoom` |
| Password-hash gate | a channel of slots | acquire, release, give up | `internal/auth/hashgate.go` | `HashGate`, `Admission` |
| Sessions, two-factor login | `sessions`, TOTP and recovery codes | log in, verify, log out | `internal/auth`, `handlers/auth.go` | only what meets the gate |
| Ticket tree | `tickets`: parent, dates, archive flag | create, edit, widen parents' dates, archive, restore, delete | `tickets.go`, `assistant.go` | `TicketTree` |
| Attachments, reactions | object store, `ticket_attachments`, `reactions` | upload, delete, toggle | `files.go`, `reactions.go` | `TicketItems` |
| Projects and transfer | `projects`, `brief_revisions`, `ai_usage_entries` | create, transfer, edit and review the brief, record usage | `projects.go`, `assistant.go` | `Projects` |
| AI providers, rate limiter, rendering, diff, mail, configuration | none that two actors share | | `internal/ai`, ... | not modelled |

### How they meet

Everything but the hub, the hash gate and the rate limiter meets in PostgreSQL:
handlers run as goroutines, on any number of replicas, and share only rows. The
database runs READ COMMITTED. A statement sees what was committed when it
started; `SELECT ... FOR UPDATE` and `UPDATE` wait for the rows they lock and
re-read *those rows only*. Most of what is hard here follows from that rule:

* a handler reads a row, calls an AI provider for up to a minute with no lock
  held, and writes what it got into rows that have moved on;
* a guard evaluated in a subquery on another table keeps the snapshot taken
  before the wait for the lock;
* a reservation (a column pair in `feature_debates`) replaces the lock during
  the AI call, ages out after 90 s, and is cleared by debate id alone;
* scorers are detached goroutines whose answers return in any order, after the
  round they belong to was undone, and are retried by a sweep in every replica;
* a crash leaves the reservation, lease or ticket status it had written.

### What makes each part correct

* Rounds and text: one active debate of a ticket; accepted text is a chain; what
  is approved is what was accepted; a decided debate is frozen; a reservation
  excludes a second AI call and is never left for good.
* Scoring: the score shown belongs to the newest scored text; every accepted
  round is scored in the end, and by one caller at a time within its lease.
* Spend: the ledger, the debate's total and the monthly rollup agree; a budget
  that is reached stops new rounds.
* Members: an organization keeps an owner. Invitations: who becomes a member was
  invited, and an accepted invitation has made a member.
* Dispatcher: an agent runs for a cause, a ticket armed for one is served, and
  neither a ticket nor a commit is left behind unnoticed.
* Chat: who is connected misses nothing; answers build on each other; no message
  waits for ever.
* Hash gate: never more than N computations at once; slots are returned; a busy
  server says that it is busy.
* Tickets: a parent's dates enclose its children's; an archived ticket takes its
  subtree along; objects and rows agree.
* Projects: no text of a brief is lost; usage is booked where the project is.

## 2. Plan

| # | Module | Models | Abstract specification | Theorems |
|---|---|---|---|---|
| 1 | `DebateRounds` | rounds, text, reservation, tickets | `DebateDoc`: a debate as the trail of texts it stood at, checked by TLC and proved | type, text chain, terminal rows, reservation, the refinement (**done**) |
| 2 | `DebateScoring` | scorers, sweeps, leases, undo, ledger, rollup | none: that a score only moves forward is stated directly (`NewestScoreWins`) | newest score wins; ledger, total and rollup agree; no two calls at once within a lease (**done**) |
| 3 | `OrgOwners` | owner rows of one organization | | listed owners stay; lock order; reach of the last-owner guard (**done**) |
| 4 | `Invitations` | invitations and the memberships they lead to | | who was accepted has joined; who joined was invited (**done**) |
| 5 | `AgentDispatch` | poll, plan, implement, errors, crash, commits | | no run without a cause; nothing left claimed or unpushed (**done**) |
| 6 | `ChatRoom` | rooms, buffers, AI lock, history | | answers in turn; nothing missed, nothing invented (**done**) |
| 7 | `HashGate` | slots, waits, the requests that hash | `Admission`, checked by TLC, its safety part proved | the bound, the refinement of each step, no false rejection (**done**) |
| 8 | `RoundGates` | caps and budget in front of reservations | | the bounds of the overshoot (**done**) |
| 9 | `TicketTree`, `TicketItems` | the tree, attachments, reactions | | parents enclose; archived subtrees; the two stores agree; toggles (**done**) |
| 10 | `Projects` | transfer, brief, usage | | no text lost; usage follows (**done**) |
| 11 | `LoginFlow` (*open*) | session, second factor, one-time codes | | a code is used once |
| 12 | pure algorithms (*open*) | months, cents, the debate view | | |

Modules 1 to 10 are written, checked and proved about: every safety property a
run checks is a theorem. What remains is `LoginFlow`, and the algorithms.

## 3. What the models abstract

* **Statements and transactions.** A transaction that locks its row first and
  reads everything else afterwards is one step. A statement whose guard is a
  subquery on another table is two: the snapshot, then the write of the row it
  waited for. A read and a later write in separate statements are two steps.
* **Time** is what may have elapsed: a reservation is `aged` after 90 s, a round
  `settled` 5 min after its acceptance, a lease elapses, an invitation lapses. The
  time-outs of the code say when such a step is *not* possible (an AI call ends
  within 60 s, before its reservation ages).
* **Text** is a model value: only whether two texts are the same matters.
  Whitespace, CRLF folding and the diff are left out.
* **Failure.** A handler or replica that has work in the database may die between
  any two of its steps, and what it has written stays; a provider may fail, time out
  or hang; a statement or transaction may fail. `ChatRoom` kills a replica with its
  rooms, lock and goroutines (`Dies`). `HashGate` has no such step: its whole state is
  the memory of one process, which begins again at `Init`, and nothing outlives it.
  In `RoundGates`, `OrgOwners`, `Projects` a request that dies is one whose remaining
  statements fail or whose transaction is rolled back.
* Authorization, rendering and request parsing are left out: every user is
  someone who may do what he does.
* **History variables** are named as such (`ghost`, or *for the properties*).
  They excuse what the code allows, so that a property says exactly how far a
  guarantee reaches. Some of them stand for a hazard itself: two edits of a brief that
  overlapped (`overlapped`), a request overtaken by a transfer or without its project
  (`astray`), an invitation revoked after it was read (`late`), a push that failed
  (`broken`), an agent's run that was cut off (`excuse`), a deletion or upload cut off
  half-way (`stray`, `hollow`). There the property does not say that the hazard is
  harmless. It says that it is the only way to the bad state, and which rows it touches.

Debates appear in three modules at three levels. `DebateRounds` has the text and
the reservation of one ticket's debates; `DebateScoring` takes a round as an id
with a status and a cost; `RoundGates` takes a debate as the number of its
rounds. What happens in one is there in the others: undo deletes the round a
scorer works on, and a gate is passed before `Reserve`.

## 4. The modules

### `DebateRounds`

One ticket, all debates it ever gets.

| Model | Code |
|---|---|
| `row[d]` | a `feature_debates` row: status, seed, current, original and approved text, the reservation (`inFlight`, `aged`) |
| `rounds[d]` | its `feature_debate_rounds`, in `round_number` order |
| `description` | `tickets.description_markdown` |
| `req[r]` | a handler goroutine: where it is, the text it read, the one it will write, what its subquery found |
| `seedRaced` | history: the seed was written over a round (section 5, *seed race*) |

`StartDebate` .. `ReplyExhausted` are the two-attempt loop of `db.StartDebate`;
`Reserve`, `RefineReturns`/`RefineFails`, `InsertRound`/`InsertFails` and
`ClearInFlight` are `CreateRound`; `AcceptRound`, `RejectRound`, `UndoRounds`,
`ApproveDebate`, `AbandonDebate` are the five decisions; `EditSeed` then
`UpdateDebateSeed` or `SeedRefused` the seed edit; `EditTicket`, `StartUpdate`,
`UpdateTicket` the ticket form and the assistant's tool. `Crash` ends a request
anywhere, `ReservationAges` lets 90 s pass.

`InFlight` is compared by owner: the code's request id is a fresh UUID that the
row stores and nobody compares, which is why a late `ClearInFlight` can clear
somebody else's reservation.

`DebateDoc` says what readers of the ticket are promised, with no request, AI call
or reservation in it: a debate has a stage and a *trail*, the texts it stood at
before each of its rounds and stands at now. A suggestion repeats the end of the
trail, accepting replaces it, undo cuts the trail, approval puts its end on the
ticket in the same step. `Stage`, `Trail` and `Published` map the rows to it
(`Doc`, `ImplementsDoc`). Two concessions to the code are in it: a debate whose
seed lost the race (`seedRaced`) gives its trail up, and the ticket may be edited
while a debate is open, as far as `DescriptionGuarded` lets it.

### `DebateScoring`

The debates of one project, their scores and their money.

| Model | Code |
|---|---|
| `round[i]` | a round row by id (ids are never reused; undo makes it `deleted`) |
| `effort[d]` | `effort_score` (by the round it rates) and `last_scored_round_id` |
| `leased[d]` | `effort_retry_next_at` is in the future |
| `job[w]` | a goroutine: the scorer a round's acceptance started, a replica's sweep with its claimed batch, a `CreateRound` about to write its rollup |
| `total`, `ledger` | `total_cost_micros`, the sum of `debate_spend` |
| `cents` | `amount_cents` of the month's `project_costs` row of the debates, or no row |
| `lost` | history: cents whose increment failed after the commit, less what staff added by hand |

`InsertRound`, `AcceptRound`, `RejectRound`, `UndoRounds`, `CloseDebate` are
what `DebateRounds` has in detail; here they start scorers, delete rounds and
charge. `ScoreReturns`/`ScoreFails` is the provider, `ApplyScore`/`ApplyFails`
the transaction of `applyScoreResult`, `RollUp`/`RollUpFails` the increment after
its commit, `Claim` the one statement of `ClaimStaleEffortScores`, `AddCostItem`,
`UpdateCostItem`, `DeleteCostItem` the costs page, which offers staff the row of
the rollup like any other. The exponential growth of the backoff only makes a
lease longer and is left out. In `Claim`, rows locked by others are skipped, so a
batch is any of the eligible debates. `Settles` waits for the round's own scorer:
it has 60 s for its call and 15 s for its write, and `EffortRetryMinAge` is 5 min.
`UnderWay` and `WholeCents` are the two sums `RollupExact` compares with the row:
what goroutines have still to add, and the whole cents of every debate's total.

### `RoundGates`

What `CreateRound` checks before it reserves. `LoadContext` reads the project's
organization, its budget and a client's two counts, `CheckBudget` the spend of the
month, `Reserve` and `InsertRound` follow. `payer[d]` is `feature_debates.org_id`,
stamped when the debate starts; `home[d]` is `projects.org_id`, which
`TransferProject` moves. Each round and each scoring costs one unit. The counts
fail open, the budget fails closed (`BudgetAllows`). Undo lowers the counts but
not the spend. `late[o]` counts charges of rounds made when the budget was
already reached. The two counts, read one after the other in the code, are read
with the context in one step; what matters comes between them and the insert.

### `OrgOwners`

The memberships of one organization.

| Model | Code |
|---|---|
| `role[u]` | the committed `org_memberships` row of a user; "member" stands for admin too |
| `tx[t]` | a request's transaction: whom it makes what ("none" removes), `todo` the owner rows of its snapshot it has not locked, `locked` the list `lockOrgOwners` returns |

`Begin` is the handler up to the start of the `SELECT ... FOR UPDATE`, which
fixes the rows it will look at; `LockOwner` locks the next in order of `user_id`
and reads it again; `Refuse`, `NotFound` and `Write` are the three outcomes,
`Abort` a rollback for any other reason. `Write` removes a deleted row from the
snapshots of others: a user who returns has another row. `Join` is an accepted
invitation, which never makes an owner. `Users` are numbers because the rows are
ordered.

### `Invitations`

`Addresses` are e-mail addresses, each of one person; `member[u]` is the role of
that person's membership. A visit (`Visits`) is a request under way and carries
what it read: `create`
an invitation past the check for a pending one, `reset` a new token, `insert` a
membership, `mark` a status, `register` a new account. Accepting from the
dashboard is two statements, registering with a link one transaction
(`AcceptInviteTx`). `ahead` says that `expires_at` is in the future; `Lapse` is the
seven days, `ExpireOldInvitations` the hourly ticker. How the last owner is
guarded is left to `OrgOwners`: `RemoveMember` and `UpdateMemberRole` may happen
or not. The names of this module and of `Projects` differ from those of `OrgOwners`
so that one module of proofs can extend all three. Worth knowing: an invitation can be revoked whatever its status, resending
one that has just been marked expired mails a dead link, and an acceptance that
stops after its first statement leaves a pending row that can admit its
addressee a second time after a removal.

### `AgentDispatch`

`disp[d]` is an orchestrator process: the rows its listing returned, the current
one first, and the step it is at. From `Claim` on, everything is decided from
that snapshot and every write is unconditional. `plan` goes through
`GeneratePlan`, `implement` through `Prepare`, `RunAgentCLI`, `Commit`, `Push`; both
end in `SetFinished` and `ClearAgentMode`, errors in `PostError` and
`ClearAgentMode`. `work[t]` is the worktree: which branch, edits not committed,
commits not pushed. Staff (`UpdateStatus`, `UpdateAgentMode`, `UpdateTicket`,
`ArchiveTicket`, `RestoreTicket`, `DeleteTicket`) write at any time; the
assistant's tools make the same writes. `Crash` kills a process.

Two dispatchers are the overlap of a rolling deployment (one replica otherwise).
A failed run leaves the ticket in planning or implementing with its mode
cleared; the comment posted says that setting the mode again retries, but only
`ready` and `plan_review` are listed. A change of a ticket's title makes every
later push fail, because the branch is named for it and the worktree is reused.

### `ChatRoom`

One room. `client[c]` is a connection: its stage, its replica, whether the hub has it
in the room, its buffer, and what it has read of the history. A connection enters
(`HandleWebSocket`), fetches the conversation, lists its messages and is sent them,
each a step of its own between which others save, broadcast or delete; either
statement may fail (`LoadFails`), and then it is told so and stays without a history.
The hub adds it to the room at any time after it entered.

`task[m]` is the handling of a message: fetch the conversation and `save`, `send`, wait
for the lock (`ask`), `load` the history, `stream`, `keep` the answer, `done` or
`error`. Fetching, saving, loading and streaming may fail; saving the answer may fail
and nobody notices (`SaveAnswer`). The text of an answer arrives in up to `MaxChunks`
pieces, each a frame. A replica may die (`Dies`): its connections are `gone`, its
messages `cut`, what is saved stays.

`page[c]` is what `assistant.js` makes of the frames: a history replaces what is shown,
pieces become a message when the answer is done, an error takes their place with a
notice. Pages and pieces are sets: frames keep their order and pieces know their place,
so that a set says of a text which part of it is there. What is shown twice (an answer
in the history and again by its `done`) is not told from what is shown once. The frame
with the conversation's id shows nothing and is left out, though in the code it takes
one of the 256 places of the buffer.

Four variables are history. A connection is followed until a frame for it is dropped
(`lossy`). `crossed[c]` are the messages broadcast when its history was read and not
yet queued, when the hub had not put it in the room, or when it was about to read a
conversation that had been deleted: the windows in which a message is missed. `partly[c]` are
the answers of which it may see only the end, because they had begun when it came
in or was sent an error of its own. `Soon(c)` is what the page will show once the frames
under way are handled.

### `HashGate` and `Admission`

`taken` is the number of items in `hashSlots`; a request asks, waits, hashes and
is answered, once for a sign-in, up to ten times for a recovery code or a set of
new ones, twice for a change of password. `Ask` looks at the caller's context,
`Acquire` and `GiveUp` are the `select`, `Compute` the deferred release and what
the caller does next. `Admission` is the promise: callers enter and leave, never
more than `Slots` inside, and who entered leaves. `GateBounds` is `Gate!Spec`, with
`inside` mapped to the requests that are hashing.

### `TicketTree` and `TicketItems`

`TicketItems` EXTENDS `TicketTree`: deleting a ticket cascades to the rows that
hang on it. A request reads a row and writes it back whole (`UpdateTicket`,
`WriteTicket`), then walks up: `VisitParent` reads an ancestor, `ExpandParent`
writes it from that copy (`ExpandParentDates`, five levels at most). `Subtree` is
the recursive query of archive and restore, and what the foreign key cascades to:
the least set that has the ticket and is closed under the links of the rows
(`ClosedBelow`), which is what `WITH RECURSIVE ... UNION` computes.
`CreateTicketTool`, `CallTool`, `ArchiveTicketTool`, `DeleteTicketTool` are the
assistant's tools, which look a ticket up and then act. An attachment is an object
and a row: `Upload` then `RecordAttachment`, `RemoveObject` then `RemoveRow`. A
reaction is toggled by a DELETE and, if that found nothing, an INSERT. `short`,
`loose`, `stray`, `hollow` name the rows and keys for which a guarantee was given up,
and only the steps that give it up set them: an object may stay without its row when
the ticket was deleted or an upload not recorded (`stray`), a row without its object
when a deletion was cut off between the two (`hollow`), never the other way round.

### `Projects`

`ReadBrief`, `CreateBriefRevision`, `UpdateProjectBrief` are the three steps of an
edit, from the form and from the assistant's tool; `ReadOrg` and
`CreateAIUsageEntry` the two of recording usage; `TransferProject` comes between
any of them. When the chat cannot read its project it takes the first organization
of the member who asked, whichever that is (`FallBack`). `been[p]` are the texts a
brief has had. Two overlapping edits keep
the text both read and lose the one written between them (`overlapped`); an entry
(`usage[e]`, a row of `ai_usage_entries` with its project and organization) written
by a request that a transfer overtook, or that fell back (`astray`), is `misfiled`
until the next transfer moves it. A request is astray by what happened to it, not by
what it writes: any other that books to a wrong organization violates
`UsageFollowsProject`.
`MarkBriefReviewed` writes a revision without text.

## 5. What the runs check

Each property is explained where it is defined. No run takes more than two
minutes on two cores, but `chat`: 1.2 million states, three and a half minutes.

| Run | Instance | Shows |
|---|---|---|
| `debate_rounds` | 2 requests, 1 debate, 2 texts, 2 rounds, `Stalls = TRUE` | in-review round is the newest; the accepted-text chain; decided debates are frozen; how far the description lock reaches; all of it implements `DebateDoc` |
| `debate_late` | 2 requests, 2 debates, 1 text, 1 round, `Stalls = FALSE`, fairness | two debates of a ticket, one open after the other, implement `DebateDoc`; the caller of the AI owns the reservation; no reservation is left for good |
| `debate_scoring` | 1 debate, 2 round ids, 2 sweeps, calls of 1.5 cents, staff who edit the line item, fairness | the score is of an accepted round and only moves forward; ledger, total and rollup agree; a round is scored twice at once only by a sweep that outlived its lease; no score stays missing or stale |
| `org_owners` | 3 users, 2 transactions at a time | owners a transaction listed stay owners; lock order; how far the last-owner guard reaches |
| `orchestrator` | 2 tickets, 2 dispatchers, 2 titles, 2 agents of which one is known, 2 edits, 1 fault, fairness | no run without a cause; nothing left claimed or unpushed without a trace; what is armed is served |
| `tickets` | 3 tickets in a chain, 2 days, 1 attachment, 2 requests at a time, 3 in all | parents enclose children; archived subtrees; objects and rows agree; reactions and toggles agree |
| `invitations` | 2 users, 2 invitations, 2 requests at a time, 6 operations in all | who is admitted was invited and not decided on; who was accepted has joined |
| `chat` | 2 connections, 2 messages, answers in 2 pieces, buffers of 2, 1 replica that may die, fairness | nothing missed; answers build on each other; what is shown is real; no message waits for ever |
| `hash_gate` | 3 requests, 2 slots, 2 codes, fairness | `HashGate` implements `Admission`; a busy gate is no wrong password; everyone is answered |
| `budget` | 2 clients' requests, 2 debates, 2 organizations, caps of 1, budgets of 0 and 1, 4 units, 1 organization that gives its projects away | how far a budget, the round cap and the daily cap can be overshot |
| `projects` | 2 projects, 2 organizations with one slug, 2 handlers, 2 usage entries, 2 transfers | no text of a brief is lost; usage follows the project |
| `transferred_spend` | as `budget`, with 2 organizations that give their projects away | *violated*: the organization checked is not the one charged |

Why these bounds: a conflict over a reservation, a lock, a lease, a slot or a
copy takes two actors, and a third only where two compete while one holds
(`hash_gate`). Two rounds are needed for undo to leave one behind and for the
chain to have a middle; a second text to tell accepted text from what was there
before. Three tickets make a walk of two steps and an archived subtree of two
levels; `Levels` is the code's five, so a chain of three never exhausts it. A
price that is no whole number of cents makes every rounding case occur. Caps and
budgets of one are overshot by the second request already. A buffer of two
overflows with the frames of one answer, and two pieces make an answer of which a
member who comes in may have missed the first. A second debate in `debate_scoring`
would change what a sweep still has before it and nothing else: `behind` says that a
round was not the first of its batch, whatever came before. The first stands for
those whose turn ends within the 5 minutes (three at 75 s each); the model lets the
lease of every other one run out, which is more than the code does. Actors, rows and
texts are interchangeable, so the safety runs use symmetry; those with a liveness
property do not. In `budget`, `Staff` is empty, because staff are bound by no cap; the
overshoot of the budget is stated for both. `CHECK_DEADLOCK` is off where users
may simply stop or a bound on their operations is used up.

### Where the code does less than it says

`transferred_spend` ends in a violation. `TransferProject` moves the project and
its `ai_usage_entries`, and `queries.go:1118` says that this keeps the cost
attribution consistent; a running debate keeps `feature_debates.org_id`. Its next
round is checked against the budget of the new organization and charged to the
old one.

Other steps of the models go beyond a comment too. The properties are stated so
that they hold with them, and say how far the guarantee does reach:

* *Seed race.* `queries.go:3192` promises the guards of `UpdateDebateSeed` "under
  the debate row lock", the design document an immutable seed after round 1. The
  count is a subquery with the snapshot from before the wait for that lock, so a
  round committed meanwhile is not counted (`seedRaced` in `TextChain`).
* *Metadata edit.* `tickets.go:293` writes back the description it read along
  with a new title (`DescriptionGuarded`: only an update that began before the
  debate gets through).
* *Double billing.* `queries.go:3085` says that the replicas never both bill the
  scorer for one debate. A batch of 20 calls of up to 75 s can outlive its lease of
  5 min, so that another sweep takes the debate while it waits for its turn, or is
  scored. The model and its run have it. What holds is that nothing else overlaps: of
  two sweeps on one round, one was behind in its batch (`OneCallPerLease`), so that for
  a debate taken up at once, within its lease, the comment is right. And the overlap
  does no harm but the price of a call: the charges stay in the ledger and the rollup
  (`LedgerIsTotal`, `RollupExact`), and the score is that of the newest round scored
  (`ScoreOfAcceptedRound`, `NewestScoreWins`, `Healed`).
* *Last owner.* `queries.go:714` says that two concurrent removals can no longer
  both pass. The guard counts rows of a snapshot; after a handover of the only
  ownership the list is empty and the guard is skipped (`OwnerKept`).
* *Lost charge.* `queries.go:3044` gives every scorer call its row in the ledger.
  When its round was undone meanwhile, the transaction is rolled back
  (`ApplyFails`).
* *Unpushed work.* With nothing staged, `agents.go:63` reports success without a
  push, so commits whose push failed stay behind (`broken` in `CommitsArePushed`).
* *One answer at a time.* `hub.go:88` locks in the memory of a replica, and two
  run; `AnswersBuildOnEachOther` is per replica.
* *Busy gate.* `recovery.go` wants a busy server to say so; `account.go:63` tells
  someone who changes a password that the current one is incorrect (and so does
  `account.go:96`). So `NoFalseRejection` is about signing in and recovery codes, and
  about the gate: a database that fails at `auth.go:73` is answered like a wrong
  password too.
* *Unsaved answer.* `assistant.go:311` ignores an answer that cannot be saved, and
  announces it as done. It stays on the pages of those who are there, and the next
  history and the next question of the model are without it. No property forbids
  that: `ShownIsReal` takes an answer for real when it was given, and
  `AnswersBuildOnEachOther` counts those that were saved.
* *No history.* Someone whose history cannot be loaded stays connected with an error
  on an otherwise empty page (`assistant.go:132`; `NothingMissed` excepts who is told).
* *Caps.* `debate.go:448` says the counts are checked again by the row lock. They
  are not, and `CapsBounded` gives the overshoot.
* *Costs page.* It offers three categories that the table's CHECK constraint
  refuses, and a delete button on the row of the rollup.
* An update whose snapshot precedes a debate still writes its description; a
  debate may start from a description that changed a statement ago; the second
  attempt of `StartDebate` can fail like the first; with `Stalls = TRUE` a late
  insert or clear ends a reservation that is no longer its own; after an undo the
  rounds left no longer add up to the running total; a failed generation of an
  image loses the charge for it.

### Fairness

| Specification | Assumes | Because |
|---|---|---|
| `DebateRounds!FairSpec` | weak fairness of `RoundStep` and `ReservationAges` | the server runs a request it has accepted, an AI call is cut off after 60 s, the clock advances |
| `DebateScoring!FairSpec` | weak fairness of goroutines, of each replica's ticker (`Claim`) and of the clock; strong fairness of a sweep's `ScoreReturns` and `Apply` | a provider and a database asked again and again work in the end; without it `Healed` is false, as it should be |
| `AgentDispatch!FairSpec` | weak fairness of each dispatcher's `Step` | the ticker fires every 10 s, and model calls and agents have time-outs of 2 and 30 min |
| `ChatRoom!FairSpec` | weak fairness of a message's steps except the stream | the stream has no deadline: `EveryMessageAnswered` says that a message waits for ever only behind one that hangs |
| `HashGate!Spec` | weak fairness of `Ask`, `GiveUp` and `Compute` taken together | a wait ends after 2 s, a computation ends; nothing says that a given request ever finds a slot |

No user is obliged to act, and no crash to happen or not to.

## 6. What is proved

By TLAPS, for any number of requests, debates, texts, rounds, replicas, users and any
prices, with the constants' assumptions named in the modules.

`DebateRoundsProofs`: `TypeCorrect`, `DecidedForGood`,
`OnlyLastInReview`, `AcceptedTextChain`, `ApprovedTextAccepted`,
`DescriptionLockHolds`, `DebatesImplementDoc`, and, if no request outlives its reservation
(`~Stalls`), `ReservationIsMine`.

* Types: `TypeOK` is not inductive; `Typed` adds that an active debate has its
  texts and that a request at a later step has the debate and text it needs.
* Text chain: `TextChain` is proved together with `InReviewIsLast`. Accepting
  round *i* changes what stands before every later round; there is none,
  because a round in review is the last. Undo needs that the text before round
  *n* depends only on rounds below *n*.
* Approved text: `ApprovedIsCurrent` (an approved debate's text is its current
  text) turns the chain into `ApprovedWasAccepted`. No run lists it: in
  `debate_rounds`, `ImplementsDoc` says it of the step that approves.
* Refinement: `TrailAppend`, `TrailDecide` and `TrailUndo` say what a suggestion,
  a decision on the last round and an undo do to the trail; `TextChain` makes what
  is approved the end of it. `DocNext` maps each step of each handler to a step of
  `DebateDoc` or to none (reserving, calling, clearing, rejecting, crashing are
  not seen). `UnracedIds` is needed because an id no row has yet has no history.
* Reservation: `Owned` says that whoever is between reserve and clear on an
  active debate is the row's owner and that its reservation is not aged.

`DebateScoringProofs`: `TypeCorrect`, `LedgerAgrees`, `ScoresMoveForward`,
`AbandonedScores`, `ScoreAccountedFor`, `RollupIsExact`, `OneCall`.

* Score: `ScoreOfAcceptedRound` needs `QueueAccepted`: whatever a goroutine has
  in its queue was accepted, and undo can only have deleted it since.
* One call: `OwnScorer` (a round's own scorer is over before the round is
  settled) keeps sweeps away from it, `LeaseHeld` (a sweep holds the lease of
  every debate it claimed) keeps sweeps apart.
* Money: `DivMonotone` makes every delta in cents a natural number; with edits by
  staff the line item itself is any integer, or absent (`IncrementedIsInt`).

* Rollup: `RollupIsExact` is an induction over steps and, inside a step, over the
  elements of a finite set. `Owing` (only a goroutine that rolls up owes cents, and a
  round that nobody accepted has no scorer) makes every step touch one goroutine's
  cents and one debate's total at most, and keep the balance of the two
  (`Balanced`). That the sums change as one addend does is `SumOfChanged`, proved of
  the definition of `MapThenSumSet`: `EveryNumber` is induction for a *set* of numbers,
  by way of the least number missing, because the library's rules are stated for
  operators. The finiteness it assumes is that of a database's rows.

`OrganizationProofs`, about the owners: `TypeCorrect`, `ListedOwnersStay`, `NoLockCycle`,
`LastOwnerKept`. A locked row is an owner's when it is locked and nobody else
writes it until the transaction ends, so a list with somebody else than the
target in it guarantees an owner, and only an empty list does not. Rows are
locked in ascending order (`Ascending`), so no two transactions wait for each
other; the row of a target that is no owner yet is outside that order, and
PostgreSQL's deadlock detector (`Abort`) has to break a cycle through it.

The same, about the books of `Projects`: `BooksTypeCorrect`, `UsageBooked`, `NoTextLost`.
`Booked` makes `UsageFollowsProject` inductive: an entry that is not written is not
misfiled. `BriefsKept` makes `BriefHistory` so: as long as no two edits overlapped,
a brief has one editor at most, who has read the text that still stands there and,
at the second step, saved it as a revision. About `Invitations`: `InvitedTypeCorrect`,
`AcceptedHaveJoined` with `Accounted` (a request about to mark an invitation as accepted
has inserted the member), `AdmittedByInvitation` with `Deferred` (a request about to
insert a member read an invitation that is pending still, or has been noted as
overtaken).

`HashGateProofs`: `TypeCorrect`, `SlotsBound`, `BusyIsNotWrong`, and
`GateImplementsAdmission`, the refinement step by step: initial states map to initial
states, `Acquire` to `Enter`, `Compute` to `Leave` and every other step to a stutter. The
invariant it rests on is that the channel holds one item per computation under way.

`AgentDispatchProofs`: `TypeCorrect`, `CommittedIsPushed`, `LeftWithReason`,
`RunsHaveCauses`. `CommitsArePushed` is inductive as it stands. `LeftClaimed` is not: a
dispatcher that has come to `clear` is still on the ticket, yet accounts no longer
for its status (`LeftWorking`). `RunsAccounted` bounds the runs that were; `RunsOwed`
counts those to come as well: a dispatcher that listed a ticket, or that would list
it now, has one run to make, and each grant or fault pays for one per dispatcher.

`TicketItemsProofs`: `TypeCorrect`, `Toggled`, `Stored`, `OutOfView`, `Enclosed`.

* `Stored`: `Filing` follows a key from its making: until its row is inserted the upload
  alone knows it, and when a deletion comes to the row the object is gone.
* `OutOfView`: what `Subtree` returns is closed under links and the least such set, so
  that archiving leaves no child behind, and restoring takes none from under an archived
  parent that is not named in `loose`.
* `Enclosed`: `Climbing` says of every link that the parent encloses the child, or was
  given up (`short`), or a walk with dates at least as wide has just come to the
  parent; the same of a copy a walk has read and is going to write back. That the
  second follows from the first when the row is read, and gives it back when it is
  written, is the argument.

`ChatRoomProofs`: `TypeCorrect`, `AnswersInTurn`, `NothingInvented`, `MembersMissNothing`.

* `AnswersInTurn`: `Exclusive` (the lock) and `Begins` (a message on its way to an answer is
  saved, and its answer has no text before the stream).
* `NothingInvented`: `Truth` speaks of the page and of the queue of frames before it.
  `Live` is the text a page will have streamed when it comes to a given frame; every
  frame, handled with that text, shows what is genuine (`Real`), and of the answer being
  given in the room a connection has heard all, or the end if it came in later or was
  sent an error (`Heard`).
* `MembersMissNothing`: `Listed` says the same of the other direction: a message that was
  broadcast is on the page or in a frame, and in every history after it (`Coming`); of
  a connection that is still to be sent its history, it is in that history or among
  those that crossed it. Who is told that there is no history gets none that would
  replace the notice (`Unread`).

`RoundGatesProofs`: `TypeCorrect`, `BudgetStops`, `CapsHold`. Both count requests that may
still pass: `Threshold` bounds the late charges plus the requests past the check or
about to pass it (`Bounded`), and needs that a project never given away pays for its
debates (`HomePays`) so that the organization asked is the one charged
(`AskedPayer`); `Capped` bounds each count plus the requests busy with it.

The assumptions are those named in the modules: kinds of actors are disjoint, prices
and counts are natural numbers, caps are positive, the sets that are counted or summed
over are finite. Every one of them is evaluated by TLC on the instance it checks.

Only model-checked: liveness (`ReservationFreed`, `Healed`, `ArmedIsServed`,
`EveryMessageAnswered`, `EveryoneAnswered`) and the fairness half of `GateBounds`, which
are out of the prover's reach; and the `violation` of `transferred_spend`, which is a
counterexample.

## 7. Not modelled

* Sessions, TOTP and the pending second factor, beyond what meets the hash gate.
* Prompts (`context.go`), clone and fetch; the worktree, commit and push are there.
* AI providers: adapters without state, whose outcomes the models choose.
* The rate limiter: a map under one mutex, each operation one critical section.
* The scorer setting and the repository address of a project, comments other
  than an agent's plan, cost items other than the rollup's: single rows nobody
  decides by.
* Two replicas of the chat: rooms and locks do not reach across, so a run with
  two would show two rooms that share a history.
* Rendering, diff, mail, static files, configuration: no state two actors share.
