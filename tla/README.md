# Specifications of the agent framework

TLA+ specifications of the agent framework of this repository
(`src/demo/agent/src/fipsagents`, below `A/`) and of its gateway
(`src/demo/gateway/internal`, below `G/`): the shared work-item pool, the chat server that
serialises many clients on one agent object, the agent's loop of model and tool calls, the
life of an uploaded file, events, sessions, budgets, checkpoints, delegation, workflows,
connections to tools, streams, and what is recorded of it all. TLC checks them on small
instances; TLAPS proves for every instance all the safety properties that the runs check, but
what they say of a model's words (section 4). `PROJECT.json` lists the components with their
status, the runs, the mutants that show that each property can fail, the hazards and the source
lines of every definition.

    tlc -workers 2 -config MC_PgWorkItemStore.cfg MC_PgWorkItemStore
    tlc -workers 2 -config MC_Services.cfg MC_Services
    tlapm ChatServerProofs.tla

## 1. The system and its parts

The server (`A/server/app.py`) is one asyncio process per replica. It owns **one** agent
object, a set of stores, and background tasks (event loops, lease sweep, housekeeping,
chunking). Code between two awaits is atomic; everything else interleaves. Replicas share
nothing but PostgreSQL (or S3 and Redis); with SQLite there is a single replica, whose
stores share one connection. The gateway is a Go program: every request is a goroutine.

| Part | State it keeps | Operations | Interacts with | What is hard about it | What makes it correct |
|---|---|---|---|---|---|
| Work-item pool, PostgreSQL (`server/work_item_stores/postgres.py`) | table of items: status, assignee, lease, attempts | create, checkout, renew_lease, update_progress, complete, release, fail, accept, reject, expire_leases | tools and routes of all replicas; one sweep per replica | fetch and UPDATE are two statements; crashes; only checkout is locked | one holder at a time, every held row can be reclaimed, expired leases come back |
| Work-item pool, SQLite (`.../sqlite.py`, `server/sqlite.py`) | the same, and one connection with at most one open transaction | the same | every other SQLite store of the process, through the connection | anybody's commit or rollback ends anybody's transaction; cancellation | as above; the connection is given back |
| Chat server (`server/app.py`) | the agent's `messages`, `_question_pending`, inbound header and depth; `_agent_lock` | chat completions (sync, streamed), events, answers to questions | session store, agent loop, event sources | steps before and after the lock; closed streams; failing turns; restarts | sessions do not mix, saved turns stay, questions belong to their session, approved tools run once, everyone is answered |
| Session store (`server/sessions.py`) | sessions: messages, state, cost | create, load, save, update_state, get_state, fork, revert, delete | chat server, housekeeping | read-modify-write by overlapping requests | what was reverted stays away, checkpoint and history agree, spending is counted |
| Files (`server/files.py`, `bytes_store.py`, `chunk_store.py`, `scanner.py`, `parser.py`, `chunker.py`) | a row, bytes and chunks per file, in three stores | upload, background chunking, DELETE, housekeeping | chat (attachments, chunk search) | no common transaction; every call can fail; tasks die with the process | a row has its bytes, a status tells the truth, nothing leaks silently |
| Agent loop (`baseagent/agent.py`, tools, hooks) | messages of the turn, iteration count, the MCP connections | model calls, tool dispatch, permission asks, doom-loop guard, reconnection | model, tools, MCP servers | a failing call reconnects while others use the client; limits | every tool call gets one result, the loop ends, connections are neither leaked nor lost |
| Event pipeline (`server/events.py`, `server/sources/*`) | position in the source, events not yet acknowledged, the cron schedule | read, process with retries, emit, acknowledge | chat server, Redis, Kafka, webhooks | retry after a partial success; restart; commits of a position | what is acknowledged has been dealt with; a scan skips no time of a schedule |
| Gateway (`G/auth`, `G/handler`, `G/proxy`) | key-set cache, token-exchange cache, streams in progress | authenticate, exchange, forward, relay, upload | identity provider, agents | stale caches, concurrent misses, broken streams | nobody is taken for another, no token without its margin, streams and uploads whole or known to be cut |
| Workflow runner (`workflow/*`) | node, state, steps | validate, start, step, shut down | agents, remote nodes | loops, failing nodes, retries in retries, cancellation | a run stays on its graph and within its limits, what was set up is shut down |
| Subagents (`baseagent/tools/delegate.py`, `spawn.py`, `subagents/*`) | depth, child agents, remote sessions | delegate, spawn | other agents | recursion across processes, depth on a shared object | chains are counted and capped, nobody waits for good |
| Trust, maturation, budget (`baseagent/trust.py`, `maturation.py`, `server/budget.py`) | score, level, stage; totals | record outcome, promote, demote, check, charge | agent loop, chat server, learned skills | thresholds, read-modify-write | what was learned stays within the autonomy there was; overspending is bounded |
| Compaction and recovery (`server/compactor.py`, `recovery.py`) | checkpoints | compact, checkpoint, replay | chat server, sessions, traces | three writes in two orders; restart in between | no waiting call is summarised, checkpoint and history agree |
| Model stream (`baseagent/reasoning.py`, `serialization/*`) | the parser's buffer, open blocks, indices of calls | feed, flush, serialize | model, client | words cut anywhere, several rounds, reused indices | the client can put together what the model said |
| Tracing and feedback (`server/collector.py`, `tracing.py`, `feedback.py`) | spans of a turn, rows of traces, ratings | begin, end, save, delete; rate, patch, summarise | agent's events, stores | shared trace ids, streams that end early, windows of time | spans nest, rows are of one request, every rating is counted once |
| Token manager, memory, metrics, prompts, web UI | see section 8 | | | | |

## 2. Modules

| Module | Role |
|---|---|
| `WorkItems` | rows of the pool and what each operation builds from a fetched row: shared by the two stores |
| `LeasePool` | abstract specification: who holds an item, and until when |
| `PgWorkItemStore` | the PostgreSQL store, statement by statement; implements `LeasePool` |
| `SqliteWorkItemStore` | the SQLite store, statement by statement on the shared connection |
| `AgentLoop` | a session's conversation: model calls, tool dispatch, questions, compaction |
| `ChatServer` | chat requests, streams and events around the agent lock |
| `SessionHistory` | fork, revert, create and delete of sessions beside their turns |
| `SessionAccounts` | cost_data and budgets |
| `StateRecovery` | checkpoints of the agent's state and their replay from traces |
| `FileStore` | upload, chunking, deletion and housekeeping of files |
| `Chunker` | a file's text, cut into chunks |
| `EventPipeline`, `CronSchedule` | the loop of an event source; the times of a schedule |
| `Gateway`, `GatewayStreams` | authentication and token exchange; relay of streams, uploads |
| `Workflow` | the workflow runner |
| `Delegation` | agents that delegate to and spawn other agents |
| `LearnedSkills` | trust, stages, and the skills an agent writes |
| `McpConnections` | connections to MCP servers and their reconnection |
| `ModelStream` | from the model's chunks to the client's frames |
| `TurnTraces`, `FeedbackStore` | what is recorded of a turn; what users say of it |
| `Stores`, `Agents`, `Services` | sixteen components side by side (2.12) |
| `*Proofs` | the theorems about the module of that name (section 4) |
| `MC_*` | small instances for TLC |

`PgWorkItemStore` and `SqliteWorkItemStore` extend `WorkItems`, so the two stores differ
only where the code does: in transactions. Definitions called *Variant* in a module are
plausible mistakes, used by nothing in the specification; each stands before the definition
it would replace.

### 2.1 PgWorkItemStore

| State | In the code |
|---|---|
| `rows` | table `work_items`; a row keeps status, assignee, lease and who opened the last attempt if it has no outcome yet |
| `lock` | `pg_try_advisory_xact_lock(hashtext(id))`; `Key` is the hash, which may collide |
| `task[w]` | the locals of a request or tool call on any replica: idle, locked, or an item fetched and rewritten in memory |
| `todo[s]` | the rows a sweep has selected and not yet written |
| `now` | the clock of all replicas (no skew) |

`TryLock`, `CheckoutFetch`, `CheckoutRefused`, `CheckoutCommit` are the statements of
`checkout`. The other operations are a fetch that tests the guard and builds the new item
(`RenewLease`, `Complete`, ...) and an `Update` that writes the columns the code's UPDATE
names, whatever the row has become: the code tests `WHERE id` only. `Crash` is a lost
connection or a dead replica. An agent may run any operation at any time, on items it does
not hold too, since the routes do not stop it.

### 2.2 SqliteWorkItemStore

`disk` is what is committed, `mem` what the connection sees, `tx` whether it is inside a
transaction. `Commit` and `Rollback` act on everything written since, by whichever
coroutine: this is what sharing a connection means. `OtherStore` is a write of the session,
trace, feedback or file store. `Cancel` ends a request at an await, leaving its transaction
as it is (`except Exception` does not see `CancelledError`); `Restart` loses what is not
committed. `broken` is a history variable: a checkout has had its transaction ended by
somebody else.

### 2.3 ChatServer

`req[r]` is the coroutine of a request: the await it is at, and its locals. `agent` is the
shared object. `queue` is the asyncio lock, fair as asyncio's is: the holder and those
waiting, in order. `store` is the session table. A history is the set of requests whose
messages it contains, and a question is named by the request in whose turn it was asked:
enough to see a mixture of sessions or a lost turn. The order of the actions is the code's:
load, guard (409), clear the question, run the approved tool, set header and reset the
question **without the lock**, take the lock and set the turn up, turn, save, persist the
question. A sync request and an event save after releasing the lock, a stream before.
`Disconnect` closes a stream wherever it is; `FailTurn` is an exception of the turn.
`executed` counts approved tool runs; `overlapped` is a history variable.

### 2.4 FileStore

`row`, `bytes` and `chunks` are the three stores, `upload`, `task`, `delete` and `sweep`
the coroutines between two store calls, each of which may fail. `lost` records the files
that a failure or the death of the process has hit, `asked` those a client asked to
delete: the properties excuse exactly these. `old` are the files past `max_age_hours`.
Table statements are single steps, as in PostgreSQL; on SQLite the hazards of the shared
connection (2.2) come on top. The local bytes store replaces a file atomically; a failed
put may have stored the bytes (S3). asyncpg's `executemany` writes all chunks or none.

`Chunker` is what the chunking task does with a file's text in between: `units` are the words,
sentences or paragraphs a section is cut into, `current` those in hand for the next chunk and
`tail` those it repeats of the last one, as positions in the section. What a span counts in
tokens is given with the text, since neither counter of the code is additive.

### 2.5 AgentLoop

One session, its requests one after the other (those that overlap are `ChatServer`'s).
`messages` is the history as a sequence of messages by role; an assistant message has its
calls, a tool message the id it answers and whether it is a result, a refusal or the
sentinel of a pending question. `saved` is the session's row, `turn` the local variables of
`astep_stream`: model calls made, calls of the last message still to dispatch, the
doom-loop guard's window. A call names an operation (a tool with its arguments, which is
what the guard hashes) and has an id of its own; the id comes from the model's provider,
and a provider that repeats ids within a session would let an answer land on an older
result. `AskOperator` covers `requires_approval` and the policy's "ask"; it stops the
dispatch. `AnswerQuestion` clears the stored question, `RunApprovedTool` and `RefuseTool`
put the outcome in the sentinel's place, and only then the turn begins. (`_permission_preapproved` is
cleared again when the turn is set up and holds the id of a call already made: it lets
nothing through and is left out.) `Compact` is
`LLMCompactor.compact`: what is kept, the guard that keeps calls and results together, and
the guard against pending sentinels. `FailStream` saves what there is, `Abandon` (a failing
sync request, a closed stream, a restart) saves nothing. `ran`, `allowed` and `hit` are
history variables; `hit` holds the questions a failure has lost.

### 2.6 SessionHistory, SessionAccounts, StateRecovery

The three take one column of a session's row each, with the requests that read and write
it. They share no state but the row, and each request of theirs is `ChatServer`'s, reduced
to its awaits on that column.

- `SessionHistory`: messages are a sequence of turns. A request loads them, has its turn and
  saves them back; fork and revert load, cut and save in awaits of their own (`call`).
  `reverted`, `overlapped` and `versions` are history variables.
- `SessionAccounts`: a request is checked against the limits (`Arrive`), runs under the lock
  and then reads, changes and writes `cost_data`, and adds what the session's cost has grown
  by to the tenant's total in memory. `spent` is what was really used; `explained` holds the
  failures, deletions and sync requests that excuse a difference.
- `StateRecovery`: `state` is what the reducers made of the turns' events, as the sequence of
  those turns. A stream writes trace, history and checkpoint in this order, a sync request
  the checkpoint first; each write may fail. `Recover` takes the checkpoint and the traces
  after it; `RecoverRaises` is the replay of an event whose body the collector has stored as
  a string (`A/server/recovery.py:96-110`, `collector.py:104-110`): a `TypeError`, by which the
  session can no longer be used.

### 2.7 EventPipeline, CronSchedule

`source` is the kind of source and, for Kafka, `auto_offset_reset`. `broker` is what
survives a restart: the committed position or the group's pending entries; `position` is the
consumer's. `loop` is `_event_loop` between two awaits: `turn`, `save`, `emit`, `ack`, and
`report` when the attempts are used up; `dead` when an exception has left the loop, as it does
when `consume()` is given a record whose JSON is not an object (`Poison`: `InboundEvent` raises;
on Redis the entry has been delivered by then, and is not read again).
`Restart` loses the position and the webhook queue. `CronSchedule` parses the fields into
sets and scans for the next match with the code's skips of months, days and hours; the
calendar is a constant, the days on which its months begin, so that one of few days has all
the corners of the real one. `Matches` is the rule of the code, `PosixMatches` the one that the
module promises (section 5).

### 2.8 Gateway, GatewayStreams

`request[r]` is a handler's goroutine with the headers as they are now; `cache` is the
`sync.Map` of exchanged tokens. `Look`, `Delete`, `Issue` and `Store` are the points at which
handlers with the same token meet. Only waiting takes time (`Tick`). The key set is reduced to
whether the token's key is known in the end: a miss, a refresh and a failed refresh are that
choice. `GatewayStreams` has the two handlers that work with a goroutine of their own: the
relay of server-sent events, whose reader hands over one line at a time, and the upload,
whose copier writes into a pipe and fails the request when a part is refused. A copier that
fails writes the closing boundary all the same (`FailCopy`), so a boundary does not tell the
agent that an upload is whole; the end of its request does.

### 2.9 Workflow, Delegation, LearnedSkills

`Workflow`: `graph` is what `add_*_edge` accepts and `validate` lets pass; `run` is `start()`
at its awaits, with attempts and the posts of a remote node inside them; `path` the nodes
left and how. `Delegation`: a frame is one agent's work on one task, `queue` the agent lock of
each server and `depth` the `_delegation_depth` of its one agent, set when a request arrives
and reset when a turn ends; `chain`, `cap` and `sure` say how deep a frame really is.
`LearnedSkills`: `trust` is moved by finished and failed work items, `told` is what the
events said, `file`, `archive` and `loaded` are the skill files, their versions and what a
session has of them. A demotion drains the trust events before it quarantines, and the
quarantine may raise: always when the skills' directory cannot be put together (`cfg.placed`,
section 5), and after any of the skills when a file cannot be written, which leaves that file as
it was. `Record` has both; the demotion is not told again.

### 2.10 McpConnections, ModelStream

`McpConnections`: `ref` is the mutable reference the tool closures of a server share, with its
client, header and lock; `open` the clients that are open; a call goes from the client it
picked through refusal, hook, closing and connecting to its retry. Tokens are issued and
withdrawn by the outside (`idp`). `ModelStream`: symbols stand for words, `<`, `k` for the
letters of a tag; the parser is the code's, with the longest suffix that may become a tag
held back; `client` is either serializer with the frames it has sent; tool calls come in
fragments with an index, an id and a name, each of which may be missing or repeated.

### 2.11 TurnTraces, FeedbackStore

`TurnTraces`: a request's collector with its spans (name, parent, open), fed by what the agent
does, and the table of both stores, whose upserts differ. Requests that pass a trace context
on share a trace id (`Joined`). Of a message's calls those without a name are skipped
(`Execute`), and the collector is told no result of them (`skipped`). `FeedbackStore`: a PATCH writes and then reads the row again;
`SqliteStats` and `PgStats` count ratings by windows as each store does, on a clock of a few
hours per day and days per week. `PgStats` cuts windows at UTC hours, days and weeks: it assumes
that the session's TimeZone is UTC, by which `date_trunc` cuts (`A/server/feedback.py:674`).

### 2.12 Modules of several components

The components of 2.6 to 2.11, the SQLite store and the chunker share no state with each
other. `Stores` (histories, accounts, checkpoints, the SQLite store, the chunker), `Agents`
(workflows, delegation, skills, traces) and `Services` (the others) have an instance of each,
over variables of its own; the initial states of `Services` choose the component (`part`), and
no step leaves it, so one run explores all of them one after the other. `MC_Loops` does the
same with those for which something must eventually happen, under the fairness of each. A
property of these modules says of each component what its own module states, and so does a
theorem: `SqliteRuns`, `GateRuns` and the like show that a behaviour of `Services` is one of
the chosen component.

## 3. Runs

| Run | Instance | Result |
|---|---|---|
| `pg_store` | 1 item, 2 actors, 3 workers, 1 sweep, clock to 2 | all properties hold, with liveness |
| `pg_sweep_race` | the same | `SweepTakesOnlyExpired` is violated (finding 1) |
| `sqlite_double_checkout` | 1 item, 2 actors, 2 workers, clock to 1 | `OneHolderAtATime` is violated (finding 2) |
| `chat` | 3 requests, 2 sessions, symmetric | safety and `SavedTurnsSurvive` hold |
| `chat_identity` | 2 requests, 2 sessions | `DelegatesAsItsCaller` is violated (finding 3) |
| `agent` | 3 turns of at most 2 model calls, 3 tool calls, 2 operations | all properties hold, with liveness |
| `agent_shape` | the same, 2 turns | `NextCallWellShaped` is violated (finding 5) |
| `files` | 2 files, 2 DELETE requests, symmetric | safety holds |
| `file_orphans` | the same | `NoOrphanChunks` is violated (finding 4) |
| `services` | sixteen components, one per behaviour (2.12) | safety holds |
| `loops` | six loops, one per behaviour | liveness holds |
| `delegation_chains` | 2 servers, 4 frames, 2 requests from outside | `ChainsAreCapped` is violated (finding 6) |

What the properties say:

- `HeldRowsWellFormed` (both stores): a checked-out row names its holder and has a lease,
  though single columns are written from rows that may have changed since. If it failed,
  the sweep's `WHERE lease_expires_at < now` would never find the row again.
- `PendingCheckoutIsFree`, `LockDiscipline`: what the advisory lock is for, and that no
  crash or refusal keeps it.
- `ImplementsLeasePool`: the PostgreSQL store refines `LeasePool`.
- `LeasesAreReclaimed`: an expired lease comes back (or is renewed) whatever its holder does.
- `CheckoutIsAtomicAlone`: what remains true of SQLite: a checkout is atomic until somebody
  ends its transaction. `LeasesComeBack`: no cancelled request blocks the connection for
  good, and expired leases come back once the workers stop.
- `TurnRunsAlone`, `SessionsStayApart`, `SavedTurnsSurvive`: turns on one agent object do
  not mix, and only overlapping requests of one session can overwrite each other's turns.
- `QuestionsStayHome`, `ApprovedToolRunsOnce`: hold for streams and events. They do not
  hold with sync requests, which read `_question_pending` after they have released the
  lock; the premise `NoSyncRequest` says so.
- `ResultsFollowCalls`, `QuestionHasSentinel`, `SentinelIsPending`,
  `PendingIsNotSummarised`: a question lives in two places, the session's row and the
  sentinel in its history, written by different steps and read turns later; they stay
  together, and results stay with their calls, through compaction and failures. The one
  excuse, `hit`, is real: a request that answers a question and then fails has cleared it
  in the row only. The session then goes on with a call shown as pending that nobody can
  answer, and is not compacted any more once it is old.
- `GatedCallsAreApproved`: approval is asked by one turn and acted on by a later request.
- `RepeatsAreStopped`, `EveryTurnEnds`: the guard, if its window is at least as wide as its
  threshold (the configuration does not require it), and the end of every turn.
- `RowsHaveBytes`, `BytesHaveOwners`, `CompletedHasChunks`, `ProcessingIsInFlight`: what the
  orders of the writes are for, each with the failures that excuse it.
- `SessionsAgree`: for streams, a checkpoint holds no turn that the history does not show,
  none twice, and all if nothing has failed (`StateFollowsHistory`); a reverted turn does not
  come back unless a request was in flight during the revert, and a fork starts from
  what its parent has had (`HistoriesStayCut`).
- `EventsAreAccountedFor`: what Kafka, Redis or a webhook's client is told has been dealt
  with has been, though `commit()` commits a position and events are retried
  (`OutcomesAreTrue`); a scan for the next time of a schedule passes no minute that the code's
  rule matches, finds only minutes that POSIX promises, and misses one of those only where the
  expression restricts both days (`NothingIsSkipped`). It says nothing of the minutes that went
  by before the scan, while the loop was busy: the code passes them over. `EventsAreHandled`: every event is processed or reported, or was
  dropped by a restart, or the loop of its source has died (2.7).
- `PoolIsSound`: `HeldRowsWellFormed` and `CheckoutIsAtomicAlone` of the SQLite store.
  `TextsAreWhole`: the chunks of a text hold every word, in order and under the headings they
  stand under, overlap by no more than they may, and exceed their size only when just one of
  their units is new, be it too long by itself or behind an overlap.
- `OverspendingIsBounded`: with streams and no lost bill, by what was in flight at a time.
- `CallersAreVouchedFor`: the gateway never passes on the caller's own token or copies of its
  own headers, names the right subject, and sends an exchanged token of this very caller
  with the safety margin left, however concurrent handlers find, delete and refresh it.
- `TransportsAreSound`: relayed lines in order, each once, up to the end or a known cut, and
  uploads whole or refused (`StreamsAreWhole`); tools run once, clients not leaked, servers in
  reach, and every dropped call explained (`ConnectionsAreSound`).
- `WorkflowsKeepToTheirGraph`: a run follows its edges, an error edge only after a node failed
  in all its attempts; its state has what the nodes that succeeded returned, in their order;
  what was set up is shut down; attempts and requests multiply, and no more.
- `CountedChainsAreCapped`: chains of delegations in which no two turns met are no longer than
  their cap. `AutonomyIsAccountedFor`: stage and direction are told as they are, no version of a
  skill is lost, and a skill outside the agent's domains is quarantined unless it was written
  after the last demotion *whose quarantine went through*. In the repository's own startup none
  does (section 5), and the property then says nothing of skills at work.
- `RecordsAreTrue`: thoughts separated from words however these are cut, frames in order,
  fragments with their calls (`WordsArrive`); spans nest, a call is recorded in the step of
  its round unless a call of an earlier round was skipped for want of a name, and a row is of one
  request but for what a shared trace id mixes (`TracesAreWhole`); a PATCH is answered with what it wrote, and
  the summaries of both stores count each rating once (`FeedbackIsTrue`).
- `EveryRequestEnds`: chat requests, relays of streams, delegations and tool calls end; nobody
  is left holding the lock, and agents that delegate to each other do not wait for good.

### Bounds

- *One item.* An operation reads and writes one row; items meet only in an advisory lock
  whose keys collide (a refused try) and in the sweep's list, of which a crash may drop any
  rest. The theorems hold for any number of items and any `Key`.
- *Two actors, three workers*: a stale write needs a fetch by one worker and one or two
  operations by others in between; three pending operations at once cover fetch, take-over
  and restitution. On SQLite two workers and the sweep are three users of the connection.
- *Clock*: with duration 1 and `MaxTime = 2` a lease can be granted, renewed and expired; with
  duration 0 (SQLite) one tick is enough.
- *Three requests, two sessions* (chat): the two requests of a mixture and one in between, in
  the same session or not. Each request chooses its kind, its session and whether it answers
  a question. For liveness two requests are enough to wait for each other.
- *Three turns*: a question, an answer that fails, and a third turn that compacts the history
  with the sentinel left in it. `CompactAt = 3` and `KeepTurns = 1` make compaction happen in
  every second turn; `RepeatThreshold = PatternWindow = 2` lets the guard fire within a
  message or across two model calls. One operation needs approval, the other may be
  allowed, denied or asked about at each call.
- *Two files* meet only in housekeeping's list; *two DELETE requests* may name the same
  file. `FailClosed = FALSE` is the more permissive scanner setting: it differs only in
  ending some uploads before anything is stored.
- *Three requests, one in flight* (checkpoints): one that leaves a checkpoint, one that fails
  between two of its writes, one that recovers; `overlapped` excuses those in flight together
  anyway. *Three requests, two in flight* (accounts): two that pass the check together and
  one after. *Two requests and three calls* (histories): a revert between the load and the
  save of a turn, then a fork of the result.
- *Three events, two attempts, one restart; an unreadable record* (safety): one event before,
  one at and one after the fault. For liveness two of each, with two restarts.
- *A calendar of nine months of 2 or 3 days of 4 minutes*, all schedules of a few field
  values: every skip crosses the end of an hour, day, month and year.
- *Two handlers, three requests, clock to 4*, tokens that live 1 or 4 with a margin of 2: the
  one is never cached, the other is, expires in the cache, and is fetched by two at a time.
- *Four lines; six uploads*: a part that is refused first, in between, or last, sizes around
  the limit.
- *Workflow graphs* of three nodes: cycles, error edges, conditional edges that name nothing,
  remote nodes with retries in retries, graphs that are not valid; a limit of 4 steps.
- *Four frames, three agents* that delegate in a circle, over HTTP and in process, and spawn.
- *Four chunks, two rounds*, with pieces that begin and end inside a tag; calls whose index,
  id or name is missing, repeated or fresh. *Two calls, two tokens, three clients* (MCP): a
  reconnection by one while the other waits, and one more after it.
- *Two requests of seven spans and two rounds* (traces): a step with two tool calls, or one
  that is answered or skipped and a second call in the next round; the other request may share
  the trace id. *Two ratings, two PATCHes, a clock of four hours* with days of two
  hours and weeks of three days: all windows start and end.

Symmetry is used for safety runs only. `CHECK_DEADLOCK FALSE` stands where the system may
rightly stop: the bounded clock has run out, or every request has ended.

### Fairness

- The lease sweep sleeps a fixed interval and catches every exception, so `SweepSelect` is
  weakly fair. `SweepUpdate` (and `SweepCommit` on SQLite) are strongly fair: a sweep can
  fail or be rolled back any number of times, but not for ever. Nothing is assumed of agents.
- That expired leases come back on SQLite is stated for the time after which no request
  runs: with endless refused checkouts every sweep could be rolled back.
- In the chat server every ready coroutine runs and a turn ends: `WF` of a request's own steps.
  It makes at most `max_iterations` model calls, by a client with a timeout; that its tools and
  hooks end is an **assumption**, since `ToolRegistry.execute` gives them no timeout
  (`A/baseagent/tools/_registry.py:519-528`): a tool that hangs holds the agent lock, and nobody
  is answered any more. Disconnections and restarts are never assumed.
- In the agent loop the steps of a request go on by themselves (`WF` of `Progress`), under the
  same assumption. Failures are never assumed.
- The loop of an event source: `WF` of reading what is there (`Take`) and of the steps of `_process_event` (`Handle`); not of restarts, arrivals or failures.
- The gateway's relay: the agent's response ends, closed or broken (the HTTP client has a
  timeout of 120 s); reader and relay are goroutines that are scheduled, and a write to the
  caller returns, which is an **assumption** too: the server has no `WriteTimeout`
  (`src/demo/gateway/cmd/server/main.go:158-162`). Of the copier of an upload no end is claimed.
- Delegation: every turn runs when it has the lock, returns when its calls have, and gives a
  call up after its timeout (`GiveUp`: `asyncio.wait_for`).
- A tool call that was refused goes on with its hook, its reconnection and its retry
  (`Mcp!Progress`): each is a request with a timeout.
- The other components state safety only; their runs need no fairness.

## 4. Proofs

Constants are assumed to be what the modules' `ASSUME`s say, and TLC evaluates them all.

- `NoActor` and `NoWorker` are no actor and no worker, `Key` maps items to lock keys, durations
  and clock bounds are naturals; in the chat server the names that stand for nothing are no
  requests and no sessions.
- In the agent loop every operation has some permission decisions, the limits and thresholds
  are positive, and the guard counts at least two calls, as the code's defaults do.
- Budgets, limits, retries, depths and the numbers of agent.yaml are numbers
  (`AccountAssumption`, `HistoryAssumption`, `FlowAssumption`, `ChainAssumption`); scores start
  within their bound and stages have thresholds in it (`SkillAssumption`); a subagent reached
  over HTTP is a server. The parts of an upload are a sequence (`StreamAssumption`).
- An event is tried at least once, as the configuration demands (`A/baseagent/config.py:1234`),
  and arrivals and restarts are bounded by numbers (`EventAssumption`).
- A section's sentences end within it and its paragraphs at sentences, and a span counts some
  number of tokens (`ChunkAssumption`).
- The months of the calendar begin one after the other, from day 0 to beyond what a scan can
  reach; a week has days, and a field's token is one of those the parser knows
  (`CronAssumption`).
- A day has hours and a week days, and the records that ratings are of are finitely many, since
  they are counted (`FeedbackAssumption`).
- The gateway's lifetimes, margins and timeouts are numbers, and it exchanges tokens only where it
  verifies them; setup connects each MCP server once (`GateAssumption`, `McpAssumption`).

Nothing else is assumed finite. Components that `Services` instantiates are proved about as
they stand there; the last section of `ServicesProofs` states the results for `Services`
itself, whose behaviours are those of one component.

`PgWorkItemStoreProofs`:

- `TypeCorrect`: type correctness.
- `Invariance`: `Spec => []IInv`, from which `HeldRowsStayWellFormed`,
  `LocksAreDisciplined` and `PendingCheckoutsAreFree` follow.
- `Refinement`: `Spec => Pool!Spec`.

`IInv` adds to the checked invariants what makes them inductive. `HeldRowsWellFormed` alone
is not: an `Update` writes what was computed from a row that may have changed since.
`TasksWellFormed` says what each kind of task can write: a checkout writes a well-held row,
the end of an attempt never a held one, a renewal only a lease that is a time, accept and
reject only `completed` or `available`. So no combination of a stale write and the current
row yields a held row without holder or lease. `HeldUntilDeadline` gives the refinement its
deadline. `PendingCheckoutIsFree` rests on `LockDiscipline`: two checkouts of one item
would both hold the lock of its key, whatever the hash; and no other operation writes
`checked_out`. The refinement then goes through action by action: `CheckoutCommit` is a
`Grant` because the item is still free; the end of an attempt, the sweep and accept/reject
are `Withdraw` or a stutter; a late renewal is an `Extend` of whoever holds the item **by
then** or a stutter.

What the abstract pool promises holds of the store by the same argument: `HoldersHaveDeadlines`
and `ItemsPassThroughNobody`, an item changes hands only through a state in which nobody holds
it, for any number of replicas.

`AgentLoopProofs`: type correctness and six of the checked properties, four of them from
`InvariantHolds` (`Spec => []IInv`). A question passes through three places, the agent
(`pending`), the row (`saved.question`) and the request that answers it (`turn.question`),
and none of the properties says where it is in between:

- `Asked` follows it. Between the question and the row the history already ends in the
  sentinel, and that history is what the row gets; a turn starts with no question, which is
  what the reset under the agent lock is for (without it `QuestionHasSentinel` fails).
- `Dispatch` and `Ids`: the calls still to dispatch are new and distinct, and the call of a
  question, wherever it is, has not been run. With it `RunApprovedTool` and `ExecuteCall`
  never run a call twice, though they take it from different places.
- `Waiting`: the sentinels of the agent's history and of the row differ at most by the one
  just answered. `SentinelsCompact`, `SentinelsInject` and `SentinelsAppend` say what each
  way to change a history does to the sentinels in it; for compaction this needs that
  `PreservedFrom`, a choice of the least of several positions, is a position
  (`PreservedFromIsPosition`).

The fifth, `ResultsFollowCalls`, has an invariant of its own, `Shape`: in the message being
dispatched the calls answered and those still to do make up all its calls, and no two messages
of a history have a call in common (`Numbered`). Compaction needs the second: the cut is moved
back to the call of every recent result, and a result that only shares an id with a recent
call would let it fall between a call and its result (`CallPreserved`).

The sixth, `RepeatsAreStopped`, rests on `Counted`: the window of the guard has the last calls
of the turn, all of them unless it is full, and none of them as often as the threshold; so
that many equal calls in a row fit into no window that is wide enough.

`ChatServerProofs`: type correctness and five of the checked properties, from
`Spec => []IInv`. What is serialised by the lock is only the middle of a request, so `IInv`
says what the two ends may know:

- `Lock`, `Local`: who holds the lock is the head of its queue and in its turn, the agent's
  messages are those of the turn, and what a request has in hand follows from where it is. This
  gives `TurnRunsAlone`.
- `Apart`: the messages saved for a session and those a request carries are of that session.
- `Alone`: until requests of a session overlap, at most one has read its history and not
  saved it, and what it has read is all there is. With it a save extends the row:
  `SavedTurnsSurvive`.
- `Fresh`, `Questions`: without sync requests the question on the agent was asked by the turn in
  progress, and `Travels` follows it to the row, to the requests that read it there and to
  the run of its tool: `QuestionsStayHome`, `ApprovedToolRunsOnce`.

`FileStoreProofs`: type correctness and all four checked invariants. `IInv` ties the local
state of an upload, a task, a delete and the sweep to the three stores: what an upload before
its insert has put there, which rows a task may still change, and what a delete that has
reached its last call has removed (`UploadsInOrder`, `CompletingHasChunks`,
`DeletesKnowTheirFiles`, `SweepIsOnItsList`). The excuses (`lost`, `asked`, `old`) only grow, so
a step of one coroutine never invalidates what another relies on but by putting a file among them.

`StoresProofs`, one section for each component:

- *Session histories*: while no requests of a session overlap, nobody has its history in hand
  when it is reverted, so no save can write a turn that was removed; a fork has a history its
  parent had. With the next, `SessionsAlwaysAgree`.
- *The state of a session*: the request that is under way is followed through its writes; at
  each the invariant says how far the agent's state, the history and the checkpoint are
  from each other, and when nothing is under way they are the same.
- *Budgets* (`OverspendingIsAlwaysBounded`): what is spent and the requests let in that have
  spent nothing yet stay below the limit and `MaxInFlight` together (`Within`). For that what
  is checked must be near what is spent: `Billed` and `Tallied` say by which turn's usage row
  and tally may be behind.
- *Chunks of a text* (`TextsAreAlwaysWhole`): the units of a section lie one after the other from
  its first word to its last, so a place in the text is the number of a unit. The words
  before the new ones in hand are in the chunks; the last chunk ends where those begin, and
  begins no later than what is in hand.
- *Work items in SQLite* (`ThePoolIsSound`): anyone's commit copies `mem` to `disk` and anyone's
  rollback copies it back, so the invariant is stated of both copies. What a task may write
  follows from what it fetched, as in PostgreSQL. `Exclusive` replaces the advisory lock: unless
  `broken`, the open transaction belongs to the one task in the middle of a checkout.

`AgentsProofs`:

- *Delegation* (`CountedChainsAreAlwaysCapped`): the count a tool reads is the depth of the frame
  that calls it, for a turn of a server as long as the turn is alone in its server's queue. The
  invariant says which frames the queues hold, that a frame that waits has a child to wait
  for, and which counts are sure.
- *Learned skills* (`AutonomyIsAlwaysAccountedFor`): a level moves by one, and what was told last
  is the level there is, whether or not the quarantine after it fails; one that goes through
  looks at all skills and nothing else; versions are
  numbered without a gap while the archived file's header can be read.
- *Workflows* (`WorkflowsAlwaysKeepToTheirGraph`): the last node of the path leads to where the
  run is (`FlowLeads`); what was posted for a node is bounded by its attempts before this one,
  each with all its requests, and the requests of this one. The places of what succeeded grow
  with the path, since a node's write is appended when the node is left.
- *Traces* (`TracesAreAlwaysWhole`): what is open in a collector is the request, one
  step, its model call and the calls that wait for answers (`TraceOpen`). While the agent is
  at work there is such a step, or the next output begins one in a round that no step is in
  (`TraceBusy`, `TraceFresh`): so a call is recorded in the step of its round. A call that was
  skipped keeps its step open: what follows is recorded there, and the exception in the property
  names that call. The calls without an answer are those that have an open span, and end with it. A row is written when
  a collector goes, and what it tells of is gone for good, so the two agree from then on but
  for the columns that PostgreSQL keeps of an earlier request.

`ServicesProofs`, for the others:

- *The gateway* (`CallersAreAlwaysVouchedFor`): an entry of the cache is a token of its key's
  subject and expires a margin before it, but for the time the exchange took (`GateCached`); a handler
  has waited no longer than the timeout (`GateWaiting`), and no time passes between
  finding a token and sending it; what is forwarded was vouched for (`GateAdmitted`).
- *Streams and uploads* (`TransportsAreAlwaysSound`): the relay has written what its reader scanned
  but the line on offer; the agent of an upload has the parts before the next one, each
  checked, the first file by the handler and not by the copy.
- *The times of a schedule* (`NothingIsEverSkipped`): a field of a time depends on its hour, its
  day or its month alone, and a skip stays within the one whose field does not match, so no
  minute that it passes can match; what the code's rule matches, the rule of POSIX does too, and
  the two are one unless both days are restricted. Days of a month are counted from the beginning of the
  last month that has begun, which is why the calendar has to grow.
- *The events of a source* (`OutcomesAreAlwaysTrue`): what a source is told covers whatever it
  has given out, so nothing given out may be open when it is told. The loop holds one event,
  and takes the next when that is saved or reported, or dropped by a restart; what is
  committed covers only what was dealt with or lost. With the above, `EventsAreAlwaysAccountedFor`.
- *Ratings* (`FeedbackIsAlwaysTrue`): a row that no other request and no housekeeping touches is
  what its PATCH left, until the PATCH reads it (`FeedbackKept`). Both stores begin a week on
  the same weekday, and beginnings are a whole number of weeks apart, so a rating lies in the
  span of one window and no other: the windows of a summary count each rating once.
- *What is recorded* (`RecordsAreAlwaysTrue`): with the traces above, for every component but the
  words of a model.
- *Types* (`TypesAreAlwaysKept`): the type invariants of all components but the words of a model,
  by a lemma for each (`StreamTypeCorrect`, `SkillTypeCorrect` and so on in the three modules).
  Few are inductive: a position in a source stays within it because what is committed and the
  event in hand have arrived (`EventBounded`), the parts that an agent has are parts of its
  upload (`StreamHeard`), and a schedule's weekdays are those of a week after the parser has
  folded 7 into 0 (`CronWithin`).

`McpConnectionsProofs`: type correctness and `ConnectionsAreSound`. Setup, calls and
reconnections each keep a part of the truth about a connection:

- `InSetup`: until a reconnection replaces it, a server's client is the first one made, and no
  call runs before setup has ended. `Locked`: a call that reconnects holds its server's lock,
  and nobody else does.
- `Reached`: an open client is its server's or leaked, and who is left without an open client is
  lost or being reconnected. `Explained`: whoever finds a client closed can name who closed it.
- `Tried`: a call goes out a second time only after what seemed a refusal, so a tool runs
  twice only then.

The steps of a call, of a server's reference and of setup are reduced to one lemma each
(`CallKeeps`, `ServerKeeps`, `SetupKeeps`), which say what such a step may change.

Only model-checked:

- Liveness, which is out of the prover's reach: `LeasesAreReclaimed`, `LeasesComeBack`,
  `EveryTurnEnds`, `EveryRequestEnds`, `EventsAreHandled`.
- `WordsArrive`, and the type invariant of `ModelStream`: what a parser, a framer and a client have
  made of a stream of chunks is computed by recursion over them, so that it holds for every
  stream is an induction over data. The theorems about `RecordsAreTrue` and `TypeOK` therefore
  say `part # "words"`.
- The properties of the runs that find violations, and what section 6 leaves out.

## 5. Where code and words differ

1. *Sweep race* (`pg_sweep_race`): `expire_leases` writes back rows selected earlier by
   `WHERE id` alone, so a lease renewed in between is taken away; the tool promises that
   it expires "if not renewed".
2. *Double checkout on SQLite* (`sqlite_double_checkout`): another coroutine's commit ends a
   checkout's `BEGIN IMMEDIATE`, a second checkout is granted, and both agents hold the item.
3. *Identity of a delegation* (`chat_identity`): the Authorization header is put on the shared
   agent before the lock is taken, so a turn can delegate with another caller's.
4. *Orphan chunks* (`file_orphans`): housekeeping removes a file's bytes and row and not its
   chunks, while the comment in `_delete_file` relies on housekeeping to re-run the cascade.
5. *Half-dispatched messages* (`agent_shape`): a question stops the dispatch of a message's
   calls, and the rest are never run nor given a result; the model is called again with a
   history that the comment at the append calls correctly shaped.
6. *Chains of delegations* (`delegation_chains`): the depth a request announces is written to
   the shared agent when the request arrives and reset when any turn ends, so chains that meet
   at an agent, and those of spawned children, go on beyond `max_depth`.

Met on the way. The first group is visible in the premises and excuses of the properties.

- A sync request may persist another session's question (premise of `QuestionsStayHome`). A
  file whose DELETE failed after the cascade stays listed as completed without its chunks
  (`asked`); a failed insert leaves bytes that housekeeping, which walks rows, never finds
  (`lost`); an answer that fails loses its question (`hit`).
- `StateRecovery!RecoveryCompletes`: the collector stores large request bodies as JSON strings
  (`A/server/collector.py:104-110`) and the replay indexes them (`A/server/recovery.py:96-110`), a
  `TypeError`, while the skill says that recovery needs no action
  (`src/demo/agent/skills/session-continuity/SKILL.md:46-48`). `EventPipeline!ProcessedOnce`: an
  event whose emit or acknowledgement fails is processed again. Both are stated and in no run.
- MCP: the second of two calls that wait for a reconnection reconnects again and closes the
  client on which the first is retrying. After a failed or cancelled reconnection, or when a
  tool of a stdio server reports an error that contains "401", "403" or "forbidden", the server
  is out of reach for the rest of the process. A tool whose own error looks like a refusal
  runs twice. A failing `list_tools` leaves its client open.
- Gateway: the HTTP client's timeout of 120 s covers the body and cuts longer streams without a
  mark (`src/demo/gateway/cmd/server/main.go:63`). A key lookup that fails with "could not find
  kid" is answered with 503 whether or not the cache is warm; the comment above says only a cold
  one is (`src/demo/gateway/internal/auth/jwt.go:216-232`). Tokens
  that live 30 s or less are exchanged at every request.
- Traces: a stream that fails is recorded with status "ok", a failed sync request or a stream
  whose client left leaves no trace. Requests that share a propagated trace id overwrite each
  other's: SQLite replaces the row, PostgreSQL keeps session and start of the first with the
  spans of the second. A PATCH of feedback may answer 404 after it has written, if housekeeping
  deletes in between.
- Chunks: a chunk of an overlap and a whole unit can exceed `chunk_size_tokens`, though the contract
  says "at most" (`A/server/chunker.py:134`); `token_count` of a section that is small enough
  leaves out the headings in front of it, that of the pieces of a long one does not.
- Streams of the model: the Anthropic serializer keys tool blocks by the call's index and does
  not clear them between rounds (`app.py` does not use it); the OpenAI one takes a reused call
  id for a continuation; a call opened without a name stays so, and gets no result. Text of a
  round that a limit ended has been shown and is not in the history. Usage is read from the last
  `chunk` bound, which may be another round's.
  A call without a name is not executed (`A/baseagent/agent.py:1114-1115`), but the collector has
  opened a span for it and waits for its result: until the turn ends no new step begins, and the
  following rounds are recorded in that call's step (`A/server/collector.py:273-302`).
- Schedules: the module promises the fields of POSIX cron (`A/server/sources/cron.py:1`, `:29`),
  where an expression that restricts day of month and day of week runs when *either* matches;
  the code requires *both* (`:180-186`). Each scan starts from the present (`:249-250`), so the
  times that come while the loop handles an event are passed over without a word.
- Skills: "On demotion, quarantine out-of-scope learned skills", says
  `A/baseagent/tools/work_items.py:99`. With the repository's own startup nothing ever is: the
  server makes the agent without a base directory (`src/demo/agent/src/agent.py:27-32`,
  `A/server/app.py:146`, `:187-190`), `_base_dir` is then `None` (`A/baseagent/agent.py:163`), the
  default `learned_skills_dir` is relative (`A/baseagent/config.py:382`), and `None / Path` raises a
  `TypeError` (`work_items.py:106-108`) after the trust events were drained: the demotion is not
  seen again, and skills outside the agent's domains stay at work.
- A skill that is said to take effect in the next session is read at its first use.
  `TrustManager.record_violation` is called by nothing.

## 6. What the models leave out

- Contents: titles, notes, progress, message texts, file contents, scores of chunk search.
- `list_available`, `get`, `stats` and the other reads: no state changes.
- Clock skew between replicas; a PostgreSQL failure whose COMMIT has or has not happened is
  a crash before or after the step.
- In `ChatServer`: attachments, and what has a module of its own (compaction in `AgentLoop`, fork
  and revert, costs, checkpoints, retries of events). The modules of 2.6 repeat of a request only
  the awaits at which their column is read or written.
- In `FileStore`: housekeeping of several replicas at the same moment.
- `SqliteConnectionManager`'s cache of connections: stores are created one after the other
  at start-up, so the two opens of one path that the code would allow do not meet.
- In `AgentLoop`: turns of events, which save a sentinel without persisting its question
  (`A/server/app.py:1934-1938`), so that `SentinelIsPending` is about chat requests; the memory and budget-headroom messages, the non-streaming `step()`, platform
  mode. In `McpConnections`: what tools do, and servers that change what they offer.
- In `FeedbackStore`: other time zones of a PostgreSQL session than UTC, in which the two stores
  would cut different windows.
- In `Gateway`: the contents of the key set, and the subject "anonymous", which `Nobody` stands
  for as well. In `EventPipeline`: the signatures of webhooks and the sources' connection loss
  other than as a failing read.

## 7. How the development was ordered, and what could follow

The order was that of what users of the framework rely on: first what several agents or
clients share (the pool and the server's one agent), then what one conversation consists
of (the agent loop, files, history, checkpoints, costs), then what connects the process with
others (events, gateway, delegation, MCP, streams), then what is recorded. The abstract
specification worth having was `LeasePool`; for the others the promise is an invariant or an
action property of a few lines, and a second specification would only repeat it.

What could follow: a composition of `ChatServer` with `SessionHistory` in which fork and revert
meet questions; attachments, once there is a limit on what a turn reads of them.

## 8. Not modelled

- `baseagent/llm.py` converts message formats and calls HTTP; its retries are the client's.
- Memory backends: search and storage of notes behind a small interface, each call one
  statement; nothing coordinates them.
- Prometheus metrics and OpenTelemetry export only observe.
- `token_manager.py` is imported by nothing; the agent's tokens come from hooks (2.10).
- Loading and formatting of prompts, rules and settings, and the matching of permission rules:
  functions without behaviour over time. Their outcomes are choices of the models.
- `delete_before` of sessions and renaming: single statements on rows no request of the models
  depends on for longer than a load.
- `TokenBucketRateLimiter`: the sources wait for it before they yield an event
  (`cron.py:262`, `kafka.py:72`, `redis.py:70`) or queue one (`webhook.py:91`), which delays and drops
  nothing. Signatures of webhooks are a pure computation.
- The web UI (a static page and a reverse proxy), and the deployment files.
