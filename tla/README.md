# A verification of hardline-mcp

hardline-mcp lets agent sessions (Claude Code, Codex) on one machine write to
each other and hand each other work. Every session runs its own MCP server
process; the processes share nothing but one SQLite database, the operating
system's process table, and a few files. So everything the system promises is
promised across processes that may die at any moment, over a store that may
refuse any write, or commit it and still raise.

This directory holds TLA+ models of that system, translated from the Python in
`src/hardline_mcp`, the TLC configurations that check them on small instances,
and proofs that hold for any instance. File and line references are to that
source.

## The system and its parts

| Component | State it keeps | Operations | Correct when |
|---|---|---|---|
| Job store (`jobs.py`) | one row per job: state, owning process instance, child, result | create, mark_running, set_child_pid, finish, request_cancel, lost-owner resolution on every read and listing | one outcome per job, told once; `lost` only of a dead owner; a cancel reaches the child it won |
| Child supervision (`adapters._run_cmd`) | the child's handle, its pipes | spawn, record, wait, time out, kill the tree, reap | no child runs on unknown to everyone; a wait is bounded |
| Process identity (`procid.py`) | none | pid and creation key to alive, dead or unknown | "could not tell" is never taken for dead |
| Async dispatch (`server._admit_async` and its neighbours) | admission slots, tracked futures, owed writes | admit, run, retire cancelled, owe, settle, drain at exit | slots conserved; no accepted result forgotten |
| Executor (`dispatch.py`) | a removable queue, counted worker loops | submit, cancel, work, shut down | queued work always has a worker to come |
| Session registry (`sessions.py`) | one row per (process, lane) | claim, register, release, restore, prune | one live holder of a name; pruning never takes a live one |
| Server identity and lanes (`server.py`, `adapters.py`) | this process's lanes, waiting claims, failed registration | announce, claim, await, fulfil, release, restore | a result goes to a lane its requester still holds |
| Mailbox (`mailbox.py`) | messages, acks | send, consuming and peeking batches, ack | a message is consumed once, by its lane, and never skipped |
| Announcer and its wakes (`announce.py`, `codex_queue.py`, `claude_inbox.py`) | one outstanding nonce, what was announced | poll, dispatch, accept_receipt, unsettled, take_back | new mail is announced, not twice, and retried until a receipt |
| Channel push (`channel.py`) | cursor, unreceipted batches, reminders | next_batch, sent, unsent, accept_receipt | no message passed over, reminders bounded |
| Watch and Codex app wake (`watch.py`, `wake_codex.py`) | a poll loop; one uncertain send | poll, send | a wake is neither lost nor repeated |
| Thread bindings and hints (`bindings.py`, `hints.py`) | the names of a Codex thread or a Claude conversation, across servers | bind, withdraw, renumber, page; record, forget | names come back to their own thread, in order, unless given up or taken |
| Synchronous asks (`server._sync_agent`) | the children of one call, a lock Claude launches share | ask, cancel | the call ends; a cancelled caller leaves no child |
| Delivery lookup, quota routing | none | classify a message by recorded facts; choose a route | decisions match their reference definition |
| Request building, GitHub context, reports, command line | none that outlives a call | text in, text out | outside a state model |

They meet in few places. A tool call admits a job (dispatch) for the lane its
session holds (identity, registry); a worker of the executor runs it, spawning
children that any process may kill through the job's row; `finish` commits the
row and its completion message (mailbox) together; a wake tells the session.
Reads by any process resolve jobs whose owner is gone.

The hard behaviours are the interleavings of these processes and of the
threads inside one (tool calls, worker, wake cycle, exit), crashes between any
two transactions, writes that commit and raise, probes that do not answer, and
state read in one transaction and used in a later one. `PROJECT.json` lists
them at their lines under "hazards".

## Modules

| Module | Models |
|---|---|
| `JobRow` | one row of the jobs table; what each conditional UPDATE matches and writes |
| `Jobs` | the rows under many servers: workers, their children, readers, sweepers, cancellers, crashes |
| `JobPromise` | abstract: what a requester is promised of an outcome and its message |
| `Dispatch` | one server's admission, executor, owed writes and clean exit, step by step |
| `Lanes` | the session registry under many servers: announcing, claiming, waiting, releasing, pruning, and the lane a result goes to |
| `NamePromise` | abstract: how a name may pass from one session to another |
| `Mailbox` | sends, consuming and paging reads, acks, over lanes that move between sessions |
| `WakeMail` | what every wake has around it: unread mail, and what a session has to do with its names |
| `Announcer` | one notice at a time, through a Codex thread or a Claude inbox |
| `Pusher` | batches of mail pushed into a Claude connection as channel events |
| `Watcher` | the watch loop, over its own output or starting turns in a Codex thread |
| `Wakes` | the three composed, one of which serves the session |
| `Threads` | the names of a thread or conversation: bound, advised, surveyed and restored |
| `RunCmd` | one run of an agent's command: child, pipes, input, limits, kill, answer |
| `SyncAsk` | a synchronous ask over `RunCmd`, its lock, and the cancel of its caller |
| `JobsProofs`, `DispatchProofs`, `LanesProofs`, `MailboxProofs`, `WakesProofs`, `ThreadsProofs`, `SyncAskProofs` | theorems about the module each is named after, and their proofs |
| `DataLemmas` | what those proofs need of numbers, finite sets and lists |
| `MCJobs`, `MCDispatch`, `MCLanes`, `MCMailbox`, `MCWakes`, `MCThreads` | small instances for TLC |

### Jobs

A server is a process *instance*, a (pid, creation key) pair, so a reused pid
is another server. `row[j]` keeps the columns the transitions read; `work[j]`
is where the owner's worker stands in `_run` and `_run_cmd`; `alive[j]` is the
set of j's children that run; `op[s]` is the read, sweep or cancel server s is
in the middle of, cut where the code cuts it: probe the owner (no transaction),
resolve it as lost (one transaction), claim the cancel and read the child (one
transaction), signal.

What fails, fails nondeterministically: `Admit` may commit a row that no thread
will serve; `StartRun` and `WriteResult` may commit and raise, so the write is
repeated; `Probe` may find a dead owner undecided; `KillOwn` and `KillChild` may
miss. `excused[j]` records exactly the children such a failure put out of a
cancel's reach (the pid never recorded, the kill failed, the canceller died or
its commit raised), so that `CancelReachesChild` says what the code does
guarantee: after a cancel, each child still running is one that somebody is
about to kill, or one that a named failure excused.

### Dispatch

Admissions, cancels and settling passes are tool calls or wake cycles in
threads of their own (`pc[c]`), the worker is `exec[j]`, the exit is a thread
too. A step is what one of them does under a lock, in one transaction, or on
state no other thread reads. So the model separates what the code separates: a
cancelled future and its callback, the future's end and the callback, tracking
and hooking a future, a debt's write and its removal. A debt is its job, the
write owed, and who owed it, which is what tells it from its replacement
(`_debts.get(key) is write`).

The worker's `_run` is there only as far as its writes; its children are
`Jobs`'. The thread pool under the executor is external: it runs at most
`MaxWorkers` loops and may hold the call of a loop whose start it refused
(`loops` beside the counted `workers`).

### Lanes

`row[s][n]` is the `seq` of server s's row for name n, 0 for none; a server is
again a process instance, and `Pid` maps two instances to one pid where pid
reuse is the question. `host[s]` is the process that launched s, whose death
makes its rows dead while s itself may still run. Each server has its memory
(`claims`, `pending`, `failed`) and the two locks its threads meet at:
`claim[s]` is what holds `_claim_mutex` and how far it got, `ilock[s]` what
holds `_identity_lock`, with the names it read (`snap`) or the lane it chose
(`to`). A section under a lock that spans two transactions, or a read of memory
and a transaction, is two actions, so that dropping the lock would show.

A step that probes takes a set `unsure` of servers whose probe did not answer.
A live server answers alive or unknown, which the code treats alike; one that
is gone answers dead or unknown. The cache of probes inside `_acquire` reuses
only refusing answers, which is one more way to be unsure. A claim, atomic over
every lane held, and an announcement, lane by lane, share `Allowed` and
`Acquired` as the code shares `_acquire`.

`wanted[s]` is no variable of the code: it is what the session asked for and
has not given up, against which `OnlyWanted` holds the rows and claims.
`_fulfil_pending` takes several waiting claims under one hold of the mutex; the
model fulfils them one at a time, each from a snapshot that may be stale, which
allows more. A store that refuses a transaction changes nothing here; writes
that commit and raise are the subject of `Jobs` and `Dispatch`.

### Mailbox

A message is its id, the place it has in `to`; `acker[i]` is who consumed it
(`acked_at` and `message_acks`). `owner[n]` is whom the registry grants lane n
and `memory[r]` the lanes r believes it holds; `Lanes` says how the two come
apart, here they simply do. A call of `inbox` is cut where the code cuts it: it
picks its lanes outside the identity lock (`Ask`), looks before it reserves the
writer (`ProbeEmpty`, `ProbeFound`), and selects, verifies, consumes and counts
in one transaction (`Read`); then its reply arrives or is lost. `told[i]`
counts the replies that said they consumed i, and `sweep[r]` what a reader that
pages has been shown: both are there for the properties.

### The wakes

`WakeMail` holds the mail, what was read, and for each name whether the session
holds it, remembers it without a grant, held it in an earlier server, or has
nothing to do with it. A name may move from any of these to any other
(`AllMoves`): it is lost and regained, released, claimed again. `parted`, which no
part of the code reads, collects the messages whose name left the session and
that have not been announced since.
`kind` is decided once, as `serve_streams` decides it, and one of the three
modules then works while the others keep still.

In `Announcer` a notice is its nonce. The poll thread reads, waits a window,
checks again and sends (`at`); tool threads bring receipts; the facts of
delivery are written by whoever picks them up, perhaps older ones than there
are now (`saving`). A send through Codex is steered, queued, or in doubt;
one into an inbox is bounded by a time, past which the writer goes on beside
the wake and may land, end or fail late (`late`). `landed` says which notices
reached the session, and no part of the code reads it. A whole sweep forgets
what it does not find, which is what was read and what is at names the session
does not own at that moment (`announce.py:217-218`): a name released and claimed
again has its unread mail announced again. `told` therefore drops a message in
`parted` when a new notice is for it, and `NoSecondNotice` speaks of the others.

`Pusher` records a push before it writes it and takes the record back if the
write fails; its facts go to the store from two threads, in version order.
`Watcher` reads a snapshot, offers a notice when one is due, and either emits it
or asks the app server for a turn; an answer that is lost leaves it `uncertain`
until a time passes. Both times are set the same interval ahead and so pass in
the order they were set, which is all the model keeps of them.

### Threads

`bind[n]` is the row of `thread_names` for n: its thread, its place there and
the server that wrote it. `hint[n]` is the row of `lane_hints` for n, and its
`seq` the rowid: writing one deletes the oldest beyond `PerConversation` of the
conversation and beyond `Rows` in all (`KeepNewest`). `row` and
`claims` are as in `Lanes`, without the ranks. A restoration is two actions, as
in the code: `Survey` reads a page without the writer, and `Restore` judges each
candidate again in one transaction, puts each name it takes among those restored
before (`WithRestored`), writes rows and bindings, renumbers them and publishes
the list. A hint is written in a transaction of its own after the claim or
release it is about (`note`), and may fail. `gaveUp` and `excused` are for the
properties: what a thread has released, and which names' hints failed, were
dismissed or were crowded out by later ones, as `hints.py:35-36` says they may be.

### RunCmd and SyncAsk

`RunCmd` separates what the operating system and the threads separate: the
child and a descendant it may leave (in its process group, `near`, or not,
`far`), each of which may hold any pipe open; a reader per stream; the thread
that feeds the input; and the calling thread (`at`). Nothing is assumed of the
child or its descendant. A kill reaches the group or silently fails. Silence
and age are the same to the model: a limit may pass at any time. A run without
a watch is read by `communicate` in the caller. A piece read and the clock it
restarts are one step. After a kill, `settle` looks at the
readers one after another, closing the pipe of each that has finished (`Look`),
and then again to say whether all have (`Settle`): a reader that finishes in
between leaves a complete capture with a pipe still open. A reader whose read
fails ends without a word and counts as finished (`ReadFails`). `SyncAsk` adds
the worker (`ask`), the lock that Claude launches share, which an ask finds free
or held by one other launch of the server, and the caller. Of several
commands only the current one's entry in the list of children is kept, since an
earlier one was waited for and its key no longer matches. Descendants that
outlive a finished command are out of sight.

## What the runs check

| Run | Instance | Shows |
|---|---|---|
| `jobs_safety` | 3 servers, 1 job, 2 children, the worker fair | result told once; lost means dead; no child without a claim; a cancel reaches its child; one canceller; an accepted job is told its outcome, or its server died; `Jobs` implements `JobPromise` |
| `jobs_clean_cancel` | violation | a cancel reported clean can leave its child running |
| `dispatch_slots` | 2 jobs, 2 calls, 2 slots, 1 worker | slots conserved, unpaid results keep theirs, nothing accepted is forgotten, a clean exit owes nothing, queued work has a loop, cancelled work is retired before a refusal |
| `lanes_names` | 2 servers, one with a derived lane, 2 names, 3 explicit calls | nobody is registered for, or holds, a name it did not ask for or gave up; the registry lists a server's names in the order it answers to them |
| `lanes_promise` | a server, its successor under the same pid, a stranger; 2 names, 1 explicit call, a host that may die | `Lanes` implements `NamePromise`; a live row goes only by its own release or exit |
| `lanes_live` | 2 servers, room for 1 claim each, one of them fair | a granted claim fits the cap; a waiting claim is served once nobody blocks it; a session regains its own lane |
| `dispatch_live` | 2 jobs, 1 call, one result always refused, fair | one refused debt does not keep another from being paid |
| `mailbox` | 2 sessions, 1 lane and the shared name, 2 messages, batches of 1, one session fair | a message is handed over as consumed once, and only to who holds its lane; "nothing left" is true; paging misses nothing; polling drains the backlog |
| `wakes` | each kind of wake, 2 names, 2 messages, fair | one notice to answer at a time; no message announced twice, unless its name left the session in between; no sure copy or turn repeated; reports are true; mail is read or told of in the end |
| `threads` | 2 servers of one thread, 1 of another, 3 names, pages of 2, room for 2, hints of 2, 4 asks | the names a server answers to are those of its rows, within its cap; bindings keep their order and advice is right across restarts, but for what was crowded out of its table; only a thread's own, lost and not given up names are restored, and in their order |
| `threads_live` | 2 servers of one thread, 3 names, pages of 2, room for 2, 4 asks, fair | the names of a thread come back to it |
| `sync_ask` | 2 commands, 2 output pipes and an input, fair | an ok answer is whole, a stopped one says what it lacks, but for what a failed reader left; no child escapes a cancel but for a named failure; the call ends |

Bounds. One job is enough for the row's own properties, since no transition
reads another row; three servers are an owner, a canceller and a sweeper, or
two cancellers. Two children give the race the code comments on (a cancel that
saw the first while the second runs). A sweep that resolves several rows at once is
left to the proofs. Two jobs are what a queue and a line of debts need. Two slots, one worker and two calls let one job run while
another is queued, two calls retire the same job, and an admission meet a full
pool. In every run a job is admitted at most once, ids being fresh.
Two servers and two names give `Lanes` a holder and a claimant, a lane derived
and a lane claimed, and a claim that needs both; three calls are a wait, its
cancel and another claim, or two claims and a release between. Pid reuse and the death of
a host need the third server, and get one call: their hazards lie in what one
claim, announcement or prune does with what it judged before. In `lanes_live`
no jobs are admitted (owed work is one more reason to be blocked) and hosts
live on.
In `mailbox` a batch of one makes two messages a backlog, and one lane is
enough to be held, lost and held by another. One session's calls are followed
step by step (`Caller`); the other acks one message or several, which is all
its calls would do to the first. In `wakes` a poll reads one message, so that two
make a sweep of several. Which names move, and how, differs between the kinds
(`MCMoves`), to keep each small: one is released and claimed again, once
(`MaxLeft`), under the Codex announcer, whose sweeps and checks before a send
are the inbox's too; one loses its grant and regains it under the turns, which
recheck it; one held before is claimed under the pusher, which had told of it.
The proofs allow any moves. A message is pushed at most twice. In `threads` and
`threads_live` three names over pages of two are a sweep of two pages, and room for two makes
the capacity bite; no server starts late, since one that has done nothing yet
is one that has just started; a table of two hints (`PerConversation`, `Rows`)
crowds out the oldest of three. In `sync_ask` a descendant may be left holding
the input, or that and one of the two streams (`Legacy`), and the reader of that
stream may fail (`Fragile`); two streams let one end while the
other is held, and two commands let a cancel meet the second; writes and time
are unbounded.
Calls and jobs in `dispatch_slots` are interchangeable, hence the symmetry
there; the other runs use none. Deadlock is not checked: processes exit, a
watch ends, a call is answered, and with every job settled nothing need happen.

Fairness. In `Jobs` only the worker's own steps are fair: a thread is scheduled, a run
is bounded by its idle limit and ceiling, and an owed write is retried by its
process. Nothing obliges anyone to poll or to cancel. In `Dispatch` the steps
of a call, of the worker and of the exit are weakly fair. That a settling pass
begins again and again is strong fairness: `_settle_debts` is called by every
poll (`server.py:625`), job lookup (263) and wake cycle (707, every
`channel.FULFIL_S`), so it assumes that a session keeps polling or has a wake
loop. That a write is accepted some time, if it may be, is strong fairness of
the store. Starting an exit is not fair, nor is giving up.
In `Lanes` only the wake cycle is relied on (`_regain_lanes`, run every
`channel.FULFIL_S`), never a heartbeat or a call: its threads go on (weak
fairness), and a lock free again and again is got, a probe answered and a
transaction accepted some time (strong fairness). It is assumed of the one
server the properties are stated of (`Attended`); the others may do anything.
In `Mailbox` an attended session polls all its mail again and again, is let
finish its calls, and does not find the registry unreadable for ever. In `Wakes`
the loops and their timers go on; a read of the store, a check before a
send and a send to a session that can be reached succeed some time if they are
possible again and again, and a session answers the notice it was given. In
`threads_live` the wake polls on, a restoration that found names finishes, and a
process that is gone is known to be gone some time. In `SyncAsk` the worker and the event loop are scheduled, the other
holder of the lock returns, and the thread that feeds input does not sleep on a
pipe nobody reads; nothing is assumed of a child or of a reader.

### The disagreement

`jobs_clean_cancel` checks what the comment at `jobs.py:66-70` says: that
"process is gone" and "pid was reused" both mean the child is dead and the
cancel is clean. `kill_process_tree` answers "process is gone" whenever
`process_key(pid)` is `None` (`jobs.py:475-477`), and `process_key` is `None`
for every read that fails, as its docstring says. A child that is alive while its
identity cannot be read at that moment is not signalled, and the cancel carries no
warning. `procid.instance_state` treats the same reading as "unknown".

## What is proved

Every safety invariant and safety action property that a passing run checks is
also a theorem, for every value of the constants that the named assumptions
allow: any servers, sessions, jobs, names, pages, batches and bounds. The
types of the variables are proved too and take no run's time (only `Threads`'
`TypeOK`, which also says that lists and rows agree, is checked by one). The
theorem a property belongs to:

| Module | Theorems |
|---|---|
| `JobsProofs` | `Typing`: `TypeOK`. `ResultToldOnce`: `NoticeMatchesRow`. `OnlyTheDeadLose`: `LostMeansDead`. `ClaimedBeforeSpawn`: `NoChildUnlessClaimed`. `CancelWonOnce`: `OneCanceller`. `NoChildEscapes`: `CancelReachesChild`. `JobsKeepPromise`: `KeepsPromise`, that is, `Jobs` implements `JobPromise` |
| `DispatchProofs` | `Types`: `TypeOK`. `Slots`: `SlotsConserved`. `Unpaid`: `UnpaidKeepsSlot`. `Remembering`: `NothingForgotten`. `CleanExit`: `ExitOwesNothing`. `Served`: `NoIdleQueue`. `Retired`: `ReconciledFirst` |
| `LanesProofs` | `Types`: `TypeOK`. `Wanted`: `OnlyWanted`. `InOrder`: `AdvertisedInOrder`. `Fits`: `AdoptionFits`. `GivenUp`: `OnlyGivenUp`. `LanesKeepPromise`: `KeepsNamePromise`, that is, `Lanes` implements `NamePromise` |
| `MailboxProofs` | `Typing`: `TypeOK`. `Once`: `ConsumedOnce`. `HoldersOnly`: `OnlyHoldersConsume`. `Drained`: `DrainedMeansEmpty`. `Swept`: `SweepMissesNothing` |
| `WakesProofs` | `Types`: `TypeOK`. `OneOut`: `OneNoticeOut`. `AnnouncedOnce`: `NoSecondNotice`. `NoCopies`: `NoSecondCopy`. `TrueReports`: `ReportHonest` |
| `ThreadsProofs` | `ListsMatchRows`: `TypeOK`. `BindingsOrdered`: `OrderKept`. `AdviceIsOwn`: `AdviceHolds`. `RestorationTakesOwn`: `OnlyOwnNamesRestored`. `RestorationKeepsOrder`: `RestoredInOrder` |
| `SyncAskProofs` | `Honest`: `AnswerHonest`. `NoEscape`: `NoneEscapesCancel` |
| `DataLemmas` | no theorem about the system: least and greatest numbers, counting the first k of a set, lists with an element put in or taken out, induction over the naturals, the iteration of a function |

They rest on the assumptions the modules name for their constants (`NoReader`
is not a reader, a page has room for one, and the like), which TLC evaluates in
every run.

Few of these properties are inductive alone. In each module the
argument goes through one conjunction, `Inductive`, whose parts say what the
code relies on without writing it down. Each action, or kind of action, is
shown to keep each part that it can disturb; the theorems follow by projection,
or, for a property of steps, from the invariant in the state before. TLC looked
for counterexamples to the parts on small instances before they were proved.

**Jobs.** A thread serves only a row its live server owns; a row without a
thread has nothing half done; whatever a probe proved dead stays dead, which is
why a lost row's owner never returns to finish it; a canceller about to signal
won the row, so a second one cannot; and each child of a cancelled job is in
somebody's hands. The refinement maps every step of `Jobs` to a step of
`JobPromise` or to a stutter.

**Dispatch.** `StandsOK` says what each thread has in hand where it stands, and
`HandOK` what that still means for the job's future, however other threads have
moved it since. `Callbacks`: one thread at most has a job's callback to run, and
none once its slot was set aside, so a slot is not freed twice. `DebtsOK`: a job
is owed one write at a time, one that will give it a result. `Counted` makes the
slots a count of the jobs that hold one. `PoolOK` makes the queue the pending
futures, each once, and counts no loop the pool does not hold. `Ways`: the exit
has seen the calls gone before it looks for workers, and those before debts.

**Lanes.** `MutexOK` says what the holder of the claim mutex has asked and got
so far. `WantsOK` and `RowsOK`: claims, waiting claims, the name being claimed
and rows are all of names that are wanted. `Ranks`: the rows of a server not in
the middle of a claim or release are in its order. `Holding` and `Life`: a name
that was taken has one live holder, a pid has one running process, and what is
about to be pruned is dead for good. The refinement uses these to show that the
rows a step removes are its own, or of those that gave them up or are gone.

**Mailbox.** The count of replies that told of a message is 1 if it was
consumed, else 0. A call looks back on mail that is there (`Behind`); what a
sweep has shown has no holes among what is still unread, and a call that pages
goes on from there (`Pages`), whatever others consume meanwhile.

**The wakes.** Each of the three has an invariant over its own variables and
the mail. Of the announcer: the notice that is out is the last issued and one
that may still be taken back has reached nobody (`Gate`); no notice that may be
sent again was sent for sure (`Copies`); what is reported can be gone back to
(`Facts`); what was announced is remembered until it was read or its name left,
and what a sweep finds is new or has parted (`Announced`). Of
the pusher: a push in hand is the last, and a record taken back returns each
message to what it was (`Pushed`, `Scheduled`, `Snapshots`). Of the watcher: no
notice is due while one may be fresh, or a turn is uncertain.

**Threads.** A binding is of its writer's thread, which has not given the name
up since, and a live server lists just the bound names it wrote (`Bound`); no
two live servers list one name (`Alone`); a surveyed name was the thread's own
(`Surveyed`), which with the second look in the transaction is enough; only a
hint that waits may be at odds with a list, or one that is excused (`Noting`,
`Advised`); rowids differ, so what is kept is within the caps (`Capped`). The order
comes from three lemmas: `AllPlaced`, that putting names in one by one keeps the
restored names first and in the order of their bindings; `NumberedKeeps`, that
renumbering keeps all numbers of a thread apart and follows the list; and
`AcceptedEffect`, that the names accepted fit the room left.

**SyncAsk.** What ends a run, what has ended with it, and what it then answers
(`Ending`, `Ended`, `Told`). `Escape`: the event is set before the list of
children is read, and a child is listed before the event is looked at, so a
child past that look is on the list, or a named failure put it out of reach.

The library's induction theorems cannot be used with the provers at hand, so
`DataLemmas` derives what is needed from the fact that `<` is well founded on
the naturals: an induction over a *set* of naturals (`NatInduct`), and that a
function can be iterated (`Iteration`), from which `AllPlaced` gets what
`WithRestored`, a recursive function, computes. Modules with recursion write it
as a function for that reason.

Only model-checked: the liveness properties, which take fairness and ENABLED
and are out of this prover's reach (`AcceptedIsTold`, `AcceptedIsSettled`,
`WaitIsServed`, `OwnLaneRegained`, `BacklogDrains`, `MailIsTold`,
`NamesComeBack`, `CallEnds`); and that the code violates
`CleanCancelMeansDead`, which is a counterexample.

## What is not modelled, and what comes next

Next, in this order:

1. Abstract specifications of what the mailbox, the wakes and the thread
   bindings promise, in the manner of `JobPromise` and `NamePromise`, and that
   `Mailbox`, `Announcer` and `Threads` implement them.
2. `Delivery` and `QuotaRoute`, pure decisions, as operators checked against
   reference definitions, with lemmas about what they may answer.

Left out for good: building requests and parsing output, GitHub context,
reports and the command line. They keep no state between calls. The Codex app
server and the steering protocol are other programs; the wakes have what they
may answer.

Left out of the modules that are there. Of the mailbox: history, recipients and
migrations. Of `Threads`: waiting claims and the derived lane during a
restoration, the ranks of rows, the refusal to continue a conversation
(`_continuity_refusal`), a list that fails to be
published after the commit. Of `SyncAsk`: jobs owed, the progress
notifications, how the quota routes. Of the wakes: how an inbox or a thread is
shown to be this session's.

Some things the models show that a reader may not expect. A claim takes the
claimed name with every lane held, the derived one included, so a session whose
derived lane a sibling holds is refused every other name too, and its waiting
claim waits for both (`ClaimOrder`; `docs/architecture.md:227` says so of
contested old names). And between a claim's transaction and its
announcement a heartbeat may put the old order back; if the announcement then
fails, the registry advertises the older name until the next one succeeds,
which is why `AdvertisedInOrder` asks for `~failed[s]`.
A poll is pinned while the oldest batch of its mail is at lanes it remembers and
is not granted: such mail is shown and not consumed, so `BacklogDrains` asks
that every remembered lane be granted. A binding whose writer could not be
probed is passed over; taken back later, it precedes names restored before it.
A reply of an agent reads ok, without the flag `stdin_delivery`, if the thread
feeding its input fails between the two looks at it (`adapters.py:1569` and
1552), which takes a descendant of the child holding that pipe: `OkIsWhole`
excepts it. A run without a watch that times out ignores what `_reap` says
(`adapters.py:1465`), so a child that survived its kill is not reported there
as it is for a watched or a refused one; `SurvivorReported` is of those.
An error in a thread that reads a child's output is swallowed
(`adapters.py:1720-1721`), and nothing reports it: a run may answer ok, and a
stopped one call its capture complete, without what that reader left unread.
`OkIsWhole` and `Drained` except a failed reader, and say that only such a one
costs output.
A conversation that holds more names than the table keeps hints for is no longer
advised of the oldest, which it still holds (`MAX_CLAIMED_LANES` is 32,
`PER_CONVERSATION` 16); `AdviceHolds` excepts them until their next grant. And a
name released and claimed again has its unread mail announced a second time.

Known limits of the models. Time is abstract: a rest, a retry's delay and a
deadline are nondeterministic moments. Contents of prompts, results and
messages are not kept; a result is its `ok` flag. `Dispatch` takes one server
and lets the others only cancel; its crash is `Jobs`' `Die`. A row whose insert
committed and raised is served by no one until its server dies; both models
allow it and no property denies it. Debts of cancelled queued jobs and of jobs
the executor refused are outside the admission bound, as
`docs/architecture.md` says; `UnpaidKeepsSlot` is about jobs that ran.
