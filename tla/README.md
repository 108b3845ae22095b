# Verification of the Raft node and the copy-on-write B-tree

This directory holds the TLA+ modules, TLC configurations and TLAPS proofs for the two programs of the
repository: `raft-protocol`, a Raft node with a static cluster and in-memory state, and
`copy-on-write-btree`, a page store with lock-free readers. They share no code and are modelled apart.
`PROJECT.json` lists the components, runs, mutants, hazards and theorems, and maps every definition that
models code to its lines.

## 1. Inventory

### Raft (`src/raft-protocol/src/raft_node`)

| Component | State | Operations | Correct when |
|---|---|---|---|
| Protocol core (`core/raft.py`, `state.py`, `models.py`) | `RaftState` of a node: term, vote, log, commit and applied length, role, leader, votes received, `sent_length` and `acked_length` per member | `start_election`, the four message handlers, `append_command`, `make_log_request`, `validate` | one leader per term; logs match; committed entries are never lost; commands are applied alike everywhere; no `InvariantViolation` |
| Runtime (`runtime/node.py`) | the core behind one asyncio condition; timer generation, one event and one worker per peer, vote tasks, waiters | election loop and round, heartbeat, replication worker, the two inbound RPCs, `submit_command`, `stop` | every handler is one critical section; a stale timer does nothing, and no node is left without a timer; one failed call costs no leader its term; a client is told success only for its own applied entry |
| Transport (`transport/http.py`) | an HTTP client | two RPCs that return a response or None | a lost or late answer is no more than that |
| HTTP API (`api/routes.py`, `schemas.py`, `app.py`) | none | `POST /`, `GET /`, two routes for peers | clients see one list of messages that only grows, and a 201 is final |
| Settings (`config/settings.py`) | intervals and members, read once | validation | the intervals leave a leader the time to be heard |
| Entry point, scripts | none | server process, containers | - |

Interaction: the runtime calls the core inside `async with self._condition`, and no such section awaits.
So a handler of the core and the `_apply_committed_entries` after it are one atomic step. Requests leave
a node outside the section; the answer comes back into another one, when the node may have another term
or role. A request that timed out at its sender may still be executed by its peer.

Hard here: competing candidates with late votes; requests and answers of earlier terms; truncation and
the commit rule when leaders alternate; repeated, delayed and overtaking requests; the timer racing a
heartbeat; a lost answer that blocks the only worker of a follower while heartbeats pass; clients that
wait while leadership moves. There is no crash recovery: a restarted process is
empty, and the repository's README excludes restarts of members.

### B-tree (`src/copy-on-write-btree/src`)

| Component | State | Operations | Correct when |
|---|---|---|---|
| `BTree` (`btree.py`) | the shared `HeaderNode` (root, free-list head), the write lock | `__init__`, `get` (no lock), `put` (lock) | a get sees one version; a put is atomic for readers and in the file; the tree is a search tree |
| `TransactionTracker` (`freelist.py`) | current version, version pinned per thread, pages retired per version | `begin_read`, `end_read`, `commit_write`, `get_reclaimable_pages` | a page is freed only when no reader can reach it, and then it is |
| `FreeListManager` (`freelist.py`) | linked pages of free ids, updated in place | `add_free_pages`, `allocate` | no page is handed out twice, in use, or lost |
| `MmapPager` (`pager.py`) | the mapped file, of which the disk has what was synced and any of the rest | read, write, allocate, publish root or head, sync | a reopened file holds the last published tree, also after a power failure |
| Page layouts (`node.py`, `constants.py`) | - | serialize, deserialize | a stored node fits its page |

Interaction: one `put` at a time copies the path, writes the new pages, sets `header.root_page_id`,
publishes it in page 0, retires the old pages and gives back what no reader pins. A `get` pins a version,
reads the root, and walks pages that the `put` beside it may be retiring.

Hard here: the gap between pinning and reading the root; the comparison that retires a version; the empty
head page of the free list, which is itself handed out; a kill between any two writes; a power failure
that keeps any subset of the writes since the last sync; exceptions in the middle of a split; where a node is cut when entries differ much in size.

## 2. Modules

| Module | What it is |
|---|---|
| `RaftCore` | the methods of `RaftCore` as operators from a node's state (and a message) to the next state and the response |
| `Raft` | a cluster of cores: one action per critical section of `RaftNode`, the network as the set of messages sent |
| `RaftRuntime` | `Raft` with the tasks of `RaftNode`: timers, vote tasks, a worker per peer, waiting clients, `stop`; its actions include those of `Raft` |
| `MessageList` | the abstract list of messages that the HTTP API promises its clients |
| `HttpApi` | the routes for clients on top of `RaftRuntime`; implements `MessageList` |
| `ElectionTimer` | the clocks: the election loop of a node, the heartbeat loop and the worker of its leader |
| `MCRaft`, `MCRaftDiverged`, `MCRaftRuntime` | instances: symmetry, the views, start states with diverged logs and with two leaders |
| `RaftProofs` | lemmas on every handler; types, elections, votes, terms and leader hints of the cluster; what a step does to a log; log matching; commitment |
| `RaftRuntimeProofs` | the runtime implements the cluster; wake-ups and successes of its clients, workers at rest; the API keeps the promise of `MessageList` |
| `ElectionTimerProofs` | the theorems of the clocks |
| `NodeSplit` | sizes of nodes and the cut of `_split_leaf` and `_split_internal` |
| `NodeGrowth` | one node under a sequence of puts |
| `NodeGrowthProofs` | its theorems: where a node is cut, for every page size |
| `KVStore` | the abstract store: what `get`, `put` and a crash promise |
| `PageVersions` | the abstract life of a page: who may write to it when, with sets of pages in place of trees and lists |
| `PageVersionsProofs` | its theorems: no page is written while somebody needs it |
| `CowBTree` | file, header, tracker, the thread in `put` and the threads in `get`, an access to shared state per step; implements `KVStore` and `PageVersions` |
| `CowBTreeProofs` | lemmas on trees and lists of pages, copies, splits and allocation; the pages stay apart: `CowBTree` implements `PageVersions` |
| `CowStoreProofs` | what the tree holds: it is a search tree, and `CowBTree` implements `KVStore` |
| `PowerLoss` | `CowBTree` on a disk that loses what was not synced; implements `KVStore` too |
| `PowerLossProofs` | what the disk holds when the power fails, whichever pages were written back |
| `MCCowBTree`, `MCCowFilled`, `MCPowerLoss` | instances: sizes, symmetry, files left by an earlier process |

### How Raft corresponds to the code

`node[n]` is the `RaftState` of n (`applied` is `applied_commands`; its length is `applied_length`).
Python's index i is position i + 1, so a length k is also the position of the last entry of that prefix.
`RaftCore` has an operator per method and named parts for its conditions (`GrantsVote`, `PrefixMatches`,
`Committable`, ...). `ReconcileLog` describes the result of the loop in `_reconcile_log`: the log itself
when it holds the entries already, otherwise the prefix and the entries; the loop's two exceptions are
`ReconcileRaises`. `AdvanceCommitLength` takes the longest committable length, which is where the
descending scan returns.

`Raft` has `StartElectionRound`, `ReceiveVoteRequest`, `VoteResponseArrives`, `SubmitCommand`,
`SendLogRequest`, `ReceiveLogRequest` and `LogResponseArrives`. `msgs` only grows, so a message may be
handled late, again, out of order or never; this stands for lost and late answers, retries, heartbeats
(a request sent again) and partitions. A timer may fire at any time, and a worker may send at any time:
fewer constraints than the code has, so safety of the model is safety of the code. A handler that would
raise `InvariantViolation` is disabled, and `NoInvariantViolation` says that this never happens.
`Outsider` are ids that are not members; their requests are in the network from the start, and the code
answers them without acting on them.

### How RaftRuntime corresponds to the code

`timer[n]` is the wait in `_election_loop`: running, expired with a valid generation, or expired with a
stale one; a reset makes it run again, or finds it timed out already and makes it stale. `signal[n][p]` is
the event of `_replication_events`, set by `_signal_replication` and cleared when the worker wakes.
`worker[n][p]` is the task of one peer: at rest (after a failed call or not), about to look at the role,
or with one call under way, which holds its request and, once the peer has executed it, the response.
`ballots` are the vote tasks. A caller may give up at any time (a timeout, an error, a cancellation): the
answer is lost, and a request that was not executed yet is lost or waits in `late`. `client[c]` is the
call of `submit_command` for c: the node, the index and the entry it waits for, and whether it has been
notified since it last looked, or, when `submit_command` raises at once (`SubmitRejected`), only why.
`Outcome` is `_wait_for_commit`: applied, a 409, a stopped node, or sleep.
Every critical section that ends with `notify_all` sets `woken` of the waiters of its node.

### How HttpApi corresponds to the code

The routes keep no state, so `HttpApi` has no actions: it reads that of `RaftRuntime`. `PostResponse` is
what `post_command` answers for each outcome of `submit_command` (201 with the index, 409, 504, 503), and
`NodeStatusBody` is the page that `GET /` builds from a snapshot, with a `committed` flag per row. The
routes for peers hand a body to the node and are the actions of `RaftRuntime` that execute a request.

In the mapping of `ImplementsMessageList`, `list` is the longest list of messages that some node shows,
`shown` are the rows each node flags as committed, and `post` is what a client may conclude from its
answer. A client cannot tell a 409 or 503 that was given before its entry was appended from one given
afterwards, so both, and a 504, are "uncertain": the message may get into the list later.

### How ElectionTimer corresponds to the code

Here time counts. `wait` is one round of `_election_loop`: the ticks left of the timeout it has drawn,
whether the event was set, whether the generation it read is out of date, and whether `wait_for` ended
with the TimeoutError. `StartElection` and `DropRound` are the two outcomes of `_start_election_round`.
`beat` is the sleep of `_heartbeat_loop`; `signal` and `call` are the event and the worker of the leader
for this node; `lag` measures one way of a call and `age` all of it, which ends after `RequestTimeout`.
Everything other nodes do to the role and to the timer (`FollowsAnother`, `StepsUp`, `Wins`,
`LateRequest`, `StepsDown`) may happen at any time. `quiet`, `asleep` and `failed` count for the
properties and guard nothing but `LateRequest`, which needs a call that failed before it.

A tick passes only when no task can run: the event loop is never late by a whole tick. That is an
assumption on the machine. httpx applies its timeout to each phase of a request; on a
connection that is kept open one phase of a call has to wait at most, so that the timeout bounds the call.

### How the B-tree corresponds to the code

`file` maps page ids to nodes, `header` is the `HeaderNode` in memory, `version`, `active` and `pending`
are the tracker. `writer` is the thread that holds the write lock: its `pc`, the copied node, the pages
allocated for it, the internal nodes above it (`above`, the frames of `_put_recursive`) and the retired
ids (`orphans`). `reader[r]` is a thread in `get`. Each step is one access to what other threads or a
later process can see: `Descend` (read a page), `AllocateNode`, `WriteNode`, `WriteLeft`, `WriteRight`,
`WriteRoot`, `CommitRoot` (memory), `PublishRoot` (page 0), `CommitWrite` and `ReclaimAtOnce` (tracker),
`TakeFreeList` to `PublishHead` (free list), `SyncHead` (the sync behind a published head, from which put
goes on where it was, `GoOn`), and `BeginRead`, `ReadRoot`, `Walk`, `EndRead`. Every
exception that `put` can leave with, an IndexError for a node of one entry or a ValueError for a page
that is too large, ends the put with its lock released and its pages lost (`PutRaises`). `Crash` is a
kill at any step: the mapped file keeps what was written.

The mapping of `ImplementsKVStore`: `store` is the tree at `header.root` as a map, `durable` the tree at
the root of page 0. A put takes effect at `CommitRoot` and is persisted at `PublishRoot`; a get takes
effect at `ReadRoot`, and its result is what a walk from its page will find. So a step that changed a page
under a walking get, or lost a key, or published a tree that is not the one readers see, would be no step
of `KVStore`.

The mapping of `ImplementsPageVersions`: `tree`, `saved` and `reading` are the pages reached from
`header.root`, from the root in page 0, and from the page a get is at; `free` the list with what put has added to it in
memory; `hand` the copies put has made and the ids it has still to add; `orphans` and `retired` the pages that the
last commit has replaced and those in `pending`. So a step of the code that wrote to a page of another set, retired what the new tree
still has, or gave back a page too early would be no step of `PageVersions`.

Every page is in exactly one place: the current tree, a version that is pinned or waits to be freed, the
free list, the hands of the put under way (`HandPages`), or what its commit has just replaced. What is in none is `Lost`. The code does lose pages,
when a put raises and when the process is killed; `LostByFailureOnly` says that nothing else does,
that an exception loses only what that put had in hand, and that a kill loses only what memory alone knew
(`OnlyInMemory`): the retired versions, what put had in hand, a root that is still to be published, and while
put adds to the list, what the list in the file does not have yet. At every other moment the file has the whole
tree and the whole list of memory.

`FileIsRecoverable` is what the next process needs of the file alone: page 0 is a header from the creation of the tree on,
every page of the tree that it names is a node, every page of the list that it names is a page of a list, and the list names no page
twice and none of the tree, of its own or of the header. That the tree also has the right contents is part of
`ImplementsKVStore`, whose `durable` is looked up in the file.

### How PowerLoss corresponds to the code

`disk` is what a power failure would leave. Every step of `CowBTree` is taken over: those that end a
`MmapPager.sync` copy the whole map to the disk (`SyncStep`), the others change only the map (`MapStep`).
The kernel writes any page back at any time (`WriteBack`). Of a `get` only the pin matters here (`Pin`,
`EndRead`), as it reads the map. Page 0 is written back whole (its fields lie in one sector), and so is every
other page; the size of the file is taken to be durable at once, so that a page that was not written back
reads as zeros (`Blank`), as in a file that was extended by `ftruncate`.

`DurableOnDisk` maps `durable` to what the disk holds and `store` to what memory holds. A put takes effect in
memory when `commit_root` has set the root and synced its pages, and is persisted when page 0 with that root gets to the disk, by write-back
or at the latest by the sync behind `publish_root` (`DurablePut`). `Holds` says what a tree holds; a tree of which
a page cannot be read holds nothing. `DiskIsRecoverable` is the counterpart of `FileIsRecoverable` for the disk:
a header (or none yet), a tree with all its pages, a list apart from it; that the list may be cut off at a page that was not written back
is the finding of `power_reopen`. A tree with missing pages happens in a new file only (`RootIsMissing`): `_init_empty_tree` syncs nothing, and
if its header is written back and its root is not when the power fails, the file can be opened again, but every put and get on
it raises.

## 3. Runs

| Run | Checks | Instance |
|---|---|---|
| `raft_elections` | `ElectionSafety`, `LeaderHintIsElected`, `TermsAreElected`, `VotesAndTermsKept` | 3 nodes and a stranger whose requests are there from the start, terms to 3, 4 elections, 2 requests, empty logs |
| `raft_diverged` | `TypeOK`, `LogMatching`, `AppliedIsCommitted`, `AckedIsHeld`, `LeaderCompleteness`, `StateMachineSafety`, `NoInvariantViolation`, `CommittedNeverLost` | 3 nodes with the logs of Figure 8 of the Raft paper in term 3, one more election, 3 requests |
| `runtime_clients` | `SuccessIsFinal`, `RestsInSync`, `FollowersCatchUp`, `ClientsReturn`, `ImplementsMessageList` | 3 nodes with two leaders and diverged logs, 3 waiting clients, 2 calls under way, no further election |
| `runtime_timers` | `NoLostWakeup`, `RestsInSync` | 2 nodes from the start, 3 elections, one client with a deadline, one stop, 2 calls under way and one late |
| `election_timer` | `TypeOK`, `NeverOverslept`, `CampaignsAfterQuiet`, `SurvivesOneFailure` | the default intervals in ticks of 50 ms: heartbeat 2, election 9 to 18, request timeout 5, messages up to 1 |
| `node_split` | `TypeOK`, `SmallEntriesSplit` | pages of 64 bytes, entries of six sizes around half and the whole of a page |
| `node_overflow` | `OverflowIsSplit` is violated | pages of 64 bytes, entries of 10, 43 and 44 |
| `cow_readers` | `ImplementsKVStore`, `ImplementsPageVersions` | 2 puts, one reader, 4 keys, 2 values, a file with a super-root |
| `cow_reclaim` | `NoPageReusedEarly`, `ImplementsPageVersions`, `LostByFailureOnly` | 6 puts, two readers, one key, a new file |
| `cow_crash` | `TypeOK`, `FileIsRecoverable`, `SearchTree`, `ImplementsKVStore`, `ImplementsPageVersions`, `LostByFailureOnly` | 3 puts, one kill, 4 keys, small, large and impossible values, a file with a super-root |
| `power_durable` | `DiskIsRecoverable`, `DurableOnDisk` | 2 puts, one reader, one power failure, 3 keys, 2 values, a new file or one with a full root and a free page |
| `power_reopen` | `HeaderIsKept` is violated | the same files, no reader |

Why these bounds are enough to be interesting:

- Three nodes are the smallest cluster in which two quorums meet in one node and one node may be left
  out. Four elections allow re-election of a deposed leader and votes of two terms in flight. Two
  entries are needed for a conflict below the end of the log, and three different requests for one that
  arrives after a later one. Every request can be delivered any number of times.
- The wrong commit that Figure 8 of the paper shows takes three elections and two commands before it
  starts, more than an exhaustive run from the empty state can hold. `MCRaftDiverged` starts behind
  them, in a state that the actions reach (its comment names the steps).
- A page of 40 bytes holds two small entries of a leaf, one key of an internal node or two ids of the
  free list, so that three keys split a leaf, five split an internal node, and each put fills or empties
  a page of the free list. Six puts with two readers let a reader pin each version while the list grows a
  chain and shrinks again.
- The two files of `MCPowerLoss` make the first put split the root, free pages, and grow the free list:
  each of the three things that a power failure can tear apart (tree, header, list).
- With the default intervals the worst quiet time is just below the least election timeout: with messages
  of two ticks, or a request timeout of six, or with "three calls" in place of two, `SurvivesOneFailure`
  is violated. The theorem holds for all intervals.
- `MCRaftRuntime` starts behind four elections, in a state that the actions reach: n1 leads term 1 and
  does not know that it is deposed; n2 leads term 4 with an entry of term 2, whose client is still to look
  at its node, and must step back at both peers and overwrite the log of n1. Two nodes are enough for the
  tasks of `runtime_timers`, where every commit and election needs both. Rejected, stopped and timed-out clients
  occur in `runtime_timers` only: the refinement of `runtime_clients` is about success and 409.
- `MaxTerm`, `MaxElections`, `MaxLogLength`, `MaxLogRequests`, `MaxStops`, `MaxCalls`, `MaxLate`,
  `MaxPuts` and `MaxCrashes`, and the sets `Impatient`, `Beating` and `Hasty` (whose timers, heartbeats
  and deadlines may run out) are the only bounds, each in a guard. With them
  exhausted the instances stop: that is why the runs say `CHECK_DEADLOCK FALSE`. Only `election_timer` has
  no bound and checks for deadlock: some task can always run or time passes. The theorems hold for all
  values of the bounds.

Fairness (`runtime_clients` only) is that of an event loop and of a network that is not cut for ever: the
heartbeat comes back, a worker that can wake or call does, a waiter that was notified looks (weak
fairness); of the calls that a worker tries again and again some are executed and some answered (strong
fairness, for any one call may be lost). Nothing is assumed of elections, deadlines, stops or late calls.
`FollowersCatchUp` is stated for a leader that stays, as the timers of the code do not guarantee one.

Symmetry is used for members and commands, and for readers and plain values, never together with a
liveness property. The view `LiveView` of the Raft runs drops the responses that their addressee will
ignore in this state and in every later one: those of an earlier term, votes that were not given, and
responses of the current term to a node that is not the candidate or leader that asked, which it cannot
become again within the term. No property reads responses except `NoInvariantViolation`, for which a
dropped response is one the leader does not track. States with the same view thus have the same future. `TaskView` of the runtime runs drops all messages sent: the tasks
hold what is under way, and of the messages the actions read only the number of elections.

Every property of a passing run has a mutant: a variant of one definition, kept beside it under the name
of the definition and the slip (`GrantsVote_Again`, `Retired_Inclusive`, ...), with which TLC finds the
property violated.

### What power_reopen shows

The repository's README says that fsync lets existing files be safely reopened and recovered. `put`
publishes a new head of the free list in page 0 before its page is synced. If the kernel has written page
0 back and not that page when the power fails, the list on the disk starts at a page of zeros, which
`FreeListNode.deserialize` reads as an empty node with id 0. `allocate` then returns page 0, and the first
put of the next process writes a leaf over the header. `power_durable` checks the rest under the one
condition that this has not happened, `ListIsWhole` (`WholeNext`: the power fails only while no page of
the list is missing on the disk): no put that has returned is lost, none is there by half, and the list
hands out no page of the tree.

### What node_overflow shows

The repository's README says that a page that exceeds its size during an insert is split.
`_split_leaf` cuts a node behind the first entry that reaches half of its size, whether or not the rest
fits on a page, and `_split_internal` does the same. With entries of, say, 43, 10 and 44 bytes on pages of
64 the cut is behind 43, and the right half is too large although the cut behind 10 would fit; `write_page`
raises a `ValueError` and the put fails. The same happens with 4096-byte pages: put a leaf entry of 4070
bytes, one of 5, and one of 4071, in the order of their keys. `SmallEntriesSplit` is the positive side:
as long as no entry takes more than half of the space of a page, the cut always works.

## 4. Proofs

`RaftProofs` proves, for every finite cluster, every set of commands and outsiders and all bounds:

- `TypeInvariance` and `TypeCorrect`: `TypeOK` of every reachable state. `TypeOK` is not inductive: that
  `make_log_request` slices within the log and `ack` counts index a full map needs that a leader has a
  length for every member and that `applied` does not pass the log. `TypeInv` adds `WellFormed` for that.
- `ElectionSafetyHolds`: at most one node acts as the leader of a term, counting deposed leaders whose
  requests are still under way. `ElectionInv` has four parts: a granted vote in the network is remembered
  by its voter, or the voter is in a later term (`VotesKept`); a voter grants one candidate per term
  (`VotesUnique`); the votes a candidate counts were granted to it (`CandidateVotes`); and who leads, or has sent requests,
  was voted for by a quorum (`LeadersWon`). Two quorums meet (`QuorumsIntersect`, from the cardinality
  of finite sets), and the voter they share granted one candidate only.
- `VotesAndTermsAreKept`: the action property, from the type invariant.
- `EveryTermIsElected` and `HintsAreElected`. `TermInv` says that every term of a node, a response or a
  leader's request is one in which a member stood for election, so that requests of outsiders change no term;
  `HintInv` that a node which names a leader is that leader or has got a request that the leader sent in
  this term.

Its section on logs sums up in `NodeStep` what any step of the cluster does to one node: what becomes of its log
(`LogMoves`: kept, appended to by a leader, or reconciled with a leader's request), of its commit length, its role
and its acknowledgements, and what the messages it sends say of it. The proofs above it need nothing else of the
handlers. `CommittedStays` and `AppliedStays` follow from it. It also proves `LogsMatch`. `LogMatching` is not inductive: that two logs match now says nothing
of a request that is still under way. `HistoryInv` says that there is a history `L` with, for each term that had a
leader, the log its leader had when it last led, such that every log agrees up to each of its entries with the
history of the entry's term (`Follows`), and that every request quotes the history of its own term. `L` is
quantified and no variable of the model: a step of a leader extends it, every other step keeps it.

The section on commitment proves `LeadersAreComplete`, `AppliedAgree`, `AcksAreHeld` and `NothingRaises`. `Safety(L)`
adds four facts to the history. Who acknowledged a leader's log has it while its term stays the same, and an
entry of that leader's own for longer, until some later leader lacked it (`AckedHeld`). Who acknowledged an entry and then votes, votes for
a candidate that is not behind it (`VotersHeld`). What one of a leader's quorum of voters had acknowledged
before, the leader has (`LeadersHold`). What is committed lies below an entry of a leader's own term that a quorum acknowledged
(`Commits`). `VotersHeld` and `LeadersHold` too allow for an earlier leader that lacked the entry, which makes them inductive; `ChosenHeld` then closes the argument: the first leader that lacks an entry acknowledged by a quorum
would share a voter with it. `NothingRaises` needs all of it: a request cuts a committed entry only if its
leader lacks it.

`RaftRuntimeProofs` proves `RuntimeImplementsRaft`: every behaviour of `RaftRuntime` is one of `Raft`. The
invariant `CallsAreSent` says that the requests and responses which workers, ballots and late calls hold
were sent, so that each step of a task is a step that `Raft` allows with that message. So every theorem of the
cluster holds with its tasks; `RuntimeElectsOne` is one. `NoWakeupIsLost` proves
`NoLostWakeup`: what `Outcome` makes of a waiter depends on its own node only, and every section that
changes a node notifies the waiters there. `SuccessesAreFinal` proves `SuccessIsFinal`: `FinalInv` says that the
entry of a success is committed at the client's node, where no step changes it, and the committed prefixes of
other nodes and the logs of leaders agree with it by the theorems above. The property names the leaders that the
client's node has not passed: a deposed leader that still runs may lack the entry. `WorkersRestInSync` proves
`RestsInSync`. `SyncInv` looks at the call under way: while no signal is pending, its request is of the leader's
term and carries the rest of the log from what the leader still counts as sent (`Covers`), and its answer
acknowledges just that, or comes from a later term, or is to a prefix that was not empty (`Answers`). So an answer
that does not make the worker call again has acknowledged the whole log; every append, election and heartbeat
that would spoil this signals the worker.

Its last part proves the refinement `ApiKeepsItsPromise`. Two things are missing from the theorems above. A command
must get into the list once only: `OnceInv` says that of the history of the leaders' logs, an entry that a leader of its term appended,
and hence of every log, as `submit_command` appends for a new call only. And `list`, the longest list that some
node has applied, must only grow when the nodes do: what two nodes have applied agrees by `AppliedAgree`, so that every
view is a beginning of the longest one (`ListSound`). Then each step of the runtime is `Accept`, `AnswerCreated`,
`AnswerUncertain` or `Learn` of `MessageList`, or a stutter. The proof found a case that three nodes do not show: in a cluster of one,
`submit_command` appends, commits and applies in the same section, so that `Accept` may put the message into the
list and answer at once.

`PageVersionsProofs` proves, for any number of gets, puts and pages, that a put may write to no page that the current
tree, the tree in the file, a get or a retired version needs (`NoneIsShared`), and that these pages stay as
they are in every step (`InUseStays`). `PageInv` says that every page has one place, that what page 0 names is in
the current tree or was taken out of it by the commit under way (so it is not retired before the new root is published), and that what a get
may read is current or was retired under a version that the get pins (`GetsPin`); the versions only grow, so
`Expired` spares it.
`CowBTreeProofs` proves that `CowBTree` implements `PageVersions` (`PutsMovePages`), for every size of pages, keys and
values and any number of gets and puts, so that these theorems hold of the linked pages of the file. `TreePages` and
`ListPages` follow links for as many rounds as the file has pages; its first part shows that this reaches the least
set of pages that is closed under the links (`ReachedIsReach`), and everything else is about such sets: a page is
`IsRooted` if each page below it has one parent, a tree is copied by putting a node over disjoint trees (`TreeAbove`,
`TreeBelow`), and what is not written stays (`TreeLocal`, `ListLocal`). `CowInv` is the inductive invariant, in a
conjunct for each part of the state. `HeaderInv` says what memory and page 0 know of each other at each step of the
commit; `TreeInv` that the trees in memory, in the file and below each get are trees; `ListInv` that the list names
each page once, and that the file has it all or is behind it by the page that is being added to; `WriterInv` that what
put has in its frames fits to where it is: on the way down the path from the root (`DownOK`), on the way up a node over
copies and over what the old tree has beside the path (`NodeOK`, `CopyOK`), then a tree that has what the old one has
but for the path (`DoneOK`); `TrackerInv` that a page is retired once; `ReaderInv` that a get has a pin. It is proved
together with `PageInv` of `PageVersions`, as each needs the other: that a write of put disturbs no tree follows from
`PageInv`, and that it is a step of `PageVersions` from `CowInv`. There is a lemma per action. `TypeCorrect`, `PagesAreKept`,
`FileRecoverable` and `PagesAreLostByFailure` follow: that the file has all pages of its tree and its list is `TreeInv` and `ListInv`,
and what a kill may lose is what `HeaderInv` allows memory and page 0 to differ in (`KillLoses`). `ReaderInv` says more than the properties: a get never meets a page
that is no node, so that the ValueError at the end of `_get_recursive` cannot be raised.

`CowStoreProofs` proves what the trees hold. `Lookup`, which the properties use, goes down from a page for as many
rounds as the file has pages; `LookupStep` says that this is a descent: the value in a leaf, or what the child for
the key leads to. It needs that a child has fewer pages below it than its parent (`FewerBelow`), as do all arguments that
go up a tree from its leaves (`TreeInduction`, which takes a page with the fewest pages below it among those that would be
an exception). A tree `IsSearch` if in each of its nodes the keys ascend and every key on a page below is one that
`ChildFor` leads that way for (`Routes`); and `IsLevel` if its leaves are equally deep. `SearchInv` states both of the
trees of memory and of the file, and of what put has in its frames (`SearchWork`): the node it is going to write routes to
search trees, and looking up a key in it gives the new value for put's own key and what the old tree gives for every other
(`LeafSearch`, `ParentSearch`); the two halves of a split divide the keys at the one that moves up (`SplitSearch`,
`SplitRoutes`); an exception or a kill drops all of that and leaves the trees. It is proved on top of `CowInv` and
`PageInv`, which say that no page of these trees is written meanwhile (`TreeStays`). From it come
`PutsAndGetsMakeAMap`, the refinement of `KVStore` (a put takes effect when it sets the root in memory, and
lasts when it publishes it; a get takes effect when it reads the root, and its tree stays what it was to the end of its walk), and
`SearchTreeHolds`: what `SearchTree` reads level by level, from left to right, is in ascending order, as each level has its keys
below those of the pages to the right (`LevelNext`, `FlattenSorted`).

`PowerLossProofs` proves `DiskRecovers` and `PutsSurvivePowerLoss` of `WholeSpec`: any keys, sizes, gets, puts and power
failures, beginning with a new file, and the power fails only while the list on the disk is whole (without that both
are false: the first put on a list that was cut off writes over page 0, see `power_reopen`). The difficulty is that the disk has a mixture of pages from different times, so that its
list is one that memory never held. `DiskInv` does not try to say which. It bounds the list by a set of pages that is
closed under the links which the disk, the file and the page being added to have, all at once, and on which no version of a page
names a page of the set, one that another page of the set names, or one of `Barred` (`ListsOnDisk`); `Barred` has the trees, the
retired versions and what put is to add to the list. Whichever pages are written back, the list on the disk stays within
that set, and so does any list that memory makes of it. That a list on the disk ends is a matter of its own: each page of a list
names one with a smaller id (`Downhill`), as the list grows by pages at the end of the file. `RootOK` says which tree the disk has: none yet
(`NoRoot`), that of a file in which no put has committed (`Young`), the one that page 0 of the map names (`Settled`), or
that or the one before, in the time between the sync and the publication (`Published`). When the power fails,
`DiskInv` gives the opened file `CowInv` and `PageInv` again (`RestartInv`, `FailureKeeps`); the file whose root was lost is
`DeadFile`, which only idles (`DeadKeeps`). `RecoveryInv` is the disjunction. For the refinement `PowerInv` adds
`SearchInv`, as what the disk holds has to be looked up there, and `PublishInv`: `publish_root` begins with a synced page 0, and the tree of
the disk is a search tree until the new root is synced. Then the disk holds another map than memory only while a put is
effective and not yet persisted, and each step is one of `KVStore`: `WriteBack` of page 0, or the sync, persists the put, and
a power failure takes it back as a whole.

`NodeGrowthProofs` proves `GrowthTypeCorrect` and `SmallEntriesAreSplit` for every page size and all sizes of entries.
`SmallEntriesSplit` is about the node that a put tries to store and says nothing of how large it can get; `GrownByOne`
adds that it exceeds the page by less than one of its entries, as what was there before did fit. With entries of at
most half the space, the cut then leaves at most the space to either half (`SmallEntriesFit`): a loop that stops in
front of an entry that does not fit has used more than half of the space, and one that stops at half the size of the
node leaves at most half of what it has, and half of the header. For an internal node on the smallest pages that would
be too much, but for the key that moves up with its pointer. With entries smaller than a pointer the property is
false (pages of 39 bytes, entries of 5, 1, 10, 7 and 7), which is why `Entries` keeps to the sizes that `serialize` can give. The sum of the sizes is `FoldLeft`, of which the proof knows
the definition only: `FoldExists` builds the function that it chooses, and `TotalIs` says that whatever adds up the
entries one by one comes to the same.

`ElectionTimerProofs` proves the four properties of the clocks for all intervals that the settings allow.
`TimerInv` adds two facts to the types: a wait that is not stale cannot expire before `ElectionMin` has
been quiet (`WaitInv`), and a node that does not lead has a wait that ends within `ElectionMax` of its
last reset or campaign, or an event that ends it now (`SleepInv`). `CampaignsOnlyAfterQuiet` and
`NeverOversleeps` follow. `LeaderSurvivesOneFailure` needs the length of a gap between two requests
(`GapInv`): a call in time is followed by the next within a heartbeat period, a failed one costs a request
timeout more, and the heartbeats that pass during a call are kept by the event. The settings do not
enforce its hypothesis, that a heartbeat period, a request timeout and a message delay stay below the
least election timeout; the defaults leave 50 ms for the message.

The lemmas at the beginning of `RaftProofs` are about the handlers: each handler keeps a well-formed state well formed, each keeps or raises the
term, and each keeps the vote within a term; a follower's log below its commit length survives a
reconciliation that does not raise. The assumptions are `NodeAssumption` (a finite, non-empty membership; `settings.py`
ensures it), `OutsiderAssumption`, `RoleAssumption`, `BoundAssumption`, `RuntimeBoundAssumption`, `TimingAssumption`
(what `RaftNode` and `Settings` check of the intervals), `PageSizeAssumption` (a page holds more than the header of a node
and one pointer, twice), `KeyAssumption` (keys are ordered like numbers) and `LengthAssumption`, and
`EntrySizesAssumption` (sizes are natural numbers).

Only model-checked is liveness (`FollowersCatchUp`, `ClientsReturn`), which the prover does not do, and the two
violations. Every invariant, action property and refinement that a run checks has a theorem. The theorems of `PowerLoss`
begin with a new file; the run also begins with a file that an earlier process has left. The induction theorems of the library cannot be used either, as they
take an operator as a parameter; where an induction was needed (`QuorumsIntersect`, `FiniteSetHasMax`,
`TreeInduction`) the proofs look at the least counterexample instead (`NatSetHasMin`).

## 5. Not modelled

- `/health`, the validation of bodies (422), the assembly of the application, addresses, logging, the
  server process and the scripts: they keep no state that a property could be about. The encoding of
  messages and pages is taken to be invertible, with the size of a page kept. Lengths above 65535, which do
  not fit the fields of `node.py` and make `serialize` raise `struct.error`, are left out.
- Restarts of Raft nodes: the state is in memory, and the repository's README leaves them out. `start`
  after `stop`: the API's lifespan calls each once.
- The draw of the election timeout: `ElectionTimer` allows every value, so that nothing is said of how
  soon a leader is elected.
- Torn writes of a page, a file whose new size is lost in a power failure, and `mmap` failing to grow.
- A thread that calls `get` inside `get`: its id is the key of `active_readers`, and `get` does not call
  itself through the API.

Two hazards have no property: that elections end is a matter of probability, and where a page of the free
list comes from (the end of the file, although free pages are at hand) harms nothing.

## 6. Plan

No safety property is without a theorem. What would make the model say more: a disk that tears a page or loses the size of the
file, a Raft node that comes back with an empty state (the repository does not claim to survive it), and the
probability with which elections end, for which TLA+ has no means.
