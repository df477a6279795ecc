# IndexGuard, specified in TLA+

IndexGuard keeps a RAG index from learning documents nobody approved. It has two ways into one SQLite index:

- the **analysis gateway**: a document version is prepared, an independent risk
  service (B) judges it, an operator (C) approves it, and `IndexGate` indexes it;
- the **directory change queue**: a watched directory is scanned, every change
  becomes a review that an operator accepts or rejects, or that a background
  model lets through, and every decision can be undone.

This directory models both over the index they share, with the services around
them: the risk engine and its model, the product pipeline that feeds the gateway
from a watched directory, the dashboard, and the chat that reads the index. TLC
checks the models on small instances, and TLAPS proves the central safety
properties for instances of any size. Paths below are relative to `src/`.

## 1. Inventory

| component | code | state | operations |
|---|---|---|---|
| Document index | `src/indexguard/rag/indexer.py` | rows `indexed_documents` (timestamp, `is_current`), chunks | `index_atomic`, `remove_atomic`, `get_current_version`, search, `split_text` |
| Audit store | `src/indexguard/audit.py` | immutable rows `analyses`, hash-chained events per analysis | `record_prepared_analysis`, `append_event`, `verify_chain`, `list_events` |
| Gate | `src/indexguard/rag/gate.py` | none of its own (a lock) | `apply`, `hold` |
| Operations | `src/indexguard/operations.py` | none of its own (a lock); every state is a fold over events | `ensure_request`, `submit_policy_result`, `dispatch`, `execute_command`, `get_status`, `list_pending_requests` |
| Pipeline | `src/indexguard/pipeline.py` | owns the stores above and the blob store | `prepare_streams`, `finalize` |
| Change queue | `src/indexguard/change_queue.py` | queue file (accepted, items, history), snapshot files, executor tasks, watcher thread | `poll_once`, `accept`, `reject`, `hold_for_review`, `restore_history_before`, `_analyze_later` |
| Scanner, watcher | `src/indexguard/scanner.py`, `watcher.py` | scan state file | `scan_once`, `watch_directory` |
| Product pipeline, git watcher | `src/indexguard/product_pipeline.py`, `git_watcher.py` | scan state, snapshots, last git digest | `poll_once`, `execute_operator_command` |
| Risk engine and service (B) | `src/indexguard/risk_engine.py`, `risk_api.py`, `risk_client.py`, `openai_compat.py` | none | `analyze` |
| HTTP API, MCP server | `src/indexguard/api.py`, `mcp_server.py` | two processes, one pipeline each, over the same files | routes and tools that call the operations above |
| Document diff | `src/indexguard/detectors/document_diff.py` | none | `diff_documents` |
| Extractors, blobs | `src/indexguard/extractors`, `storage.py` | content-addressed files | `extract_document`, `stage_stream` |
| Dashboard | `apps/dashboard/state.py`, `api_client.py`, `app.py` | a session's copies of API answers | authority checks, commands |
| RAG chat | `apps/dashboard/rag_chat.py`, `src/indexguard/rag_chat_api.py` | the exchanges of a session | `answer_from_protected_index`, `append_exchange` |
| Repository review | `src/indexguard/repository_review.py` | none | a question to git and the model |

**How they interact.** The API calls `AnalysisOperations` and
`DirectoryChangeQueue`; both call `SqliteIndexer`. Operations call the gate,
the gate reads and appends to the audit store and writes the index. Audit log
and index are two databases with separate commits. The scanner stores its
state file before its events are handled. The queue's executor calls the model
outside the lock and comes back with an answer. The product pipeline, the HTTP
service and the MCP server are processes of their own on one runtime directory:
each has its own operations lock, and only the two databases are shared. B is
reached over HTTP or is the model itself. The dashboard and the chat read what
the API and the index give them, and look again before they rely on it.

**What is hard.** Failures and restarts between the two databases; results
and commands that are repeated or arrive late; several analyses of one
document, or of one candidate; a version read at preparation and relied on at
approval; files that change while they are scanned and copied; verdicts for
content that has changed meanwhile; undoing decisions in an index that keeps
one row per content; two processes between each other's commits; a model that
fails in any way in the middle of a judgement; a repository that changes between
the commands of a capture. `PROJECT.json` lists each of these hazards at its line
with the properties that would notice.

**What makes each component correct.**

- *Index*: one current version per document, always the one a reader is
  promised; a compare-and-set that loses no version; removal restores the
  version that was current before.
- *Gateway*: nothing is indexed without ALLOW and APPROVE for that candidate;
  quarantine is final; a request takes one result, and work that is not
  finished stays in somebody's reach; the audit log explains the index; an approval never
  overwrites a version its reviewer did not see.
- *Change queue*: the queue shows what the scan saw; what is accepted is what
  is indexed; every indexed version can be undone; snapshots hold what their
  name says; a review compares with what is accepted now.
- *Scanner*: each change is reported once and not lost.
- *Product pipeline*: what replaces an indexed version was compared with that
  version; a dispatch that fails leaves nothing indexed.
- *Git watcher*: after a quiet capture its receiver knows the repository.
- *Document diff*: complete, and no number appears or vanishes unseen.
- *Risk engine*: static evidence is never lowered by a judge or by a failure;
  ALLOW is earned; a high risk is audited.
- *Screening*: calls the model in its window only and ends; only an assessment
  lets a change pass.
- *Dashboard*: locks only contradictory states; unfinished work stays in reach;
  answers to completed commands, and their replays, are believed.
- *Chat*: an answer rests on one version and nothing else, and is refused if that
  version went while the model was writing.

## 2. Modules

| module | models | proofs |
|---|---|---|
| `VersionOrder` | one document's versions in the order they were indexed: `Put`, `Drop`, `IsCurrent` (operators) | `VersionOrder_proofs` |
| `VersionStack` | abstract specification: what the index promises its callers | implemented: `VersionIndex_proofs` |
| `VersionIndex` | `SqliteIndexer` with timestamps, flags and concurrent writers; implements `VersionStack` | `VersionIndex_proofs` |
| `ReviewedIndex` | abstract specification: what the gateway promises | implemented: `Gateway_proofs` |
| `Gateway` | `prepare_streams`, `AnalysisOperations`, `IndexGate`, over audit log and index; implements `ReviewedIndex` | `Gateway_proofs` |
| `ChangeQueue` | `DirectoryChangeQueue` over scanner, snapshots, queue file and index | `ChangeQueue_proofs` |
| `Workbench` | the dashboard's `authority_issues`, `effective_commands`, `can_dispatch_analysis` and the client's check of command results, over `Gateway` | `Workbench_proofs` |
| `DocumentDiff` | `diff_documents` with difflib's alignment (operators) | `AiServices_proofs` |
| `RiskEngine` | `assess_static_risk`, the scores and the decision (operators) | `AiServices_proofs` |
| `ModelClient` | what the HTTP clients make of a server's replies (operators) | |
| `RiskAnalysis` | one analysis: engine, judge, risk service, answer | `AiServices_proofs` |
| `Screening` | one `_assess_with_retry` of the change queue, with time | `AiServices_proofs` |
| `AiServices` | composes the two: the users of a model | `AiServices_proofs` |
| `SharedRuntime` | operations of several processes on one runtime directory | `Product_proofs` |
| `ProductPipeline` | `ProductPipeline.poll_once` for a watched file, beside another process | `Product_proofs` |
| `GitMonitor` | `GitDiffMonitor.poll` over a changing repository | `Product_proofs` |
| `ChunkSplit` | `split_text`, one iteration a step | `ProtectedIndex_proofs` |
| `RagChat` | `answer_from_protected_index` over `VersionIndex` | `ProtectedIndex_proofs` |
| `ProtectedIndex` | composes `VersionIndex`, `RagChat` and `ChunkSplit` | `ProtectedIndex_proofs` |
| `MC...` | constants and symmetry sets for TLC | |

`Gateway`, `SharedRuntime` and `ChangeQueue` use the index through the operators
of `VersionOrder`, one step per transaction; `VersionIndex` justifies that view.

Two modules compose parts that share no state (`AiServices`; the splitting in
`ProtectedIndex`). Their initial states choose which part a behaviour is about,
so that the state space is the sum of the parts and not their product. The git
monitor shares nothing with the product pipeline and has a specification of its
own. `RagChat` and `VersionIndex` do share the index, and there
the writers interleave with the questions.

### 2.1 Index

`indexedAt[d][s]` is a row's timestamp (0: no row), `isCurrent[d]` the flagged
versions, `writer[w]` a call of `index_atomic` that has taken its timestamp and
not yet its transaction: the code calls `_utc_now()` before the lock, so
writers may commit against the order of their timestamps. `CommitIndex`,
`StaleIndex` and `FailedIndex` are the three ends of the transaction,
`RemoveAtomic` is `remove_atomic`. Digests are numbers because
`ORDER BY indexed_at DESC, sha256 DESC` compares them. Chunks live and die with
their row in the same transaction and are not kept apart.

`VersionOrder` forgets timestamps: a row has a rank, 1 for the oldest, and the
current version is the one with the highest. `StackSpec` states that this is a
refinement (`Stack == INSTANCE VersionStack WITH ...`). It needs one writer per
document and distinct timestamps: with two writers, or a clock that repeats or
steps back, a removal can bring back a different predecessor than the one that
was current before (`CurrentIsLatest` fails). Timestamps have microseconds and
the gate and the queue serialise their writers per process, so one process
meets the assumption unless its clock is set back.

### 2.2 Gateway

Every commit to a database is an action of its own. The operations lock is the
variable `op`: the submission or command that holds it, its `pc` and what it
carries. Preparing (`PrepareRead`, `RecordPrepared`, `EnsureRequest`) and
dispatching run outside the lock in the code, and so they interleave here.

- `state[a]` and `outcome[a]` are `get_status`'s fold over the events of `a`,
  updated by the action that appends the event. `requested`, `received`,
  `applied`, `quarantined` and `completed` are the event look-ups the code
  makes. Events no decision reads (dispatch started, policy recorded) are left
  out; the failure of their append is `OperationFails`.
- `Admissible` and `Allowed` are the checks of `submit_policy_result` and
  `execute_command`; `Verdict` is the order of checks in `_apply_locked`.
- `GateRemoves`, `GateIndexes`, `GateStale` and their failures are the index
  transaction; `GateRecords` / `GateRecordFails` the `INDEX_GATE_APPLIED`
  append with its compensation; `FinishSubmit`, `Replace`, `Supersede`,
  `RequestReplacement` and `FinishCommand` the appends that follow.
- `AnswerCommand` is the end of a command: the completed event is on record, the
  lock is still held, and the status is read once more for the answer. A dispatch
  takes no lock when it fails, so its event may come in between. `completed`
  keeps the answer that was saved, which is what a replay under the same key
  gives. B may send any result for any request at any time; nothing in the
  repository makes it send one again, and none of its retries is assumed.
- `Fault` budgets the failures: an audit append that raises, an index
  transaction that raises, a blob or hash that does not match, a process stop.
- `approved` is a history variable: the analyses whose APPROVE passed the
  checks. No guard reads it.

`ReviewedIndex` says the same system without events, locks, retries, replays and
failures: a row per analysis, one result, one consent at a time, and a table of
versions. A consent may be given only for a result of ALLOW; it is spent by the
one step that puts the candidate on top, and only while that step finds the
version the analysis was prepared on, no quarantine and no hard-blocking artifact.
`Gateway` maps to it by `row <- prepared`, `result <- received`,
`barred <- quarantined` and `consent <- Consented`: an APPROVE is a consent from
the moment its operation takes the lock until it leaves the gate. A crash, a
stale baseline, a failed transaction and a denial are the abstract `Lapse` or
`TakeOut`; what happens in the audit log alone is a stutter.

The checks that compare two copies of one immutable fact (prepared row and
stored row, diff and snapshot digests, policy and candidate digest, blob and
digest) can only fail when a store was altered; all of them are the fault
"integrity". Tampering with the chain itself is not modelled.

### 2.3 Change queue

All methods run under one lock. `phase` is the position of its holder: inside
`poll_once` (`events`, `due`), inside the loop of `restore_history_before`
(`undo`, with `last` the reviews it has not reached yet) or before a method's
save (`save`). Users edit
files at any moment, `worker[w]` is an assessment between its two lock
sections, `saved` is the queue file, `cursor` the scan state file, `snap` the
snapshot files, `rank` the index. A crash returns to `saved` and keeps the rest.

Contents are digests. `Twins` are digests with identical extracted text (an
HWPX container written again), `Unreadable` cannot be extracted. The model's
verdict is a choice between review and automatic indexing; its failure and
absence are the verdict review.

Abstractions: the order in which a poll applies its events is arbitrary
(the code's is alphabetical); the waiting time of automatic indexing is "a
later poll"; `accept` that raises changes nothing and is no step; agent reports, summaries and the long-poll revision
decide nothing and are left out; history ids are positions.

A restoration goes back review by review (`UndoEntry`), each with its file and
its index row, until the chosen one (`RestoreDone`); a write that raises
(`UndoFails`) or a restart may end it between any two, with files and index
undone so far and the queue file as it was. `MaxCrashes` bounds restarts and
failing restorations together; for TLC they come before the last edit
(`FaultLeft`), so that something can still happen after them.

`missed`, `unsaved` and `reverted` are ghost variables: the paths a documented
exception of a property applies to. No guard reads them.

### 2.4 Risk engine and its model

A text is a model value. What the rules ask of a slice of texts (its numbers, its
dates, whether policy wording or an instruction pattern matches) are operators on
the whole slice (`Numbers`, `Dates`, `PolicyTerm`, `Instructs`), because the code
joins the texts before it looks: a number takes its unit word also from the text
that follows. Regular expressions are thereby abstracted; the alignment is not:
`Block` and `Matched` are difflib's longest matching block and recursion (as
recursive functions), because the gaps they leave are the changes everything
else is about. `Assess` is `assess_static_risk` in its order, where the rule for
policy wording looks at the findings made so far (`HasFinding`), and an empty
side of a change equals an empty side of a finding, as `None == None` does.

In `RiskAnalysis` every call to the judge is a step: `JudgeAnswers` for either
phase, `JudgeUnavailable` for the errors the engine catches (the results come
from `ModelClient`), `Breaks` for everything else, which `risk_api` turns into a
failed submission. `AskModel` is the gateway without a B service asking the model
directly: its policy is taken without static rules, and no property speaks of it.

`Screening` counts time in retry intervals. A call is two requests (discovery,
completion). The client's timeout is one for each connect, write and read, so it
does not bound a request: one that is answered lasts anything from nothing to
`Longest`, one that is given up at least the timeout (`Lasts`). The theorems hold
for any `Longest`. `Stop` is `close()`, after which `_watcher_stop.wait` returns
at once.

### 2.5 Product pipeline and a second process

`job[p]` is the operation that holds the operations lock of process `p`; every
read and every commit is a step, so the two processes interleave at all of them.
`log[a]` keeps what the code reads from the events of `a` (the fold of
`get_status` and the look-ups), brought up to date by the step that appends. Hard
blocks, failing commits, restarts and reanalyses are those of `Gateway` and are
not repeated. `ProductPipeline` follows `poll_once` for one file: scan (its state
is stored first), snapshot (kept if it is there, else copied and compared, or cut
short), `prepare_streams`, dispatch, and the hold outside the lock when B does
not answer. `PollBreaks` is every exception that ends the poll, those of other
files included. `BCalls` and `CCalls` are the routes and tools of the process
beside it. `approved` and `overlapped` are history variables.

`GitMonitor`: a capture is eight commands (root, commit, branch, two patches, three
lists of names), each a step, and the repository may change between any two. The
commands for the commit and the branch run with `check=False`: when one fails the
capture goes on without a value (`ReadNothing`); any other failure, and every
timeout, ends it (`CommandFails`). `Digest` flattens the lists of names as
`_snapshot_digest` does. `silent` and `undisturbed` are history variables.

### 2.6 Dashboard, chat, splitting

`Workbench` has no variables: it is a reading of `Gateway`'s state, the same that
`state.py` makes of a status. `CompletedIsBelieved` looks at the answer after the status was read for it, and at
every saved answer as a replay would give it now. `RagChat` has four steps per
question: retrieval under the index lock, the model, the last look at the current
version (a request of its own), and the keeping of the exchange by the caller.
The index moves between any two. `since` is a history variable: the versions that
were current since the answer was made.
`ChunkSplit` runs the loop of `split_text` for every text of blanks and letters
up to a length, with chunk size and overlap chosen initially.

## 3. Runs

| run | question | instance | states |
|---|---|---|---|
| `version_index` | does the indexer keep the promise of the stack, split without loss, and does the chat rest on it? | 3 versions, 1 writer, 5 timestamps, 1 exchange; texts up to length 7 | 0.6 million |
| `gateway_faults` | does the gateway keep its promise, can anything unapproved or quarantined be indexed, or work be lost from the dashboard? | 2 analyses, 2 candidates (one hard-blocked), any 2 faults of 4 kinds | 1.9 million |
| `gateway_audit` | do index and audit log agree while only audit appends fail, and does the client believe what was done? | 2 analyses, 2 candidates, 2 keys, 1 fault | 0.8 million |
| `queue` | do queue, scan, snapshots, history and index stay related? | 2 paths, 3 digests (2 twins), 3 edits, 3 reviews, 1 restart or failing restoration | 4.7 million |
| `ai_services` | can a failure or a judge lower a decision, and does a screening end? | 10 texts, documents of up to 3 units, 2 artifacts, 8 judgements; a timeout of 3 intervals, requests of up to 4 | 0.3 million |
| `product` | do two processes index only what was approved and compared? | 1 file, 2 contents, 2 edits, 2 analyses, 2 results, 3 operations of the other process | 2.9 million |
| `git` | does the receiver of git events know the repository? | 1 commit or none, 1 branch or none, 3 patches (two alike where they are cut), 2 changes | 7.1 million |
| `gateway_superseded`, `gateway_crash`, `queue_deletion`, `queue_addition`, `queue_retry` | findings, section 5 | as small as the trace allows | |

**Why the bounds are enough.** The index never relates two documents; three
versions and five timestamps allow a version below, between and above others,
and a version indexed again. One exchange of an earlier version is enough for a
history that must not be passed on; the proof covers any number. Two analyses are the smallest number that share
a document, a candidate or the replacement relation; two faults allow a failure
and the failure of its compensation, or a failure and a restart. The gateway's
documents never interact either, so one is used; the proofs cover the rest. In
the queue two paths are needed for a poll that fails in the middle and for a
restoration that swallows another path's change; three edits and three reviews
for a file accepted, changed, accepted and undone. Contents that cannot be
extracted have no digest of their own in this instance; the theorems about the
queue cover them. `Nat`-valued ranks are
bounded by the number of versions.

`ai_services` takes every pair of documents of two visible units from the texts
that differ for the rules (a plain one, two numbers, policy wording, a date), and
for every other feature (blank and spaced text, a limit with a number, hidden
text, instruction patterns, both kinds of artifact, a unit word after a number)
the short documents in which it occurs; what a rule sees is a single change, and the only rule that relates
two changes needs two of them. Judgements lie on both sides of every threshold.
In `product` two contents and two edits give a change, its reversal and an edit
during the copy; two analyses the smallest number that can race for the version;
three operations of the other process a submission, an approval and one more. Two
changes of the repository in eight commands give captures torn in two places. Texts
of seven characters hold more than two chunks for the sizes up to four.

Runs of the gateway, of the queue, of `product` and of `git` use symmetry: no definition tells two analyses, keys, paths or plain contents apart by name.

`CHECK_DEADLOCK FALSE` is set everywhere but in `git`: analyses, keys, timestamps, edits and
reviews are finite in these instances, so behaviours end when they are used up.

**Fairness** (only `ai_services`). `WF(ScreenStep)`: a screening goes on, that is,
every call to the model returns in the end and the executor's thread that made it
runs on. The client's timeouts guarantee the former only of a server that stops
sending: one that trickles bytes for ever holds the worker for ever, which the
code does not exclude and the assumption does. Nothing is assumed of what the
server answers or of `close()`.

**Properties.**

| property | says |
|---|---|
| `FlagsMatchRows` | a document with rows has exactly one current version, which is stored |
| `CurrentIsLatest` | with one writer no stored row is newer than the current one |
| `NoLostVersion` | a conditional call writes only while the expected version is current |
| `StackSpec` | the indexer implements `VersionStack` |
| `OnlyApprovedIndexed` | indexed implies B's applied ALLOW and C's APPROVE for that candidate, and no hard-blocking artifact (the invariant of the repository's README) |
| `QuarantineIsFinal` | a quarantined analysis never ends up indexed, also not by way of a failed dispatch, a hold and an approval |
| `PromiseKept` | the gateway implements `ReviewedIndex`: rows and results never change, a reanalysis compares the same versions, and every step that puts a version on top spends one consent to a result of ALLOW over the version current in that step |
| `IndexOnReviewedBaseline` | a version is put on top of exactly the version current at its preparation |
| `AuditExplainsIndex` | between operations every indexed version has an outcome on record that says so |
| `HeldIsRemoved` | between operations a version recorded as not indexed is not, unless by another analysis of the same candidate |
| `QueueShowsScan` | every scanned content is shown, except after a poll that raised or died, a swallowed edit or an undone deletion |
| `AcceptedIsCurrent` | accepted content is the current version, unless a crash forgot an acceptance, a deletion was accepted or a review undone |
| `HistoryExplainsIndex` | every indexed version belongs to a review that can still be undone |
| `SnapshotsIntact` | every digest that may be restored or indexed has a snapshot with those bytes |
| `BaselineIsAccepted` | a queued change is compared with what is accepted now |
| `AlarmIsExplained` | the dashboard finds a state contradictory only after a late dispatch failure or request, or a failed removal |
| `WorkIsReachable` | every analysis is pending for B, can be dispatched or offers a command, except those two kinds |
| `SupersededHasHeir` | a superseded analysis has its replacement on record, wherever REANALYZE failed |
| `CompletedIsBelieved` | the client accepts the answer to every completed command and every replay of it, unless a dispatch that failed moved the status before it was read |
| `AllowIsEarned` | ALLOW only for unchanged content without hidden text or artifacts, and with a judge only on its word |
| `StaticEvidenceStands` | the decision is at least the one the static rules call for |
| `HighRiskIsAudited` | a completed analysis of 70 or more whose judge answered was audited |
| `DiffIsComplete` | no change exactly for equal documents, and every unit's balance between the documents is the balance of its occurrences in the changes |
| `NumbersAccounted` | in every change the numeric evidence accounts for every number that became more or less frequent, and all changes together for the documents, unless a number is read across text units |
| `WordingIsReviewed` | changed policy wording is rated a review at least, although another finding may hide its own |
| `UnjudgedIsReviewed` | only an assessment that came back accepts a change |
| `RetriesAreBounded` | no call begins after the window, there is one per interval and one at its end, and only what may pass is retried |
| `ScreeningEnds` | every screening ends if each call returns, unless the queue is being closed |
| `ApprovedByBoth` | across processes, content is indexed by ALLOW and APPROVE only |
| `ReplacedWasCompared` | a version is replaced by content that was compared with it |
| `OutcomeIsTrue` | one request per analysis, and the index is as its last outcome says, unless two processes worked on it at once |
| `ReceiverKnows` | after a quiet capture the receiver of git events knows files and patches, and commit and branch as far as their commands answered |
| `SplitKeepsText` | every character that is no blank is in a chunk, in order, and no chunk is too long |
| `AnswersAreCurrent` | a kept answer comes from one version alone, which was current at some moment after the model had answered |

The exceptions in `QueueShowsScan`, `AcceptedIsCurrent`, `AlarmIsExplained`,
`WorkIsReachable`, `CompletedIsBelieved`, `NumbersAccounted`, `ReceiverKnows` and
`OutcomeIsTrue` are the code's real
gaps, each listed as a hazard; the properties say that there are no others. What
the models show about them: after a dispatch that fails later than the result was
applied, the dashboard locks an analysis whose API would take HOLD or REANALYZE
(`state.py:213`); a command during which a dispatch fails is carried out and
reported as a bad gateway when the failure comes before the status is read, also
a HOLD or a REANALYZE (`api_client.py:362`, `operations.py:276`); a number and its
unit word in two text units show in no change when the word alone changes
(`document_diff.py:150`); a capture without an answer for the commit tells its
receiver that there is none (`git_watcher.py:149`); `ensure_request` makes one
request per process, not one per analysis (`operations.py:54`); a hold after a
failed dispatch removes also content that was approved meanwhile, which fails
closed; and the first version of a document is compared with whatever the
directory held before, also with a copy that was cut short
(`product_pipeline.py:192`).

## 4. Proofs

All by TLAPS, for constants of any size: any number of analyses, documents,
paths, contents, processes, failures and restarts. Every module's argument is an
inductive invariant; what it adds to the property is the interesting part.

- `VersionOrder_proofs`: what `Put` and `Drop` do to the set of stored versions
  (`DropStored`, `PutStored`) and to the order (`DropRanked`, `PutOnTop`), and where
  the ranks come from: `Place` counts the rows that are not newer, and follows every
  row written on top or deleted (`PlacePut`, `PlaceDrop`). Assumes `ShasAssumption`
  (finitely many digests, none of them `NoSha`).

- `VersionIndex_proofs`: `TypeCorrect`, `FlagsAgree` (`FlagsMatchRows`),
  `CompareAndSet` (`NoLostVersion`), with any number of writers, any `Ticks`
  (a clock that stands still included). `FlagsMatchRows` is inductive with the
  types; the existence of a newest row for a removal is not needed because the
  step itself supplies it. Two theorems have the hypotheses `OneWriter` and
  `ClockMoves`, without which they are false (section 2.1): `LatestIsCurrent`
  (`CurrentIsLatest`), by `TimeInv`, which says that no row is newer than the
  clock and that a call under way has the only timestamp of its time; and
  `ImplementsStack` (`StackSpec`), the step simulation onto the version stack
  through the places of the timestamps. Assumes `IndexAssumption`.

- `Gateway_proofs`: three invariants, one on top of the other.
  `GateInvariant` proves `GateInv`, from which `TypeCorrect`,
  `IndexNeedsApproval`, `QuarantineStays` and `FirstResultCounts` (the applied result
  is the first one received, `AppliedIsReceived`) are read off. The
  properties alone are not inductive, because a gate step relies on what was
  checked when its operation took the lock. `GateInv` adds: `IdsReserved` (an
  analysis id is used by one row, one call about to insert, or one replacement
  about to be inserted, so that rows are immutable), `OpAdmitted` (an approval in
  progress was admitted and its analysis has an applied ALLOW; a submission carries
  the received result) and `OutcomeEarned` (only an approval of an analysis that was
  never quarantined leaves the gate with an index outcome).
  `LogInvariant` proves `LogInv`: how the state, the latest outcome and the result
  of an analysis are related (`LogExplained`), and what an operation has recorded
  of itself before it ends (`OpRecorded`); the dashboard's theorems rest on it.
  `BaselineReviewed` (`IndexOnReviewedBaseline`) is an action property.
  `AuditExplains` (`AuditExplainsIndex`) and `HeldRemoved` (`HeldIsRemoved`) compare
  log and index at rest; their invariant looks at the outcome an analysis has once
  the operation under way has recorded. They have the hypothesis that index
  transactions do not raise and the process does not stop
  (`FaultKinds \cap {"indexer", "crash"} = {}`); without it they are false, as the
  run `gateway_crash` shows. Everything else admits failures of every kind and
  number. `ImplementsPromise` (`PromiseKept`) is the refinement of `ReviewedIndex`:
  the initial states map to the initial state, and each action to one abstract
  step or a stutter (one lemma per group of actions). It rests on `GateInv`, and on
  `StagedFirst` (what `prepare_streams` stages is no reanalysis):
  that an approval under way has an applied ALLOW which is the received one makes
  its start a consent, and that a replacement's row repeats the original's makes
  it an abstract preparation. That nothing more is needed for the index itself is
  because the compare-and-set makes the baseline check part of the step.
  Assumes `GatewayAssumption` and `NilAssumption`.

- `Workbench_proofs`: `ReanalysisHasHeir` (`SupersededHasHeir`), for any failures and
  restarts between the three commits of a REANALYZE. `HeirInv` adds that the
  operation has made an heir before it closes the original (`HeirMade`); that an
  heir stays one is `RowsKept`, the immutability of rows, from `GateInv`.
  `AlarmExplained`, `WorkReachable` and `CompletedBelieved` state that the dashboard's
  reading of an analysis has no gaps but the documented ones; they follow from
  `LogInv`, the last with what every saved answer says (`SavedFits`); it has the
  hypothesis that index transactions do not raise (a containment failure is the
  exception the other two name).

- `ChangeQueue_proofs`: all six properties of the queue: `TypeCorrect`,
  `SnapshotsStay` (`SnapshotsIntact`), `BaselineKept` (`BaselineIsAccepted`),
  `IndexExplained` (`HistoryExplainsIndex`), `AcceptedOnTop` (`AcceptedIsCurrent`) and
  `ScanShown` (`QueueShowsScan`). What makes them inductive is that they must hold
  of memory and of the queue file at once, because a restart replaces one by the
  other (`QueueInv`). The history must account for everything accepted and indexed
  up to the review a restoration has reached (`HistoryInv`), the ranks of the index must be a chain
  without gaps (`RanksInv`), and a poll's pending events are those the scan has
  stored and nobody has seen yet (`LoopInv`, `ShownInv`). Assumes `QueueAssumption`.

- `AiServices_proofs`: `AllowEarned`, `EvidenceStands`, `HighRiskAudited`,
  `UnjudgedReviewed`, `RetriesBounded`, `TypeCorrect`, `DiffLosesNothing`
  (`DiffIsComplete`), `EveryNumberAccounted` (`NumbersAccounted`) and
  `WordingNeverUnrated` (`WordingIsReviewed`), for any texts, documents of any length,
  judges and timeouts. `StaticScore` is the greatest of a set of scores; that a
  set of numbers up to 100 has a greatest element is `LeastOf`, by the
  well-foundedness of `<`, and gives `CleanIfLow` (below 30 there is no finding at
  all) and `HardBlockScores`. `RiskInv` then says what each phase knows, above all
  that the score never falls below the static one; that is what makes the decision
  after a failure or a lenient judge harmless. `ScreenInv` bounds calls by the time
  that has passed. Assumes `EngineAssumption`, `DiffAssumption`,
  `DocumentAssumption` (the units of a document are a sequence),
  `JudgeAssumption`, `ScreeningAssumption`.

  The three theorems about the diff are about recursive definitions. The
  induction theorems of the library take a predicate and are out of the provers'
  reach, so the predicate is made a set: `AllNat` says that a set of naturals with 0
  and all its successors is `Nat` (no least number is missing), and `AllSeq` the same of
  sequences. A recursive function first has to be shown to exist, by such an
  induction on the length of its argument (`FlatExists` for `FlattenSeq`, `MatchExists` for
  difflib's recursion by the size of the window, `FlagExists` for the semantic rule);
  then it may be unfolded. On that rest: flattening distributes over
  concatenation (`FlattenConcat`); the longest block lies in its window and matches
  (`BlockInWindow`); so the matched pairs rise strictly on both sides
  and match texts (`MatchPath`); fenced by `<<0, 0>>` and the ends they are a ladder
  (`FencedLadder`); and up to every rung, what the gaps below brought and took
  balances what the two sides have (`RungBalance`), which at the last rung is the
  property (`GapsBalance`). That there is no gap exactly for equal sequences is
  `GapsEmpty`. For numbers the balance is used twice: over the gaps of the units,
  and inside each gap over the gaps of its numbers (`EvidenceBalance`); the former is
  where a document without seams is needed, whose numbers are those of its units.
  `WordingReviewed` needs that the rule, which sees only findings made before,
  either makes a finding for a change or met one that quotes it, and
  that either rates at least 50 (`SemanticCovers`, `QuotingScores`).

- `Product_proofs`: `TypeCorrect`, `IndexedIsApproved` (`ApprovedByBoth`),
  `ReplacementCompared` (`ReplacedWasCompared`), `OutcomesTrue` (`OutcomeIsTrue`) and
  `ReceiverInformed` (`ReceiverKnows`). An operation carries what it read when it
  began through the steps of the other process, so `JobOK` says what it knows: its
  row exists, only submissions and approvals reach the judge step, and an INDEX is on
  its way only for an admitted approval with an applied ALLOW. None of this is taken
  back (`Kept`), which lets one lemma cover each way a step can change the log or a
  job. `RowsOK` relates expected version and baseline, and `OnlyIndexesCommits` finds
  the one step the action property is about. `RequestsInv`: a request beyond the first
  is in the hands of a process that had read that there was none. `OutcomesOK` is
  about an analysis no two operations were at work on at once: it says for each step of
  the operation how far its log and its index row are ahead of each other. `GitInv`
  says of each command of a capture what it was compared with: what the receiver
  was told has the digest of the last capture, and a capture no change fell into
  is one of the repository, but for the commands in `silent`. Assumes `RuntimeAssumption`,
  `NilAssumption`, `ProductAssumption`, `GitAssumption` (a commit exists).

- `ProtectedIndex_proofs`: `AnswersCurrent` (`AnswersAreCurrent`), for any number
  of writers, versions and exchanges kept. `ChatInv` carries what was retrieved to
  the keeping, and that what is kept was current since the answer was made
  (`since`), which later index changes do not take back. `SplitKeepsAll` (`SplitKeepsText`), for texts, sizes and overlaps of any
  length: `LastFits` relates the last chunk to what is left (it begins before every
  remaining letter, and the next cut is not before its end), by `CutGrows`: a window
  that begins later is not cut earlier. Assumes `ChatAssumption`, `SplitAssumption`.

Only model-checked: `ScreeningEnds`, because liveness under fairness and ENABLED are
out of the prover's reach. Every other property of a
passing run is stated by a theorem.

## 5. Findings

| run | code | what happens |
|---|---|---|
| `gateway_superseded` | `operations.py:289` | `get_status` lets a late request event or dispatch failure follow SUPERSEDED; the analysis is judged, approved and indexed beside its replacement |
| `gateway_crash` | `rag/gate.py:205` | a stop between index commit and audit event: the repeated APPROVE is stale against its own candidate, which is recorded as quarantined and stays searchable |
| `queue_deletion` | `change_queue.py:682` | accepting a deletion uncovers the previous version, which is searched from then on |
| `queue_addition` | `change_queue.py:455` | a verdict requested for an edit clears a later addition of the same bytes |
| `queue_retry` | `change_queue.py:601` | the scan state is stored before the events are applied: after an exception the next scan has nothing to retry |

## 6. Not modelled

- *Extractors*: parsing of file formats. The models see a digest, units with their
  texts, hidden units and artifacts, and whether extraction succeeds.
- *Blobs*: content-addressed files. `Gateway` sees a missing or altered blob as an
  integrity failure.
- *Audit hash chain*: `verify_chain` recomputes hashes of events that are
  appended in one transaction each. It can only fail when the file was altered
  from outside, which is the fault "integrity" of `Gateway`.
- *HTTP and MCP*: uploads, token checks, validation and the routes that only read.
- *Lexical scores of the search, regular expressions, wording of findings and
  answers*: abstracted to what matches.
- *Intranet chat* (`rag_chat_api.py`): one search and one question without state.
  It has no check after the model's answer (listed as a hazard).
- *Dashboard pages* (`app.py`) and the screens' session state: presentation.
- *Repository review, risk evaluation scripts, the stand-alone watch loop*: read
  and print, and change no state of the system.
- Operators and users are unconstrained: any action the code admits, at any time.

## 7. Plan

Done: the index with its abstract specification, chat and splitting; the gateway
with its dashboard; the change queue with its screening; risk engine, diff and
clients; the product pipeline with a second process, and the git monitor.

1. Proofs: the two processes of `SharedRuntime` as an implementation of
   `ReviewedIndex` with a consent per process; bounds on what a reader of the queue
   can see between two of its saves.
2. The queue and the product pipeline over the same `watch:` documents: the queue
   indexes without B and C, so each may find the other's version current.
3. Restarts inside `SharedRuntime`, which has none of its own so far.
4. More questions to the queue: an assessment that overrides an operator's hold,
   undoing v1, v2, v1 again, and that every entry is decided in the end.
