# A TLA+ model of mlxturbo

mlxturbo serves large language models on Apple Silicon: one process, one MLX
worker thread that owns the GPU, and an asyncio HTTP server (OpenAI, Responses
and Anthropic routes) in front of it. The arithmetic is not modelled here. What
is modelled is everything around it that is hard to test: who owns a session and
its cache, which thread may touch it when, how a request ends when its client,
its callback or the engine fails, how several requests share one forward pass,
and whether everybody is served in the end.

Paths below are relative to the repository root. `M.tla` is a module,
`MCM.tla` instantiates it for TLC, `<run>.cfg` is one question asked of it.

## 1. The system

### Components, their state, and who calls whom

| component | code | state | operations |
|---|---|---|---|
| HTTP front end | `mlxturbo/server.py` | `STATE.lock`, `STATE.queue_depth`, per-request queue and `cancel_event` | reserve a slot, resolve the runner and the batch route, take the lock, generate, stream, release |
| session pool | `mlxturbo/server.py`, `FallbackSession` in `mlxturbo/runner.py`, `ChatSession` in `mlxturbo/spec.py` | `STATE.session_pool` (LRU), each session's `processed`, `cache`, `checkpoints`, `tail`, and the claim mark | select for the serial path, claim for the batch path, trim, restore, publish, invalidate |
| continuous batching | `mlxturbo/batch.py` | inbox, `_active`, the loop's pending lists, live rows and mode | submit, admit, tick, complete |
| speculative batching | `mlxturbo/batch_spec.py` | inbox, waiting list, rows, prefill lane, sampling key | submit, admit, join, decode round, preempt, run alone |
| ragged cache ledger | `mlxturbo/batch_spec.py` (`RaggedLedger`, `RaggedAttnCache`, `RaggedDraftCache`) | the physical row, liveness per row and column, the memos derived from it | prefill, step, commit, compact, extend, filter |
| serial speculative engines | `mlxturbo/spec.py`, `spec_flash.py`, `gemma4_mtp.py` | draft depth, session caches, checkpoints | generate |
| runner selection | `build_runner` in `mlxturbo/runner.py` | the runner of the process | choose once, when the model is loaded |
| lookup drafts | `mlxturbo/lookup_spec.py`, `sam.py` | suffix automaton | extend, match, draft |
| n-gram streaming | `mlxturbo/ngram_stream.py` | row cache, prefetch threads | fetch, prefetch |
| stream shaping | `ThinkingRouter`, `SegmentAssembler` in `mlxturbo/server.py` | channel, held-back text, tag state | feed, finalize, push |
| Responses store | `mlxturbo/server.py` | stored responses, LRU | put, get, chain, delete |
| shutdown | `mlxturbo/server.py` | `_SHUTTING_DOWN`, drain thread | signal, drain, exit |
| measurement worker | `tools/ab_daemon.py`, `ab_submit.py`, `biglock.sh` | lock, tickets, pid and stop files, job queue | acquire, load, run a job, reload, submit, wait |
| model resolution | `mlxturbo/hub.py`, `cli.py`, `arch.py` | none (pure I/O) | resolve, download |
| kernels, conversion, training | `mlxturbo/kernels/`, `fused.py`, `convert*.py`, `train_mtp.py`, `_vendor/` | numeric | none of them schedules anything |

Everything that touches MLX runs on `STATE.executor`, a pool with one thread.
The event loop reserves a queue slot per generation request, then either holds
`STATE.lock` for the whole serial generation (session selection and generation
are two jobs on the executor) or submits an `Admission` to one of the two
coordinators, whose drive loop is itself one long job on the same executor.
Results come back through a thread-safe queue per stream and a
`concurrent.futures.Future` per request. A disconnecting client cancels the
asyncio task; the executor's work cannot be cancelled, only asked to stop
through `cancel_event`.

Beside the server, `tools/` has a worker that keeps a model loaded for
measurements. It, those who submit jobs to it and whoever wants the GPU for
itself are separate processes, which share files and may be killed at any time.

### Hard behaviours

* submit() against the exit of a drive loop (the inbox is checked without the
  lock that guards `_active`);
* an admission that fails or is cancelled at each point between the inbox and
  its Future, with other rows in the same batch;
* two routes to the same session: the serial path under `STATE.lock`, and the
  batch path, which only looks whether the lock is taken and marks a claim;
* client disconnects while waiting for the lock, while the worker runs, while
  the wait is already deferred;
* preemption: a row is thrown out of the batch and recomputed, and its stream
  must neither repeat nor lose a token;
* a ragged batch: rows advance by different amounts, masks are derived from a
  physical ledger through memos that must be dropped on every change;
* markers of several tokens that overlap one another and the boundaries of the
  chunks they arrive in;
* a rejected draft is undone in several caches, each by its own rule, and a mistake
  in one only makes the answers worse;
* a sliding-window layer cannot be trimmed once it is full, and a ring that is
  cut by hand must still be one that its next write understands;
* rounds that run ahead of the answer they depend on, and a refusal after that;
* readers of a row cache that take no lock while it is filled, dropped, replaced;
* processes that die between making a lock and signing it, or between writing a
  result and removing its job;
* starvation on the single thread.

### What makes each component correct

* Front end: a generation that runs is covered by the lock, slots and lock are
  never leaked or released twice, a stream gets what was emitted and one
  terminal event, everybody is let go in the end.
* Session pool: one owner per session, a cache is exactly the history its
  session claims, a reuse is exactly the part of the prompt it skips.
* Batching: every admission is in one place until it is completed once; rows
  that share a batch fit together; a callback order that lets the next turn find
  its session; every Future is resolved.
* Ragged caches: each row sees its own history at its own positions, as if alone.
* Speculation: the answer is one that plain decoding could give, and every cache
  stands for the tokens that were fed.
* n-gram rows: a lookup returns the rows on disk, whatever is prefetched.
* Measurement worker: no job is lost, each is measured on what it asks for, and
  whoever waits returns.
* Stream shaping: channels and tool calls are those of the whole answer.

## 2. Plan

The order is that of importance: first what every request passes, then what
requests share, then what one answer goes through.

1. `BatchCoordinator`, proofs in `BatchingProofs` (done)
2. `SessionPool`, proofs in `SessionPoolProofs` (done)
3. `RequestLifecycle`, proofs in `RequestLifecycleProofs` (done)
4. `RaggedLedger`, which implements `RaggedRows`, proofs in
   `BatchingProofs` (done)
5. `BatchSpecCoordinator`, proofs in `BatchSpecCoordinatorProofs` (done)
6. `StreamShaping`, against the reference definition `ResponseChannels` (done)
7. `SpecEngine`, which implements `PlainDecode`, proofs in `RunnersProofs` (done)
8. the other speculative engines: `FlashSpecEngine`, `LookupSpec` with
   `SuffixAutomaton`, `GemmaAssistant`, and `Runners`, which composes the four
   under one specification, proofs in `RunnersProofs` and `FlashProofs` (done)
9. `NgramStream`: generations of the row cache against prefetch threads, proofs in
   `FlashProofs` (done)
10. `AbWorker`: the measurement worker and the lock of the GPU, proofs in
    `AbWorkerProofs` (done)
11. shutdown: `_SHUTTING_DOWN`, the poll of `queue_depth`, the second signal
12. composition: the front end with a coordinator in place of the assumption
    that a batched worker ends, and with the session pool in place of `select`
13. `AbWorker` with two workers alive at once

No module declares a RECURSIVE operator, so each of them is open to a proof.
Theorems that are left to prove: the parts of `Routed` and `StopsKept` that need no
induction over data, and those of items 11 to 13 when they are modelled.

What composes what: `RequestLifecycle` has `select` and `generate` as jobs of
the executor and takes a batched worker to end; `SessionPool` is what `select`
and the runners do to sessions; `BatchCoordinator` and `BatchSpecCoordinator`
are the batched workers, each with the executor's queue as seen from it;
`RaggedLedger` is the generator of `BatchSpecCoordinator`; `Runners` is the
generations of a serial worker on a session, with one of four engines in it;
`NgramStream` is what a forward of the Flash-Next model looks up; `StreamShaping` is what a worker's
`on_tokens` puts into the queue that `RequestLifecycle` drains.

## 3. The modules

### BatchCoordinator (`mlxturbo/batch.py`)

`submit` is two actions, `Put` (the inbox) and `Kick` (the guarded check), since
a drive loop may end between them. The loop is one action per step of `_drive`,
and `pc` says where it stands: `StartDrive`, `Take`/`InboxEmpty`/`Wake` (drain
and coalescing), `AdmitPool`/`AdmitSolo`/`AdmitNone`, `CheckIdle`, `Tick`,
`Deliver`/`DeliverRaises`, `Finish`, the three steps of `_complete`
(`Release`, `Notify`, `Resolve`), the failure handler (`FailLive`, `FailSolo`,
`FailPool`, `FailDone`) and the exit (`Close`, `Recheck`, `Restart`). A row is
the number of tokens it may still say. The vendored `BatchGenerator` is the set
of rows that answer a tick; which row ends when, and which call raises, is a
choice within `Faults`. `claim`, `cache` and `lent` follow a session from the
claim through `_prepare_session` (whose cache object moves into the batch) to
`_publish_session`. `StartJob`/`EndJob` are the executor's other work.

### SessionPool (`mlxturbo/server.py`, `runner.py`, `batch.py`)

A cache is the sequence of tokens each kind of layer has absorbed: `kv` for
those that always trim, `oth` for recurrent or sliding-window layers. `Select`
is `_select_session_unlocked` as a whole: whole match, partial matches from the
longest down with trim before restore, otherwise a new session and an eviction.
`Claim`, `Prepare`, `PublishBatch`, `DropBatch`, `ReleaseClaim` are the batch
path, which takes no lock. `Abandon` and `SelectOrphan` are a request cancelled
while its selection is on the executor. `Generate`, `Succeed`, `Fail` are the
runners: take over what the session holds, invalidate it, publish at the end.
`model` picks the kind of model, `KeepsTail` the engines that publish a tail.
Evicting an object needs a name for it again only when nobody holds it, so
`Slots` has one more element than the pool; a new session starts `Invalid`,
whatever its name stood for before. A generation is `Waiting` for its cache or
`Running` on it; a session that is trimmed or restored is `Cut`.

### RequestLifecycle (`mlxturbo/server.py`)

One action per run of a handler between two suspensions. `STATE.lock` is
modelled with the waiters and the wake-ups of `asyncio.Lock`, because the races
are there: an acquire in a task that a keepalive abandons (`GiveBack`), an
acquire that succeeds after its handler was cancelled. `worker` is the
executor's job, `q` the thread-safe queue, `getter` the thread that waits in
`q.get` and that a cancelled handler leaves behind. `CancelEarly`,
`CancelSelecting`, `CancelStreaming` and `CancelDeferred` are a cancellation at
each kind of suspension. The OpenAI chat endpoint is the one translated; the
other three generating endpoints use the same helpers in the same order.

### RaggedLedger (`mlxturbo/batch_spec.py`), RaggedRows

`RaggedLedger` has the ledger (`L`, `alive`, `valid`), the columns of a KV cache
with the position each was rotated to, the memoised mask, and the pads of the
draft cache; `Prefill`, `Join`, `Forward`, `CommitRound`, `Retire`, `Discard`
and `Compact` are the operations of `BatchSpecGenerator` and `SpecPrefillLane`
on them. `RaggedRows` is the promise: rows with a history each, which enter,
grow and leave without touching one another. The mapping gives row `b` the
tokens in its live columns (`RowsAlone`).

### BatchSpecCoordinator (`mlxturbo/batch_spec.py`)

`_drive` by steps: `Take`, `Look` (company for a lone request), `BeginStep`,
`Preempt`, `Round`, `Deliver`, `Settle`, the lane (`Admit`, `Advance`, `Join`),
the serial fallback (`Alone`, `SoloToken`, `SoloEnds`), failures and exit. A
token is the request it answers and its place in the answer, so a repeated,
missing or misdelivered token is visible after a preemption. Acceptance and
memory are choices. The settings of a request in the lane or alone are not `None`
(`RequestAssumption`), which is what an empty lane is.

### Selections, ListFacts

`Selections` has what a comprehension with a condition, an index array or a sort
of distinct numbers returns: the entries of a list at a set of places, in order.
The modules with proofs use it, and `RemoveFirst` of the community modules, in
place of `SelectSeq`, of which the provers know nothing. `InOrder` lists a finite
set of numbers upwards, which is how the places of chunk boundaries and snapshots
are stated. `ListFacts` proves what the other proof modules need of lists:
`Selection`, `RemoveFirst`, `Head` and `Tail`, prefixes, duplicates, the length of a
list without them, the choice of a best element, the multiples of a stride inside a
list and the walk over them, and induction over the numbers up to a bound in the
one form the provers can use, with a set in place of a predicate. Its last part is
the theory of the suffix automaton on which `MatchesGenuineHolds` rests (section 6),
as far as it does not depend on how `SuffixAutomaton` computes it. The vocabulary
of that part is the constant of `Vocabulary`, which `Runners` extends as well; the
other components do not use it.

### StreamShaping, ResponseChannels (`mlxturbo/server.py`)

`StreamShaping` has `ThinkingRouter` with its look-ahead buffers, phases and
budget, `SegmentAssembler`, and the callbacks that feed them. `ResponseChannels`
defines what a whole answer is owed, without a buffer: the first end marker ends
the thinking, a tool block runs to its end marker, a block that does not parse is
text. A token stands for its text; detokenizers are taken to give it out when it
is added, and the tool parser to decide by the block's tokens. `Forwarded` is what
the Chat Completions handler sends of the queue up to a stop string, `Truncated`
the cut of an answer that the Messages endpoint sends in one piece; the stop
strings are sequences of tokens, found anywhere in the text.

### SpecEngine, PlainDecode (`mlxturbo/spec.py`)

`Begin` decides what of the session is reused and takes its caches over,
`Prefill` is a chunk with its checkpoints (the last chunk split before its tail),
`FirstToken`, then rounds: `ProposeLookup`, `ProposeExtended` (a link of the MTP
head, continued by lookup) or `ProposeChain`; `Verify` forwards the window,
accepts, cuts at an end-of-sequence token, rolls back and repairs. `Publish` and
`Fail` end a call; `Rewind` is what the session selector does between calls. A
hidden state is the context it stands for, `Unknown` if the layers disagree, and
from `Unknown` anything may be said, so a cache that is off by one cannot hide.
An MTP row is a token with the hidden state before it. Drafts are any tokens:
losslessness must not rest on the quality of a draft. Sampling is abstracted to
what may be said (`Support`): greedy when it is a singleton. `PlainDecode` is
decoding token by token.

### FlashSpecEngine (`mlxturbo/spec_flash.py`)

The same promises for a model with four kinds of cache: attention (`kv`), its
indexer (`idx`), recurrent layers (`rec`) and the n-gram context (`ctx`), which
`Rollback` leaves by four rules, and the draft cache of the MTP head, primed from
a window (`PrimedRows`), filled as drafts are made (`DraftedRows`) and after a
round (`GapRows`). `PrefillGroup` and `PrefillChunk` are the two ways to prefill,
with the checkpoints each leaves; `GridKept` compares the chunks of the one with
those of the other. `Draft`, `Presync`, `Submit` and `Settle` are a round; with
`pipeline` the next round is submitted (`Ahead`) before this one is settled, and
`Unpipelined` takes it back. `knobs` is the environment of the process.

### WindowedSession, SuffixAutomaton, LookupSpec, GemmaAssistant

`WindowedSession` is a session over full and sliding-window layers, with the two
ways a forward fills a ring and with mlx_lm's `trim_prompt_cache`, which does
nothing at all when one layer does not trim. `LookupSpec` drafts from the history
through `SuffixAutomaton` (`extend`, `longest_match`, `peek_match`, `draft`
of `sam.py`), feeds no draft that could not be taken back (`SafeDraftCap`), and
publishes what the cache holds. `GemmaAssistant` drafts a block of any tokens,
verifies it, cuts a wrapped ring by hand, and publishes the end of the prompt
(`boundary`).

### Runners (`mlxturbo/runner.py`)

`build_runner` chooses one of the four runners when the model is loaded: the
initial state of `Runners`. After that the server makes the same calls of each
on the same kind of session, so one specification and one set of properties
serve for all: `CachesFollow`, and `Lossless`, which says that the running engine
implements `PlainDecode`. The variables are shared by the four modules; `gen` is
the locals of the call and differs in shape. FallbackRunner speculates on nothing
and is part of `SessionPool`; LookupSpecRunner passes sampled requests on to it.
DraftSpecRunner hands the whole call to mlx_lm and keeps no session.

### NgramStream (`mlxturbo/ngram_stream.py`)

A generation of the row cache is an index and a buffer. The MLX thread's lookup
is `Call` (take the current generation, without the lock), `Look`, `Copy` row by
row, then `Pread` and `Scatter` for what was missing; a prefetch is `Fetch`,
`PrefetchBehind` or `PrefetchHere` (which drops the generation), `Missing`,
`Ensure`/`Create`, `Lock`, and `Fill`, `Publish` under the lock. Generations are
objects on a heap, garbage is used again, and what a new buffer holds is `Junk`.
Any batch may be prefetched: a prediction need not be right. The comment at
`ngram_stream.py:780-784` says that a background prefetch is left to die with its
generation; it may also find no generation at all under the lock and raise there,
which harms nobody else (`MlxComesBack`).

### AbWorker (`tools/ab_daemon.py`, `ab_submit.py`, `biglock.sh`)

Processes and files. `FindDead`, `ClearDead`, `MakeLock`, `WriteLock` are the loop
that all of them run for the lock, each a step of its own, since a process may
be killed or overtaken in between. A worker: `Boot` (which imports `decode_ab`),
`Record` (which takes the fingerprint), `Load` (which reads the engine), `Loaded`,
then `Take`, `Run`, `Finish`, `Unlink` for a job, `RestartForCode` and
`RestartForEnv` (exec of itself) before one, `StopSeen`, `Leave`, `Exit`. A user:
`Delegate` and `DoItself` (`biglock.sh`), `Start`, `Enqueue`, `TailLog`, `Look`,
`Restart`, `GiveUpJob`, `InLine` (`ab_submit.py`), and with the lock `AskToStop`,
`Asked`, `Done`. `Edit` changes the source, `Crash` kills any process.

That only one process has the GPU is not among the properties, since the code does not
ensure it: the lock file is made first and signed next, and whoever reads it empty
removes it (`ab_daemon.py:355-362`); two that find a dead lock may remove it one after
the other, the second one a new lock; the EXIT trap of `biglock.sh` removes the lock
whoever has it by then; `biglock_release` compares pids by prefix. All of these are in
the model; pids have no digits there, so `Release` leaves it open whether the pid of
somebody else begins with the worker's. Two submitters may also both start a worker,
when neither sees a pid file; a second worker may run a job again, and its start
removes a stop file meant for the first. That race needs two workers alive and is
outside the bound of the run.

## 4. The runs

| run | question | distinct states |
|---|---|---|
| `BatchSafety` | does any order of submits, ticks, faults and cancellations lose, double or misplace an admission, overfill a batch, or lend a cache twice? | 2.1 million |
| `BatchLive` | does every admission end, and does the executor's other work get its turn? | 248,000 |
| `Sessions` | can two paths share a session, or a cache differ from its history? | 1.9 million |
| `SessionRotating` | the same for sliding-window layers: yes (finding 1) | |
| `Lifecycle` | can cancellations leak or double a lock or a slot, leave a generation uncovered, lose an event or a thread? | 294,000 |
| `RaggedRounds` | does each row of a ragged batch see its own history? | 116,000 |
| `SpecBatch` | are requests and tokens kept through preemption, joins and failures, in order, and does each request end? | 368,000 |
| `SpecDangling` | does every Future resolve? no (finding 2) | |
| `Shaping` | is the stream that of the whole answer, however it is cut, and does it end before a stop string? | 1.5 million |
| `Runners` | is each of the four speculative engines lossless, and does each cache follow what was fed, turn after turn? | 945,000 |
| `NgramRows` | does a lookup return the rows on disk, and does the MLX thread always come back, while prefetchers fill, replace and drop the cache, or fail? | 590,000 |
| `AbWorker` | is every job kept and measured on what it asks for, and does everybody return, with one process killed and one edit of the source? | 526,000 |

Bounds, and why they are enough:

* `BatchSafety`: three admissions against a batch of two and a budget that two
  of them exceed together; one of them may come back under the same name, so the
  loop ends and starts again without end. One session is enough for the order of
  its hand-over. `BatchLive` has a solo request and two pool requests that may
  share a batch.
* `Sessions`: prompts that extend, repeat, shorten and branch off one another,
  over two tokens; a pool of two slots with two batch claims and the serial
  path, so that it is full and all claimed. Histories are as long as prompt and
  answer: a conversation goes on without a bound on its turns. Two checkpoints
  are kept, so retention drops some.
* `Lifecycle`: two slots for three requests (one is refused, one waits), one lock,
  and two cancellations, which may hit one request twice (the second one during
  the deferred wait) or two requests.
* `RaggedRounds`: two rows, windows of one and two columns, two rounds between
  compactions: the first makes dead columns, the second reads past them.
  `MaxL` and `MaxRounds` bound the state; retirement empties the batch and
  starts over.
* `SpecBatch`: two requests that may share a batch and one with other settings,
  a batch of two, prompts that take two lane steps, answers of one to three
  tokens, rounds of one or two tokens. Preemption is not bounded in number.
* `Shaping`: markers of two tokens over an alphabet in which they overlap
  themselves, one another and the text, seven tokens (both markers of a block,
  text before and after, and a cut-off), chunks of one and two. The stop strings
  have two tokens, so a chunk may end within one, and one of them leaves room for
  a tool call behind it.
* `Runners`: drafts of up to two (`spec.py`, Flash-Next) and three tokens, so that
  a draft is refused or ends the answer at each place of a window; prompts that
  extend one another by nothing, one and more tokens, longer than a prefill chunk
  and than a group of two; answers of up to five tokens; a model that hesitates
  at every second position, so accepted, refused and replaced drafts all occur.
  Flash-Next runs with five settings of its environment: the pipeline off, on and
  with drafts ahead, the presynced draft, and group prefill with and without the
  pipeline. The windows of the sliding layers are 4 and 5 (full within a prompt,
  or within an answer; a draft wraps the ring) and 20 (never full).
* `NgramRows`: two rows and a cache of one slot, so a batch of two replaces a
  generation at every second row, and two daemons beside the MLX thread, so one
  may be between its check and the lock while the other has it.
* `AbWorker`: a submitter and a wrapped command, which may be of any kind and in the
  same or another environment; one process killed at any step, one edit at any
  step. One worker is alive at a time (`Workers`); it may end, be killed or start
  again as often as they let it.

Deadlock is checked where the system never stops (`Runners`, whose session always
takes another call, and `NgramRows`, whose thread always looks up again). The
other models stop when their finite set of requests is done.

## 5. Fairness

`BatchLive` and `SpecBatch` assume that the executor thread runs what is
submitted to it (`WF` on the drive loop and the jobs: a `ThreadPoolExecutor`
with one worker takes its queue in order) and that a `submit` that has put its
admission into the inbox returns (it holds no lock another thread keeps).
Nothing is assumed of arrivals, cancellations, faults, acceptance or memory.
Each tick of `BatchCoordinator` uses up tokens of a row, which is why rows end.

`Lifecycle` assumes that the event loop resumes a handler that can run, that the
executor and the `q.get` threads run, that a generation ends, and that a client
reads what it is sent or disconnects. A stream's generator is taken to be
started and, when the client leaves, closed, as Starlette does.

`NgramRows` assumes that each thread goes on (`WF` per thread), and that a thread
waiting for the lock gets it in the end, which one of two waiters always does.
Whether a prefetch is asked for, and whether it fails, is a choice.

`AbWorker` assumes that each process that is not killed goes on: its polls of
files end when they can, a job ends, and so do the waits that the code bounds
(10 minutes for memory, 30 for a worker to go, one for a worker to appear). That
an idle worker leaves is allowed, not assumed.

Two things are assumed of callbacks where liveness is concerned: `on_tokens` may raise
at any call; `on_done` does not. What the server passes puts into a queue, and after a
normal end it first finalizes the router and pushes what that gives through the
assembler (`server.py:4082-4090`): text processing that could raise like that of
`on_tokens`, so the second one is an assumption on it. It is needed. In `batch.py` an
admission has left every list when `_complete` is called (1107, 1146, 1151), so after
a raise the handler (1165) does not find it; in `batch_spec.py` it is found, but
`_complete` has marked it done before it called `on_done` (1990-1992) and returns at
once. Either way nobody would resolve the Future. `BatchSafety` does let it raise
(`NotifyRaises`): the other admissions are accounted for all the same, and nobody is
told twice. `SpecBatch` does not.

## 6. What the checks show

### Findings

1. `SessionRotating`, `server.py:1043`. After a trim the selector keeps every
   checkpoint of the session; the restore branch filters them. With FallbackRunner
   and sliding-window layers a deep checkpoint of an abandoned branch survives,
   and is restored once the new history has outgrown the window: the window
   layers then hold tokens that `processed` does not name.
2. `SpecDangling`, `batch_spec.py:2335`. The lane is cleared before its row is
   added to the batch. If joining raises, the handler, which promises "do not
   leave a Future dangling on an internal failure", finds the admission neither in
   the lane nor in the rows. `_admit_next` has a window of the same kind
   (`batch_spec.py:2313-2321`): the head has left the queue and is not yet in the
   lane while its sampler is made. That making it raises is not modelled.

Smaller disagreements met while modelling, which no run is spent on:

* `server.py:2235`: tokens held back while the thinking marker was still possible
  are all fed to the content phase, even after one of them has completed the tool
  marker. It needs a thinking marker of more tokens than the tool marker; in
  `Shaping` they are of equal length.
* `server.py:4083`: a budget that is exceeded only when the router is finalized is
  not reported to a stream, where the non-streaming answer to the same tokens says
  `length`.
* `spec_flash.py:86-87`: "two chunks of PREFILL_STEP_SIZE always cover
  PRIME_WINDOW+1 positions". The last chunk of a group prefill may be only
  `CHECKPOINT_TAIL` long, so for a window near its allowed maximum two chunks do
  not; the rows primed are then fewer, and stand for what they say (`CachesFollow`).
* `sam.py`, `draft()`: "most recent holds whenever the match exactly fills its
  automaton state". After 1 1 2 1 1 2 3 1 the match is 1, whose state it fills, and
  the place given is the third token, the most recent before it the fourth.
  `MatchesGenuine` asks for a place where the match ends, not for the latest.
* `server.py:4968-4997`: a stream may already have sent the beginning of a stop
  string that arrives in several deltas; the answer in one piece ends before it
  (`StopsKept` says "everything before it and never all of it").
* `server.py:4657-4667`, `5283-5296`: an answer in one piece with a tool call, or
  whose thinking budget ran out, is not cut at a stop string, a stream is. The
  comment at 5286 admits it for tool calls.
* `ab_daemon.py:822, 832`: lines 65-69 say that a worker whose sources have changed
  starts again, since it is better to read them anew than to measure with old ones,
  and lines 426-427 that the fingerprint is there for that. `decode_ab`, which
  the fingerprint covers (430) and which runs the job (1054), is imported before the
  fingerprint is taken, and the worker's own text is read even before. After an edit
  in between the worker has the old text under the new fingerprint, and no job makes
  it start again. `AsAsked` says of `decode_ab` what the code does: it is no older
  than the submission unless an edit fell there.
* `ab_submit.py:192-214`: results are looked for first and the job file next. A job
  that ends in between is reported as "job file vanished" (5), its result in place.

### Starvation

`batch.py:842-845` says that the coordinator holds the executor only while it has live
or pending work, "so it never starves the other things already submitted".
`OthersServed` holds when arrivals are finite, as in `BatchLive`. With arrivals that
never leave the loop without a live row it does not: `_drive` returns only when
nothing is left, so session selection and serial generations wait as long as requests
keep overlapping. Within the coordinator the solo tier waits in the same way for a
moment without pool rows. Neither is a matter of fairness of the scheduler: the code
gives no bound.

### Proved

All theorems hold for every value of the constants that the named assumptions of
the module allow: any number of requests, admissions, sessions, threads or
processes, any lengths, budgets, limits and faults. The assumptions are the types
of the constants and that names such as `None` stand for nothing else; TLC
evaluates each of them in a run. Where an invariant is not inductive, TLC checked
the strengthened one on small instances before it was proved. Each proof goes
along the same line: `Init => IInv`, one lemma per action for
`IInv /\ [Next]_vars => IInv'`, and `IInv => Inv`.

**`BatchingProofs`**, the part on `BatchCoordinator`

* `TypeCorrect`: `Spec => []TypeOK`. By itself inductive; one step per action,
  with the list operations in lemmas of their own.
* `CoResidencyHolds`: `Spec => []CoResidency`. Not inductive alone: that a new
  row fits says nothing unless `mode` tells what is live. The invariant `Tiers`
  adds that a live solo row means `mode = "solo"` and it is the only one, that a
  live pool row means `mode = "pool"`, that no row is live without a mode, that the
  pending lists hold requests of their own tier, and that the live rows are finite
  and at most `MaxBatch`. Rows that leave keep the rest
  within the budget since the condition is on pairs (`FitsFewer`).
* `OneDriverHolds`: `Spec => []OneDriver`. Inductive with the types: `Kick` and
  `Restart` append `Drive` to the executor's queue only when `active` is unset,
  and only `StartDrive` takes it out.
* `InboxServedHolds`: `Spec => []InboxServed`, by `OneDriver`: the loop clears
  `active` after it has seen an empty inbox and looks again before it is gone, and
  whoever puts into the inbox in between is still in `putting`.
* `AccountedHolds`, `ReleasedFirstHolds`, `CacheMovedHolds`, from one invariant,
  `Whereabouts`. An admission is in exactly one place (inbox, a pending list, the
  live rows, being completed) as long as its Future is pending; `HomesSound` says
  so with lists without duplicates, since a count that allowed two copies would
  survive a step that drops one of them. `ToldSound` relates `on_done` and the
  Future to the step of `_complete`, `ClaimSound` the session to who may still
  publish it, `DriveSound` what the loop holds at each `pc`.

**`RequestLifecycleProofs`** (`TypeCorrect`, `WorkerCoveredHolds`,
`AccountedHolds`, `StreamFaithfulHolds`), with `IInv` in five parts:

* `LockSound`: `STATE.lock` is taken if and only if there is one holder, which is
  a handler or an acquire that has finished and that nobody has picked up yet;
  the waiters of `asyncio.Lock` are in it once and only the first is woken. Without
  the waiters a wake-up could be given to two, and without the unpicked acquire
  `Accounted` would fail at a keepalive.
* `PlacesSound`: where a handler stands tells what it holds. A non-batched worker
  that is queued has its handler at a point from which it still waits for the
  worker; this is `WorkerCovered`, in the form that a step preserves.
* `JobsSound`: a job is in the executor's queue once.
* `SlotsSound`: the queue slots are the requests in flight, a finite set.
* `StreamSound`: what the handler has read, what the thread in `q.get` has taken,
  and what is in the queue are three consecutive pieces of what the worker
  emitted (`Flow`); nobody has broken off a stream that is still served (`Phase`);
  a terminal event is the last one and means the worker is over (`Ended`).

**`SessionPoolProofs`**

* `TypeCorrect` and `PoolSoundHolds` for all models; `CacheIsHistoryHolds` and
  `ReuseSoundHolds` under `Unrotated`: no model has sliding-window layers. For those
  the properties are false (finding 1), so the hypothesis says where the code is
  right; `Sessions` has models with and without recurrent layers and tails.
* `IInv` has a part about owners (`Owning`, `PoolBounded`, `ClaimKept`): every
  claimed session belongs to one admission, is in the pool, is not the serial
  request's; and a part about data. `SessionSound` says of a session what a
  generation on it relies on: the layers that trim have absorbed `processed`, the
  others too if they are recurrent, and as many tokens if they are
  sliding windows; every deep snapshot is of the history up to its position; the tail is
  inside the history. `RequestSound` says the same of a request's own cache and
  the part of its prompt it skips. What makes it inductive is that a rewind to
  `n` keeps all of this for the shorter history (`CutSound`, with `TrimmedSound` and
  `RestoredSound` for its two ways) and that a generation which goes on from a
  sound cache publishes a sound session (`PublishedSound`: the checkpoints of the
  prompt are of it, the ones inherited from the session are of the part it
  shares). A trim keeps all checkpoints: it is sound only because a recurrent
  layer never trims, so that a model with deep checkpoints never takes that branch
  (`TrimmedSound`); this is the step that fails for sliding windows.
* `SelectedSound`: a prompt that a selected session covers whole ends at its tail.
  This holds since `ReuseCap` lets a match reach the end of the prompt only there
  (`LcpFacts`), and it needs `Control`: a cancelled request's selection runs only
  while no other request is past its own, else it could rewind a session that is
  about to be generated on.

**`BatchSpecCoordinatorProofs`** (`OnePlaceHolds`, `AnswersWholeHolds`,
`RowsAlignedHolds`, `JoinSoundHolds`, `ArrivalOrderHolds`). `IInv` says at
each `pc` who is where (`Apart`, `Accounted`; while `_drive` delivers, the rows
before `Turn` have been answered and those behind are still owed), what each row
owes (`Aligned`: a row's history, its pending yield and what its request
was told make up one answer without gap or repetition, also across a
preemption, where the told part becomes prompt), that the batch samples with the
settings of all its rows (`Sampling`), and that waiting requests stand in the order
they arrived, preempted ones in front (`Arrived`).

**`BatchingProofs`**, the part on `RaggedLedger` (`AlignedHolds`, and the refinement
`RowsAloneHolds`: `LedgerSpec => RowsAlone`).

* Whatever is done to a row is one of five things to its columns: padded on the
  left (`PadRow`), packed to the right end (`PackRow`), written behind (`WriteRow`),
  committed in part (`CommitRow`) or made anew (`NewRow`, `PrefillRow`). Each lemma
  lists the places that are seen afterwards in ascending order (`RowFrom`, by
  `Ascending`: such a list is the only one), and says what the row then reads.
* The invariant says of each row (`RowSound`) that it sees `valid` columns, those
  at positions 1, 2, 3, ... of its own history, and also what `Aligned` does not:
  that the columns of the round in flight, which the ledger does not have yet,
  hold tokens rotated on from `valid`. Without this a commit would make columns
  seen of which nothing is known. `DraftSound` is the same for draft columns.
* The refinement takes from each step only what it does to the histories
  (`Moved`): nothing, new rows behind the old ones, at most `Width` tokens more in
  every row, or some rows gone. A round's forward, a compaction and the discarded
  batch are stutters of `RaggedRows`.

**`FlashProofs`**, the part on `NgramStream` (`TypeCorrect`, `RowsFromDiskHolds`). A lookup reads
a generation without the lock while a prefetcher writes to it. It is right because
what the index names never changes (`IndexSound`, `Keeps`: a write goes to the slot
after the last one, and `n` grows after it) and because a generation that somebody
still refers to is not used again (`FreeGenFacts`); `WriterSound` says that only one
thread writes, and that the slot it is about to publish holds the row it says.

**`AbWorkerProofs`** (`KeptHolds`, `AsAskedHolds`). `UserSound` and `QueueSound` say
that a submitted job is in the queue or has a result until its user has seen it;
`WorkerSound` that the environment, the fingerprint, the engine's sources and the
model a worker holds suit the job it has taken, through its restarts. Of the sources
`decode_ab` was imported from the invariant says nothing: they suit the job when they
are those of the fingerprint, which is all `AsAsked` claims of them. Both are kept by
a crash of any process at any step, which loses what the process holds and no file.

**`RunnersProofs` and `FlashProofs`** (`CachesFollowHolds`, `LosslessHolds`,
`GridKeptHolds`, `MatchesGenuineHolds`): the four runners, the first module with
`SpecEngine`, `LookupSpec` and `GemmaAssistant`, the second with `FlashSpecEngine` and
the composition.

* The theorems have the hypothesis `Speaks`: after every context the model has a
  next token to say, and all it may say are in the vocabulary. Nothing is assumed
  of which, so it holds of any sampler over a non-empty distribution. It is a
  hypothesis and not an assumption of the module because it ranges over all
  sequences of tokens, which TLC cannot enumerate; the instance TLC checks
  satisfies it (`MCSupport` is always a non-empty set of tokens).
* `RunnersInv` is one invariant per engine: `SpecInv`, `FlashInv`, `LookupInv`,
  `GemmaInv`. Each says of every phase of a call which tokens the caches have
  absorbed: a prefix of the prompt while it is prefilled, everything said but the
  last token between rounds, that and the whole draft while it is verified. The
  rows of the draft caches are those of the true context, in order (`RowsOf`); a
  checkpoint or a tail is that of a prefix of what its session has processed. With
  this known, each step is a step of `PlainDecode` or a stutter of it: a draft is
  emitted only as far as the model could have said it after a cache that stands for
  what is before it.
* For Flash-Next the hard part is what is in flight. A round drafted ahead is one the
  invariant keeps as `RoundAhead`: built on tokens that have been said, with caches
  that a refusal puts back to what they were. A plan under a guess is either that of
  the answer which came or it is dropped.
* `GridKept` rests on `CutsInv`, which says during a prefill that the places at
  which the prompt has been cut so far are the boundaries of what has been run: whole
  chunks from where the cache stood, the odd one before the last, the tail apart.
  Groups that run layer by layer walk the same multiples of the chunk as the plain
  prefill does; the facts on multiples and walks are in `ListFacts`.
* `MatchesGenuine` needs what a state of the automaton means. `OfText(Q, n, s)` says
  that the states `Q` are those of the text `s`: a state stands for the strings that
  end where it says, are at most as long as it and longer than its link (`Shaped`);
  a link leads to a suffix (`LinksTrue`), a transition to where the strings go on
  with its token (`EdgesTrue`), and there is one for whatever follows a string
  anywhere in the text (`EdgesFull`); where one of a state's strings ends, its
  longest one ends (`EndsWhole`); and no string is of two states (`StatesDiffer`).
  `Extended` keeps all six, with and without a split (`GrownSuffixes`, `SplitGrows`,
  `ExtendedIs`), and the ends the cursor notes on its way are places where the
  states do end (`SamMoved`, `MovedSuffixes`).
* The cursor moves before the automaton grows, so a state may be split under it.
  `Cursor` says that the match is the longest suffix which also ended earlier and
  that the cursor stands on its state, or on the one it was split from (`Twin`): that
  one has the same transitions as the clone and an end that serves as well, so the
  next step leads to the same place. From it follows that `longest_match` and
  `peek_match` are `Genuine` for any text.
* The sliding windows of `LookupSpec` and `GemmaAssistant` are in the invariant as
  what `Stands` says: a ring that has been cut is still one its next write
  understands, as the drafts of a round stop short of filling it.

### Only model-checked

* Liveness: `AllResolved`, `OthersServed`, `AllEnd`, `GetterFreed`, `Resolved`,
  `MlxComesBack`, `AllReturn`. A proof would need ENABLED and fairness, which the
  proof system does not support.
* `Routed` and `StopsKept` of `StreamShaping`: their meaning is what a fold or a
  recursive function computes over a list. Folds take an operator as a parameter,
  which no installed prover can instantiate.

## 7. Not modelled

* Numerics: logits, quantisation, kernels, masks as arrays, conversion,
  training. A hidden state or a cache is what it has absorbed; a step that rounds
  differently in another chunking is the same step here.
* Probabilities: that block verification keeps the distribution. Only what may
  and may not be said is modelled; a uniform draw of exactly 0, which would accept
  a draft of probability 0 (`spec.py:1126`), is taken not to happen. The opt-in
  FLy acceptance is lossy by design and left out.
* Uncoordinated access: processes that use the GPU without the lock
  (`_lockless_other`), the worker's tool jobs and `--stop`.
* The policies that choose how much to draft (entropy gates, moving averages,
  depth plans): they are covered by a choice of any depth within its cap.
* The fallback of `generate` for a session that covers the whole prompt without
  a tail (`spec.py:1273`, and the same in `runner.py:447-448`): the selector never
  hands over such a session (`Coverable`; `ReuseSound` of `SessionPool`). If it did,
  the fallback would feed the last token a second time, since it does not trim the
  cache.
* Wire formats, validation, detokenizers that hold back part of a character,
  metrics.
* The rest of the table in section 1 that has no module: the Responses store is
  a dictionary changed in single steps of the event loop; model resolution and
  conversion run once, alone; benchmarks and the app are not part of serving.
  Shutdown is planned (section 2).
