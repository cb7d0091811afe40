# A TLA+ development of CodeSensei

CodeSensei reviews diffs with a language model. A FastAPI process (the *API*)
and an arq process (the *worker*) share PostgreSQL and Redis; a Vue application
talks to the API over HTTP and WebSocket. This directory holds TLA+ models of
the parts whose correctness depends on the order of steps, their TLC
configurations, and proofs checked by TLAPS. Paths below are relative to
`src/backend/src/codesensei/` unless they start with `frontend/` or `specs/`.

## 1. The system

| Component | State it keeps | Operations | Talks to |
|---|---|---|---|
| Repository registry and indexing jobs (`indexing/`, `tasks/enqueue.py`) | `repositories`, `code_chunks`, arq jobs | POST /api/index, DELETE /api/repos/{id}, `index_repo_job` | PostgreSQL, arq, git, embedding provider, job stream |
| Job progress stream (`jobs_stream/`) | Redis pub/sub, arq's status and result, one handler per WebSocket | `publish`, `jobs_stream` | both jobs, the browser |
| Settings store (`settings_store/`, `config.py`, `main.py`) | `app_settings`, a key file shared by both processes, `os.environ` and caches of each | POST /api/settings, process start | providers, through the environment |
| Temporal clone cache (`review/git_temporal.py`) | clones under `/var/tmp`, one lock per source | `fetch_temporal_context` | git, review pipeline |
| Review pipeline and history (`review/`, `reviews_history/`) | `review_runs`, the providers' last usage | `review_job`, POST /api/review, history | providers, retrieval, clone cache |
| Retrieval (`indexing/retrieval.py`) | none | search per window | `code_chunks` |
| Posting (`posting/`, `frontend/src/components/PostToGitHubPanel.vue`) | the panel's `posted` and `inFlight`, a review on GitHub | POST /api/review/post, its fallback | GitHub |
| Browser pages (`frontend/src/`) | socket, polling timer, lists | `useJobStream`, `ReposPage`, `ReviewPage` | API, job stream |
| Chunking (`indexing/chunker.py`, `indexing/ast_chunker.py`, `indexing/service.py`) | none beyond one call | tree, headings, sliding window, halving | `index_repo_job` |
| Diff windows (`review/git_temporal.py`, `review/service.py`) | none | hunks to windows | retrieval, clone cache |
| Toasts, presentation, adapters, probes, application shell | little or none | single requests | |

### What is hard, and what each component must get right

* **Registry.** Handlers decide on a row they read in one transaction and act
  in a later one; a re-index clears the very columns the rollback tests; two
  passes over one repository delete all chunks but their own; jobs are retried
  after a crash, cancelled by `job_timeout`, or run after their row has gone.
  *Correct when* no chunk is stored without its repository, the index a
  repository advertises is stored as a whole and appears in one step, one job
  runs at a time, and a repository that shows "indexing" settles, which it does
  unless it is given up in one of four ways.
* **Job stream.** Pub/sub keeps nothing, and the complete frame is published
  before arq knows the result. *Correct when* the frames come in their order
  and every subscriber hears of the end.
* **Settings.** Two processes create one key file; fields are stored one
  transaction at a time; rows are read before an `await` and applied after it;
  the environment belongs to a process. *Correct when* no secret becomes
  unreadable and both processes run on what is stored.
* **Clone cache.** Lookups of one source queue on a lock while evictions take
  none; the directory's mtime is both its age and its rank for eviction.
  *Correct when* it stays bounded, only complete clones are reused, histories
  are at most an hour old and no lookup waits for ever.
* **Review pipeline.** Concurrent reviews share one provider
  whose last usage is read after another `await`; the history is pruned by a
  count and a delete in two statements; a failed prune reports a stored run as
  not stored; a repository or a run may be deleted meanwhile, and a restart runs
  a review again. *Correct when* a successful review is stored and its run can
  be opened, a failed one leaves nothing, the history is capped from its old
  end, and a run does not carry another review's usage.
* **Chunking.** Three chunkers and a recursive halving share the lines of a
  file; the tree chunker keeps one byte position through gaps, merged
  declarations and recursion, gives up half-way when anything raises, and each
  of them shifts line numbers of its own. *Correct when* every line with text
  is indexed, the tree chunker indexes none twice, the lines stored with a
  piece are those its text is on, and the halving ends.
* **Posting.** The endpoint may call GitHub twice, a call that times out may
  have created the review, an answer may be lost, and dismissing a finding
  replaces what the panel shows while a POST is under way. *Correct when* an
  answer says what is on GitHub and nothing is posted twice unless the reviewer
  was invited to try again.
* **Browser.** One WebSocket after another goes through one variable; polling
  starts and stops with them; lists are answered late, in another order or not
  at all. *Correct when* the page listens to one job, has a live channel
  whenever it holds that it need not poll, and shows the end of what it polls for.
* **Retrieval.** A search looks at its repository once and then reads the index
  in several snapshots, while the index is replaced or deleted and the worker
  restarted with another embedding model. *Correct when* it compares no vectors
  of two models and the best chunks that fit the budget go into the prompt.
* **Diff windows.** Hunks may touch, nest, repeat or come in any order.
  *Correct when* the windows hold the lines they should, none twice, and a finding
  gets the history of its own lines.

`PROJECT.json` lists the hazards line by line, with the property that covers
each or the reason why none does yet.

## 2. Modules

| Module | Models | Kind |
|---|---|---|
| `RepoIndexing` | the two tables, POST and DELETE handlers, indexing jobs | state machine |
| `RepoIndexingProps` | what they have to get right | properties |
| `RepoLifecycle` | the abstract registry: absent, indexing, ready, failed or stuck, and an index replaced as a whole | specification |
| `RepoIndexing_proofs` | invariants of `RepoIndexing` for all constants | proofs |
| `ReviewContext` | one review's search and line windows, over a repository that changes | state machine and properties |
| `ReviewContext_proofs` | invariants of `ReviewContext` for all constants | proofs |
| `JobStream` | the worker's frames, arq's status, the WebSocket handlers | state machine and properties |
| `SettingsStore` | key file, rows, both processes, POST /api/settings | state machine and properties |
| `SettingsStore_proofs` | invariants of `SettingsStore` for all constants | proofs |
| `TemporalCache` | lookups over the clones on disk | state machine and properties |
| `TemporalCache_proofs` | invariants of `TemporalCache` for all constants | proofs |
| `ReviewPipeline` | reviews in the worker, the provider they share, the history they store and prune | state machine and properties |
| `ReviewPipeline_proofs` | invariants of `ReviewPipeline` for all constants | proofs |
| `Chunking` | one file on its way to the pieces that are embedded | state machine and properties |
| `Chunking_proofs` | invariants of `Chunking` for all constants | proofs |
| `Posting` | the panel, POST /api/review/post and the pull request | state machine and properties |
| `Posting_proofs` | invariants of `Posting` for all constants | proofs |
| `RepoPage` | the repositories page, its WebSockets, timer and lists | state machine and properties |
| `ProgressChannel_proofs` | invariants of `JobStream` and of `RepoPage`, the two ends of the channel, for all constants | proofs |
| `MC...` | each of the nine for TLC | instances |

### RepoIndexing

One action stands for what happens between two `await`s: a committed
transaction or a queue call. `row` is the source's row (`source` is UNIQUE, so
one source is enough), `chunks` the committed chunk rows, `post`, `del` and
`job` the handlers and jobs with what each has read. A POST names the row it
creates and the job it enqueues. All chunks of one pass are one element, and
`chunk_count` is the set it counts, so "counts exactly what is stored" can be
said. `_register_async` is `PostCreate`/`PostFound` then `PostMark`,
`enqueue_index_repo` is `PostEnqueue`/`PostEnqueueFails`/`PostNoPool`,
`_delete_if_pristine` is `PostRollback` then `PostDrop`, `delete_repo` is
`DelRead` then `DelExec`, `_fill_repo` is `JobBuild` ... `JobCommit`, with the
INSERT, the DELETE of the complement and the UPDATE of `replace_chunks` as
statements of one transaction. PostgreSQL appears as what the code relies on:
READ COMMITTED snapshots per statement, the foreign key's lock, cascades, and
the deadlock that an empty pass and a cascade can form. A POST that ends after its
row is committed and before anything was enqueued answers "unreachable"
(`PostNoPool`, a JobError) or is "cut" (`PostCrash`), and a job that ends without
stamping its row is "dead"; `RepoLifecycle` calls a row "stuck" when one of these is
all there is behind it (`Abandon`).

### JobStream

`job` is the worker's side and what arq stores; `conn` the handlers with the
buffer of their subscription and the frames sent. `JobPublish` and `JobFinish`
are two steps because the job publishes its complete frame before it returns.
A handler that cannot reach Redis closes with 1011 until its lookup is done
(`ConnRefused`); after that nothing catches the error, and the socket is dropped
(`ConnBreaks`).

### SettingsStore

`resolve_from_file` is `KeyRead`, `KeyMake`, `KeyWrite`, `KeyReread`;
`post_settings` is `PostCheck`, one `PostWrite` per field, `PostLoad`,
`PostApply`. A stored value is the POST that wrote it and a key is the process
that generated it; `proc[s].master` is the key inside the cached settings,
which `PostApply` empties. A `MASTER_KEY` in the environment is left out, since
it touches no key file. An error in the middle of a POST puts the API in
"behind", a state that only the properties distinguish from "up". The volume of the
key file is assumed to work: a directory or a file that cannot be made there
(`master_key.py:29-31`, `47-51`) is not modelled.

### TemporalCache

`recent` orders the directories by mtime, `dir` says whether a clone is complete
and when it was touched. The lock is held from `CloneBegins` or `FetchBegins` to
the matching end; `Log` runs without it. The eviction after a clone is part of
`CloneEnds`, since nothing on the event loop comes between; but another lookup's
git runs in a process of its own, and when it fails and removes its directory
while the eviction reads the ages, `p.stat()` raises and nothing is evicted
(`EvictionRaises`). Lookups last seconds and ages count hours, so `Tick` is
disabled while a lookup runs.

### ReviewPipeline

A review takes one step per `await` that lets another coroutine, another
process or a user touch what it shares: the provider's last usage, the
repository, `review_runs`. `_run_chat` is `StartJob` ... `ParseAnswer`,
`_persist_run` is `InsertRun` ... `DropRuns` with `PersistFails` for what it
catches, `review_job`'s two outcomes are `Fail` and `TellBrowser`. An answer is
its number, so "whose usage" can be said; a run's id is its `created_at`, which
orders the history. `prune_to_cap` is three steps: the count, the rows that the
DELETE's inner SELECT chooses, and their deletion. The git history
(`TemporalCache`), the indexing of the repository (`RepoIndexing`) and the
stream's frames (`JobStream`) enter as outcomes.

`RepoIdTarget` is the table that `review_runs.repo_id` refers to in the ORM. The
code says "repos": the run `review_unmapped` has this instance and refutes
`SuccessIsStored`. With it no review is stored, and little else could be said
about persistence. So the run `review_faults` has "repositories", the table that
exists and to which the database's own constraint points, and asks there what the
rest of the pipeline does; it does not ask for `SuccessIsStored`.

### ReviewContext

`Check`, `Refuse`, `Embed`, `Ask` (once per query, each on what is committed
then), `Trim` (once per candidate) and `EndSearch` are `RetrievalService.search`;
`MakeWindows` is `_extract_rhs_hunks` with `collapse_diff_to_windows`,
`FetchHistory` the outcome of the lookups (`pool`, the places of the windows
that got a history), `History` what `_attach_temporal_context` gives to a
finding. `Sorted` is the order in which the ranges are merged. A pass of `RepoIndexing` is one
step (`Swap`) and a lookup of `TemporalCache` one choice. `DatabaseFails` is a SELECT that
raises, in the search or in `_resolve_repo_source`, which ends the review. `PostReindex`,
`Swap`,
`Delete` and `Restart` may come between any two steps of the review. A pair of
provider and model is one value, and which chunks a query finds near is any
choice, since nothing depends on the distances but their order.

### Chunking

A file is its lines with the tokens each costs and the declarations of its
syntax tree; byte offsets become places, two per line (the text, and the newline
that ends it), so that `prev_end_byte` and the line arithmetic of the code keep
their off-by-ones. `Dispatch` is `chunk_repo` and
`_dispatch_chunker_with_mode`; `TreeStep` is one turn of the loop of
`_chunk_subtree` (`SkipGap`, `Descend`, `EmitLeaf`, `Merge`) or its end
(`Return`), with its nested calls on the stack `nodes`; `TreeFails` is the
`except` of `chunk_with_treesitter` and may strike at any point. `Section` and
`SlideWindow` are the loops of `chunk_markdown` and `chunk_sliding`; `KeepChunk`
and `SplitChunk` are `_enforce_chunk_token_cap`, `Split` one call of
`_split_chunk_recursive`, whose pending calls are the stack `calls`. `FallBack` is
what follows a tree chunker that gives up: sections for a markdown file, unless
it raised outside its own `except`, and a sliding window for any other. `SplitEnds`
is `splitlines()`, which sees no line after a last newline; that it also breaks at
form feeds and the like is left out (lines are separated by newlines).
`EncodeRaises` is the encoder refusing text that spells one of its special
tokens, which nothing catches. The walk
over the directory and the parser are not modelled: files are what survives the
filters, trees are any declarations that nest.

### Posting

`panel` is what `PostToGitHubPanel.vue` is shown (an object: every dismissal
and restoration makes another one), `inFlight` and `posted`; `request` a POST
from `submit` to what the panel hears; `github` the reviews on the pull request.
`FirstCall` and `FallBack` are the calls of `post_review_to_github`, `Finish` the
answer, `TimeOut` httpx giving up; `GitHubStep` lets GitHub accept or decline a
call at any time, also after the caller has gone, and accept it with an answer that
is not JSON or names no review ("garbled"), which `Finish` refuses. `Show` is the watch that
resets the panel. `Inline` and `Body` are the mapper's split at the cap.

### RepoPage

An action is a browser event with the watchers it sets off. `Follow` and
`Unfollow` are the assignments to `activeJobId` with the watch in
`useJobStream` (`CloseSocket`, `openSocket`), `SetFallback` is
`fallbackToPolling` with the watch that starts and stops the timer, `lists` the
list requests in flight, each with the job that `handleReindex` will follow once
it is answered. A WebSocket goes from connecting through open to closed, with
"failing" and "closing" for the time between `close()` and its event, because
`onclose` empties the variable whichever socket is in it by then. The server
enters as two facts: a repository settles before its job's complete frame is
sent, and the stream closes after it.

## 3. Runs

All bounds are constants of the configurations. `CHECK_DEADLOCK FALSE` is
given everywhere because every run ends: the requests are finitely many and
nothing is left to do after the last.

| Run | Asks | Bounds and why they are enough |
|---|---|---|
| `indexing_faults` | `TypeOK`, `NoStrayChunks`, `AdvertisedIndexStored`, `ChunksAppearWithTheirRow`, under overlap and every fault | two POSTs and one DELETE, two tries per job: up to four passes over a row that can be deleted and created again, which covers every pair of concurrent steps |
| `indexing_operator` | one operator: `OneInFlight`, `IndexingIsOwed`, `IndexingSettles`, `ImplementsLifecycle`, with a queue that cannot be reached or refuses, an API that stops, jobs that are cancelled or raise | three POSTs (create, re-index, re-index after a rollback or a deletion) and two DELETEs, one try per job (a second one needs a killed worker, which is left out); every way to give a row up, at every place in that sequence |
| `indexing_rollback` | refutes `RollbackDropsNoIndex` when a re-index cannot be enqueued | one operator |
| `stream_faults` | `TypeOK`, `FrameOrder`, `QueuedSubscriberMissesNothing`, `QueuedSubscriberEnds`, all faults | one connection (handlers share nothing), two tries, two progress frames |
| `settings_faults` | `TypeOK`, `SecretsStayReadable`, `ApiRunsOnStoredSettings`, crashes and database errors | two POSTs, one plain and one secret field, each process started twice: a key file that is found, made, raced for or left empty |
| `temporal_faults` | `TypeOK`, `CacheBounded`, `HalfClonesAreBeingMade`, `LookupsEnd`, git failures, an eviction that raises and a worker that stops | three lookups over three sources, a cap of one (for five) so that every clone can evict, two ticks so that a clone can become stale |
| `review_faults` | `TypeOK`, `FailureLeavesNoRun`, `ToldRunCanBeOpened`, `CapHolds`, `NoEarlierUsage`, `PruneTakesOldest`, with one fault or restart, one deleted run and a deleted repository | two reviews and a full history of two (for 1000): every pair of steps of two reviews, two prunes with stale counts, a run that is pruned by the other review before its own is done |
| `review_unmapped` | refutes `SuccessIsStored` | the same, with the foreign key of this commit |
| `review_context` | `TypeOK`, `ContextIsComparable`, `ContextIsTheBest`, `FindingsGetTheirHistory`, with re-indexing, deletion, database errors and restarts | two models, two passes, two queries of at most two of three chunks (costs 1, 2, 3 over a budget of 3: every way to fit or not), two scores (ties); every choice of up to three hunks on lines 1 to 10, with pure deletions, for windows of three lines, two windows and a distance of two: hunks that nest, touch, nearly meet or do not, windows that are cut, and a third that is dropped |
| `chunking_files` | `TypeOK`, `EveryLineIndexed`, `TextOnce`, `LinesNameText`, `HalvingEnds` | every file of four lines (five without a grammar) whose lines are blank, within the target of the tree chunker or over the cap; every nesting of up to three declarations, every choice of headings; windows of three lines that overlap by one, sections of at most two: every branch meets every other, gaps of all kinds, two levels of recursion, a sliding section between two others, halves of one line; a recursion limit of five, beyond any halving of four lines that ends |
| `posting_faults` | `TypeOK`, `AnswersAreTrue`, `NoSilentDouble`, time-outs, lost and garbled answers | two located findings over a cap of one, one of them dismissed at first; two objects, three POSTs of two calls each: a double click, a retry, and a late answer told to another object |
| `repos_page` | `TypeOK`, `FollowsOneChannel`, `PollingCatchesUp`, with refused and cut sockets, failed lists and lists out of order | one repository, three jobs (a socket closed while connecting, its successor, and the one after it), two lists in flight |

### What the refuted properties show

1. **A rollback that drops an index.** When a re-index cannot be enqueued,
   `_delete_if_pristine` sees the columns that the request has just cleared and
   deletes the old repository with its chunks (`indexing/service.py:304`).
2. **No review is stored.** `ReviewRun.repo_id` is a `ForeignKey("repos.id")`
   (`reviews_history/models.py:47`), and since migration 007 no mapped class has
   that table. The flush of the first INSERT raises, `_persist_run` logs it and
   returns None, and the review page shows an error instead of the review
   (`frontend/src/pages/ReviewPage.vue:72`), although
   `specs/009-history-and-reports/spec.md:78` wants every run stored. Every test
   replaces `_persist_run` or the store. `LostOnlyByTheForeignKey` proves that
   nothing else makes a review lose its run while the database works and its
   repository is there, and `NeverStored` that at this commit all do.

### What holds under a condition only

Two properties are checked for an operator who waits for each answer and do not
hold when requests overlap, which setting `Overlapping` to TRUE shows: two POSTs
that read a settled row both enqueue a job (`OneInFlight`,
`indexing/service.py:285`), and of two POSTs that store settings the one that
read the rows first may apply them last (`ApiRunsOnStoredSettings`,
`settings_store/runtime.py:44`). What holds under overlap is checked with it.

`ToldRunCanBeOpened` and `PruneTakesOldest` hold as long as no transaction stays
open while a prune takes a run younger than its own (`review/service.py:150`,
`reviews_history/store.py:124`). It commits an old row late, and either the
next prune takes it before the browser opens it, or it stays beside younger ones
that are gone. Two reviews at a time cannot do this; three can, if two prunes
count the same excess and each deletes it (see `NoRunIsOvertaken` below).

`IndexingIsOwed`, `IndexingSettles` and `ImplementsLifecycle` make an exception
for a row that the code gives up, which shows "indexing" for ever, while POST and
DELETE both answer 409 (`indexing/service.py:222`, `285`). The run
`indexing_operator` and `OutcomeIsOwed` show that there are just these ways to
one, for one operator and workers that are not killed:

* The queue cannot be reached. `enqueue_index_repo` raises a JobError, which
  `dispatch` does not catch (`indexing/service.py:199`): the POST answers "queue
  unavailable", and nothing is rolled back. `specs/005-rag-indexing/spec.md:118`,
  FR-015, and its scenario at line 60 rule that row out.
* The API stops after it has registered the row and before it has enqueued the job.
* The job is cancelled by `job_timeout` or raises something other than an
  `IndexError`, such as the RecursionError and the ValueError of `Chunking`:
  nothing is stamped (`indexing/service.py:265`).

Where workers are killed there is one more, a job without tries left.

`QueuedSubscriberEnds` is about a client that subscribes while the job is
queued. One that subscribes between the complete frame and arq's `finish_job` is
told "running" and waits for a frame that has gone (`jobs_stream/router.py:106`).

`FollowsOneChannel` and `PollingCatchesUp` hold until an `onclose` empties the
variable of the WebSocket after it (`useJobStream.ts:62`, remembered as
`orphaned`), which takes two jobs that overlap. After that two channels may be
open at once, or the page may be left with neither a channel nor polling. They
say nothing of a page that has stopped polling, either: a list that was asked for
earlier and answered last, or a failed one, leaves "indexing" on the page after
the end of its job.

`FollowsOneChannel` says that there is a channel while `fallbackToPolling` is FALSE,
not that there is polling while it is TRUE. It starts TRUE, so a first WebSocket
that is refused changes nothing, the watch of `ReposPage.vue:62-70` does not fire,
and the page neither polls nor listens, although `specs/013-mvp-closure/spec.md:88`,
FR-012, asks for polling when "the real-time channel cannot be established". In the
other direction, a WebSocket closed while connecting reports its failure after the
next one has opened, so that the page polls beside an open channel (`spec.md:89`,
FR-013).

`CacheBounded` allows the clones being made beyond the cap, because
`_evict_if_needed` runs after the clone (`review/git_temporal.py:196`), where
`specs/008-git-temporal-analysis/spec.md:92`, FR-016, allows five "at any time" and
wants the eviction "before a new clone is materialised". After an eviction that
raised the cache stays over its cap until the next clone evicts.

`LinesNameText` lets a piece begin with a newline whose line it does not otherwise
hold. After a declaration a gap begins with the newline that ends it, and its first
line is therefore the declaration's last (`indexing/ast_chunker.py:274`), although
`specs/015-ast-chunker/contracts/ast_chunker_module.md:136` says that adjacent
chunks "NEVER share start/end lines".

`HalvingEnds` excepts a line that is over the token cap by itself. A chunk of
several lines that has one is halved down to that line; half of one line is that
line, so `_split_chunk_recursive` calls itself until Python stops it
(`indexing/service.py:155`), whereas its caller promises that "a chunk's lines are
sliced into halves until each half fits the cap" (line 107). The RecursionError is no
`IndexError`, so the job ends without stamping its row. Only a chunk that is one
line to begin with is let through.

`ContextIsTheBest` asks that nothing in the prompt displaced a better chunk. It leaves
open what becomes of the chunks below the first that does not fit:
`specs/005-rag-indexing/spec.md:124`, FR-018, and step 5 of
`contracts/retrieval_algorithm.md` drop them, while the code passes over that one and
goes on to lower scores (`indexing/retrieval.py:230`). Both satisfy it.

`NoSilentDouble` makes an exception for an object replaced under a POST.
Dismissing or restoring a finding resets `posted` and `inFlight`, so the same
loaded review can be posted again (`specs/006-pr-review-posting/spec.md:95`,
FR-019, forbids it). `AnswersAreTrue` says what the review behind a receipt lacks:
nothing without a fallback, and after one exactly the findings that had stood
inline. `post_review_to_github` repeats the body of the first call
(`posting/service.py:99`), so they are posted nowhere, where `spec.md:110`, SC-003,
wants them "inside the review body ... after the 422 fallback". Both properties
except a garbled answer: for a 200 or 201 that is not JSON, or lacks a number or a
URL, the service answers with a rejection that offers no retry, or with a plain 500
(`posting/service.py:116-130`, `posting/client.py:69-72`), although the review is
there, and a second click posts it again.

### Observations without a run

* A search whose index is replaced between two of its queries mixes chunks of the
  old and the new index, which may repeat the same code
  (`indexing/retrieval.py:190`; `review_context` reaches such states, and they
  satisfy its properties).
* While a repository is indexed again, reviews of it are refused, because POST
  clears `indexed_at` (`indexing/service.py:294`) and the search asks for it,
  although its old chunks stay queryable as `specs/005-rag-indexing/spec.md:116`,
  FR-013, promises.
* The last hunk of a file is read up to the next file's first hunk
  (`indexing/retrieval.py:70`), so a hunk that only deletes asks a query made of
  the next file's headers; the docstring says that it contributes nothing.
* The budget of two seconds for lookups is never enforced: it is tested between
  creations of tasks, with no `await` in between (`review/git_temporal.py:430`).
* Reviews run in the worker, which never applies the stored settings: only the
  API does (`tasks/worker.py:19`, `main.py:52`).
* Each use of a clone resets the age after which it would be fetched
  (`review/git_temporal.py:214`), so that a clone in steady use is never fetched
  and the hour of `specs/008-git-temporal-analysis/spec.md:125` starts again
  every time.
* A process that stops between creating and writing the key file leaves it
  empty, and every later start finds it existing and empty: secrets stay locked
  (never unreadable) until the file is removed.
* A worker that stops while cloning leaves a directory that later lookups reuse
  as a clone; `HalfClonesAreBeingMade` shows that this is the only way to one.
* A review may be stored with the usage of a later answer, which another review
  got while this one awaited the publication of "parsing"
  (`review/service.py:250`), although
  `specs/012-tokens-cost-estimate/data-model.md:24` calls that impossible; and two
  prunes that count before either deletes may remove more than the overflow.
* The halving may embed an empty piece: blank lines cut off from their text.

### Fairness

`RepoIndexing`, `JobStream`, `SettingsStore` and `TemporalCache` assume weak
fairness of the steps of handlers and jobs that have begun (an event loop
resumes what it has started; git and HTTP calls have timeouts) and of the
worker taking queued jobs (arq polls). No request, fault, crash, clock tick or
client action is assumed to happen. Weak fairness is enough for the lock of
`TemporalCache` because lookups are finitely many. `RepoPage` assumes the same of
the browser's handlers and timer, that a WebSocket opens or fails, that a job ends
and its stream closes, and (strong fairness) that not every list fails for ever;
`PollingCatchesUp` needs the last one, since a page whose lists all fail shows
what it has. `ReviewPipeline`, `ReviewContext`, `Chunking` and `Posting` state
safety only and assume no fairness.

## 4. Proofs

`tlapm` checks every theorem for all values of the constants under the named
ASSUMEs of the modules (sets of requests of any size, any faults, any
`max_tries`, any number of starts); TLC evaluates those assumptions in each run.

**`RepoIndexing_proofs`.** None of the properties is inductive by itself:
whether a commit leaves stray chunks or a dangling count depends on what its
transaction holds. `IInv` adds that. A transaction that has inserted chunks
holds its own pass and its row cannot go away, by the foreign key's lock
(`OpenInserts`); what it dooms is of its own repository, so a commit over a row
that has been replaced disturbs nothing (`OpenDeletes`); an open pass is not
stored yet, because a retry has another number (`PassesAreNew`, `QueuedOnce`);
and handlers name a row (`HandlersKnowTheirRow`). `InitialStates` and
`Invariance` establish `IInv`; `TypeCorrect`, `ChunksHaveTheirRow`,
`AdvertisedIsStored` and, as an action property, `SwapIsAtomic` follow.

The second part of the module is about one operator (`~Overlapping`) and workers
that are not killed (`"crash" \notin Faults`: arq runs a killed job again, after
it has settled its row too). `OneInv` says that requests take turns
(`OneHandler`), that until a POST has queued its job nothing changes what it read
(`PostsHoldTheirRow`), that a job in flight for the row means that the row shows
"indexing" and nobody is about to queue another (`FlightsArePending`,
`OneLiveJob`), and that ids are given once (`IdsAreFresh`). `JobSideEffect` says
once what a step of a job can do to all this. `OneJobInFlight` follows. `OwedInv` adds
that a handler that has answered is done (`AnsweredIsDone`), that POST and DELETE only
go on over settled rows (`MarksSettledRows`, `DeletesSettledRows`) and that a job
that is over has settled its row (`OverJobsSettled`), from which `OwedInvariance` and
`OutcomeIsOwed`; a row that was given up stays so (`GivenUpStays`, `StuckStays`). With
`SwapIsWhole`, what the job of the row deletes is all that is stored, every step maps
to one of `RepoLifecycle` or to a stutter: `StepsOfTheLifecycle`. The hypotheses are
weaker than the bounds of the run `indexing_operator` (any fault but `crash`), and
neither can be dropped: with overlapping requests or a killed worker two jobs
can be in flight.

**`SettingsStore_proofs`.** `KeyInv` says that the key file is written once:
it is empty while its one creator has yet to write (`OneCreator`), a key that a
process holds is the one in the file (`HeldIsInFile`), and where a secret is
stored or about to be, the API has that key (`SecretsHaveKey`). `ProcStep`
treats all steps that leave the file and the rows alone at once.
`TypeCorrect` and `SecretsReadable` follow for overlapping POSTs too.
`StepInv` adds that what was read and not yet applied is what is stored, which
needs one POST at a time: `ApiFollowsStore` has `~Overlapping` as its
hypothesis, which cannot be dropped.

**`ReviewPipeline_proofs`.** `PipeInv` says of each review why it may report
what it reports (`JobInv`): its ids were given out (`Typed`); one that ended
well has a run unless something excuses it (`Stored`); a run of its own puts it
after its commit (`Left`); while it is about to read the provider's usage, that
usage is its own answer's or a later one's (`Counted`); and without a mapped
table it never comes to have a row (`Unstored`). `Frame` shows once for all that
a step of somebody else, who only moves counters on and takes rows away, leaves
this as it was. From it follow `TypeCorrect`, `LostOnlyByTheForeignKey`,
`FailureIsClean`, `UsageIsNotStale`, and `NeverStored`: with the foreign key as
this commit declares it, no review is ever stored.

The second part of the module is about the history that reviews share. Only six
kinds of steps touch it (`StepKinds`); the others are `Calm`. `CapInv`, for
`CapIsKept`, counts: if the table is over the cap, somebody who has still to
count or delete knows of all of the excess. The last to commit counts last, so
its count covers every row before it, however old the other counts are. That
`n` ids have `n` oldest ones (`IdsCount`, `OldestLeaves`) is an induction over
the counted set.

`ToldPart`, for `ToldRunsOpen` and `PrunesTakeOldest`, says that what a prune has
picked is closed towards older rows (`OldestClosed`, `DoomedStep`) and that an id
given out is stored, deleted, or past. This needs `NoRunIsOvertaken`: no prune
has picked a row younger than one whose transaction is still open. Otherwise the
open one commits an old row next to younger ones that remain, or finds none
older. It is a hypothesis about behaviours, not constants, and it can fail: with
three reviews, two of them prune by counts taken before either deleted, each
takes the excess again, and together they take a row younger than that of the
third, which has inserted and not committed. (TLC finds it with `Jobs` of three
over a `Cap` of two or three, without a fault.) Under the code's cap of 1000 it
takes a transaction that stays open while up to a thousand reviews commit.
`TwoJobsAreEnough` discharges the hypothesis where it can be: with two reviews and
fewer deletions than `Cap`, the setting of the run `review_faults`, there are not
enough rows for a prune to overtake (`NeverOvertaken`), so both properties hold
unconditionally.

**`Posting_proofs`.** `InlineWithinCap` counts: each inline comment has a rank
of its own among the located findings, none above the cap, so there are at most
as many. `PostInv` ties the three parties together. `Handled` says what calls a
handler in a given state has made and with which statuses it may answer;
`Accepted` that GitHub has a review exactly for each call it accepted; `Told` and
`InTurn` that the panel's requests go out in order, `Uncrossed` that it sends one
only after having heard of all earlier ones, none with a receipt. `NewCall`,
`EndpointStep` and `GitHubAnswers` reduce the steps of the endpoint and of GitHub
to one shape (`Advances`), so that each part of the invariant is preserved once.
`TypeCorrect`, `AnswersHold` and `DoublesAreNotSilent` follow, for any review, any
cap and any number of requests and objects, with the exceptions that the properties
name.

**`ProgressChannel_proofs`** is about both ends of the channel, one after the other.
On the server's side `StreamInv` says what a handler has sent by where it
stands (`Ordered`), and that one which saw its job queued holds the complete
frame once the subscribers were told (`Hears`); `WorkerInv` ties what they were
told to the state of the job. `StreamTypes`,
`FrameOrderHolds` and `MissesNothing` follow for any number of connections, tries
and progress frames. On the page's side `SocketInv` says that, unless a WebSocket
was orphaned, the variable of the composable holds the only one that can still
deliver, and a page without a job has none. `PageTypes` and `OneChannel` follow; that
the page polls when it has no channel is neither claimed nor true.

**`TemporalCache_proofs`.** `CacheInv` is `TypeOK`, who holds which lock
(`LocksHeld`), `HalfClonesAreBeingMade` and a bound that is inductive (`Bounded`):
it counts the directories that are being made, not the lookups that make them,
since an eviction by another lookup may have taken the directory of one, and with
them those after whose clone the eviction raised.
`TypeCorrect`, `CacheIsBounded` and `HalfClonesAreKnown` follow.

**`ReviewContext_proofs`.** The loops of the code are folds, and the community
modules define a fold as a function on finite sets that CHOOSE picks. So each
proof first shows that such a function exists and that its value is the one the
loop leaves (`Recursion`), by induction on the size of the set. The library's
induction theorems take an operator as parameter; `LeastNatural` replaces them: a
set of counterexamples in Nat has a least element, because `<` is well-founded.
With it the tokens of a selection are sums (`TokensAreSums`), the sorted ranges
exist and are unique up to what matters (`SortedFacts`), and the merging loop
keeps `Gathers` (`MergeLoop`): the windows so far are apart by more than `NearBy`,
each begins and ends with a touched line of its own, none has a gap longer than
`NearBy` inside, and together they hold the ranges seen. `ContextInv` has four
parts beside the types. `IndexInv`: chunks in the repository, and those already
compared, have the model that the search checked. `SearchInv` and `TrimInv`: how
far the search has come, that what was selected scores at least what is left, and
that what was passed over did not fit (`TrimmedExactly`). `WindowInv`: the windows
are those of the diff. `ContextTypes`, `OneModel` and `BestWithinBudget` follow.
For `HistoryOfTheLine`, `WindowsBegin`, `RankOfWindow` and `ReachOfWindow`
characterise the windows by touched lines alone, as the property does, and
`HoldingWindows` puts them together. `NearBy` is assumed positive, as the 5 in
`collapse_diff_to_windows` is: with zero, every line of a hunk would begin a
window in the property's terms.

**`Chunking_proofs`.** `ChunkInv` has a part for each phase, which says what the
chunker has made of the text behind its position. For the tree chunker
(`Growing`): the text before `pos` up to the last flush is in chunks, in order and
without overlap (`Made`), what is pending continues it, and the stack of calls
nests as the declarations do (`Nested`), so that a gap, a merged declaration or a
nested call each extend the same prefix. The sections, the sliding windows and the
halves have theirs (`Sectioned`, `Slid`, `Halved`). `EveryLineIsIndexed`,
`TextIsOnce` and `LinesAreNamedRight` follow for files of any length, any nesting of
declarations and any cost per line: what costs add up to is opaque to these three.

`ChunkingTypes` has to open it. That the pending declarations stay within the target
compares sums of costs, so it is first shown that a sum over the lines of a stretch
is a number: the fold of the library chooses a function on the subsets of the
lines, which a least-number argument on the size of the subset shows to exist
and to be one (`SumExists`, `SumIsNatural`, `TokensAreNatural`).
`HalvingStopsAtOverlongLines` assumes that the recursion limit allows as many halvings
as the longest file has (`InTime` bounds the lines left at each depth), for which
Python's limit of a thousand calls is ample. `HalvingInv` says that a pending call
at depth d has as few lines as that bound allows; at the last depth it has one, so
that only a line that is over the cap by itself is halved further.
`ShortLinesAreHalvedInTime` is its corollary for files that have none.

**Only model-checked:** liveness (`IndexingSettles`, `QueuedSubscriberEnds`,
`LookupsEnd`, `PollingCatchesUp`) and, with fairness in it, `ImplementsLifecycle`,
since TLAPS does not reason about ENABLED here (its safety part is
`StepsOfTheLifecycle`).

## 5. Not modelled

The text of chunks, embeddings, diffs and findings; logging and wording; wire
formats beyond the kinds of frames; the HTTP calls of adapters and probes,
which enter as outcomes. Presentation, adapters, probes, source acquisition
and the application shell have no behaviour over time of their own.

Of the components that are modelled: the event (COMMENT, REQUEST_CHANGES), the
wording of bullets and the countdown of a rate limit in Posting, which disables
one of the three controls that call `submit`; the pull request's URL, which the
reviewer may edit after the review (another URL mounts a fresh panel); the walk
over the directory with its ignore rules in Chunking; leaving the repositories
page, whose socket stays open then, because the watcher that would close it has
been stopped; the review page's use of the same stream, which has no polling to
fall back to.

## 6. Plan

1. **RepoPage**: leaving the page, and the review page, whose stream has no
   polling to fall back to.
2. **Toasts**: the queue and its timers.
3. **Proofs**: a condition for `NoRunIsOvertaken` weaker than two reviews. What
   prunes that overlap may still take is bounded by what each has counted, so
   `Cardinality(runs)` and the excess of all pending prunes together give a lower
   bound on what the history keeps, from which it would follow that a short
   transaction is never overtaken.
