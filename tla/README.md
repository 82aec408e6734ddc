# A TLA+ model of EVA's stateful core

EVA (`nextcloud-ai`) is a Nextcloud app: chat with tools, an index of a user's
files, mail and Talk, and retrieval over it. The repository has 330 PHP files under
`lib/` and a Vue frontend under `src/`. Much of it is input and output: calls to
models, text extraction, formatting. What can go wrong without a unit test noticing
is the part that keeps state in several places and is advanced by actors that run at
the same time: on the server cron jobs, web requests and event listeners over SQL
tables, app values and a remote vector store; in the browser tabs, timers and answers
that arrive late. This directory models that part, checks it with TLC and proves the
most important of it with TLAPS.

Paths below are relative to the repository's root. "Process" means a PHP process
(a web request, a cron tick or an `occ` command), "page" a tab of the browser.

## 1. Inventory

### Server

| Component | State | Operations | Talks to | Modelled in |
|---|---|---|---|---|
| Vector outbox (`lib/Db/VectorOutboxRepository.php`) | `eva_ai_vec_outbox`: intents with state, attempts, lease, token | enqueue, claim (select + compare-and-swap), complete, fail, supersede, defer, retry | every SQL writer of chunks; both vector workers; administrators | `VectorOutbox` |
| Vector delivery (`lib/Vector/*Worker.php`, `QdrantVectorStore.php`, `lib/Db/VectorGenerationRepository.php`, `VectorOwnerFenceRepository.php`, `GenerationChunkRepository.php`, `VectorSourceDeletion.php`) | `eva_ai_vec_generations`, `eva_ai_vec_owners`, generation rows of `eva_ai_chunks`, the Qdrant collection | create, bind, fail, activate, retire, put and delete chunk, erase account, prepare collection, deliver, erase | outbox, Qdrant over HTTP | `VectorSync`, `VectorIndexContract` |
| Background chat (`lib/Service/BackgroundChatQueue.php`, `BackgroundChatJob.php`, `BackgroundChatController.php`) | per-user queue and history (user values), list of users with work (app value) | enqueue, claim, complete, time out, cancel, pause, resume, retry, list users, erase | chat store, model, notifications | `BackgroundChat` |
| Dirty index store (`lib/Service/DirtyIndexStore.php`) | `eva_ai_dirty_index`: one row per changed path with a revision stamp and a lease | mark, claim, acknowledge, requeue, defer | file listeners, `ReindexFileJob` | `DirtyIndexStore` |
| Incremental indexing (`lib/Service/Indexer.php`, `FileChangeListener.php`, `ReindexFileJob.php`, `IndexRequestJob.php`, `LockGuard.php`, `AppConfig.php`) | `eva_ai_documents`, `eva_ai_chunks`, the index lock row, run keys (`index_running`, `index_cancel_requested`) and each process's cache of them | reindex one file, full pass, request, stop, recover a run | dirty store, files, embedding service, scheduler | `IncrementalIndex` |
| Index scheduler (`lib/Service/IndexScheduler.php`, the drain of `IndexJob.php`) | active slots with heartbeats, waiting queue (app values) | acquire, release, heartbeat, reclaim, queue, drain | `Indexer::run` | `IndexScheduler` |
| Chat storage (`lib/Service/ChatStore.php`, `ApiController.php`) | chats with messages, a revision, the marker of a regeneration, placeholders of confirmations | append, store a question, regenerate, claim a confirmation, list, templates | chat pages, background chat | `ChatServer` (the part the pages drive) |
| Generation building, mutation, verification | build, mutation and verification rows with cursors, leases and attempts | start, control, claim, checkpoint, rewind, complete, certify | sources, chunks, outbox | not modelled |
| Agent interactions, rate limiting, account erasure, Talk bot, scheduled assignments, ownership store, embedding cache | see `PROJECT.json` | | | not modelled |
| Retrieval, providers, web search, extraction, OCR, tool executors, task providers, metrics, settings, commands, migrations | none that outlives a request | | | not modelled |

### Browser

| Component | State | Operations | Modelled in |
|---|---|---|---|
| Requests (`src/lib/api.js`) | requests under way, retries of a GET | send, retry, fail, answer | `PageRequests`, `ChatCalls` |
| Chat page of the app (`src/lib/vanilla.js`, `src/lib/ndjson.js`) | messages shown, one stream, revision and token it believes in, pending write | load, send, stream, stop, save, regenerate, approve, hand over to the background queue, leave | `AppChatPage` |
| Standalone chat (`src/standalone-chat.js`) | list of chats, one open chat, one stream | choose, create, delete, send, stop, save question and answer, approve | `StandaloneChatPage` |
| Navigation (`App.vue`, `useNavigation.js`, `HomeView.vue`, `ChatView.vue`) | route, chat list and its pages, search, pane, prompt of the dashboard, dialogs | load, load more, search, create, rename, delete, clear, go, back | `ChatNavigation` |
| Documents (`DocumentsView.vue`) | filtered list, chunks of open documents, state of the index run | load, load more, open, start, stop, poll | `DocumentsView` |
| Settings (`useEvaSettings.js`, `useBriefingSettings.js`, `useKnowledgeSettings.js`, `useIntegrationSettings.js`, `SettingsView.vue`) | form, what the server confirmed, queue of writes, index run | type, save, wait, merge the reply, start and stop the index | `SettingsForm` |
| Storage panels (`AdminView.vue`, `components/settings/Generation*.vue`, `Vector*.vue`) | owner, generation, checks, builds, delivery status | choose, check, create, control, poll | `StoragePanels` |
| Approval forms (`src/lib/confirmForms.js` and both chat pages) | fields of one proposed action | edit, approve, cancel | `ConfirmForms` |
| Administration (`js/admin-settings.js`) | sections with secrets, search test, stop button | type, save, test, stop | `AdminPage` |
| Usage (`MetricsView.vue`, `metrics-export.js`) | usage of a user and period, prices | choose, load, edit and save prices, export | `MetricsView` |
| Chat about files (`FileContextChatView.vue`) | selection, its status, conversation | select, load, ask | `FileContextChat` |
| Background requests (`AgentRunsView.vue`) | list of requests | load, act, poll | `AgentRuns` |
| Export (`src/lib/chat-export.js` and both pages) | ticked messages, one archive | select, export, export all | `ChatExport` |
| Templates and prompts (`vanilla.js`, `prompt-history.js`) | templates of the server, personas, remembered questions | list, search, save, import, use; record, mark, reuse | `TemplatePanel`, `PromptHistory` |

What is hard in each, and what makes it correct:

* **Outbox and delivery.** A lease can run out under a worker whose HTTP request
  is still on its way; a request can be applied after everybody gave up on it.
  Two point workers can hold "their" row one after the other. Creating a
  collection races erasing it. Correct: a chunk's newest revision wins, deleted
  chunks stay deleted, an erasure intent is never lost and, once acknowledged, final.
* **Background chat.** A claim is judged by its age alone; users cancel, pause and
  retry while the job runs; the list of users is rewritten without a lock.
  Correct: at most one process works on a request, an answered request is not
  answered again, a queued one is served, erased data does not come back.
* **Dirty store and indexing.** A file changes while it is being indexed; processes
  die between the commits that replace a document; a stop request and a lock row
  are read by processes they were not meant for, through a cache.
  Correct: nothing queued means the index shows the file's content; the last good
  version stays until its successor can be found; one process works at a time.
* **Scheduler.** Killed workers leave slots behind; whoever asks first gets a
  free slot; a slot map is remembered by a process. Correct: the limit holds, the
  queue keeps its order, nobody starves, dead slots are reclaimed.
* **Chat pages and chat storage.** Two tabs change one chat; a write is lost, or
  served after its page gave up; a stream breaks; a regeneration cuts a chat that
  grew meanwhile; an approval is clicked in two places. Correct: what was shown and
  not warned about is stored, late answers cut nothing newer, an action runs once,
  and every page gets its composer back.
* **The other views.** Answers arrive in another order than their requests were
  sent, the user types while a save is under way, a list grows while it is paged
  through. Correct: what is shown belongs to what is chosen, an answer overwrites
  nothing typed since, nothing is listed or sent twice.

`PROJECT.json` lists the individual hazards with their lines.

## 2. Modules

```
VectorOutbox ── EXTENDS ──> VectorSync ── INSTANCE (refines) ──> VectorIndexContract
                                └─ VectorSync_proofs
DirtyIndexStore ── EXTENDS ──> IncrementalIndex
                                └─ IncrementalIndex_proofs
IndexScheduler ─ IndexScheduler_proofs        BackgroundChat ─ BackgroundChat_proofs

ChatServer ─> ChatCalls ─┬─> AppChatPage ────────┬─> ChatPages ─ ChatPages_proofs
                         └─> StandaloneChatPage ─┘                └─ ChatActions_proofs
PageRequests ─> ChatNavigation, DocumentsView, SettingsForm, StoragePanels,
                ConfirmForms, AdminPage, MetricsView, FileContextChat, AgentRuns,
                ChatExport, TemplatePanel, PromptHistory  ─> FrontendViews
                                                              └─ FrontendPages_proofs
                                                                 └─ FrontendViews_proofs

MC<Module>: symmetry sets and model data for TLC
```

An arrow reads "is extended by". `ChatPages` composes the two kinds of page with the
chats they share. `FrontendViews` composes the twelve views, which share `api()` and
nothing else that changes; a behaviour is that of one view, and its `task` says which,
what the user does there, how often, and how many attempts of requests fail.

What would come next, in the order of importance: generation building, mutation and
verification, composed with `VectorSync` through the outbox (an active generation
catches up with its sources; a certificate does not survive a change); the agent store
with its compare-and-swap on pending tool calls; run ids and the rotation over enrolled
users; the migration of chats from AppData to SQL; account cleanup, rate limits,
scheduled assignments; chunk boundaries and the fusion of rankings as functions.

## 3. How the modules correspond to the code

### VectorOutbox, VectorSync

`journal` is the outbox table by event id; `lastId` its sequence, which is also
the revision of a chunk (`GenerationChunkRepository::putChunkForGenerationStatus`).
A claim is two steps, `Select` and `ClaimCas`, because `claim()` reads a candidate
and repeats in the `WHERE` clause of an `UPDATE` what it saw. The random token is
modelled by the worker that drew it. `live` says whether `lease_until` lies in the
future; `ready` is the erasure grace of `deferErasure()`.

A worker goes `selected -> claimed -> armed -> replied -> idle`. `PointArm` and
`EraseArm` are the last guard before the transfer (the closures `VectorPointWorker`
and `VectorErasureWorker` pass to the adapter); `Reply` is the store applying the
request and answering; `PointAck` and `EraseAck` are the final transaction. A worker
that fails or dies while armed may leave its request behind in `late`, from where
`LateApply` applies it at any later time. `Written` is Qdrant's conditional write:
an `update_filter` on revision and tombstone. SQL transactions are single steps;
they take row locks in one order. Two are split where they wait for each other, and `txn`
holds what they locked and read: `bindTarget()` is `BindLock` (the owner's row) and
`BindTarget` (the generation's row), and the transaction of `deleteUser()` is `EraseLock`
(the generation's row), `EraseRead` (where its collection is) and `EraseAccount` (the rest
and the commit); `BindRollsBack` and `EraseRollsBack` end them without effect. A binding
must not come between the reading and the delete. Two things prevent it: the fence of the
account, which waits for a binding under way and refuses later ones, and the lock on the
generation's row. Either alone suffices; the mutant of `ErasureIntentKept` reads before both. A
`bindTarget()` call that finds the target set or nothing being built changes nothing and is left out.

Assumed: `creating` holds no request when a grace of 60 s ends, because the adapter
gives a request at most 30 s (`QdrantConnection`) and the guard runs right before
the transfer. A process that is suspended between its guard and its transfer for
longer than that is outside the model. Back-off after a failure only delays a claim
and is left out, and so are other generations: rows of different generations share
nothing but the worker's budget.

### BackgroundChat

Each operation on one user's queue holds that user's lock and is one step. The
list `index` of users with work is not protected in `users()`: `ListUsers`,
`CountActive`, `StoreActive` are three steps, and so are the request's `Enqueue` and
`Remember`. `claim()` is `Take`, or `TakeNone` when nothing is due;
which items still wait for their `availableAt` is a choice, so a later item may be taken
before an earlier one. A run is `Take`, then `Answer` (the append to the chat) and `Finish`
(`complete()`), or `TimesOut` and `Notified`, or `Stops`, or `Fails` (`retry()`), or
`Dies`. `UserRetry` is `retry()` for the user and, like the code, asks for no status.
`requeued` is history: the requests whose user asked for a retry while a process
worked on them. A claim older than 600 s is `stale`. A run's deadline is 300 s and is looked at
throughout the run, so a worker does not outlive its claim (`GoesStale`). `notices`,
chosen once for a behaviour, says whether the notice after a timeout may fail.

### DirtyIndexStore, IncrementalIndex

An entry's `stamp` is the revision that `mark()` increments; `claim`, `acknowledge`,
`requeueFailed` and `deferClaimed` are the operators of the same names. A file's
content and mtime are on `disk`; `Write` is the user's operation and `Mark` the
listener that runs after it. `docs` are the rows of `eva_ai_documents`, `chunks` says
whether the chunks of the row were committed. Reindexing one file is
`Claim, AcquireLock, Read, Stage, Embed, Publish, RemoveOld, ReleaseLock, Settle`; a
full pass visits every file through the same middle part and then removes a row of
each file it did not find (`CleanedUp`). `Discard`, `FlushDeferred`,
`EmbeddingFails`, `Unembeddable` are the branches of `flushBatch()`. `lock` is the
database lock row with the rules of `LockGuard` for taking it over; `running`
becomes `abandoned` when the heartbeat of a dead run is too old. `worker.stop` is
AppConfig's request cache of the stop flag. `faults`, one member of `FaultSets` chosen
once for a behaviour, says what may go wrong in it: crash, stop, a lost mark, a failing
embedding service, a document the model refuses, an old version that stays.

Left out: mail and Talk passes, the opt-out list, folder entries, the import of the
old AppData list, batches that span several files (a pass flushes after every file).
A live process's lock and heartbeat do not run out; Nextcloud's own config cache is
not modelled; run ids are abstracted.

### IndexScheduler

Every operation holds the global lock and is one step. `active` and `queue` are the
two app values. `view` is the copy of `active` that the request cache of a process
keeps when it read the value and did not write it. `PickQueued`, `StartQueued`,
`StopDraining` are the drain loop of `IndexJob`. `LeavesSlot` is a killed pass, or one
whose `releaseSlot()` found the lock busy twice. A heartbeat is `stale` after 900 s.
`lossy`, chosen once, says whether slots are left behind and heartbeats late at all.

### ChatServer, ChatCalls, AppChatPage, StandaloneChatPage, ChatPages

A message is `[role, turn, ...]`: it is named by the question it belongs to, its text is
left out. A chat has its messages, `rev` (the revision that every write increments) and
`mark`: `beginRegenerate()` sets a marker with the index to cut at, `appendToChat()`
honours it when the answer arrives and drops it with every other write; `mark.had` is
what the chat held then. `written` is history: which message was ever stored where, and
which placeholder carried a token or was replaced.

A request is `sent`, then `Serve`d by the server in one step, then its answer is handled
by the page; `Lose` drops a request or its answer. The browser gives up on a history
write after 15 s, and the server may serve it later: the request stays as an orphan, and
the page handles the failure. The retries of a GET are part of the loss.

`AppChatPage` is `mountChat()`: `phase` says what the page is doing (loading, creating a
chat, streaming, settling a write, restoring or syncing after a regeneration); `shown`
is what it displays, `slot` the bubble being answered, `rev` and `token` the revisions
it sends. `warned` and `seen` are history. A placeholder whose write is under way makes
an approval wait (`_pendingSave`). `StandaloneChatPage` keeps apart which chat is open
(it changes with the click) and what is shown (it changes with the answer), and stores
question and answer by two requests, into the chat that is open by then.
`Sessions` gives, for each behaviour,
the pages, the chats, and how many losses and edits it has.

### FrontendViews and its twelve views

`net` holds the requests of the page; `Click(act, asks)` is an action of the user that
sends the requests `asks`, `React(done, asks)` a reaction of the page to the answers
`done`. `FailAttempt` fails an attempt before or after the server served it; a GET with
a passing status is tried again up to twice, as `api()` does. Each view is one record
with the fields of its component (`nav`, `page`, `form`, `panel`, `confirm`, `admin`,
`metrics`, `fileChat`, `runs`, `exporter`, `templates`, `panes`), and next to it the part
of the server's state that its requests read and write (`changed`, `indexed`, `account`,
`storage`, `instance`, `rates`, `work`, `library`, `shelf`, `remembered`). Request
numbers and epochs are kept as the code keeps them, because they decide which answers
are ignored. A text is a number that is new each time something is typed; a file is its
length; forms are tables of fields with the conditions under which each is shown.

Fields that only the model has: `form.typed`, `form.late`, `metrics.edited`,
`confirm.seen`, `confirm.seenHunks` remember what a property compares with.

## 4. Runs

`PROJECT.json` gives every run with its properties. Each finishes within minutes.

| Run | Shows | Bounds and why they are enough |
|---|---|---|
| `vector_points` | newest revision served, deleted chunk withdrawn, only the answered holder acknowledges, refinement of the contract | 1 chunk (points are independent), 2 events (an upload and its successor, or its deletion), 2 attempts, 2 workers, late requests |
| `vector_erasure` | erasure is final, its intent survives, settled rows are final | 3 events (upload, erasure, tombstone), one worker per pool, one preparer |
| `vector_live` | intents settle | 2 events, one worker per pool, switches change |
| `chat_queue` | a second run or answer only after a retry while running, erased and exhausted items stay so | 2 requests of one user, 2 processes, 2 attempts (3 in the code) and 2 claims: a first claim, and one more that uses the attempts up |
| `index_faults` | clean means fresh, one process at a time, last good version kept | 2 files, 2 processes, 2 writes and marks, 3 document ids; once with a failing embedding service, once with crashes, refused documents and removals that fail |
| `index_live` | the index converges | 1 file, 3 writes, 1 process; lost marks and failing embeddings. The second fault set (crash, stop, leftover) makes the other steps happen and is not claimed to converge |
| `slots` | limit, queue content and order, dead slots are reclaimed | 4 users for 1 slot: three wait, so order and a middle position matter; one user comes back, three never do; with and without losses |
| `chat_pages` | an action runs once, no silent loss, late answers cut nothing newer, question before answer, the composer comes back | 2 questions and 1 stored turn; five sessions: an app page with a loss and an edit, a standalone page with the same, a standalone page with two chats, two app pages with a loss, an app page beside a standalone page |
| `frontend_views` | nothing listed or sent twice, answers that arrive late, edits during saves, prices, approvals, "up to date" | per view several tasks that put a race, an action meanwhile and a failing request together; lists of 2, 2 pages of chunks, 2 owners, 2 models, 3 selections, 3 forms of different kinds, archives of 3 chats with 2 workers, 2 tabs |

The bounds are `MaxEvents`, `MaxAttempts`, `MaxItems`, `MaxClaims`, `MaxMarks`,
`MaxWrites`, `MaxDocs`, `MaxTurns`, `MaxLosses`, `MaxEdits`, `MaxListed`, `ChunkPages`,
`StopPolls`, `StatusPolls`, `MaxProposed`, `MaxArchive`, `ArchiveText`, `MaxPrompts`, and
`clicks` and `faults` of a task; each is a guard of the action that would exceed it.
(`MaxItems`, `MaxAttempts`, `StopPolls`, `StatusPolls`, `ArchiveText` and `MaxPrompts`
are limits of the code as well, made small.) `CHECK_DEADLOCK FALSE` is set where the
system may come to rest (nothing queued, or the bounds used up); the scheduler's run
checks for deadlock.

Runs that end in a counterexample, each a disagreement between the code and
something the repository says:

| Run | What the code does |
|---|---|
| `chat_lost` | `users()` overwrites an entry that `rememberUser()` added meanwhile; the request waits for ever. Nobody retries in this run (`UnretriedSpec`), so this is the only reason |
| `index_stop` | a stop flag left by a periodic pass makes a single reindex drop its work and acknowledge the change |
| `chat_overwrite` | the unguarded write of a failed question tells a tab the newest revision; it then regenerates an older answer and truncates a turn of another tab it never showed |

### Conditions in the properties

Where a property says "as long as", the excluded behaviour is one the code has:

* `ExclusiveRun`, `CompletedIsAnsweredOnce` except two cases, both because `retry()` queues
  an item again whatever its status (`BackgroundChatQueue.php:264`). One is a user's retry
  of a request that a process works on (`requeued`): the endpoint does not look either
  (`BackgroundChatController.php:167-173`), and a page whose list is old, another tab or
  the API sends it. Without this exception TLC finds a retry of a running request that a
  second process claims at once, and with `UserRetry` for failed requests only it finds
  nothing, so this is all the exception stands for. The other (`notices = "sent"`) is a run that timed out
  and whose notice then fails, which ends in `retry()` (`BackgroundChatJob.php:67-83`) also
  when another process already runs the item; that needs the real limit of 3 attempts.
* `PassesAreBounded` (`~lossy`): a process that remembers an old slot map writes it over
  the slots of others (`IndexScheduler.php:63`). The limit is then exceeded; the properties
  of the queue and `DeadSlotsFreeUp` are checked with these writes.
* `LockIsExclusive`, `LastGoodIsKept` (no `stop`): the lock of a live single-file reindex
  can be taken over when the tracked run is idle and its stop flag still stands
  (`LockGuard.php:114-128`). A pass and a reindex then work on one file, and the clean-up
  of one removes the row the other staged, whose `RemoveOld` removes the last good version.
* `CleanIsFresh` (neither crashes, lost marks, refusals nor leftovers), `IndexConverges`
  (no crashes, refusals, leftovers and stops): the full pass has
  to repair those; after a crash between `Stage` and `Publish` the row without chunks
  looks up to date to both recovery paths until the file changes again.
* `QuestionFirst` leaves out the outcome of a confirmation panel, which nobody awaits:
  Cancel does not wait for `_pendingSave`.
* `SettingsAreSaved` (`~form.late`): a status sent before a save and answered after it
  puts old values into the form and into what it believes to be stored.
* `PricesAreKept`, `SentOnce` (no fault): after a failed read of the settings the save of
  the prices replaces all of them; a key whose answer was lost is sent again.

### Other behaviours the modules contain

These hold in the modules as they do in the code, and no property denies them.

* Background chat: `Cancel` of a running request and then `Fails` leave it pending with
  the cancellation flag set, which no claim takes (`BackgroundChatQueue.php:250-272`). `retry()` does not call
  `rememberUser()`: a request that is retried after `users()` took its user off the list, a
  failed request not being counted there, waits until the user sends another one. It is a
  second counterexample to `QueuedIsServed`, found also when no user with open requests is
  taken off the list; `chat_lost` leaves retries out to show the other one alone.
* Indexing: a periodic pass never clears `index_cancel_requested`, only a requested run
  does; a pass reads the stop flag once and does not see one that is set later.
* Scheduler: `acquireSlot()` gives a free slot to whoever asks, so a queued user can be
  overtaken for ever; `queuedUsers()` returns one user when no slot is free.
* Chat pages: an approval on the standalone page after the chat was switched sends the
  other chat's id; the server finds no such token and runs the action, possibly again
  (`ApiController.php:248-250`). A rename from the sidebar changes the revision unseen, so
  that the next turn is refused, with a warning. The answer replaces the last unresolved
  placeholder wherever it stands. Regeneration sends a position on the page, which turns
  that failed or were not stored shift. A stop before any text leaves the question
  unstored. A regeneration whose page goes away queues a job that repeats the question.
  On the standalone page a stale `loadChat()` wipes the bubbles of a running stream, whose
  answer is then stored in whatever chat is open.
* Navigation: after New and Home, Back shows the chat empty with its old revision
  (`App.vue:122`); the dashboard's prompt can reach another chat than the one created for
  it; overlapping loads of the list are not ordered; loading more after the list moved
  leaves gaps.
* Documents: text typed without Enter and then "Load more" mixes two queries; a poll sent
  before a start and answered after it unlocks the controls; paging by offset repeats
  documents.
* Settings: a token typed while its save is under way is wiped; two quick exclusions of
  which the first fails lose the second's base; the index can be reset while the save
  before a start is under way.
* Panels: the answer to a late creation is put into the list of the owner chosen since;
  a refresh is skipped while one is under way.
* Approval forms: the standalone page sends fields it does not show, and takes the
  values at the time the placeholder is stored, emptied required ones included; an
  event's time is dropped on update; unknown fields are sent as "" and cleared.
* Administration: a secret typed during a save is wiped by its success. Usage: after a
  failed load for another user the old data can still be exported. Chat about files: an
  answer about earlier files is pushed into the new conversation. Background requests: the
  reload after an action is skipped while another one is under way; the server answers "ok" to
  an action that changed nothing, and retries whatever the status is. Export: ticked
  positions survive a truncation.
* Templates: two searches that overlap list every template twice (`vanilla.js:882-907`);
  `use` replaces text typed meanwhile and gives its persona to the chat that is open when
  the answer arrives; saving an edited template that was deleted creates a new one; one
  invalid entry refuses a whole import. Prompts: at the limit favourites are dropped like
  the others.

## 5. Fairness

* Vector workers: cron starts them again and again, so a step of a worker (or its
  failure) is weakly fair; a claim is strongly fair, since it may die between its
  two statements but not every time. Leases and the grace run out (time). Nobody is
  assumed to requeue dead letters, to change switches or to send requests.
* Background chat: the same for the job's steps: a process does not die every time between
  reading the list of users and writing it back, and not every job comes while the requests
  of a user still wait for their `availableAt` (`Take` is strongly fair for each user).
  A request that was accepted reaches `rememberUser()`, and time passes for claims.
* Indexing: hooks end, cron starts the job and the pass, chats end; the services
  and processes do not fail for ever (strong fairness of `Look`, `Embed`,
  `StartPeriodic` and `Claim`).
* Scheduler: a pass ends, heartbeats age, and cron comes back to enrolled users, at
  a moment it does not choose (weak fairness only).
* Chat pages: a request is served or refused (the browser's timeout of 15 s bounds the
  wait), a page handles what arrives, and a stream ends, because the server bounds every
  run of the model. Nobody has to ask, approve, stop or leave.

The other views have no fairness: their properties are safety properties.

## 6. Proofs

Eight modules hold thirty-two theorems, for every value of the constants that satisfies the
assumptions the modules state. Each invariant is proved as initiation, one lemma per
group of actions and one step per action, and carried over to the temporal formula by PTL.

`VectorSync_proofs` (under `OutboxAssumption` and `SyncAssumption`):

* `TypeCorrect`: the attempts of a row stay within the limit because a claim of an
  exhausted row buries it; so that this is inductive, `Busy` is added (a worker that is
  not idle works on an id of the journal).
* `ErasureIntentIsKept`: the intent to erase is written by the step that deletes the
  generation. It stays, because rows are only superseded by that step, or by a point
  worker, and point workers hold point rows. `Keys` says so: rows beyond the sequence are
  unused (`Fresh`), nothing but tombstones follows an erasure (`ErasureIsLast`), a
  worker's row belongs to its pool (`ClaimFits`). That the step writes the intent at all is
  `TargetIsRead`: what the erasure read of the collection is still true when it commits,
  because it has held the generation's row since.
* `ErasureStaysFinal`: `Final` adds that after the grace no creation is under way nor can
  be armed (`GraceIsQuiet`), and that an erasure worker that is armed or answered, and
  every late erasure, belongs to a row whose grace has passed (`ErasersAreQuiet`).

* `SettledStaysFinal` and `OnlyHolderAcks` need `Held`: what a worker remembers of its
  SELECT is a state that can be claimed and is forgotten after the claim, and only pending
  rows wait for the grace. Every write of a row is then one by its holder or a claim
  (`RowWritten`), and neither touches a settled one.
* `ImplementsContract` is the refinement of `VectorIndexContract`. `History` relates the
  journal to the SQL rows: a deletion is the last event of its chunk, an upload never
  exceeds the row's revision, nothing has rows after the owner's erasure. `Store` relates
  the journal to the collection: each point is that of an event of its chunk, a late
  erasure meets no creation. Every step then maps to an advance, a withdrawal or an erasure
  of the contract, or to a stutter.
* `DeletionsStay` and `DeliveredRowsAreServed` need what an acknowledgement means: the
  request of every answered worker, every acknowledged event and every row marked
  delivered has taken effect (`Took`): the generation is gone for good, or the store holds
  that revision or a newer one, and the tombstone if it was a deletion. The conditional
  write keeps this whatever arrives later.

`BackgroundChat_proofs` (under `ChatAssumption`): `TypeCorrect`; `ErasedIsFinal`, which is
inductive with the types; `ExhaustedIsFinal`, an action property; `RunsAreExclusive` and
`CompletedOnce`, which assume nothing about who retries and when. Their invariant
`Exclusive` adds that a filed request is not in the queue (`FiledIsGone`) and that, unless
its user retried it while a process worked on it (`requeued`), a process that runs or
answered holds its item as running and not stale or the item is gone (`WorkIsHeld`).

`IndexScheduler_proofs` (under `SchedulerAssumption` and `UsersAssumption`: the users are
finitely many):

* `PassesStayBounded`: without losses the slots are exactly the running passes, none is
  stale and nobody remembers an old map (`SlotsAreExact`).
* `QueueStaysClean` and `QueueIsFair`. A step leaves the queue, drops one user from it or
  puts one who neither waits nor runs at its end (`QueueMoves`). What dropping does is the
  lemma `KeptKeeps`: `Kept` keeps exactly the entries of a set and their order. `Kept` is a
  recursive function, so the induction over the prefixes of the queue is one over numbers
  (`LeastExists`) and within reach.
* `SchedulerTypes`: a queue without repetitions is no longer than there are users
  (`QueueIsShort`, by the pigeonhole theorem of the library).

`IncrementalIndex_proofs` (under `IndexAssumption` and `DirtyAssumption`):

* `LockStaysExclusive`: as long as nobody stops a pass the flag is never set, so the row of a
  process that holds the lock is "held" and no rule of `LockGuard` lets another one take it
  (`Alone`, over the shape of the workers' records).
* `IndexTypes`: `IndexTyped` adds to the types that no two rows have one id (`NextIdIsNew`)
  and what a process remembers in each of its phases (`Remembers`).
* `GoodIsKept`: the property is about behaviours in which no pass is stopped. The row a
  process staged is there with the text it read until the process is done with it, and
  is not the row it replaces; what a process remembers of rows are rows of the files it
  takes them for (`RowsFit`). A version that can be found is then removed only after its
  successor was published, or by a step that found the file gone.
* `CleanShowsContents`, under the hypothesis that no pass is stopped, and for the faults
  that leave the queue complete (`Calm`): a file has one row besides those in the making
  (`OneRow`), what a pass remembers of the files it has yet to visit are still their rows
  (`Agrees`), and a file that is not shown as it is has a hook that has yet to run or an
  entry in the queue that nobody is about to take out (`Tracked`). TLC checked `Ready`,
  which joins the three, before it was proved. The run `index_stop` finds `CleanIsFresh`
  violated when passes are stopped: the hypothesis cannot be dropped.

`ChatPages_proofs` (under `ChatAssumption`, `SessionAssumption` and `PagesAssumption`: a page
is of the app or standalone, not both):

* `LateAnswersKeepNewer`: a chat that carries a marker holds, besides confirmations,
  exactly what the regeneration found (`ChatsOK`); every other write drops the marker, so
  what an answer cuts was there when its regeneration began.
* `ChatTypes` and `QuestionsComeFirst` come from one invariant, `PagesOK`: chats, jobs and
  counters have their types (`ServerTyped`); what the chats hold is in the history
  (`AllTold`); a request is of its type, an answer that is under way has its question
  stored, and what an accepted request brings back is stored (`CallsOK`); a page that sends
  has the bubble it fills, below a question, and one that regenerates streams the answer
  to a question that is stored (`AppOK`); standalone pages have their type (`AloneOK`).
  There is one lemma per action, for every action of both kinds of page.
* `NothingIsLost`: `NoLoss` says of every complete answer on a mounted page, also while
  the page is busy, that it is stored, warned about or on its way, or belongs to the panel
  of a regeneration, which has no token: such a panel is open, or its action is under way
  (`EntryOK`). What is on its way stays so through the server and the network (`Onward`),
  and the steps that take it out of the way store it, warn, or hand it on to the next
  request (`TakenEntry`). TLC checked `NoLoss` on the runs' instances before it was proved.

`ChatActions_proofs` (the same assumptions, over the invariants of `ChatPages_proofs`):

* `ActionsRunOnce`: the right to store the placeholder of a token is held in one place at a
  time. It passes from the page whose stream brought the token to the request that stores it
  (on the standalone page: the request of the question, then that of the answer) and from
  there to the chat. While a page or a request holds it, nothing of its token was stored, run
  or approved, and its panels wait. Once it is stored, the chat's claim lets one approval
  through. A regeneration's request is the only one of its page. `Quiet` joins these facts
  (`ChatsQuiet`, `TurnsQuiet`, `PagesQuiet`, `ConfirmsOK`); TLC checked it on the run's
  instance first.

`FrontendPages_proofs` and `FrontendViews_proofs`. A behaviour moves one page, so every page has
an invariant of its own. For each there is a predicate of the closed page, a lemma that its
invariant starts, that each action keeps it, that a failed attempt keeps it, and what it
promises; the theorems put the pages together. Assumed are that chats, models and archives are
finite where the code counts them (`ListedChats`, `Models`, `ExportChats`), and that every tool
has a form (`ToolsAssumption`). Lists sorted or selected by the code are reasoned about
through their elements; where an induction would be needed, the least counterexample among
numbers does its work.

* `ChatsAndQuestionsAreListedOnce`: the next page of chats is appended without what the list
  already holds; a list is replaced by one read in a single request; recording a question takes
  out its older entry, ids are new; the workers of an archive take the positions of the list
  one at a time, and every name they give is new.
* `PromptsAndKeysAreSentOnce`: a prompt is numbered when it is typed, and emptied by the step that sends it;
  a key is in the field, in the one save under way or stored, and a second save waits.
* `OldAnswersAreIgnored`: an answer that the page accepts carries the newest epoch (or request
  id) of its kind, and the request of that epoch asked for what is chosen now, since every
  choice raises the epoch.
* `OtherPricesAreKept`: without faults the form and the body of every save agree with the
  stored prices except for edited models; the answers to older loads do too, since nothing else
  writes the prices.
* `ChunksBelongToTheList`: an answer is taken only if it carries the epoch of the list on the
  page, and in that epoch each document has at most one request under way, whose offset is the
  number of pages that came, and which its entry of the cache waits for (`ChunksOnce`,
  `ChunkFits`, `ChunksCome`). A new list raises the epoch and empties the cache.
* `ApprovalsAreAsShown`: at most one approval is under way, and only while the panel runs;
  while the panel waits or runs, what was approved is what was seen (`ApprovalInv`).
  `FormIsCollected` says of the 22 forms what `collect` takes from them. `Above` lays one table
  over another, because the prover cannot expand TLC's `@@`.

Only model-checked:

* everything under liveness (`ErasureSettles`, `PointEventsSettle`, `IndexConverges`,
  `DeadSlotsFreeUp`, `ComposerComesBack`): the proof system does not handle fairness and
  `ENABLED`;
* of `FrontendViews`: `TypeOK`, `UpToDateIsTrue` and `EditsSurviveSaves`. Their invariants have not been worked out.

## 7. Not modelled

* Generation building, mutation and verification; vector targets, lexical terms, norms and
  compaction; agent interactions; rate limits and API keys; account cleanup steps; Talk bot;
  scheduled assignments and briefings; ownership store and embedding cache. They keep state
  and would be modelled next (see section 2); their effect on vectors and on the chat queue
  is part of the modules above.
* Folders, tags, titles, trimming and receipts of chats; the migration of chats from AppData
  to SQL.
* Of the pages: rendering, attachments, the image panel and the status pill of the chat
  page, voice input (no page imports `voice-input.js`), file actions, header, translations.
* Retrieval, providers and their network policy, web search, browser, extraction, OCR, tool
  executors, task providers, metrics, DTOs, notifications, commands and migrations: input and
  output, or pure functions without state that outlives a request. Their failures appear as
  choices in the modules that call them.
