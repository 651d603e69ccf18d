# relay-one in TLA+

relay-one is a self-hosted web mail: a Rust server (axum, tokio, SQLite) that
keeps a local index and, if wanted, a local archive of the mail of several IMAP
accounts, keeps calendars, contacts and tasks with it, and lets a language model
help; and a SvelteKit client. This directory models the core that can lose mail
(the synchronisation of the index with the provider, the deletion pipeline of
accounts in archive mode, the loop that drives both) and, one module each, the
components around it.

All source names below are relative to `src/server/src/`.

## 1. Inventory

### 1.1 How the server runs

* One **sync loop** (`sync/scheduler.rs`, `start_periodic_sync`), strictly
  sequential: `do_sync_cycle` (wait for news of every account, enqueue tasks,
  work the queue off) → retention (6 h) → removal check (10 min) → flag refresh
  (5 min) → attachment collection (daily) → `run_delete_queue` →
  `run_provider_ops` → `run_periodic_expunge` (60 s) → `run_trash_retention` →
  sleep. A shutdown drops the round in the middle (`tokio::select!`).
* **API handlers** (`api/*.rs`), concurrent with the loop and with each other.
  Every section under the database lock (`with_db`, `cache_db.lock()`) is
  atomic; between two sections anything may happen.
* An **AI summary worker** that reads a channel of 512 tasks, a start-up
  catch-up that fills it, two **DAV tickers**, an **Insilo** poll loop.
* The provider, the user's other mail clients, the language model and the DAV
  servers outside, over connections that fail at any point.

### 1.2 Components

| Component | State | Operations | What is hard | Correct means |
|---|---|---|---|---|
| Delete queue, archive guarantee (`cache/delete_queue.rs`, `cache/archive.rs`, `api/delete_queue.rs`) | table `delete_queue` (state, attempts), EML files with digest | enqueue, list, verify, mark verified / deleted / failed, retry, remove | verdict taken before the removal is sent; removal fails halfway; restart between steps; rows vanish by cascade | no last copy is lost; "deleted" is true; every row ends |
| Provider operations (`cache/provider_ops.rs`) | tables `provider_ops`, `expunge_offen`; `EXPUNGE_PENDING` in memory | enqueue by number or Message-ID, take, done, failed, retry; register for EXPUNGE | a failed op is overtaken by a later one; given-up ops; restart between marking and EXPUNGE | the provider ends up as the user last said; a marked mail is expunged |
| Message index (`cache/messages.rs`, `cache/sync_state.rs`) | table `messages` (folder, number, `synced`, file), cursor per folder | save, move, prune, list, search | provisional rows carry foreign numbers; guards against re-fetch and restore | a confirmed number is its mail's; in the end the index shows what is there |
| Sync scheduler, task queue (`sync/scheduler.rs`, `sync/queue.rs`) | priority queue, timers, health checks | six task types, five jobs, four workers | tasks re-enqueue themselves; retries lose priority; timers start empty | no account is left out; rounds end |
| IMAP client (`imap/client.rs`) | two slots (user, sync) with session, operation lock, current folder | connect, ping, reconnect, select, fetch, move, mark, expunge, idle | timeout drops a session in use; ping and reconnect work around the operation lock | a command runs in the folder it names; every operation comes back |
| Message API (`api/messages.rs`) | – | move, delete (three modes), restore, move between accounts and into local folders, folders, flags, labels | several sections per request; number and folder read earlier; chains of commands that break off | the queue gets the right mail; no move loses a mail; folders are not deleted with their mails |
| Accounts (`api/accounts.rs`, `cache/accounts.rs`) | table `accounts` | create, update (switch of mode queues a backfill), remove | backfill only in memory | – |
| AI gateway (`ai/client.rs`, `ai/circuit_breaker.rs`, `ai/router.rs`) | breaker closed / open / half open; one permit, 30 s wait | request, background request, stream, record, reset, exchange of the client | probes that end without a record; two probes at once; hang-ups | every request comes back; only a lost probe leaves the breaker half open |
| AI assistant (`ai/agent.rs`, `ai/plaene.rs`, `ai/sessions.rs`, `ai/tools/*`, `ai/audit.rs`, `api/ai.rs`) | plans (pending, executed, cancelled, expired, failed; 15 min), sessions (20 messages, 6000 characters) | ask, read with tools, propose, confirm, cancel, undo, expire, execute | confirm against cancel, expiry and another confirm; hang-up halfway | a step of a plan is executed at most once |
| AI summary worker (`sync/scheduler.rs`) | channel of 512 tasks | send, receive, summarise, store | the round waits for room in the channel; rows move while the model thinks | the round goes on |
| Learning, tone (`cache/learning.rs`, `cache/fingerprint.rs`, `tone/*`) | edited drafts not analysed, portrait, statistics | queue, analyse, refresh | the model is away; drafts that always fail | a draft is learned from at some time |
| Insilo (`sync/insilo*.rs`, `cache/ideas.rs`, `api/meetings.rs`) | meetings, ideas with attempts | scan, claim, plan, create tasks, retry | loop against endpoint; files change under a scan; attempts fail halfway; restart | meetings agree with the files; an idea becomes tasks, once |
| DAV, Google (`dav/*`, `google/*`, `api/konto_dav.rs`) | sync token in memory, calendars, contacts, tasks; sign-in on disk and in memory | incremental and full sync, push of local changes, sign in, refresh, sign out | token kept before the data; ticker against manual sync; refresh against sign-out | no change is skipped; no old token stays |
| Calendar, contact, task storage (`cache/cal.rs`, `cache/contacts.rs`, `cache/todo.rs`, `cache/order.rs`, their API) | tables | create, change, delete, complete, import | local edit against sync; provider first or row first | shown as it is at the provider, in the end; changes reach it |
| Invitations (`imip/*`, `api/invitations.rs`) | rows of everyone invited, the own decision | invite, receive, reply, cancel | mails out of order and again; mail sent, state not stored | the status is the last answer |
| Sending (`api/send.rs`, `smtp/client.rs`) | drafts, sent copies | send, save draft, unsubscribe | numbers made up locally; a repeated request | a mail is sent, once but after a lost answer |
| List cache (`cache/mod.rs`) | lists by account and folder | get, put, invalidate | put of a list read before a change | a list shows what the user did |
| Web client (`src/web`) | stores, outbox, body cache | send, keep, send again | a lost answer repeats a send | nothing leaves the outbox unsent |
| Import, migration (`api/import.rs`, `api/migrate.rs`) | one job each, progress | import mailboxes; copy an account | numbers given in one section and used in another; task against request; restarts | every mail counted is there; done means complete |
| Attachments (`cache/attachments.rs`, `api/attachments.rs`) | rows, files by digest | save, load, clean up, repair | cleaning up against drafts being saved; half-written files | a row names a file that is there |
| Export, backup, clean-up; push; scoring; settings, snippets, tags; start, crypto | files, single tables | one-shot jobs, single statements | little concurrency of their own | – |

### 1.3 How they interact

Handlers and loop share the tables (rows, queues, cursors) and the task queue.
The index is changed at once, the provider later: by `provider_ops` in mirror
mode, by `delete_queue` in archive mode. What the provider did comes back by
the fetch, as a row of its own, and replaces the provisional one. Foreign keys
couple the tables: a `messages` row that goes takes its `delete_queue` rows
along. The task queue couples the accounts: one task that does not stop holds
all of them, because nothing after the queue runs before it is empty. The other
components share the database's lock with the rest and little else: the AI
gateway's one permit (assistant, summaries, ideas, learning), the round (the
summary channel, the learning tasks, invitations that arrive with a fetch), the
rows of tasks that ideas create. Each of them is modelled by itself, with what
it sees of the others as actions of its environment.

`PROJECT.json` lists every hazard at its line, with the properties that watch
it or the reason why none does.

## 2. Modules

The core, three modules that look at the same loop from three sides:

| Module | Models | Lines |
|---|---|---|
| `ArchivePromise` | what archive mode promises about a deleted mail (decision F1 of `CONCEPT_ARCHIVE.md`), as an abstract specification | 79 |
| `DeleteQueue` | the deletion pipeline: handlers, fetch, delete queue, restore ops, EXPUNGE, trash retention, restarts | 461 |
| `DeleteQueueProofs` | theorems about `DeleteQueue` | 827 |
| `MailSync` | index and provider under moves, deletions, fetch, comparison, ops, archiving, restarts | 448 |
| `MailSyncProofs` | theorems about `MailSync` | 2073 |
| `SyncCycle` | the round, the task queue, the timers, the registration for EXPUNGE | 382 |
| `SyncCycleProofs` | theorems about `SyncCycle` | 1180 |

`SyncCycle` has the order of everything and nothing of the mail; `MailSync` has
the mail and runs the delete queue in one step per row; `DeleteQueue` takes that
step apart, for mails whose other moves do not matter. `DeleteQueue` implements
`ArchivePromise` by a refinement mapping (`Where`, `Checked`).

The components around it, one module each (2.4):

| Module | Models | Part in `Components` |
|---|---|---|
| `AiGateway` | client of the model, breaker, permit, exchange of the client | `ai` |
| `SummaryWorker` | bounded channel of 512, catch-up, worker | `summaries` |
| `Learning` | edited drafts, hints, portrait | `learning` |
| `Assistant` | agent loop, plans, sessions | `assistant` |
| `ImapSlots` | session slot, two locks, folder tracker, timeouts, ping | `imap` |
| `Outgoing` | the client's outbox, sending, sent copy | `outgoing` |
| `Attachments` | rows and files of attachments, drafts, clean-up | `attachments` |
| `ListCache` | lists of mails and the cache before them | `lists` |
| `FolderAdmin` | creating, renaming, deleting, emptying folders | `folders` |
| `Moves` | moves into local folders and other accounts, hard deletion | `moves` |
| `Calendars` | CalDAV events and the account's switch | `calendars` |
| `Contacts` | CardDAV synchronisation by token, requests | `contacts` |
| `Tasks` | tasks over CalDAV or Google | `tasks` |
| `Meetings` | Insilo's meetings | `meetings` |
| `Ideas` | Insilo's ideas, which become tasks | `ideas` |
| `Invitations` | iMIP both ways | `invitations` |
| `GoogleSignIn` | sign-in, access tokens, sign-out | `google` |
| `Migration` | copying an account | `migration` |
| `MailImport` | importing mailboxes | `import` |

They share nothing with each other, so their product would only multiply states.
`Components` is their *sum*: the variable `part` says which component a behaviour
is of, and a step is one of that component. `Parts` declares the constants and
variables; components use a variable of the same name in turn, and one that is
none of the part's is 0 (`Unused`). Four modules instantiate the components by
subject, say what they assume of their constants (`MailboxAssumption` and so on)
and state their properties as properties of the part:

| Group | Components | Proofs | Lines |
|---|---|---|---|
| `Mailbox` | `Attachments`, `Moves`, `ListCache`, `FolderAdmin`, `ImapSlots` | `MailboxProofs` | 3075 |
| `Transfer` | `Outgoing`, `MailImport`, `Migration` | `TransferProofs` | 2991 |
| `Agenda` | `Calendars`, `Contacts`, `Tasks`, `Invitations`, `Meetings`, `GoogleSignIn` | `AgendaProofs` | 2731 |
| `Advisor` | `AiGateway`, `SummaryWorker`, `Learning`, `Assistant`, `Ideas` | `AdvisorProofs` | 2439 |
| `Components` | all nineteen | `ComponentsProofs` | 471 |

`MCComponents` gives the constants small values; one run asks all properties of
all parts. `MCProgress` is such a sum as well, of the eight components that
promise something in the end, with instances and fairness of its own; those that
a behaviour is not of stand still there.

### 2.1 DeleteQueue

* `row`, `eml`, `alien`: the `messages` row of a mail, its archived file, and
  whether its number is one of the provider's trash. A row in INBOX has no file,
  a good one or a bad one at the start; a mail in a local folder came there with
  a good one.
* `copies`: what the provider has of the mail. A mail may be there twice (a
  `COPY` without its `STORE`), marked, under a new number, or passed by the
  cursor.
* `queue`, `api`, `restoring`, `expungeDue`: the table `delete_queue`, requests
  between two sections, restore ops, the table `expunge_offen`.
* `at`, `todo`, `cur`, `ok`, `expired`, `leaving`: the loop's program counter
  and what it holds in hand.
* `DeleteLookup`, `DeleteMove`, `DeleteEnqueue` are the three sections of
  `delete_message_archive_trash`; `Take`, `Remove`, `MarkResult` the three of
  `run_delete_queue` (the rows are those listed by `SyncDone`, as they were
  then); `RemoveFile`, `RemoveRow` the two of `run_trash_retention`. `Remove`
  has every outcome: refused, done halfway, done with the answer lost, done.
* The order in which the worker takes its rows (newest first, to the second) is
  left open. `DeleteLookup` takes two sections under the lock as one (finding
  the row, `api/messages.rs:1979`, and its account, 2002): a row found and moved
  in between goes the way of one moved before `DeleteMove`. `RefetchGuard` does
  not look at `synced` (`cache/messages.rs:104`): where a confirmed row is in the
  trash the code writes a second row beside it, which has no entry in the queue,
  and the model has one row per mail.

### 2.2 MailSync

* `place`, `next`: the provider's folders and the next number of each;
  `rows`, `cursor`, `ops`, `dq`: the tables; `at` … `todo`: the loop;
  `word`, `crossed`: history – what the user last said of a mail, and whether
  its moves crossed (Relay and another client moved it before either had seen
  the other's move, or an op ran while an older one for the mail waited).
* One action per step of a folder's synchronisation: `Fetch`, `Save`
  (`save_message` over the batch, with restore and re-fetch guard), `List` or
  `Skip`, `Ask`, `Prune`, `Body`; then `RemoveQueued`, `RunOp`, `OpsDone`.
* `update_folder_from`: a copy in the target wins over the row; a number in use
  is shifted by 100 000; the row is provisional from then on.
* Left out: mails without Message-ID (they are in `DeleteQueue`), ops by number,
  flags and labels, the first full backfill in batches, the limits of 10 ops and
  50 queue rows per round (both lists are worked off over several rounds in the
  code). The folders are visited INBOX, Work, Trash; the code takes the order of
  the provider's list. The EXPUNGE that ends a round empties every folder.
  `run_removal_check` prunes as `List` and `Prune` do.

### 2.3 SyncCycle

* `heap` keeps the tasks in the order of their creation; `Best` is the order of
  `SyncTask::cmp`; `Again` the retry with one priority less and the old time of
  creation (`older` says where it goes back).
* `never`, `age`, `Every`: the timers. `DueAtStart` are the jobs whose empty
  timer counts as due (`unwrap_or(true)`). The others are never due: only a run of
  theirs would set their timer, so the refresh of read marks
  (`sync/scheduler.rs:275`) and the collection of attachments (283) never run.
* `op`, `flagged`, `pending`, `listed`, `lost`: one mail that an op marks, the
  folder in `EXPUNGE_PENDING` and in `expunge_offen`, in the order of the code:
  an op by number is done before the folder is registered, an op by Message-ID
  after.
* `MarkDeleted` may fail as often as there are events; the code gives an op up
  after five attempts (`cache/provider_ops.rs:204`), more than the run's events.
* What the tasks do to the mail is left out, but for what makes a task come
  back: `diffs`, `raw`, `KeptLocal`, `llm`.

### 2.4 The components

Variables are named as the tables, fields and statics they stand for; a handler
that works in several sections is one action per section, with what it holds
between them in a record (`request`, `sync`, `worker`, `job`, `at`). A call that
fails costs an *error* (`Fails`), a change outside an *event*, both bounded.
Sometimes the code has a window in which a property fails; then the model keeps
it, and a history variable (`disturbed`, `excused`, `odd`, `crossed`, `parted`,
`untold`, `overlap`, `lost`, `halfway`, `mistaken`, `unproven`, `unread`, `raced`,
`abandoned`) records that a behaviour went through it. The property excuses those
behaviours and no others: it does not catch the window itself, it shows that the
list of windows is complete. `PROJECT.json` says so at each hazard that is
excused.

* **AiGateway.** `breaker` of each client, `at` of each request: `Ask`
  (`allow_request`), `Acquire` or `Busy` (the permit, 30 s), `Fails`, `Again`
  (back-off), `Answers`, `Record`, `Done`; `Drop` is a hang-up at any step,
  `NewClient` the exchange by `get_settings` and `save_settings`. The first to
  ask after the pause passes without taking the probe's permit, so two probes
  pass. Streams ask neither breaker nor permit.
* **SummaryWorker.** `channel`, and what the two senders have still to send.
  A job names folder and number; `Move` gives the number to other mails while
  the model thinks. That the worker may then store a summary at another mail's
  row (`update_ai_fraud` does not even look at the folder) is in the model and
  promised nowhere.
* **Learning.** `diffs` (20 per recipient), `list` (the batch the task has read
  and works off, most changed first), the portrait. Three drafts the model can
  never read and that were changed more hold the others up for good (`Blocked`).
* **Assistant.** `plans` with status and history of what ran, `confirm` of each
  request. Status is read before the steps and written after, so two
  confirmations that overlap, or one that breaks off, execute a step twice
  (`overlap`). `expire_pending` compares times as texts: a plan of today never
  expires, and no caller looks at the 15 minutes when confirming.
* **ImapSlots.** `slot` (the session or nothing), `tracker` (the folder of the
  pool), `opLock`, `connLock`; an operation takes the session out of the slot,
  works in a thread and puts it back, or gives it up after its timeout. Ping and
  connect go around `op_lock`, which can leave the tracker behind (`disturbed`).
  A rename on the user's slot forgets the tracker of the other.
* **Outgoing.** `outbox` of the client with runs of the handler of `online`, the
  calls under way, `delivered`; an answer may be lost, the server restart.
* **Attachments.** `parts` and `files`; saving a draft in three sections beside
  clean-up, repair, loading and a crash that tears a file. A torn file stays and
  is trusted (`cache/archive.rs:97`); the property is about rows and files.
* **ListCache.** `data`, `own`, `entries`: versions instead of contents. `odd`
  has the folders of a list that was read before a change and stored after it.
* **FolderAdmin.** `tree` and `trash` of the provider, `at` and `shown` of each
  mail, `ops`: each handler as its chain of commands, any of which may fail, with
  mails arriving between them. `lost` says why a mail is gone. A folder's name is
  the path to it; a provider makes the folders above one it is asked for
  (`WithParents`). Folders are deleted from below, in any order otherwise. A
  rename is two steps: at the provider (`RenameAtProvider`), then in the index
  (`ordner_umbenennen`), where rows, cursors and waiting ops of the folder and all
  below it come along, in writes of their own. The second may not happen (a lost
  answer, a stop of the server, the name taken in the index) or stop before the
  ops, which then keep the old name (`halfway`). Renaming a folder that only Relay
  has is left out.
* **Moves.** `source` by place, `row`, `request` as chain. The provider gives a
  number once; a row moved inside Relay keeps the number it had in the old folder,
  or is shifted by 100 000 where another row has it (`MoveRow`). Mails with a
  Message-ID are found again by it, `Anonymous` ones by their number, so that an
  op may reach whichever mail has that number by then (`mistaken`), and the file
  that is verified before a removal may be another mail's (`unproven`).
* **Calendars, Contacts, Tasks.** `server`, `row` and two synchronisations at
  once, each holding what it read until it stores it. Versions instead of
  contents; provider first for events and contacts, row first for tasks. In
  `Contacts` a token is the number of the last change it covers; an incremental
  answer also names who was deleted, and their rows go in a section before the
  token (`Remove`). In `Tasks` the box and the fields of one request are two
  writes of the row with an exit in between (`parse_due`). `parted` has the tasks
  with a failed call or crossed changes, `untold` those whose last change the code
  sends to nobody.
* **Meetings, Ideas.** `file` in the drop directory, rewritten and removed at
  any time, `row`, overlapping scans. Ideas: claim, asking whether there is a
  model, looking at the noted task, plan, create, note, as sections. The model is asked for first, as in the code, so that the attempts of
  a memo with a noted task may end in the fallback task (`unread`). Outages of
  model and provider are not counted as attempts. `Quarter` is the 15 minutes
  after which a claim may be taken over.
* **Invitations.** `event` and `server`, `mails` that arrive in any order and
  again, the own `request` in sections. `crossed` has the persons whose status
  cannot be right: answers out of order, an answer before the rows are written,
  the own event accepted from the queue. `handle_request` takes check, PUT and save
  of an invitation as one step; without a calendar it is only stored.
* **GoogleSignIn.** The sign-in in three places (`setting`, `KONTEN`,
  `ZUGAENGE`), each with a lock of its own; tokens carry the number of their
  sign-in.
* **Migration, MailImport.** `worker` and `job` as program counters, `rows`,
  `target`, `files` by path. In `Migration` a start asks for the status in one
  step and sets it in another (`starting`), so that two tasks may run; the request
  that copies a folder or an account asks nobody; `reset_target` removes the files,
  then the rows. A mail is named by its place at the source, a row is found by its
  number alone, and the file's path is made of number and row: a file holds the
  mail of a place, or an empty one. Simplified: a source row is named by the place
  of its own mail (where it carries another's number is `MCMailSyncWrongMail`), and
  its archived file holds that mail (otherwise `MCMailSyncOwnFile`); `RemoveFiles`
  lists and removes in one step; an error of the database while the target's
  numbers are read, the count, and the target's own synchronisation are left out.

## 3. Runs

| Run | Bounds | Shows |
|---|---|---|
| `MCDeleteQueue` | one mail, four set-ups, 2 attempts, 2 requests, 1 restore or retry, 1 restart | four invariants, the refinement and `EveryDeletionEnds` hold |
| `MCDeleteQueuePromise` | same | violated: the fallback deletes for good where it sees no trash |
| `MCDeleteQueueRestored` | same | violated: a restored mail can lose its row |
| `MCMailSync` | one mail and 3 events, or two mails and 1; 2 attempts; both modes | three safety, two liveness properties hold |
| `MCMailSyncWrongMail` | two mails, 2 events, archive | violated: a deletion hits another mail |
| `MCMailSyncOwnFile` | same | violated: a row has another mail's file |
| `MCSyncCycle` | two accounts, 3 events, batches of one, one fetch retry | three safety, two liveness properties hold |
| `MCSyncCycleEndless` | 2 events | violated: a round need not end |
| `MCComponents` | nineteen parts, constants in `MCComponents.cfg`; 2.9 million states | types, sixteen invariants, one action property |
| `MCProgress` | eight of them, smaller; 77 thousand states | six liveness properties |
| `MCMailImport` | one mailbox of two mails | violated: imported mails overwrite each other's number |
| `MCMigrationCopies` | two folders, one number, one start | violated: a copy holds another folder's mail, or an empty one |

**Why these bounds are enough.** *DeleteQueue*: the actions on different mails
share only the program counter and `expungeDue`, so one mail shows what may
happen to it; the theorems take any number of mails. Two requests give the
doubled request, two attempts the retry and the giving-up, one restart falls
between any two steps. The four set-ups are the three kinds of provider the
fallback distinguishes, and a mail without Message-ID. *MailSync*: three events
are the least in which an op fails, is overtaken by another and tried again, or
a move crosses another client's; two mails are the least for a number that is
somebody else's. Numbers are shifted by far more than there are mails, as in
the code. *SyncCycle*: with two accounts one can starve or block the other;
three events are a failure, a request and a restart, in any order.

*Components*: each instance has the least in which its hazard happens. Two
requests or two synchronisations overlap; one failing call falls at any step;
one restart or hang-up between any two; two mails share a number, two folders
nest; three versions are an old, a newer and a late one. Capacities and limits
(channel 512, cache 64, session 20, batch 3) are set so small that they fill. In
`Contacts` and `Migration` a bound is joint. `Contacts` has three events: changes of
the address book, a failed call, a switch (a contact put there, deleted and put
back, and removed by the older answer, takes three changes). `Migration` has two:
starts, a failed call, a change, restart or reset, so that two tasks run at once, or
one beside a request, with the same number in two folders. Longer behaviours of
all components are the theorems' (section 4).

Every bound is a constant: `MaxRequests`, `MaxRestores`, `MaxCrashes`,
`MaxEvents`, `MaxRaw` and the `events` of an account bound what the world does,
never what the loop does. `MaxAttempts` (5), `FetchRetries` (3), `DiffBatch` (3)
and `MailBatch` (20) are constants of the code, set smaller. In the components it is
`MaxErrors`, `MaxCrashes`, `MaxVersion`, `MaxChanges`, `MaxSwitches`,
`MaxStarts`, `MaxRequests` and the like.
The runs of the core are checked for deadlock: the loop always has a next step.
Those of the components are not: their parts stop when everything asked for is
done and the bounds are used up. That nobody waits for ever there is what the
liveness properties of `MCProgress` ask (`OpsEnd`, `RoundGoesOn`, `RequestsEnd`).

**Fairness.** `WF_vars(Loop)`: the loop goes on as long as the server runs; it
is one task that never ends but with the process, and every IMAP command has a
timeout. Nothing is assumed of handlers, users, providers or other clients.
`MailSync` adds strong fairness for two steps that the code takes by the clock:
a folder without news is compared every ten minutes, and a row that waits has
waited two minutes at some time. Command failures cost an event, so that a
provider that never answers again is not what liveness is asked of.
In the components (`Fairness` of each module): who was begun runs on, because
every call has a timeout; the tickers of DAV, Insilo and ideas come again; the
worker runs on. Strong fairness only where the code has a queue that is served
in order (senders into tokio's channel), for the learning tasks, which come with
every round, and for the quarter of an hour that goes by while an idea waits.
Users, clients, providers and other programs owe nothing. In `MCProgress` one
conjunct serves several parts, since only one part moves.

**The properties.**

* `KeepsACopy`, `DeletedMeansGone`, `Untouched`: no last copy is lost but in the
  two known ways; "deleted" is true; a mail not asked for is left alone.
* `KeepsThePromiseButForTheFallback`: the pipeline implements `ArchivePromise`
  weakened by `BlindDelete`; `KeepsThePromise` (without it) is violated.
* `EveryDeletionEnds`: deleted, given up, removed – or left `verified`.
* `ConfirmedNumbers`: the number of a synced row is that mail's or nobody's.
* `Kept`: the provider keeps each mail as the user last said.
* `EverythingShown`, `NoGhosts`: in the end the index shows every mail where it
  is and nothing else. Crossed moves and given-up ops are excepted: there the
  cursor may have passed a mail for good.
* `NoAccountLeftOut`, `MailFirst`, `RoundsGoOn`, `MarkedIsExpunged`: the round.
  `RoundsGoOn` and `MarkedIsExpunged` except the two tasks that come back for
  ever, which `EveryRoundEnds` reports; `MarkedIsExpunged` also excepts a
  restart between "done" and the registration of an op by number.

Of the components, with the windows that are excused:

* `RequestsEnd`, `OnlyLostProbesLatch`: a request to the model comes back; the
  breaker stays half open with nobody under way only when its probe was lost
  without a word (hang-up, no permit).
* `RoundGoesOn`, `DraftsLearned`, `OpsEnd`: nothing waits for ever for the
  channel, the model or the two IMAP locks. Excused: a batch of unreadable drafts.
* `OnceUnlessOverlapping`: see *Assistant*.
* `RightFolderUndisturbed`: every IMAP command runs in the folder it names.
* `NothingLost`, `TwiceOnlyDisturbed`: the outbox. Excused for the second: a
  lost answer, a second event "online" while it is being sent.
* `DraftsKeepContents`: clean-up, repair and drafts saved beside them.
* `OwnChangesShown`: the list cache. Excused: `odd`.
* `FoldersNotMails`, `MovesFollow`, `MovedNotLost`: no mail is lost with its
  folder or on its way, no waiting move is left without a target. Excused for the
  first: a mail that comes in between the move to the trash and the `DELETE`, and
  the trash below the folder deleted; for the second: folders deleted, and a
  rename done at the provider that the waiting moves did not follow (`halfway`);
  for the third: mails deleted at a number another mail had (`mistaken`), and mails
  removed for good because another mail's file was verified (`unproven`): the row
  moved is looked for by the number it had (`api/messages.rs:784`), also where it
  was shifted, against the comment above it.
* `CoveredIsShown`: what the CardDAV token covers is shown. Excused: a change
  during a full read (the token is asked for after the cards), failures, answers
  stored out of order, an older answer that removed a newer row, the switch moved
  under a synchronisation.
* `ChangesReachProvider`: when no request is under way, the provider has what the
  user last did to a task. Every change and deletion counts as the user's. Excused
  are two lists, and they are meant to be read: `untold` – marked done with a
  successor unless it recurs at Google, deleted over CalDAV, merged at Google, the
  box of a change whose due date cannot be read – and `parted`.
* `AgreesInTheEnd`: events, tasks and meetings agree with their source in the end;
  tasks once the requests have stopped.
* `OneRunPerIdea`, `IdeasBecomeTasks`: once, and at some time. Excused: rows set
  back, a changed memo while it is worked at, a claim older than 15 minutes, a task
  made and not noted, a dry run, the fallback task of a memo whose task is noted
  while no model is configured (`unread`: `insilo_ideas.rs:607` asks for the model
  first, against the comment at `cache/ideas.rs:25`); a run that ended without
  coming back.
* `StatusAsAnswered`: see *Invitations*.
* `OneSignIn`: no token of an older sign-in stays. Excused: a refresh or a
  return from Google under way while the sign-in changes or after the account
  was deleted, a sign-out whose write failed.
* `DoneIsComplete`: a folder the migration reports done without an error has a row
  and a file for every mail that was listed and did not count as failed, and the
  file holds that mail. Excused: two tasks at once (`api/migrate.rs:641` says
  "Refuse to start twice", but asks and sets under two locks), a reset under way or
  cut off, the target's own mail of the number, another folder's mail of the number
  and an empty mail (`CopiesHold` reports both).
* `NoSecondCopy`: the import. Excused: requests side by side.

`OneCallPerClient` (`AiGateway`) and `RemovedStaysAway` (`Meetings`) are stated
beside these; no run
checks them, theorems do (section 4).

What the models show beyond that, as windows they contain. Most windows of plans,
ideas and CardDAV tokens are the same one: the effect comes before the state that
guards it is written. The numbers of imports and of `Migration`'s target are not
safe as names (a mail of the target with the same number counts as migrated, the
row of another folder gives its file, the archive path has no folder in it); an
unreachable folder counts as done in the task for all folders
(`api/migrate.rs:706`).

The seven violated properties are statements of the documentation or of comments;
`PROJECT.json` quotes them under `findings`.

## 4. Proofs

`DeleteQueueProofs` proves, for every set of mails, every set of set-ups and
every value of the bounds (assumptions `SetupsAssumption`, `BoundsAssumption`):

* `TypeCorrect`, `CopyKept`, `DeletedTruth`, `UntouchedMail`: the invariants
  `TypeOK`, `KeepsACopy`, `DeletedMeansGone`, `Untouched`.
* `PromiseKept`: `Spec => KeepsThePromiseButForTheFallback`, the refinement of
  `ArchivePromise!FallbackSpec`.

The argument goes through one inductive invariant, `IInv` (`Initially`,
`Inductive`, `Invariant`). `DeletedMeansGone` is not inductive: a removal acts on
a snapshot (`cur`) of a row, possibly an older one than the row itself. Hence

* `Stage`: what belongs to a stage is empty outside of it;
* `Ids`: a request, the row it becomes and the worker's snapshot carry one fresh
  number, so that a mark by number changes one row;
* `Same`: snapshot and row agree in mail, folder and number;
* `OnlyAsked`: what the pipeline holds was asked for – the key of `Untouched`;
  it needs the cascade, by which a mail that came back sheds its old rows;
* `Verdict`: when the worker acts on a verdict it still holds, because nothing
  that takes a file away runs between the verdict and the removal;
* `LastCopy`: `KeepsACopy` already when the last copy is marked, so that the
  EXPUNGE cannot break it;
* `DoneMeansGone`: between the removal and the mark the mail is gone already.

For the refinement every step is mapped to a step of the promise or a stutter
(`StepKeepsThePromise`), with `Quiet` for the steps that change none of the
mapped variables and `RemoveMoves` for the outcomes of `Remove`.

`MailSyncProofs` proves the safety properties of `MailSync`, for any number of
mails, requests, failures, moves by others and restarts (`AccountsAssumption`,
`NoneAssumption`, and for the types `BoundsAssumption`: mails are finitely many,
an op may be tried once at least):

* `NumbersConfirmed` (`ConfirmedNumbers`), with the types the proof needs
  (`Records`) and `Numbers`: whatever is known by a number - a mail in a folder,
  a mail of the batch in hand, a row the server confirmed - has it alone, and it
  lies below the next number of its folder. A mail that moves away keeps its old
  number reserved, because `next` only grows; rows become confirmed only by a
  batch (`RowNumbers`).
* `MailsKept` (`Kept`), in mirror mode, with `Mirrored`: the ops for a mail form
  a path from where the provider has it, or from a place on the path it has gone
  ahead to (the answer of an op was lost), to where its user last put it
  (`InOrder`: `OnPath`, `Connected`, `Reaches`). A request makes the path longer
  at its end (`LongerPath`), an op done makes it shorter at its start
  (`ShorterPath`), a failure leaves it, or moves the mail along it (`Failed`).
  This needs that an op is the oldest when it runs; where it is not, or another
  client moves the mail at the same time, `crossed` notes it and nothing is
  promised.
* `TypeCorrect` (`TypeOK`). The bound on numbers is not inductive by itself: an
  op or a row of the delete queue may still bring a mail to a folder under a new
  number. `Counted` counts what was spent: a folder's next number, the ops and
  the queued rows together stay below the mails that came and the events
  (`CountedStays`). `Numbered` says that every op has a number of its own and
  that one taken for this round may be tried once more, `Within` and `Filled`
  bound what the loop remembers and the rows. The three choices of the model have
  something to choose from: `FreeNumberFound` (one of as many shifts as there are
  rows, and one more, is free - the pigeonhole principle), `NewIdsFound`,
  `CursorSet`.

`SyncCycleProofs` proves `TypeCorrect` (`TypeOK`), `NobodyLeftOut`
(`NoAccountLeftOut`) and `FetchFirst` (`MailFirst`), for any finite set of
accounts, any batches and up to four retries (`RetriesAssumption`: with more of
them a fetch tried again would come after the summaries). The invariant (`Round`):
the queue has one fetch at most for each account (`Single`), it counts its failures
in its priority (`OpenFetch`), everything else lies at 5 or below (`Sound`); an
account not waited for has its fetch in the queue or in hand, or is through with it
(`Served`); and behind the queue no fetch is left (`Steps`), so that nothing a
handler puts there meanwhile can be one. The lemmas on the way say what
`RemoveAt`, `InsertAt` and `SetToSeq` do to a sequence, and that the queue has a
task of highest priority to take (`BestFirst`).

The components: `ComponentsProofs` proves, for every value of the constants that
`MailboxAssumption`, `TransferAssumption`, `AgendaAssumption` and
`AdvisorAssumption` allow (finite sets where something is counted, positive limits,
different names for different things, folders that can be renamed within the
names there are), all eighteen safety properties that the run checks: `TypeCorrect`
(`TypeOK`) and one theorem for each of the others, `KeptUntilTaken` for the action
property `NothingLost`; and `OneCall`, `RemovedForGood` for the two that no run
checks. The argument is the same for all: a component's invariant holds when the
part begins (`Begins`) and each step of the part keeps it (`Steps`), so `Inv`, the
invariants of all parts, holds whatever part a behaviour is of (`Invariant`). A
component's types are part of its invariant, because counters have to be bounded
by what is under way and not only by themselves. Beyond the types:

* *Attachments* (`AttachmentsInv`): `DraftsKeepContents` is inductive with the
  types: a row names a file only in the section that has stored it, and the
  clean-up sees all rows in one.
* *Moves* (`MovesInv`): a number is given once (`MovesGivenOnce`), a mail with a
  removal for good waiting was dismissed, is in the archive or was given up for
  another mail's file (`MovesRemovable`), and a number that a request read is still
  that mail's or nobody's while it holds the mail it read (`MovesReadThere`).
* *ListCache* (`ListInv`): a reader asked before it reads (`ListAsked`), the user
  knows only of what happened (`ListTold`), what is held is no older than that
  (`ListFresh`), and a change drops every list it touches but odd ones (`ListDrops`).
* *FolderAdmin* (`FolderInv`): with a folder the provider has those above it
  (`FolderTree`); what a move waits for, and where Relay shows a mail, is there
  with all above it, or was deleted – by its new name while a rename is done at
  the provider and not yet in Relay (`FolderWaiting`, `FolderRenames`); what is in
  a folder after its mails went to the trash came late (`FolderEmptied`). The
  lemmas about `Below`, `Rename` and `WithParents` say that a rename takes prefixes
  to prefixes.
* *ImapSlots* (`SlotsInv`): who is past a lock is first in its line (`SlotsLines`);
  undisturbed, one thread has the session and slot and ping are empty
  (`SlotsWorking`), and the tracker names the folder of whoever has a session, or
  none (`SlotsTracked`).
* *Outgoing*: a run is at the first mail of its list, and whatever the server does
  after SMTP it does for a mail the provider has (`OutgoingRequests`). Undisturbed
  there is one run, it works through mails of the outbox without an answer, no
  mail has two requests, and one the provider took has its answer or is waiting
  for it (`OutgoingUndisturbed`). Copies and lessons are counted with the
  requests that will still make one (`OutgoingCounted`).
* *MailImport* (`ImportInv`): a request seeks one mail and nobody else seeks it
  unless that was noted (`ImportAlone`).
* *Migration* (`MigrationInv`), in three parts. Types and counts (`MigrationTyped`).
  What a worker holds, a file holds and a row's path leads to is a mail of that
  number that was there once, of another folder only where two had one, or the
  empty mail (`MigrationGenuine`: `MigrationHonest`, `MigrationFiles`,
  `MigrationLeads`). While the status is not shared it is the only task's
  (`MigrationAlone`, `MigrationOwner`), and the mails that task listed are copied,
  counted as failed or still to do (`MigrationNoneSkipped`), so that they have rows
  when it reports them (`MigrationDone`); requests beside it only add rows, a reset
  makes it forget what it listed.
* *Contacts* (`ContactsInv`): numbers are the past's (`ContactsPast`); what the
  token covers, or will cover once a run has stored what it read, is shown or
  about to be (`ContactsCovered`, `ContactsReading_`); whom a run will remove is
  gone at the provider, or came back after its answer and is read again.
* *Tasks* (`TasksInv`): outside the two lists, where the provider's version is older
  than the user's, a request with it is on its way (`TasksReached`); versions are
  no newer than the last one given (`TasksNumbers`).
* *Invitations* (`InvitationsInv`): the last mail of a person is the answer
  (`InvitationsLastAnswers`), the last one handled is what is shown
  (`InvitationsLastHandled`), unless they crossed.
* *Meetings*: what was removed has no row, whatever scans have in hand.
* *GoogleSignIn* (`SignInInv`): while nothing is excused, sign-ins and sign-outs
  come one after the other, refreshes use the token in memory, and each step finds
  changed what the code changes before it.
* *AiGateway* (`GatewayInv`): one request holds a client (`GatewayOneHolder`); one
  counted among the probes of a half-open breaker is under way
  (`GatewayWatched`): every step that ends a request records first or notes the
  probe as lost.
* *Assistant* (`AssistantInv`): a plan without overlap has one confirmation at
  most; what that has not come to has not run, and of a plan that waits nothing
  has (`AssistantSound`).
* *Ideas* (`IdeasInv`): what one run is at its row says, and no other run is at it
  (`IdeasClaims`); a task made is noted or about to be, and what is noted the claim
  has read (`IdeasNoted`).
* *SummaryWorker* (`SummaryInv`): a folder has given no more numbers than mails
  came and events passed (`SummaryNumbers`). *Calendars* and *Learning*: their types
  are inductive.

With that every invariant and every action property that a run checks is proved
as well. Only model-checked are the liveness properties (`EveryDeletionEnds`,
`EverythingShown`, `NoGhosts`, `RoundsGoOn`, `MarkedIsExpunged` and those of
`MCProgress`): the proof system has no rules for fairness (`ENABLED`), and most of
them would need an induction over what is still to do. The violated properties are
false, so there is nothing to prove.

## 5. Not modelled, and the plan

Left for later, in this order:

1. Proofs: the steps on which the liveness properties rest, as action properties
   (what is still to do in a round only shrinks); the refinement of abstract
   specifications for `Outgoing` (a mail handed over once) and `Moves`.
2. `MailSync` with UIDVALIDITY changes (`sync/scheduler.rs:1620`), ops by
   number, backfill in batches and the limits per round.
3. Trash retention against a restore (`sync/scheduler.rs:601`) and the backfill
   that an account's switch keeps in memory only (`api/accounts.rs:223`).

Left aside for good: parsers and formats (iCalendar, vCard, MIME), scoring and
statistics over texts, prompts, rendering, settings, snippets, tags and topics
stored in one statement, exports and backups, push, start and migrations of the
schema, encryption at rest, the user interface but for its outbox. These have
no concurrency of their own, or nothing but data for a property to be about.
