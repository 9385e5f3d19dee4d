# ChannelAgent in TLA+

ChannelAgent puts conversational agents behind messaging channels: people write by Telegram
or email, administrators decide who is answered, a local language model answers. Everything
runs in one asyncio process on two SQLite files, next to a mail server, Telegram, a llama.cpp
engine and, at times, a second process: the administrator's console.

This directory holds specifications of the parts where orders of events matter, the TLC
configurations that check them and the proofs of what could be proved. Source paths are
relative to `src/`; [PROJECT.json](PROJECT.json) maps every definition to its lines.

## The system

| Part | State it keeps | Operations | What makes it hard |
|---|---|---|---|
| Dispatch (`app/channels/dispatch.py`) | none of its own: rows of `action_logs` | authorize, record, run the turn, record, reply, mark | three commits and one delivery per message, each can fail alone |
| Email adapter (`app/channels/email.py`) | `_attempts` in memory; flags and folders on the server | poll, fetch, file, retry, give up | a mailbox shared with people, at-least-once, restarts |
| Telegram (`telegram.py`, `notify.py`) | the library's update queue | hand over, reply, notify | drops what was pending at start |
| Access (`app/security/auth.py`, requests in `app/admin/service.py`) | requests, identities, permissions, trail | request, approve, deny, link, grant, revoke, activate | API and console act on the same rows, from what they read earlier |
| Users, agents, conversations (`app/admin/service.py`, `app/graph.py`, `app/checkpoints.py`) | rows in one database, threads in another | turns, choice of an agent, reset, purge | no transaction spans both; turns outlive what they read; ids are reused |
| The engine side of a turn (`graph.py: call_llm`, `app/tools.py`, `app/mcp/`) | summary in the checkpoint, sessions to MCP servers | window, summary, tool rounds, fallback | budgets, partial failure of a summary, sessions that die |
| Model store (`app/admin/models.py`, `jobs.py`, `app/api/models_routes.py`) | files, `.part`, `.sha256`, `_active`, jobs | import, pull, resume, delete, cancel | jobs interleave at every await, process dies with half a file |
| Key rotation and restore (`app/admin/rekey.py`, `rekey_guided.py`, `restore.py`, `app/db/backup.py`) | two databases, `.env`, `.env.pre-rekey`, copies | rotate, finish by hand, back up, restore | a crash between any two of these writes |
| Admin API (`app/api/`) | the failed-attempt table, one session per request | authenticate, change and record, search the log, cut off | eviction; a limit that ends a request anywhere; one write lock |
| Settings file (`app/settings_rules.py`) | `.env`, `.env.bak` | save, by the API and by a script | two processes and no lock; four writes |
| Routing (`app/admin/routing.py`, `app/graph.py`) | default, context sizes, rules | replace, choose | a turn reads it in two SELECTs |
| Supervision (`app/main.py`, `app/health.py`) | component tasks, heartbeat file | start, watch | a dead part behind a live one |
| Configuration, manifest, client, schemas, logging, cryptography | none | validate, format | stateless |

They interact through the application database (everything), the checkpoint database (turns,
resets, purges, rekey), the models directory and calls inside the one event loop. What is hard
to test, line by line, is the list `hazards` of PROJECT.json; the properties answer to it.

## Modules

| Module | Models | Proofs |
|---|---|---|
| `AuditTrail` | entries of `action_logs` and `find_undelivered_answer` | `EmailDelivery_proofs` |
| `EmailDelivery` (EXTENDS `AuditTrail`) | mailbox, adapter, `dispatch_event`, trail, checkpoint | `EmailDelivery_proofs` |
| `AccessDesk` | requests, identities, permissions, two or more desks | `AccessDesk_proofs` |
| `Conversations` | users, agents, threads, turns, resets, deletions | `Conversations_proofs` |
| `AccessList` | the abstract administration: each operation is one change of a list of access | implemented by `AccessDesk` (one desk) |
| `ModelStore` | directory, claims, jobs | `ModelStore_proofs` |
| `ModelLibrary` | the abstract directory: orders for whole files, met in one step or given up | implemented by `ModelStore` |
| `Databases` | databases, copies, `.env`, the program that runs; start, copy, prune, migrate | |
| `KeyRotation` (EXTENDS `Databases`) | the guided and the manual rotation, the owner's hand | |
| `Restore` (EXTENDS `Databases`) | a copy takes the place of the database | |
| `Maintenance` (EXTENDS both) | the host's programs composed, and what they promise | `Maintenance_proofs` |
| `McpServer` | the manager's objects for one server name: sessions, lock, backoff, permits | `Process_proofs` |
| `ToolCalls` (EXTENDS `McpServer`) | turns with tools: registering, probe, listing, rounds, calls, rows | `Process_proofs` |
| `ModelRouting` | the routing table, its readings, the choice of a model and its context | |
| `ContextWindow` (EXTENDS `ModelRouting`) | what a turn sends: window, summary, fallback | `ContextWindow_proofs` |
| `AttemptLimit` | the table of wrong keys | `AdminApi_proofs` |
| `SettingsFile` | `.env` and `.env.bak`, saved by two processes | `AdminApi_proofs` |
| `LogSearch` | the search of the encrypted log, batch by batch | `AdminApi_proofs` |
| `AdminApi` (EXTENDS these three) | requests, their transactions, the write lock, the time limit, restarts | `AdminApi_proofs` |
| `AtomicRequests` | the abstract API: a request is carried out at once or not at all | implemented by `AdminApi` |
| `Supervision` | `main`, its parts, the heartbeat, the health check | `Process_proofs` |
| `MC*` | constants for TLC | |

### EmailDelivery

One step is one await that can fail: an IMAP session, a commit, the model, the SMTP session.
`pc` is where the adapter task is between two of them:
`idle` → `fetch` (`_fetch_tagged_unseen`) → `batch` (`_poll_once`) → `admit` (authorize,
agent, inbound entry, commit) → `lookup` (`find_undelivered_answer`) → `start`, `model`
(`run_turn` and its two checkpoints) → `record` → `reply` → `markfailed`, or `resend`,
`markok` (`_redeliver`), or `note` → `file` (`_finalize_message`). `attempts` is `_attempts`
and is lost in `Crash`; `log` and `thread` survive. Each fault spends from a `Budget`, and
properties name what was spent, so that each says exactly which faults it survives. Whether a
sender really got a text is in `received` and `copies`, which the code cannot see.

### AccessDesk

An operation of `app/admin/service.py` is a read (`Open…`) and a write made from what was
read (`Approve`, `Deny`, `Link`, …), because SQLite takes its write lock at the first write
only. The console keeps its session, and SQLAlchemy the objects, while a person types.
`Abandon` is every end without a commit. `word` and `said` are the last admin event on a
permission and on a user's activity. `AccessList` is what an administrator and a requester see:
the user of each key (`Owner`), the rights (`Rights`), who is active and the requests. Its `Ask`,
`Admit`, `Deny`, `Link`, … are the writes, each judged by the list as it is then; reading, typing
and abandoning change nothing in it.

### Conversations

A turn (`Write`, `Load`, `Ask`, `Reply`, `Record`) reads its thread once and writes it back
whole. Resets and deletions erase thread by thread (`Erase`), deletions between the flush that
takes the lock and the commit. Ids are given as SQLite does without AUTOINCREMENT; a *life* is
one user, whatever their id.

### ModelStore

A file is a sequence of blocks that remember which file they come from; the SHA256 of a
sequence is the sequence. `asked`, `requesting`, `receiving`, `checking`, `checked` (pull) and
`asked`, `copying` (import) are the awaits of a job, `recording` the event's commit. `Stop` is
a failure or a cancellation at any of them, `Crash` the death of the process. `ModelLibrary` is
what is seen from outside: which file a name has (`Shelf`), and what is on order (`OpenOrders`, the
jobs before their file is in place). `.part` files, hashes, claims and stages are below it.

### Databases, KeyRotation, Restore, Maintenance

An encrypted value *is* the key it can be read with, so a lost key and a value under the wrong
key are the same kind of thing: a key that is in use and kept nowhere. `app` and `chat` are the
two databases, `env` and `net` the files `.env` and `.env.pre-rekey` (a file that was truncated
and not yet written holds `NoKey`), `copies` the directory of backups. `proc` is the one program
that runs and where it is: the application (`starting` → `pruning` → `migrating` → `serving`),
a rotation (`opennet` … `fillenv` write the files, `plan` … `verify` are `run_rekey`, `readback`,
and after a failure `failed` → `putback` → `refill` → `unlink`), or a restore (`keeping` →
`swapping` → `over`). A step ends where a file is written or a transaction committed; `Crash`
kills the program between any two, `Fails` and the failing branches are its own error paths.

The owner is assumed to do what the messages of the tools and the documentation ask, in any
order and at any time: one program at a time, the safety net moved aside rather than thrown away
unless it is empty, a key put aside before `.env` is changed, and the net and the prerekey copies
deleted only after a rotation said it was done and the application ran. The tools look for a
running application once (`restore.py:112`) and can miss one; `Launch` takes that check at its word.

### McpServer, ToolCalls

Everything is on one event loop; a step is what happens between two awaits. `server` is the
object `Manager._servers` has for the name now, but older ones live on as long as a turn uses
them, which is why sessions, locks and backoffs are functions of the object. `caller` is where a
turn is inside the manager: `lock` → (`closing`, `connecting`) → `permit` → `calling` → `out`.
`turn` is where it is outside: `register` (the rows were read, `configure` not yet called) →
`probe`, `probing` → `listing` → `ask` → `calls` → `using` → `record` → … → `replied` or `failed`.
`CutOff` is the 20 s of the tool loop, which ends whatever does not swallow a cancellation.
Agents without tools never come here. Closing a session is taken to work, as the SDK is not
modelled.

### ModelRouting, ContextWindow

One conversation. `turn.at` is where the turn is in `run_turn`: `asked` → `agent` → `config` →
`routed` (its three readings: the agent, the row of `routing_config`, the rules) → `stored` (the
question is in the checkpoint) → `fold` (a summary is being written) → `send`, or `default` (the
second attempt, with the default model). A message is its text, with the tokens the server's
tokenizer (`Exact`) or the estimate (`Estimate`) gives it; a summary is its size and the list of the
messages told to it, which the code cannot see. The reply and the summary are stored together, so a
failure leaves both as they were. A rule is the set of messages it matches: how a rule finds that out
is a function of the text, as is the tokenizer.

### AdminApi and what it extends

`req[r].at` is where a request is: `new` → `handler` (it has a session), `saving` (in `set_config`),
`reading` (in the search), `committed` (before the answer leaves) → `over`. A change is a set of calls
of the service layer (`Steps`); each flushes its change and then its event, and the first flush takes
the one write lock of SQLite. Which rows a call changes is in `AccessDesk` and `Conversations`; here it
matters that they, the events and the answer agree. A handler that does not await holds the event
loop: nothing of the application moves while it writes the settings file, the script does. The time
limit of `protect.py` and a restart can end a request anywhere else. `AtomicRequests` is what a caller
may rely on, and `AdminApi!Atomic` the mapping: `asked` is what is still to do, `rows` and `events`
are what is committed, `written` what the file holds already.

`AttemptLimit` keeps ages instead of times: `failures[a][g]` is how many failures of an address are no
older than `g` (none without an entry), and `tracked` is the order of insertion of `_failures`.
`SettingsFile` has a step for every write of `set_config`: the backup is emptied and written, the
file is emptied and written. `LogSearch` is one `Batch` per SELECT; the list it returns is the set
`found` of its pairs of place and id.

### Supervision

`task[p]` is a component's task, `expected` and `success` are `health._components`, `due` is when the
heartbeat wakes. Time passes (`Tick`) only when nothing that is due is left to do, except while a call
that does not yield holds the loop (`Hold`). `unwell` remembers when something was wrong last, by
what the tasks do and not by what `health` was told.

## Runs

| Run | Bounds, and why they are enough | Shows |
|---|---|---|
| `EmailDelivery_faults` | 2 mails out of 3: a text, the same text from the user's other address, another text; 2 attempts, any 3 faults out of 8 (two refused replies, one of each other kind). Two mails are what a mix-up needs, and an answer that fails twice is what giving up needs. `FirstComes` leaves out behaviours without the first mail; `InTime` lets a mail come between two polls and an administrator act before a message is admitted, which is when either is noticed | all safety of the channel |
| `EmailDelivery_live` | 2 mails out of 4 sorts (two texts, an ordinary and a blank mail), 2 attempts, any 2 faults, no agent folder | no tagged mail is unread for ever |
| `AccessDesk_one` | 2 senders, 2 users, 2 rows, 6 operations of one desk, 3 messages | refinement of `AccessList`, trail |
| `AccessDesk_resolved` | one sender, two desks | finding: both resolve the same request |
| `ModelStore_jobs` | one name, two jobs, 3 requests, one crash, four files: local, resumable, longer, over the limit and of unannounced length. Conflicts are per name, so one is enough | refinement of `ModelLibrary`, files are whole, claims exact, jobs end |
| `Conversations_users` | 2 identities, 2 user ids for 3 lives, 2 agent ids, 2 messages, 2 resets or deletions, 3 other changes: enough to give each id twice while a turn runs | separation and erasure |
| `Conversations_reset` | one identity, two messages | finding: a reset is undone by a turn |
| `Maintenance_host` | one value in each database, 2 schema revisions, 3 keys (two rotations), 5 acts of the owner (starts of programs and changes of files), one crash, `Keep` 1: enough for a rotation that is killed or fails, is repaired by hand and repeated, and for a second migration that prunes the copy of the first | no key that is needed is lost, "Done" is true, there is a way back |
| `ToolCalls_turns` | 2 turns at once, one server with 2 configurations, 2 events of the world (a change, a dead peer, elapsed time), one round of up to 2 calls, one permit. Two turns are what a lock and a registry need to be shared; `MaxObjects` and `MaxConnections` are above what two turns can make | who owns the connections, no call twice, which rows there are, every turn ends |
| `ContextWindow_turns` | 2 questions and a reply whose exact and estimated sizes differ, a context of 8 with a share of 6, 7 messages, a batch of 2, summaries of 2 sizes: enough for a second fold, for a summary that grows and for a question that fits alone; two tables, one of which narrows a model | what the summary stands for, what is sent |
| `AdminApi_requests` | 2 requests (changes of up to 2 calls, settings, one search), 2 addresses, a table of 1, a limit of 2, a window of 1, 3 wrong keys each, 3 rows in batches of 1, offsets 0 and 1. The constraint `OneStory` lets a behaviour tell one of three stories, wrong keys, the settings file or the log; they share no state but the requests. Two requests meet in the story of the file, which ends where nothing is promised of the file any more; beside the other two one request runs | refinement of `AtomicRequests`, the limiter, the key, the search |
| `Supervision_parts` | 3 parts, a clock of 8, intervals 1, 2 and 2, two lives: room for one alarm, its end and another, across a restart | what the health of the container says |

`LookBack` is the code's 50; no run writes that many entries, so the cut-off of the search is not
exercised. Deadlock is not checked where the counters of a run (`MaxTasks`, `MaxAsks`, …) end it.

### Fairness

`FairSpec` of `EmailDelivery` is weak fairness of the adapter's step. `run_email_adapter` loops
for ever, catches every exception, and everything it awaits is bounded: IMAP and SMTP by 10 s,
the model by 120 s, a locked SQLite file by its timeout. Faults and interventions are not fair,
and finite. `Fairness` of `ToolCalls` is weak fairness of each turn that has begun, as httpx has
a timeout of 120 s, a server its `timeout_seconds` and a call 20 s, and of the disconnections that
`ensure_future` has scheduled. No fairness of the lock is needed: whoever waits for it waits for
turns that end. `FairSpec` of `ModelStore` is weak fairness of each job: local copies are reads of a
file, a pull is under `MODEL_PULL_TIMEOUT_SECONDS`. Everything else is safety only.

## Proofs

All hold for every value of the constants that satisfies the named assumptions of the module. Every
invariant and every action property of a passing run is stated by a theorem, and so are the three
refinements;
what stays with TLC is at the end of this section.

* `EmailDelivery_proofs`: `TypeCorrect`; `FoldersAreTrue` (`FoldersTellTheEnd`), by two invariants.
  `CountsFailures`: the attempts counted for a mail never exceed the failures that happened, although
  the counter is reset by crashes. `HandledInv`: while no right changes no agent is disabled, and what
  is filed as handled, or about to be, has a copy out, as has a mail whose kept answer is being marked.
  `RepeatsHaveCauses`, by `CountsCopies`: a mail is either still *open*, with its repetitions paid by
  faults, or settled. None of these properties is inductive: each says nothing of the memory of the
  process, on which the next step depends.
  `AnswersGoHome` (`AnswersMatchTheirMail`) rests on `TrailInv`. `find_undelivered_answer` looks for the
  newest entry of a text and takes what comes after it, so the invariant is about neighbours in the
  trail: while no commit failed, a mail that will be retried has an entry of its own text (`HasOwn`)
  from which on every incoming entry is `Settled`, that is, followed at once by an answer to the same
  user, agent and text, unless it is the one being answered now or was denied.
  `QuestionsAreAskedOnce` (`NoRepeatedQuestion`) rests on `RepeatInv`: a mail that is taken for new
  (`Anew`) was never asked, or one of the *slips* that allow a repetition (a restart, a failed IMAP
  session) is still unused. `KeptAnswersAreSent` (`UndeliveredIsNotRegenerated`) rests on `KeptInv` and
  `TurnInv`: while only deliveries fail, a mail with failed attempts has its newest entry followed by
  its answer, marked as failed (`Kept`), which is what the retry finds; so the number of turns is paid
  for like that of questions.
* `AccessDesk_proofs`: `OneDeskDecides` (`DecisionsStand`: a request is resolved once, and a denial
  stands), under the assumption `OneDesk`. With two desks it is false (`AccessDesk_resolved`). No run
  checks it by itself, as `AccessList` promises more. The
  invariant `Sound` says that a request somebody has open is still pending and that a refused message
  has read the status there is. `TypeCorrect` is for any number of desks. `OneDeskTells`
  (`TrailTellsAccess`, with one desk) rests on `Told`: what the desk has read is still so when it
  writes (`Fresh`), a key has one identity, an identity a permission once, and the id given next is new.
  `OneDeskKeepsAList` is the refinement of `AccessList` (`ListIsKept`). `Sound` and `Told` together say
  that a write finds what it was decided on. As keys are linked once (`LinkedOnce`), a row more is a link
  more and a row less a link less (`LinkedOwners`, `UnlinkedOwners`); as the trail tells the permissions,
  what an operation does to the rights is what its event says (`EventChanges`), whichever rows it touched.
* `ModelStore_proofs`: `TypeCorrect`, `ClaimsAreExact`, `OnlyForceReplaces`
  (`ReplacedOnlyByForce`, which `ModelLibrary` implies and no run checks by itself), `ModelsStayWhole`,
  `DirectoryIsALibrary`. The invariant adds to
  `ClaimsMatchJobs` that no two jobs hold one claim, that a claimed name is free or forced, that a
  `.part` is there where a step needs it, and that stages fit the kind of job. `Inhabited`: there
  are a file and a name. `ModelsStayWhole` (`ModelsAreWhole`) also assumes `AllHashed`, that the SHA256
  of every remote file is known: a copy holds blocks of its own file only, and the digest a pull
  compares is that of the `.part` it puts in place. `DirectoryIsALibrary` is the refinement of
  `ModelLibrary` (`LibraryIsKept`), under the same assumptions: an order is the part of a job that does
  not change until its file is in place (`OrdersStay`, `OrderLeaves`, `OrderJoins`), every step inside a
  job leaves shelf and orders as they are (`WorkIsUnseen`), and where a job ends (`EndGivesUp`) or
  installs (`InstallMeets`) the name is free or the job has force, because nobody else holds its claim.
  That what is installed is the file that was ordered, whole, is the invariant of `ModelsStayWhole`
  (`Content`).

* `Maintenance_proofs`: `TypeCorrect`, `NothingIsLost`, `DoneIsReadable`, `ThereIsAWayBack`, for any
  number of values, revisions, keys, copies kept, acts and crashes. `NothingLost` is not inductive,
  because whether the next write loses a key depends on where the running program is. `KeptKnown`
  says that a new key is new; `InStep` says, stage by stage, which of the two keys each file holds
  and that the keys of the running program are kept; `NetIsSpent` says that after "Done" and a run
  of the application no stored value needs the net, which is what makes deleting it safe.
  `DoneIsReadable` follows from `InStep` at `readback`. `ThereIsAWayBack` is a second invariant:
  `Stamped` (copies have the stamps of different times, all in the past) makes the newest copy
  unique, and `CopiedInTime` says that the copy of the running migration is the newest, which
  pruning spares as soon as it keeps one.

* `Process_proofs`, of `Supervision`: `SupervisionTypes`, `SilenceIsSeen`, `WorkKeepsHealthy`, for all parts and
  intervals with `BeatEvery <= Fresh`. `Watch` says that the register of components is what it should
  be: exactly the adapters that work. `Times` bounds the age of the file by the last success of every
  part, which is what an alarm needs; `Rhythm` says that a beat is on time and has touched the file
  unless something was wrong, which is what the absence of one needs.
* `Process_proofs`, of `McpServer` and `ToolCalls`: `ToolTypesHold`, `ConnectionsAreOwned`
  (`NothingLeftOpen`) and `CallsRunOnce` (`CallsAreAccountedFor`), for any number of turns, configurations,
  objects, connections, rounds and calls. That an object has one connection at most is not inductive: a
  turn that connects would overwrite the session of another. `OneDials` says that whoever closes or
  opens a connection holds the lock of an object without a session; it needs `HasObject`, that a turn
  inside the manager is there for an object, and that "nobody" is the name of no turn (`McpAssumption`).
  `RunsAreSeen` says that what was executed is in the loop's `seen`, and `HasCall` that a turn at a call
  has one. `NoLockIsLeftBehind` (`LocksAreHeldToDial`) is not a property of a run: a lock is held only by
  a turn that opens or closes a connection for its object, because a turn is inside the manager only
  while it lists or calls (`InsideToUse`), and no fairness of the lock is needed therefore.
  The two parts are in one module because they are parts of one process; they share
  nothing.
* `AdminApi_proofs`: `KeyStays` (`KeyIsKept` for all names and any number of saves), by `FileInv`: at each
  stage of a save one of the two files still holds the key. `ApiIsAtomic` is the refinement, for
  any number of requests and calls: `PipeInv` says of each request which of its calls are in the
  transaction, in the database and in the file at each place, so that every step maps to `CarryOut`,
  `Write`, `Accept`, `Reply` or `Cut`, or changes nothing that a caller can see.
  `GuessesStayLimited` (`GuessesAreLimited`), by `LimitInv`: for every age, the wrong keys looked at are
  the failures kept and, for each loss of them to an eviction or a restart, at most a limit more.
  `SearchesAreSnapshots` (`SearchIsASnapshot`), by `SearchInv`: below the last row it has looked at, the
  log is still what the first batch saw, and what was skipped and found is the page of the rows above
  (`Story`). `TypesHold` is `TypeOK`; its part about the table is `TableInv`.

* `Conversations_proofs`: `TypeCorrect`, `UsersStayApart` (`LivingAreSeparate`), `ErasedComesBackByTurns`
  (`OnlyTurnsBringBack`), `ErasingSparesOthers` (`OthersAreSpared`) and `PurgeOrKeep`
  (`HistoryNeedsPurge`), for any number of identities, users, agents, messages and tasks. That threads
  are separate is not inductive, as a turn writes back what it read when other users were there.
  `Says(t, n)` is what a thread holds or a turn may still write to it; `AllBelong` says of all of it
  that whoever wrote it has the agent, or is gone, and `OneHome` that a message is said in one thread
  only, so that a turn brings back nothing that was erased elsewhere. `TurnsKnow` and `TrailKnows`
  follow user and question through deletions, `DeskKnows` says that the threads still to be erased are
  those of the user, and `NoHistory` that a deletion without purge that goes on has found none.
  `NextIdIsFree`: the id SQLite gives next is nobody's.
* `ContextWindow_proofs`: `WindowTypes`, `SummariesTellThePast`, `FewFallBetween`, `PromptsFit`, for all
  conversations, tokenizers, tables, shares and batches. The invariant says of each stage what has been
  read and cut by then (`Asked`, `Routed`, `Cut`); `Told` is about the stored summary and about the one a
  turn is about to store. A window that is cut again for a summary that shrank starts no later than
  before (`RoomHelps`), so nothing falls between the two.

Where a proof is about a sum, or about the first message of a window, it takes the least index that
fails (`Least`, from `WFMin` and the finite subsets of an interval) instead of an induction.

Liveness under fairness stays with TLC (`EveryTaggedMailIsSettled`, `EveryJobEnds`, `TurnsFinish`), as it
rests on ENABLED, and so do the two findings, which are counterexamples. The theorems about two desks
or unknown SHA256s would be false; their assumptions (`OneDesk`, `AllHashed`) are named above.

## What the code does not do as documented

With a run: the two findings above. Met while modelling, without a run of their own:

* An answer that was kept because it could not be delivered is sent again only as long as the next
  attempt finds it. After a turn that failed in between, the model is asked again, against what #64
  promises (`service.py:903`). `UndeliveredIsNotRegenerated` says when it is not.
* A `.part` that is complete, left by a process that ended before it was renamed, is asked for from
  its end; the server answers 416 and no later pull of it finishes (`models.py:370`).
* Ids are given again once the highest is gone: a user created later may continue the thread of one
  that was deleted without a purge.
* A container that crashes at each start beats once at each start, and is healthy for that long.
  A part that hangs in its start is not watched yet. A `getMe` that comes back is counted as a
  success of Telegram and says nothing of the polling.
* The key is lost when a save begins from the file an interrupted one had emptied: the backup is
  emptied with it; or when two saves meet (`settings_rules.py`, `blind` and `overlap` of `KeyIsKept`).
* `get_routing` reads "the table as it stands" in two SELECTs: a turn can get the default and sizes of
  one table and the rules of another (`replaced` in `PromptIsSound`).
* A fallback to the default model sends the window cut for the first model's context.
* `_token_cache` of `graph.py` is never emptied.
* The first administrator is created again whenever the table of users is empty at a start.
* The pages of the admin events shift, as each search of the log adds an event.
* A running application is looked for once, before the rotation begins (`rekey_guided.py:124`).

* A restart forgets `_attempts`: a mail may be answered more often than `MAX_ATTEMPTS` allows, and
  its question stored twice (`RepeatsAreAccountedFor`, `NoRepeatedQuestion` say how far).
* When the commit of the inbound entry fails, the retries record none, and the answer of a mail
  can be taken for that of another (`AnswersMatchTheirMail` is conditional on that).
* The docstring of `find_undelivered_answer` says that two messages with the same text from the same
  sender "can be mistaken for one another" (`service.py:911`). A third, of another text, can be
  drawn in: when the newest entry of the text was denied (it came from another address of
  the user), or was cut short by a crash under another agent, the answer behind it is that of whatever
  mail came next, and the sender gets it for the first (`Unmixed` in `AnswersMatchTheirMail`).
* After a change of agent, where the mail has no inbound entry, every retry asks the model.
* Two mails of one user with the same text share a kept answer, as the code says (`service.py:910`).
* An approval of a deactivated user admits nobody; a request may be pending for somebody who is
  admitted already (`service.py:513`, `dispatch.py:87`).
* With two desks an update of a user may be lost although its event is recorded (`service.py:640`).
* A `.part` of one URL is continued with another's bytes; without a known SHA256 the mix is
  installed (`models.py:370`). The run assumes that SHA256s are known.
* A crash between the file and its `.sha256`, or before its event (`models.py:430`,
  `models_routes.py:77`).
* A purge spares the threads of identities removed earlier (`service.py:1250`), and its checkpoints
  go before the commit (`service.py:1349`).
* A user deleted during a turn leaves the outbound entry to whoever has the id next
  (`dispatch.py:166`); one whose history is written during a deletion loses it (`service.py:1331`).
* A restore puts back a database and leaves the checkpoints under the key they have: after the
  restore of a prerekey copy the conversations do not "continue" (`restore.py:366`).
* An older version of the code, or a migration that keeps failing under a container that restarts,
  makes a copy at each start and prunes those before: after `Keep` starts the copy from before the
  first attempt is gone (`backup.py:80`). `WayBack` is about the migration under way.
* The read-back of the guided rotation counts one database (`rekey_guided.py:80`); that "Done" is
  true of both rests on `run_rekey`'s own verification. The manual rotation has no check that the
  application is stopped, and plans from reads made before its transactions begin.
* A database that is damaged cannot be replaced by a restore: the copy it makes first fails.
* Copies for migrations and before restores need the old key as well, while the closing message of a
  rotation speaks of the prerekey copies only. "Nothing is ever deleted" has the exception of the
  net after a failure.
* `make_executor` promises a row for every call (`catalogue.py:71`, `ARCHITECTURE.md:1261`). The
  tool loop's own 20 s start first, and a call cut off by them leaves no row (`CallsAreAccountedFor`
  says so); neither does one whose commit fails.
* A connection made for a server whose configuration changed meanwhile belongs to nobody and stays
  open (`late` in `NothingLeftOpen`, `manager.py:234`).
* A session whose other end died is used, in vain, until it idles for 300 s; each use puts that off.
  A server with a timeout above 300 s may have its session closed as idle under a running call.
* A cancellation while a turn connects is taken for a failure of the server (`manager.py:157`).
* Turns that start while the first one probes the engine are answered without tools (`tools.py:59`).
* A turn registers what it read before another turn registered something newer (`graph.py:412`): a
  server that was disabled may be offered again until the next turn with tools.

## What is not modelled, and the plan

`components` in PROJECT.json has every part with its status. Left out for good are the stateless
parts (configuration, schemas, manifest, client, cryptography, formatting, logging), Telegram's own
queue, what a migration does to rows, `--dry-run` and `--no-backup` of the rotation, and the shell
scripts except for what `./start.sh --set` writes. Of the API, the reading routes and the checks that
refuse before a request has a session (`host`, `origin`, size) keep no state. Deleting a user erases
checkpoints outside the request's transaction: that is in `Conversations`, and `AdminApi` leaves it
out. The parts are composed where they share state that a property is about; a turn of `EmailDelivery`,
of `Conversations`, of `ToolCalls` and of `ContextWindow` is one and the same `run_turn`, each seen
with the state it can disturb.

What could follow:

1. An abstract specification of `EmailDelivery`, an inbox in which each mail is answered or given up at
   least once, and of `AccessDesk` for any number of desks, where the list may be changed from an older
   reading of it.
2. The administration of MCP servers and of agents (`app/admin/mcp.py`, `service.py`) as actors next to
   the turns of `ToolCalls`, beyond the changes of a server's row that are there.
3. The console's other menus (`app/admin/cli.py`), which call what the API calls.
