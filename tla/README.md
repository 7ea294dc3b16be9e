# A TLA+ model of the content production system

The repository automates the making of articles: a **Scout** collects topics, a **Writer** drafts articles about
them, a reviewer answers in the **dashboard**, a **Publisher** sends what was approved to platforms. The agents are
processes of their own. They and the dashboard (one FastAPI process with daemon threads) speak to each other through
*files* in `queue/`, and the dashboard keeps its own state in memory, in JSON files and in SQLite. There is no broker
and hardly a lock: what keeps the parts together is the order in which files are written, renamed and deleted. That
order is the subject of this development.

## 1. Inventory

| component | code | state | operations | hard behaviours | what makes it correct |
|---|---|---|---|---|---|
| action queue | `skills/action.py`, scanner in `dashboard/backend/background.py` | files in `queue/actions/`, `processed/`, `failed/` | write, scan, dispatch, mark processed, move to failed | many writers, one scanner working on a stale list; names with the resolution of a second; a crash between dispatch and rename; dispatch of a confirm writes another confirm | a request is lost in one window only, bounded repetition, every file leaves |
| review desk | `routes/approval.py`, `approval_timeout_target`, `_handle_skip`, `writer_helpers.write_output` | `{id}.md`, `{id}.meta.json`, the marker `{id}.skipped.json`, `queue/skipped/` | write, edit, mark, write skip action, move | poller, scanner and editors change the same files; crash between marker and action; an edit that re-creates a moved file | the newest text survives; a marked article gets skipped |
| topic desk | `routes/topics.py`, `topic_timeout_target`, `writer_router.py` | `topic_*.json` in `queue/pending/`, confirm actions | write topic, confirm, time out and rename, route | names that change while requests carry them; repeated confirmation; patterns that do not match | no file of a topic is lost or doubled; confirmations are accounted for; a confirmed topic is written |
| prompt versions | `database/prompts.py`, `routes/prompts.py`, `database/core.py` | table `prompt_versions`, a cache with a time to live | save, activate, delete, import, cached read | checks outside of the transaction; cache cleared before the commit; unique version numbers | one active version; acknowledged saves are kept; only races leave a stale entry or no active version |
| LLM client | `skills/llm.py` | response cache in SQLite, entry count per process, usage files | cached chat, chain of models, eviction, recording | several processes share the table but not the count; usage files of one name | the table stays bounded; each answer is recorded |
| ledger and budget | importer and monitor in `background.py`, `database/tokens.py` | usage files, `token_usage`, the cached check | import, delete, set aside, check, alert | crash between commit and deletion; a file replaced while it is imported; a cached total that is older than it looks | every usage counted but for a replaced file, twice only after an interruption; a spent budget is reported |
| Writer and its stages | `writer*.py`, `tts.py` | one article in progress, directory of pictures, two files | eight stages, critique loop, reruns, output | failing stages, kills, two writers of one second, a rerun that takes another article | text, description, score and pictures belong together |
| video | `writer_video.py` | the directory of one run | split, pictures and voices in parallel, clips, joining | all segments use one name for their picture | no picture used twice |
| Publisher | `publisher.py`, `publisher_webbridge.py`, `platform_adapters.py` | a thread per platform, the sessions of a browser | find, adapt, send, steer the browser | sessions shared by Publishers, tabs left behind, a text edited meanwhile | title and body of a post are of one text |
| settings | `config_service.py` | JSON files, a cache by modification time, a summary | load, update, save, summarise | read-modify-write without a lock, one temporary file, objects shared with the cache | updates that do not overlap are kept; the cache agrees with the file |
| gateway | `main.py`, `routes/pipeline.py` | buckets of clients, slots of agents | admit, refuse, trigger, rerun, wait | buckets forgotten, slots given back by threads, a restart while agents run | the limits hold |
| status hub | `ws.py` | connections, stored hash | register, refuse, broadcast, watch | a thread lock held across an await; statuses that change while they are sent | who is connected has the status |
| Scout | `scout*.py`, `topic_analyzer.py` | candidate topics | collect, de-duplicate, score, write | network input, floating-point scores | topics appear in `pending/` |
| others | authentication, search, RSS, feedback, metrics, notifications, watchdog, frontend, thin routes | — | — | — | see section 7 |

Interactions. A request or a timeout writes an action file → the scanner starts a process for it (`confirm` → router →
writer; `approve` → Publisher; `reject`, `rewrite` → Writer) or, for `skip`, moves the article itself → the Writer
leaves an article in `queue/review/` → an editor changes it, a reviewer answers, or the approval timeout skips it.
Every answer of a language model leaves a usage file, which an importer puts into the database, where the budget monitor
adds it up. Requests pass the rate limiter on the event loop that also carries the status hub, and are served by
threads that read and write the settings. Templates of prompts come from the database.

## 2. Modules

| module | what it is |
|---|---|
| `DeliveryQueue` | abstract: what the action queue promises, with no scanner, batches or clock |
| `ActionQueue`, `MCActionQueue` | the action files and the scanner, in the steps in which the code touches the directory; the action types of the runs |
| `ReviewDesk` | articles under review with editors, approval timeout and skip |
| `TopicDesk`, `MCTopicDesk` | topics, confirmation, topic timeout and router; instances |
| `VersionStore` | abstract: what prompt versions promise, with no threads, transactions or cache |
| `PromptStore` | prompt versions in SQLite and the cache before them |
| `Recency` | keys in the order of their last use: the table of answers, the clients of the limiter |
| `LlmClient`, `MCLlmClient` | calls of language models: the cache of answers, the chain of models, usage files |
| `UsageLedger`, `MCUsageLedger` | composition of `LlmClient` with the importer, the table and the budget monitor |
| `SegmentVideo` | the video of one article, made by concurrent threads |
| `WriterRun` | the stages of the Writer, on top of `SegmentVideo` |
| `Production`, `MCProduction` | composition of writers, reruns, editors and Publishers around `queue/review/` |
| `ConfigStore` | one settings file under concurrent requests |
| `Gateway` | the rate limiter and the slots of agents |
| `StatusHub` | the WebSocket hub and its event loop |
| `Dashboard`, `MCDashboard` | composition of the last three: one process, one event loop, one restart |
| `*_proofs` | theorems (section 5): `ActionQueue_proofs`, `ReviewDesk_proofs`, `TopicDesk_proofs`, `PromptStore_proofs`, `Recency_proofs` (lemmas only), `UsageLedger_proofs` (about `LlmClient` too), `Production_proofs`, `Dashboard_proofs` |

`PROJECT.json` has, for each definition, the lines it stands for.

### ActionQueue

A file *is* its name: action, target and the second of the write (`Files`). Two requests of one second are one file;
the second replaces the first. `actions`, `processed` and `failed` are the directories (`queue/failed/`, where the
scanner puts what it could not dispatch, and `queue/actions/failed/`, where `scan_actions` puts what does not parse, are
one set). `write_action` is `BeginWrite` (validation, name, temporary file), `FinishWrite` (rename) and `AbandonWrite`
(failure). The scanner is `ScanActions` (list, parse, set malformed files aside), then for each file `TakeNext` (is it
still there? and for a confirm, the second confirm file that `_dispatch_action_async` writes), `DispatchOk` or
`DispatchFails`, and `MarkProcessed` or `MoveToFailed`; `EndScan` ends the round. The two renames need their source:
were it gone, `mark_processed` would raise. `AbortScan` is an exception caught by `Poller._run`, or a crash of the dashboard
and its restart: both leave the directories as they are and forget the list.
`unanswered` and `overtaken` are history: a request is unanswered until a handler is started for its name, or its file set
aside, after it was written; one that replaces its namesake while that one's file, its handler started, is still to be renamed
(`background.py:172-174`) is overtaken: the rename takes it away and no handler ever sees it.
`mark_processed` gives a file of a name already in `processed/` another name there; the model keeps the name
under which it was queued. `DuplicateWindow` occurs only in the statement of a requirement. The files the model calls
malformed are those JSON refuses; a file that is not UTF-8 is a hazard of its own in `PROJECT.json`.

### ReviewDesk

`meta` is where an article's description is, `inReview` and `inSkipped` which version of its text is in which directory (0
is the Writer's, n what the n-th edit wrote). `write_output` is `WriteText` and `WriteMeta`; `update_article_content` is
`EditCheck` and `EditWrite`, between which anything may happen; `approval_timeout_target` is `PollList`, then
`PollMark` (marker test and rename) and `PollWrite` (the skip action) for each article, and `PollEnd`; `_handle_skip` is
`TakeSkip`, `MoveMeta`, `MoveText` and `EndSkip`. Faults: an exception in either thread, or the death of the dashboard,
at any point. The queue is a set of skip actions: `ActionQueue` shows that such a file stays until it is handled and
is handled in the end. A write of the text is one step, although `write_text` is not atomic on disk.
An article that was approved or rejected is skipped all the same when its time is up: answers do not touch the
description, so they do not occur here.

### TopicDesk

A file's name is its topic and the number of times `.timeout` was added to it. `topic_timeout_target` is `PollPick`,
`PollConfirm`, `PollRename` and `PollAudit`; `confirm_topic` is `ConfirmCheck` and `ConfirmWrite`. `ScanConfirm` is what
the scanner does with a confirm: it starts a router and the confirm is written again. (The rewritten file either has the
same name and is renamed away with the old one, or is found by the next scan: `ActionQueue` has the detail.)
`RouterRuns` is the router's search; `Stem` and `Matches` translate the names and its pattern, cut into parts.
`Rank` is 0 for every file, because the field it reads is in none.

### PromptStore

One template name: names share only the write lock. Python's `sqlite3` opens a transaction with the first INSERT, UPDATE or
DELETE, so the SELECT a call begins with (`SaveCheck`, `ActivateCheck`, `DeleteCheck`, `ImportCheck`) sees what was
committed at that moment, and the transaction (`Write…`) what is committed when it gets the lock. `Stage`
takes the lock, `Invalidate` clears the cache inside the transaction, `Commit` ends it. `Rollback` stands for the
lock not being had in time and for every failing statement or commit; `SaveClash` is the refusal by
`UNIQUE(name, version)`. A read is `GetMisses`, `GetQuery`, `GetFill`; an entry past its time to live is no entry.
After a restart the cache and the open transactions are gone. Three history variables record the races: `overtaken` has the calls
whose SELECT is older than the commit of another call (for a write: of one about the same version), `raced` the entries cached
by such a read or between a write's clearing of the cache and its commit, `contested` whether what is active was left by such a
write. `VersionStore` has the same rows, active versions and
acknowledgements (`saved`), and one step for each call that returns; it is `Commit` that takes that step, everything else
is a stutter.

### LlmClient and UsageLedger

`lru` is the table of answers in the order of access, `expired` its old rows, `count` what each process believes the
number of rows to be (`Unknown` until its first insertion). `chat` is `ChatHits`, or `ChatMisses`, then `ModelAnswers` or
`ModelFails` for each model of the chain, `RecordUsage` or `RecordNothing`, and `StoreAnswer` or `StoreFails`. `CachePut` is one
transaction of SQLite. A usage file's name is its process and second: agent, model and token counts are taken to be equal,
which is the worst case. `ProcessEnds` is the normal end, a crash or a kill of an agent.

`UsageLedger` adds `import_tokens_target`: `ImportList`, then for each file `ImportCount` (the row is committed) and
`ImportDelete`; `ImportFails` puts a file into `failed/`, also one whose row is there, `ImportAborts` is that rename failing.
`check_budget_limit` is `CheckHits`, or `CheckMisses`, `CheckQuery` and `CheckFill`: the total is read outside of the
lock, and dated from the beginning of the call. The monitor goes on with `Alert` or `NoAlert`; `alertAge`
tells apart what the throttle tells apart. `replaced` is history: how often a file took the place of another of its name, in the
directory (`Clients`) or in `failed/` (`ImportFails`). All calls cost the same and lie in one month. The importer of trails is not
here: see section 7.

### SegmentVideo, WriterRun and Production

A job is a process, and `pc` the stage it is in. A text is known by its author and the number of times it was rewritten; what it
says, what it scores and what its titles are is left open, so that a critique may pass or not. `scored` is the text the last
critique was about; the score of the proofreader is left out. The name of an article, and of its directory of pictures, is the second its writer began in.
`StartWriter` is a trigger, a router, a reject or a rewrite: the last two put `--rewrite` before the id, the Writer takes
that for the topic, finds none of that name and writes the newest pending topic. `StartRerun` takes the article whose text
file is the newest; the code reads the description and then the text, the model both in one step, so an edit in between shows as an
edit after. `CritiqueRound` is one turn of `run_critique_loop`. `WriterRaises` may come at any stage, because most
answers of a language model are used without a check of their shape, `WriterKilled` is the router's time limit or the
machine. `write_output` is `WriteText`, `WriteMeta` and `CompleteMeta`, because its two files are written in place.

`SegmentVideo` has the threads of one call of `generate_video`. Each segment asks for its picture as `image_1.png` (`shared`) of
one directory, looks whether there is a file of that name and moves it to its own (`AgnesWrites`, `FindPicture`,
`MovePicture`), so that a segment may get another one's picture or none. `Leftover` is a clip that ffmpeg left half
done: `rmdir` raises for it, and the video that was made is lost with the article.

A Publisher (`StartPublisher` to `FinishPublishing`) is started with the id of an article; the search of `find_article` for a name
that contains the id (`publisher.py:53-57`) is left out, because ids of articles are of one length. It reads the description once and the text once per platform (`ReadText`). The
browser is external and modelled by its calls: `tabs` are the tabs of the one session per platform, a call acts on the newest, and
what `publisher_webbridge.py` passes over (a selector that does not work) or does not (`BrowserFails`) is what its code says.

### ConfigStore, Gateway, StatusHub and Dashboard

`ConfigStore` models one file. Because two saves use the same temporary name, files are inodes with a content and a
modification time, and the names `file` and `tmp` stand for them; a thread goes on writing to the inode it has opened. What the
cache holds is an *object*: `HandOut` gives a copy of it (budget, gates, schedule) or, for `nested` settings (styles and
sources), the object itself, which `Apply` then changes before anything is saved. `Load` compares modification times,
`Read` reads later, `Open`, `Write`, `Rename` and `Invalidate` are the save, `SaveFails` its handler of exceptions,
`StoreSummary` the cached summary.

In `Gateway`, `LetIn` and `Refuse` are `is_allowed`, with the buckets and the order in which clients are forgotten; `Trigger`,
`Spawn`, `SpawnFails`, `Exit` and `Release` are `trigger_agent` with its thread, and `Rerun` is the route that has no limit.
An agent is started in a session of its own and survives the dashboard: `stray` are those the counter does not know.

`StatusHub` is one event loop: between two awaits a coroutine is one step. `Stops` is a coroutine that asks for the
`threading.Lock` while another one holds it across an await; nothing on the loop goes on after that, so most actions need
`~stuck`. `Build` runs in a thread.

`Dashboard` puts the three behind the limiter: requests are admitted on the loop, so none is once it has stopped, threads and
agents go on, and `Restart` takes the memory of all three at once.

## 3. Runs

| run | instance | distinct states | shows |
|---|---|---|---|
| `action_queue` | one target, the actions confirm, approve, skip, test_scout; 2 clients, seconds 0–1, 2 written files, 1 interruption | 29 687 | `NoRequestLost`, `SourceStaysPut`, `LaunchesBounded`, `EveryFileLeaves`, `ImplementsDeliveryQueue` |
| `review_desk` | 2 articles, 2 editors, 2 edits, 2 faults | 63 212 | `NewestTextKept`, `SkippedCopyIsOlder`, `MarkedIsOnItsWay`, `FailedSkipWasDone`, `MarkedGetsSkipped` |
| `topic_desk` | 2 topics, 1 user, 2 rounds, 1 fault | 44 863 | `TopicsAreKept`, `AutoConfirmsAccounted`, `ConfirmsAreNotAhead`, `PickedStaysPut`, `SomeTopicConfirmed` |
| `prompt_store` | 2 threads, 2 saves | 675 153 | `OneActive`, `SavedIsKept`, `NoneActiveWasContested`, `StaleWasRaced`, `ImplementsVersionStore` |
| `llm_client` | 2 threads in 1 or 2 processes, 4 requests, 2 rows, 4 calls | 998 022 | `CacheBounded` |
| `usage_ledger` | 2 calls of one name, 1 fault, a budget between one and two calls | 158 778 | `UsageIsKept`, `OvercountsAreFaults`, `ExceededGetsAlerted` |
| `production` | 2 processes, 2 rounds of critique, seconds 0–1, 1 edit, 2 platforms; or 1 process with a video of 2 segments | 483 424 | `FinishedArticleIsWhole`, `CritiqueScoreIsOfTheText`, `MixedPostsWereCrowded`, `NoPictureTwice` |
| `dashboard` | 3 threads and 2 settings; or 3 agents in 2 slots; or 2 clients, limit 3, 4 minutes, one client remembered; or 3 sockets for 2 connections and 1 change; each with 1 fault | 545 086 | `UpdatesAloneAreKept`, `CacheDiffersByUnsaved`, `WithinLimits`, `HashedIsShown` |
| `action_queue_duplicate` | one confirm | violated | the duplicate check of the requirements is not made |
| `topic_desk_repeats` | one topic, no fault | violated | the renamed file is picked again |
| `topic_desk_written` | one topic, one user, fair, no fault | violated | a confirmed topic is not written |
| `status_hub` | 3 sockets, 1 connection allowed, fair | violated | the event loop stops when a client is refused |

Every passing run but `llm_client` also checks `TypeOK` of its module; that of `UsageLedger` contains the types of `LlmClient`.

**Bounds and why they suffice.** The four kinds of action are the four ways of being handled (confirm rewrites itself,
approve starts a process, skip is inline, test_scout has no handler). Two written files and two seconds give all
coincidences of names: same second, next second, replaced while handled; the scanner's own confirms come on top. One
interruption shows a repeated handler; the theorems of section 5 cover any number. Two edits are needed
for a newer text beside an older one, two faults for an interrupted skip after an interrupted poll. In `TopicDesk` the rounds
of the poller are bounded, so a fault may use one up: `MaxFaults < MaxRounds` keeps that bound from
stopping `SomeTopicConfirmed`. Two saves and two threads are enough for two saves with one number, for a delete that
races an activation, and for a read that fills the cache behind a write: all the windows `NoneActiveWasContested` and
`StaleWasRaced` name are reached.

For `LlmClient` the least instance in which two processes fill the table past the limit of one is two rows, four
keys and four calls; `CacheBounded` is exact: with `n` processes the table may hold `n` times (`MaxEntries` − 1) + 1 rows. In
`UsageLedger` both calls have one name, so that a file is written anew while it is imported, and two of them exceed the
budget, while one of them (6 of 7) reaches the warning and does not exceed it. In `Production` two processes are what every coincidence takes: two writers of one
second, a rerun beside a writer, two Publishers in one session. A behaviour with `videos` has one job at a time and no
editor: the threads of a video work in a directory named by the second (`writer_video.py:304`), which only a video writer of the
same second would share, and that case the bound leaves out (a hazard in `PROJECT.json`); two segments are enough to swap or to
steal a picture. In `Dashboard` the parts share the event loop and the restart and nothing else, so a behaviour has one `kind` of
client: settings, agents, the status, or anything at all. Time passes only for the last, where the buckets matter. A limit of 3
requests lets a bucket fill in the middle of a minute, one remembered client out of two makes the limiter forget. Three threads
make two updates and a summary overlap. Symmetry is over threads and settings, over requests without a fall-back, threads
and processes: none is treated apart, and these runs have no liveness property.

Deadlock is checked for `ActionQueue` (the scanner loops for ever), `PromptStore` and `UsageLedger`; the others come to rest in
runs whose bounds are used up.

**Fairness.** Scanner and pollers are daemon threads in `while not stop` loops (`Poller._run` catches every exception), and
the container is restarted (`restart: unless-stopped`): weak fairness of the thread's steps. Faults, clients and editors
have none. In `TopicDesk` each confirm is served fairly, which is `EveryFileLeaves` of `ActionQueue`, and a router that
was started runs. In `UsageLedger` the importer, the monitor and time, are fair, but neither agents nor
requests. In `StatusHub` the loop runs every coroutine that can go on. Faults are finite in number, which is a bound of
the models: with a crash in every round nothing would be promised. `PromptStore`, `LlmClient`, `Production` and `Dashboard` have
no liveness property and assume nothing. In `ActionQueue` the clock stops at `MaxClock`, so the chain of confirms that the scanner
writes for itself ends, which in the code goes on for as long as seconds do: `EveryFileLeaves` speaks of each file, not of the chain.

## 4. What the runs show of the code

Holds: a request that was acknowledged is handled or kept as failed under any interleaving but one: if it replaces a request of
the same second, action and target whose handler has been started and whose file is not yet renamed, it is renamed away unhandled;
a handler starts more than
once for one write only after an interruption; edits are never lost to a skip, although an editor may bring an article's text
back to `review/`; a marked article is skipped unless the dashboard stopped exactly between marker and action
(`interrupted` names that window); no step loses or doubles a topic's file or gives it an earlier name; calls of the prompt store take effect one after the other or not at all, two saves never
take one version number, and no interleaving leaves two active versions. A name that has versions may be left with *no* active one, but only
by a delete or an activation that another call overtook with a commit about the same version after the check
(`NoneActiveWasContested`). The cache may hold what the database does not, but only by a read that a commit overtook, or by one
between a write's clearing of the cache and its commit (`StaleWasRaced`); nothing but the time to live or the next write removes
such an entry.

Of the usages written under one name one is in its file, one may be in `failed/`, and all others are in the table, but for as many
as a file has taken the place of its namesake: a usage that is written while its namesake waits for the importer, or between that
one's row and its deletion (`background.py:189-196`), costs one of the two. A usage is counted twice only when the importer is interrupted between the commit and
the deletion; a budget that is used up is reported, whatever older totals requests put back into the cache. The table of
answers grows with the number of processes, but no further. An article, its description, the score of its
last critique and its pictures belong together unless two writers begin in one second, and then nothing guarantees it; a text that
an editor changed keeps its score. (That a finished article is in `review/` holds only until it is answered or the approval
timeout takes it away, which is `ReviewDesk`'s subject and not part of `Production`.) A post has the
title of one text and the body of another only where Publishers met in one session or one had left a tab there. Updates of the
settings that do not overlap are kept, through failing saves and restarts; overlapping ones lose each other and may even
leave a file that is no JSON. The limits hold for every client the limiter remembers and for all agents it knows; a rerun, a restart or a
thread that cannot be started makes agents it does not know.

Does not hold, and is stated by a comment or document (`findings` in `PROJECT.json` has the quotations): the
duplicate check; "so next poll skips it"; "triggering Writer"; "to all connected clients". The last one is the gravest: one
client more than `MAX_CONNECTIONS` may stop the whole dashboard, because `register` closes the refused connection with
the lock held.

Met while modelling, without a run of their own: the topic timeout chooses by a field `score` that the Scout's files lack
(theirs is `final_score`), so that it does not choose the best topic, as `docs/ARCHITECTURE.md:201` has it; the draft of a new
article is dropped, because the stages go on with the source; the Publisher ignores the platforms a reviewer chose; a rerun
from a late stage loses the title that was chosen; the `proofread_score` of a description is that of the text before the
proofreader's rewrite (`writer_stages.py:264-273`), and is left out of `CritiqueScoreIsOfTheText`; a platform counts as published when no selector worked; the
router reports its worker as failed, because the Writer does not write into the directory it is given;
`create_platform_version`, `cleanup_old_actions` and `file_lock` are called by nothing but tests.

## 5. Proofs

Each `_proofs` module shows, for all values of the constants that meet the named assumptions (bounds are
natural numbers, markers such as `NoFile` are no ordinary values), that an invariant is inductive, and from it the
theorems. Finite are only the sets that are counted: `Agents` (the counter of slots), `Threads` and `Processes` of
`LlmClient` (calls in flight, rows per process). `ChainAssumption` says that every request has a model to begin with.

* **ActionQueue_proofs**: `TypeCorrect`, `SourcePresent`, `RequestsAreKept`, `LaunchesAreBounded`, `QueueRefines`.
  Three inductive invariants, one upon the other. `Typed` is `TypeOK` with `SourceStaysPut`: the rename that ends the
  handling of a file is well typed only because the scanner holds a file. `DeliveryInv` adds `RetiredWasLaunched`:
  a file leaves for `processed/` because of a handler started a step earlier, which the scanner's position remembers, and it
  leaves unanswered only if it was written again since that step.
  `LaunchInv` strengthens `LaunchesBounded` to a budget, launches made and launches still owed (`Owed`). For the
  refinement each step maps to a step of `DeliveryQueue` or to a stutter; a crash is a stutter.
* **ReviewDesk_proofs**: `ReviewTypeCorrect`, `NewestTextIsKept`, `SkippedTextIsOlder`, `MarkedIsHandled`,
  `FailedSkipsWereDone`. The strengthening: a text in `review/` is the newest, and without one the newest is in `skipped/`
  (`TextInv`); an article the threads or the queue speak of has had a text (`DescribedInv`), and when the scanner is done with it
  that text is in `skipped/` (`MovedInv`). An edit that re-creates the file keeps all of this, because the version it
  writes is newer than any other. For the failed skips (`FaultlessInv`): as long as there was no fault, each article has one skip
  action at most, and the one that is taken finds its files.
* **TopicDesk_proofs**: `TopicTypeCorrect`, `TopicFilesAreKept`, `AutoConfirmsAreCounted`, `PickedIsThere`,
  `ConfirmsFollow`. The strengthening: topics without a file have no history (`FreshInv`), the poller holds a file in every
  step of its round (`HoldsInv`), no name is longer than the rounds so far (`RoundsInv`), and every name that a user,
  a router or a confirm carries is one the topic's file has had (`NamedInv`).
* **PromptStore_proofs**: `PromptTypeCorrect`, `OneVersionActive`, `SavesAreKept`, `VersionsRefine`, `StaleEntriesWereRaced`,
  `NoneActiveWereContested`. The strengthening: the lock is held by the one open transaction (`LockInv`), a writing call knows
  its version and text (`CallInv`), a read its key (`ReadInv`), and what is staged is what the call makes of the rows and active
  versions that are committed *now* (`StagedInv`, `Made`): nobody else can commit while the lock is held. Hence the
  refinement: `Commit` is a step of `VersionStore` taken alone, a clash, a rollback or a restart is a stutter. Because the check
  of a call lies outside of its transaction, none of the first four may use what the check found. The last two say when it may
  be used: until a commit overtakes the call, what a read has found is what the database says (`FreshRead`), and what a write has
  checked still holds (`CheckedInv`), so a transaction that empties the active versions was overtaken, deletes the last version,
  or found it so (`EmptiedInv`); from the clearing of the cache to the commit, whatever enters it is on record (`ClearedInv`).
* **Recency_proofs**: what touching and dropping keys does to a sequence without repetitions: its keys, its length, its order.
* **UsageLedger_proofs**, calls: `ClientTypeCorrect`, `CacheIsBounded` of `LlmClient` alone. The bound of the table counts slots:
  each process has one for every row it may insert before it evicts (`Slots`). An insertion takes one, a process
  that ends loses its own, and a process that begins to count gets no more than are missing to its limit; rows and slots
  together never exceed `MaxEntries` − 1 for each process and one more (`RowsAndSlots`). So the bound is a cardinality, with no
  sum over processes. What is recorded and what is in flight is paid for by the calls (`CallsPay`).
* **UsageLedger_proofs**, ledger: `UsagesAreKept`, `OvercountsArePaidFor`. The strengthening is a budget: the rows of a file and
  the one still owed (`Owed`: it is there, and not the one whose row was just committed) are paid for by its writes and by the
  interruptions. `UsageIsKept` itself is not inductive, because a file about to be deleted counts twice, as a file and as a
  row: `UsageStaysKept` counts what is still owed instead, and a file written anew while its namesake is there pays with
  `replaced` for the one of the two that is lost.
* **UsageLedger_proofs**, money: `LedgerTypeCorrect`, `SpendingIsPaidFor`, `AlertsAreTrue`, `CacheStaysBounded`. All rows, the files
  still to be counted and the calls that may still write one are together no more than the calls and the interruptions
  (`RowsArePaid`), which bounds the total; whatever is cached or answered has been the total once, and totals only grow
  (`AnswersAreOld`), so an alert that the budget is exceeded is never false.
* **Production_proofs**: `ProductionTypeCorrect`, `PicturesAreDistinct`, `MixedWereCrowded`. What `image_1.png` shows is in no
  segment's own picture (`InOnePlace`): a picture is in one place because it is moved. Types need that the newest article,
  and every article being published, has a text (`Present`). In a session that was never crowded there is one tab at most, one
  thread that fills it in, and what it shows is of the text that thread has read (`AloneIn`).
* **Production_proofs**, articles: `FinishedArticlesAreWhole`, `CritiqueScoresAreOfTheTexts`. What a second's name stands for was written by writers of
  that second (`OwnText`, `OwnMeta`, `OwnPictures`, `DescribedBy`), and as long as no two writers shared one
  (`Crowd`), what a writer holds after its last critique, what it has put into `review/` and what it describes fit together
  (`Scores`). Namesakes only ever become more, which makes the exceptions stable.
* **Dashboard_proofs**: `LimitsAreKept`, `StoredStatusIsShown`, `UpdatesAreKept`, `CacheFollowsFile`, `DashboardTypeCorrect`. The stored hash is never ahead of the files (`HashIsBehind`) and
  whoever has not got the status that is being sent is still to get it (`SentOrPending`). What a client was let in for is what its
  bucket says or lies in an earlier minute (`Accounted`), and the counter is the number of agents it knows (`Tracked`).
  For the settings (`SettingsInv`): the two names are of two inodes with different times (`FileInv`), and the temporary file
  never has a time that the cache or a reader remembers (`StampInv`), so that after a rename the cache is not taken for fresh. Only
  nested settings are shared in memory (`ObjectInv`). What is cached for the file differs from it by updates that run or failed,
  and by none while a lone update is between rename and acknowledgement (`CacheInv`); and at each step of a lone update the
  object, the temporary file and the settings file hold its value, in this order (`AloneInv`). `DashboardTypeCorrect` has the bounds
  in `TypeOK`: who is remembered has a bucket and is no more than may be, with counts within the limit (`MemoryTyped`),
  connections and the holder of the lock (`HubBounds`), and no thread remembers a time to come (`SettingsBounds`).

Only model-checked: the four liveness properties (`EveryFileLeaves`, `MarkedGetsSkipped`, `SomeTopicConfirmed`,
`ExceededGetsAlerted`), because fairness is out of the prover's reach. Every other property of the
passing runs is the statement of a theorem. The claims that the runs refute have only their counterexamples.

## 6. Plan

Everything the first plan named is modelled, but for what section 7 explains. What could still be added, in order:

1. Texts of two halves, when something promises how a reader of half a text behaves.
2. The trail importer, once agents have sessions.
3. An abstract ledger that `UsageLedger` implements, as `PromptStore` does `VersionStore`.

## 7. Not modelled

The text the stages generate, scores, templates and layout: data without control. The importer of trails: no agent is given a session, so
that it asks for the period "manual", which a CHECK of `core.py:174` refuses; nothing after its first statement is
ever reached and its files pile up (a hazard in `PROJECT.json`, with the lock it may go without). Authentication (a
comparison of keys), search (an external index), RSS and the collectors (network input), feedback and metrics (reports),
notifications (an external service whose failures the callers swallow: a step that may fail unnoticed), the frontend (a client
whose requests are the environment). The Scout's de-duplication compares similarities of texts and its scores are
floating-point arithmetic: only that topics appear is in `TopicDesk`. Approval records, sessions, traces and audit rows are
written by one statement after the file that matters, and their failure changes nothing else. `cleanup_old_actions` is
called by nothing.
