# A verification project for coco-observe

TLA+ models of coco-observe, a metrics agent and the aggregator it pushes to,
with TLC runs on small instances and TLAPS proofs for every instance. All paths
below are relative to the repository; the modules were translated from the Go
code under `src/`. The repository has no tests, so what is stated here comes
from the code and from its comments.

## The system

An **agent** (`src/cmd/agent`, `src/agent`) runs on each monitored machine.
Every `push_interval` it collects a batch of metrics and POSTs it to the
**aggregator** (`src/aggregator`), a library mounted in a web server that keeps
agents and batches in SQLite. When a push fails the agent writes the batch to a
file; it pushes its files the next time it is started. When the table of
batches reaches a size it is copied to an archive file and cleared. An
administrator registers agents and downloads a binary for each, with the
configuration appended to it.

| Component | State | Operations | Talks to |
|---|---|---|---|
| Agent loop `agent/agent.go`, `cmd/agent/main.go` | `seq`, the ticker; nothing persistent | New, Run, collect, replayBuffer, buildBatch | buffer, pusher, collectors (calls) |
| Buffer `agent/buffer/buffer.go` | one file per batch | Write, Pending, Delete | the file system |
| Pusher `agent/pusher/pusher.go` | an HTTP client, 15 s timeout | Push | the push endpoint (HTTP) |
| Collectors `agent/collector` | previous CPU sample; previous pid, start time and ticks | Collect | /proc |
| Configuration `agent/config.go` | none | LoadEmbeddedConfig, LoadConfig, env overrides, validate | the binary's own file, a YAML file |
| Push endpoint `aggregator/handler/receive.go` | none of its own; a goroutine per request | ServeHTTP | store |
| Store `aggregator/store` | tables `agents`, `metric_batches`; archive files | Open/migrate, agent CRUD, HasRecentBatch, InsertBatch, archiveIfNeeded, queries | SQLite, one connection; a goroutine per insert |
| Registry `aggregator/handler/agents.go` | `DataDir/agents/<id>/` | create, list, update, delete, generateBinaries | store, file system |
| Download `aggregator/handler/download.go` | none | ServeHTTP | store, the registry's files |
| Query endpoint `aggregator/handler/query.go` | none | latest, range, raw page, archive | store, archive files |
| Wire types, auth, scopes, wiring | none | - | - |

### What is hard about it

* **Concurrency.** Requests, and an archiver per insert, run at once. One
  connection makes single statements atomic, and nothing makes two of them
  atomic: there is no transaction and no lock in the aggregator.
* **Time as identity.** Deduplication asks whether *any* batch of the agent
  arrived in the last 30 s.
* **Failure and restart.** The agent is restarted by systemd
  (`Restart=on-failure`), counts from zero again and finds its files; the
  aggregator may die between any two statements or file operations.
* **Ordering.** Replay only at the start, file names as the order of replay.
* **Two stores of one fact.** A row of `agents` and the binaries made from it.

What makes each component correct:

* store: what was stored is in the table or in an archive, once; the table is
  bounded; it is cleared in the end;
* push endpoint: an answer says what the table holds; stored batches keep the
  distance the window promises; only duplicates are dropped; no batch without
  an agent;
* agent: no batch is forgotten; what is buffered is pushed, in order; what was
  pushed is not kept;
* registry: the binary of an agent holds the configuration of its row; no
  binary outlives its agent; a download is a whole binary;
* push over HTTP: no lost or late message makes a batch vanish; what is stored
  twice had an error or was being replayed; a live push that was answered is
  stored;
* queries: who reads all pages, or a range and all archives, has been shown
  every batch; no page repeats one; the latest batch never gets older;
* configuration: address and credentials are of one source;
* collectors: a percentage is of the time it claims to cover, and never mixes
  two processes.

## The modules

| Module | Models | Uses |
|---|---|---|
| `HotStore` | `metric_batches` and archival; the abstract store | |
| `Endpoint` | what the push endpoint promises a client | |
| `Receive` | the push endpoint, statement by statement, agent deletion, clock, crash | `Store == INSTANCE HotStore`, `Promise == INSTANCE Endpoint` |
| `Agent` | agent loop, buffer directory, outcome of a push, clock, kill and restart | |
| `Delivery` | agent and aggregator over HTTP | `Client == INSTANCE Agent`, `Server == INSTANCE Endpoint` |
| `Registry` | one agent's row and binaries under create, update, delete, download | |
| `Query` | the query endpoint and a client that goes on asking | `Store == INSTANCE HotStore` |
| `AgentConfig` | where an agent's configuration comes from (operators only) | |
| `OSCollector`, `ProcCollector` | CPU usage of the machine, of a named process | |
| `Collector` | start of an agent and the collectors it makes | EXTENDS the three above |
| `MC*` | model values, symmetry and constraints for TLC | the module of that name |
| `*Proofs` | theorems about the module of that name | the module, TLAPS; `DeliveryProofs` also `AgentProofs` |

Operators in a section headed "Faulty variants" are not part of a model. Each
is a plausible bug in the definition it resembles, and each property of a
passing run was seen to fail with one of them put in its place.

### HotStore

A row is its AUTOINCREMENT id (`lastId`, the `sqlite_sequence` entry); `rows`
remembers every row ever inserted, `hot` the ids in the table, `archives` the ids in
each archive file. `InsertBatch` inserts and starts the goroutine
`archiver[id]`, whose three statements - `SELECT COUNT`, `VACUUM INTO`, `DELETE` -
are three actions (`ArchiveCount`, `ArchiveVacuum`, `ArchiveClear`); each may
fail (`ArchiveFails`). `CrashAndReopen` ends every archiver. `raced` is a
history variable: the ids inserted while some archiver stood between its
`VACUUM INTO` and its `DELETE`.

### Receive

One action per statement of `ServeHTTP`: `Lookup` (AgentByKey), `Cutoff`
(`time.Now` in HasRecentBatch), `Check` (its query), `Stamp` (`time.Now` in
InsertBatch), `Insert`, `TouchAndAccept`; `StoreError` for a failing statement.
Reading the clock and running the statement are separate steps because
a statement waits for the only connection. The store's variables are those of `HotStore`, and
`ImplementsHotStore` says that every step is a step of the store or leaves it
alone; so `LossOnlyInRace` and the others hold here too. `ImplementsEndpoint`
says that what a client sees is a behaviour of `Endpoint`: the requests' states
map to five, and the ids in order of insertion map to its log. A request records as history
the newest id at its arrival (`before`), so that "did not overlap" can be said.

`DeleteAgent` is the registry's delete as far as this table is concerned:
`metric_batches` declares `ON DELETE CASCADE`, but the connection string
(`store.go:63`) leaves foreign keys off.

### Agent

`pc` is where the process is: `list` and `replay`/`delete` for `replayBuffer`,
`select` for the loop, `push`, `write` and `writing` for `collect`, `down` when
there is no process. `captured` numbers batches for ever, `seq` is the code's
counter, `name[b]` is the batch's second and sequence number and with them its
file's name. The buffer maps names to files: a batch, a modification time
and whether the file is whole, because `os.WriteFile` opens and then fills.
The ticker's channel holds one tick (`ticked`), so a batch can be captured late
and two within a second. String order of file names is `NameBefore`: it compares
times as numbers but sequence numbers as decimal strings, without building a
string. A push is an outcome here; `Delivery` says where it comes from.

### Delivery

`Agent` and `Endpoint` composed. `out[h]` is what the client knows of push `h`,
`answer[h]` (of `Endpoint`) how far the aggregator has come with it. `Send` is
`client.Do`; `ReturnNil` needs an answer that was accepted, `ReturnError` needs
nothing: another answer, a lost request, a lost answer and a timeout look alike
to the client, and `Serve` goes on, or begins, after the client has given up. The
client's clock stops at its `deadline` (`pusher.go:36`), which is how the
timeout is kept. Both machines may die at any step. `TimesAssumption` is the
arithmetic of the code's constants, 30 s of window and 15 s of timeout within a
push interval of 180 s. `LiveIsStored` names two exceptions, each a history variable:
`stalled`, a push that began long after its tick, and `lingered`, a request
stored after its client had given up. All else the agent does (`Alone`), its
file errors included, is as in `Agent`.

### Registry

Agents share neither rows nor directories, so there is one. `row` is its row;
`names[a]` says which file bears the name of architecture `a`'s binary, and
`files[a][h]` is the file that request `h` created under it (an inode): what it
holds and the configuration last written to it. An update is UpdateReads,
UpdateStores, MakeDir, OpenFile and FillFile for each architecture,
SetBinaries; a create starts with its INSERT and goes the same way. Opening a
file truncates it (`Truncated`), and whoever has it open keeps it when its name
is removed. A writer whose file was removed meanwhile fills a file without a
name; two writers of one file may leave a mixture.

A delete is `os.RemoveAll` in its steps: `ListFiles`, an `Unlink` for each name
found, `RemoveDir`, and then `DeleteRow`. A file that appears after the
listing keeps the directory, and the error is ignored. A download looks up
its path, opens the file and reads until it meets the end (`DownloadLooksUp`,
`DownloadOpens`, `DownloadReads` any number of times, `DownloadSends`): the file may be
truncated and filled between two reads, so that it gets the beginning of a
binary, nothing, or the beginning of one and the rest of another. `AtEnd` is
where `os.ReadFile` may stop. `Crash` ends every request and closes its file.

Errors the code ignores leave their trace (`FileFails`, `StepFails`, what
`Unlink` and `RemoveDir` keep), and `failed`, `crossed`, `stored` and
`rewritten`, the downloads whose file was truncated while they had it open,
are history for the properties. So is `asked`, the last value of
`track_os` a body had: `update` keeps the row's value when the body has none,
and writes it back (`agents.go:248-258`).

### Query

The client is part of the model: it asks for page 0 of a range and then for the
next page until one is short (`RawCount`, `RawCountNext`, `RawPage`); or for a range,
then looks which archive files there are and asks for each of them (`serveRange`,
`NoteArchives`, `serveArchive`); or again and again for the latest batch (`serveLatest`).
The aggregator does not list its archives: `NoteArchives` is a look into
`DataDir`, a step of its own, so that archivers come between it and the range.
A page is two statements, as in `QueryBatchesPaginated`. The rows are those of `HotStore`, whose inserts,
archivers and crashes go on meanwhile; `events` remembers which of them hit
the range being read. `Newer` is the order in which SQLite reads
`idx_batches_agent_time` backwards, ids settling what `captured_at` leaves
open. `Offset` is the product in an `int`; with `IntAssumption` no page a
client gets to one after the other wraps. A huge page number asked for out of
the blue may: it then gets the first page.

### AgentConfig, OSCollector, ProcCollector, Collector

A configuration is a function from fields to the source of each value.
`Sources` in `Collector` has every prefix of the embedded configuration, since a
binary may be downloaded while it is being rewritten. `Configure` is the
beginning of `main`.

`OSCollector` keeps `cpuSample` with user, nice, system, irq, softirq and steal
added up (`busy`): the code only uses the sums. Counters are `% Modulus` where the
code subtracts `uint64`s, and iowait may go down. `ProcCollector` is a machine of
pids and start times, and `Collect` in three steps: `Find`, `ReadTicks`,
`Keep`. A process has one thread, and the clock is in jiffies.

`Collector` puts them together; the two kinds of collectors share nothing, so
that an agent follows one or the other.

## What is checked

| Run | Question | Result |
|---|---|---|
| `HotStore.cfg` | types; `LossOnlyInRace`, `ClearedArchiveDisjoint`, `NewestArchiverBounds`; `FullTableIsCleared` | hold |
| `HotStoreLoss.cfg` | `NothingLost` (`store.go:2`) | violated |
| `Receive.cfg` | types; `DedupSpacing`, `AnswerMatchesTable`; `ImplementsHotStore`, `ImplementsEndpoint` | hold |
| `ReceiveOrphans.cfg` | `BatchesHaveAgents` (`store.go:215`) | violated |
| `Agent.cfg` | types; `Accounted`, `ReplayDrains`, `ReplayOrder`; `ReplaySettles` | hold |
| `AgentOrder.cfg` | `BufferedBeforeLive` (`buffer.go:2-3`) | violated |
| `Delivery.cfg` | types; `NothingVanishes`, `LiveIsStored`, `TwiceOnlyAfterError` | hold |
| `DeliveryAcked.cfg` | `AckedIsStored` (`receive.go:78`, `receive.go:83`, `store.go:230-231`) | violated |
| `Query.cfg` | types; `ShortPageCompletes`, `TotalCompletes`, `NoRepeats`, `SurveyCompletes`; `LatestNeverOlder` | hold |
| `Collector.cfg` | types; `OneSource`, `UsageExact`, `OneNamedProcess`, `CpuWithinElapsed` | hold |
| `Registry.cfg` | types; `FreshWhenSequential`, `BinaryNeverAhead`, `TrackOSAsAsked`, `MixedOnlyWhenRewritten` | hold |
| `RegistryFresh.cfg` | `UpdatedBinaryIsFresh` (`agents.go:257`) | violated |

What the violated ones show:

* `NothingLost`: archiver vacuums, a batch is inserted, the archiver deletes all rows.
* `BatchesHaveAgents`: a batch is stored, its agent deleted.
* `BufferedBeforeLive`: one failed push, then a successful one; the buffered
  batch waits for a restart. `agent.yaml.example:17` says that the agent
  "retries them on the next successful connection".
* `AckedIsStored`: two live pushes fail, and the agent is restarted. The replay
  pushes the two batches one right after the other, so the second falls into
  the window of the first, is answered 202 and not stored, and is taken for
  delivered. Of a burst only the first batch is kept. The property leaves out
  what `LiveIsStored` excepts, and the run live pushes that are stored
  (`LivePushesLost`, an action constraint), so that nothing but replays can
  violate it. `LiveIsStored` shows that live pushes an interval apart do not
  fall into the window.
* `UpdatedBinaryIsFresh`: an agent's create has finished (`UpdatesAfterCreate`, an
  action constraint). Update 1 stores its configuration and opens the file;
  update 2 stores its own and writes its file; update 1 then fills the file
  with the older configuration, and both set the paths. A create that is still
  writing its files crosses an update in the same way.

What the properties of the passing runs allow is as telling. A batch may be stored
twice, when a push of it ended in an error although it was stored, or when the
agent died before it removed the file. A download may be the beginning of a
binary, and parse, because `generateEmbeddedConfig` writes the required fields
first. The first figure of the OS collector may be that since boot. A reader
of pages must be prepared for repeats when batches arrive, and for gaps when
the table is cleared. Batches captured in one second may be replayed out of
order, `-10.json` sorting before `-9.json`, although `buffer.go:44` says
"sorted by filename (chronological)"; `ReplayOrder` is what holds.

Three things that break no promise of the repository are worth knowing all the same:

* `validate` takes any positive `push_interval` (`config.go:104`, and
  `agent.yaml.example:13-14` names only a default). Below 45 s, the window and the
  timeout, a live push may fall into the window of the one before it, and below 30 s
  most do: they are answered 202 and dropped, and the agent does not buffer them.
  `TimesAssumption` leaves these intervals out.
* When the idle counters as a whole go back, `cpuUsagePct` (`os_linux.go:136-143`)
  subtracts unsigned numbers, and the difference wraps: the figure sent as
  `cpu_usage_pct` (`payload.go:34`) is hugely negative, unless the total went back,
  too, with nothing that marks it. The second branch of `UsageExact` says when; it is no percentage of anything.
* When no binary could be written, `update` does not call `SetAgentBinaries`
  (`agents.go:259`). The old paths stay, and may lead to files that were truncated
  and are then downloaded with a 200.

### Bounds, and why they are enough

* `HotStore`: a limit of 2 and 4 rows give a table that fills, is cleared and
  fills again with up to four archivers at any statement. The actual limit (`maxEntries`)
  only moves the boundary, and the proofs are for any.
* `Receive`: two requests are what a check-then-insert race takes, two agents
  tell "this agent's batches" from "any batches", a window of 2 and times to 4
  put pushes inside, at and outside the window. Requests, agents and batches
  are symmetric; that is sound for `ImplementsHotStore` too, which has no
  liveness part and treats them alike.
* `Agent`: a second of two clock units, an interval of a second (the least
  `IntervalAssumption` allows), three batches and eight units: enough for two restarts
  with batches of each run in the buffer and for expiry (retention 4).
* `Delivery`: two batches, each pushed live and once more, with the window,
  the timeout and the seconds one unit each and an interval of two: the
  equality in `TimesAssumption`, which is where `LiveIsStored` would fail
  first. Four units are two intervals. Files do not expire here
  (`Agent` has that), and the run leaves out a single file that cannot be read when the
  directory can be listed (`FilesReadable`, an action constraint): it doubles
  the states, and the batch of such a file is not pushed, as when the
  listing fails. `DeliveryAcked.cfg` has three rows, this constraint and
  `LivePushesLost`. The theorems about `Delivery` have neither bound.
* `Query`: pages of one or two rows, three rows and a table limit of two, so
  that the table is cleared under a reader; three pages; two agents, two
  times and two spans, so that rows match and do not, and tie. The largest
  `int` is 3, the least `IntAssumption` allows.
* `Collector`: counters to three with a modulus of 16, so that every
  order of their steps and every negative difference occurs, and a sum never
  wraps; two pids and three processes, so that a pid is used by a second
  one, with and without the name.
* `Registry`: three requests; two crossing updates and a create, or create,
  update and download. One value of `processes` and two of `track_os`, two architectures;
  one in `RegistryFresh.cfg`, where updates begin after the create
  (`UpdatesAfterCreate`).
* `MaxRows`, `MaxTime`, `MaxBatches`, `MaxReplays`, `MaxPage`, `MaxJiffies`,
  `MaxStarts` and the finite set `Handler` are the only bounds that the code
  does not have. Runs switch deadlock checking off because
  a behaviour ends there.

### Fairness

* `HotStore!FairSpec`: weak fairness of each archiver's next statement. The
  goroutine is scheduled, and it gets the connection because no statement keeps it for
  ever. Inserts, failures and crashes have none. The property admits a failing
  newest archiver: the code does not retry.
* `Agent!FairSpec`: weak fairness of the process's own next step in the replay
  and in the loop. A push returns because the client has a timeout. Success of
  a push, and starting the process, are not assumed.

## What is proved

TLAPS checks these for every value of the constants that satisfies the
assumptions named in the modules.

| Theorem | Says |
|---|---|
| `HotStoreTypeOK`, `HotStoreLoss`, `HotStoreDisjoint`, `HotStoreBound` | `Spec => []` of the four invariants of `HotStore.cfg` |
| `ReceiveImplementsHotStore`, `ReceiveImplementsEndpoint` | `Spec => Store!Spec`; `Spec => Promise!Spec` |
| `ReceiveTypeOK`, `ReceiveLoss`, `ReceiveSpacing`, `ReceiveAnswers` | types; what the store loses; `DedupSpacing`; `AnswerMatchesTable` |
| `AgentTypeOK`, `AgentAccounts`, `AgentDrains`, `AgentReplaysInOrder` | types; `Accounted`; `ReplayDrains`; `ReplayOrder` |
| `RegistryTypeOK`, `RegistryNeverAhead` | types; `BinaryNeverAhead` |
| `RegistryFresh`, `RegistryTrackOS`, `RegistryMixedOnlyWhenRewritten` | `FreshWhenSequential`; `TrackOSAsAsked`; `MixedOnlyWhenRewritten` |
| `QueryTypeOK`, `QueryShortPageCompletes`, `QueryTotalCompletes`, `QueryNoRepeats`, `QuerySurveyCompletes`, `QueryLatestNeverOlder` | the five invariants and the action property of `Query.cfg` |
| `DeliveryImplementsAgent`, `DeliveryImplementsEndpoint` | `Spec => Client!Spec`; `Spec => Server!Spec` |
| `DeliveryTypeOK`, `DeliveryNothingVanishes`, `DeliveryTwiceOnlyAfterError`, `DeliveryLiveIsStored` | the four invariants of `Delivery.cfg` |
| `CollectorTypeOK`, `CollectorOneSource`, `CollectorUsageExact`, `CollectorOneProcess`, `CollectorCpuWithinElapsed` | the five invariants of `Collector.cfg` |

Assumptions: `maxEntries` and the seconds of the clock are positive; windows,
retentions and bounds are natural numbers; the push interval is at least a
second (`IntervalAssumption`); in `Delivery` a window and a timeout fit into it
(`TimesAssumption`); the clock of `ProcCollector` has at least one jiffy to go; the architectures with an embedded binary are
among the two known; `NoRow`, `NoPid` and the like are none of the values they
stand beside; no sum of CPU counters reaches their modulus. Clocks are not set back: that is in the actions `Tick`.

The inductive invariants:

* **HotStore.** A row that is in neither place must have left the table in a
  `DELETE` by an archiver that did not copy it. The strengthening says of every
  archiver about to delete that what is in the table is in its archive or is
  in `raced`; that archives hold only ids given out; and of the
  newest archiver that it cannot have returned on a full table. For the last
  one the only fact about sizes needed is that removing rows never makes the
  table larger.
* **Receive.** The refinement needs only that the rows inserted are rows. With
  it `HotStore`'s theorems carry over. `DedupSpacing` is about four steps of a
  request: the invariant `SpacingInv` says of a request that has passed `Check`
  that every row older than its arrival, if still in the table, lies outside the
  window at its cutoff, which time only moves away. `AnswerInv` says that each row
  has one request that inserted it, and that a request about to be accepted without
  a row has seen a recent row of its agent.
* **Agent.** `Accounted` rests on file names: two batches must never share one.
  Within a run numbers differ. Across runs the seconds must differ: a new run's ticker fires one
  interval after it starts, and an interval is a second at least, so that a
  number used again comes in a later second. `Names` says this,
  `FilesNamed` that each file has its batch's name, `Busy` what the batch in
  hand is. `ReplayDrains` adds that while a
  replay goes well every file of older runs is still in its plan.
* **Registry.** A file is written from what a request holds, not from the row.
  The invariant says that a request on its way to the files holds a configuration the row has
  had, unless the row is gone, and that before the create there is nothing.

  `SequentialInv`, for requests that neither cross nor fail, says of the one
  request that is changing something what each of its phases has done so far,
  and that the rest is as the request before left it. `NoMixture` and `ReadsWell`
  are its part about downloads: no file is a mixture, and what a download has
  read is the beginning of the file it has open, or the file was truncated under
  it. Three properties follow.
* **The endpoint's promise.** A step of `Receive` maps to one of `Endpoint` or
  to none. The one that is not plain is an acceptance without a row: `Check`
  found a recent row in the table, and what was in the table is in the log,
  received after the same cutoff.
* **Replay.** `ReplayOrder` adds to the invariant of `Agent` that seconds of names
  grow with the batches (`InSeconds`), and that what is still planned sorts
  behind the batch just pushed.
* **Queries.** A row's rank is the number of rows newer than it, and a page is
  the rows of a stretch of ranks. The lemmas on ranks say that no two rows have
  one, that a page which is not full has none behind it, and that a row that comes in
  moves the others to higher ranks only. So `WalkRanks` is inductive: what is still to be
  shown lies behind the pages read, and what was shown does not, unless a row came
  in. As a client goes on only from a full page, its next one begins inside the table,
  and `Offset` cannot have wrapped. `SurveyInv`: what is still to be shown is in
  a file not read yet, or was raced (from `HotStore`'s invariant); as long as
  the client has not looked which files there are, it has read none.
* **Collectors.** `ProcInv`: start times are given out once and in order, so a
  pid that passed to another process never shows an earlier start time again;
  and what a process ran since it was read fits into the time since.
  `OSInv`: what passed is the difference between the counters and the sample
  before; that `%` of a difference is that difference or short of the modulus
  by it is a lemma. `ConfigInv`: the configuration is what `Configure` gives.
  `CollectorTypeOK` needs more than types: a figure's elapsed time is positive
  because a kept start time comes with a kept time, and what passed is bounded
  because busy and idle never go down (iowait may).
* **Delivery.** Every step of the composition is a step of `Agent`, and of
  `Endpoint` at the clock divided into seconds, or leaves it alone. So the
  invariants of `AgentProofs` hold in it, `Accounted` among them, and
  `NothingVanishes` needs only that what the agent takes for delivered was
  answered 202 (`AckedIsAccepted`), which the endpoint does for a batch stored or
  taken for a duplicate. Everything else rests on `OnePush`: the agent waits for
  one push, the one its `pc` asks for. `RowsOfPushes` says that a push has one
  row at most. `FailedFirst` says that whatever is in the buffer, in the plan
  or in hand to be written had a live push that failed; so two rows of a batch
  are of a failed live push and a replay, or of replays.

  `LiveIsStored` is an argument about time. `SpacingInv` says, as long as no
  push was `stalled` or `lingered`: while the loop waits, every row is a window
  older than the next tick; when a live push is sent, every row is a window old;
  while it is waited for, its `deadline` is a window before the next tick;
  and while it is served, the rows of the others lie outside the window at its
  cutoff. It is inductive because `Window * Second + Timeout <= Interval`: a row
  that is stored while its client waits is not received after the deadline. A replay
  that has ended is an interval before the first tick.

Only model-checked: liveness (`FullTableIsCleared`, `ReplaySettles`), which the
prover cannot do. Every invariant and action property of the passing runs is a
theorem.

## What is not modelled

* Memory, load, disks and network in the OS collector: they are read, parsed and
  passed on, with nothing kept; as a whole they can make `Collect` fail before it
  reads the CPU (`SampleFails`). `os_linux.go:159` and `:247` test for one field
  less than they read, but every kernel writes more.
* How the query endpoint gets a span from `range`, `from` and `to`; listing of
  agents, which only reads.
* A clock set back, on either side. With one, file names can collide, and pushes
  can be dropped for as long as the clock was wrong. An interval below a second, which
  `config.go:104` accepts, can make names collide, too; `IntervalAssumption`
  excludes it.
* An agent that is deleted while it pushes, in `Delivery` (it is in `Receive`).
* `aggregator.go`, `embed.go`, `scopes.go`: constructors, embedded files and
  names, without state of their own.
* Disk durability: `VACUUM INTO` does not sync the archive, and a power failure could lose
  an archive whose rows were deleted. A completed statement is durable here.
* Authentication is one of the reasons for an error answer, and no more.
* The restart of the sequence counter is modelled, but nothing is stated of it: `payload.go:11`
  says that "Sequence increments by one on every push from this agent", which
  a restart plainly ends.
* Which error answer is given, log lines, JSON and YAML.

## Plan

1. Done: `HotStore`, `Receive`, `Endpoint`, `Agent`, `Delivery`, `Registry`,
   `Query`, `Collector` and its parts; every safety property of the passing
   runs proved.
2. Variants of `Receive` and `Agent` with a clock that jumps.
3. A reader of `Query` that meets an archive file while it is being made.
