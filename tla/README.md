# Verification of the VowpalWabbit reinforcement_learning client

This directory models the run-time of `rlclientlib`, the C++ library through which an application asks a contextual-bandit model for decisions, logs them, and keeps the model fresh.
The modules are TLA+, checked by TLC on small instances and, where stated, proved by TLAPS for every value of the constants.
The implementation is the reference: each definition names, in `PROJECT.json` under `map`, the lines it is translated from.

## 1. The system: inventory

Paths are relative to `src/rlclientlib/` unless they start otherwise.

| Component | State it keeps | Operations | What makes it correct |
|---|---|---|---|
| Event queue (`logger/event_queue.h`) | list of (function, size, event), `_capacity`, `_event_index`, `_drop_pass` | `push`, `pop`, `prune`, `size`, `is_full` (unlocked) | capacity is the sum of the sizes; FIFO; indices are dense |
| Async batcher (`logger/async_batcher.h`) | the queue, `_buffer_end_event_index`, mutex and condition variable of blocked producers | `init`, `append`, `run_iteration`/`flush`/`fill_buffer`, destructor | every event is sent once, in order, or dropped by policy, or reported; the destructor drains and returns; event counts are contiguous |
| Periodic background procedure (`utility/periodic_background_proc.h`, `interruptable_sleeper.h`) | `_thread_is_running`, the thread, `_interrupt` | `init`, `stop`, `time_loop` | iterations never overlap; `stop` returns, and nothing runs afterwards |
| Watchdog (`utility/watchdog.h/.cc`) | per-thread records, `_unhandled_background_error_occurred`, its thread | `register_thread`, `check_in`, `unregister_thread`, `start`, `stop`, `loop` | a stalled thread is reported, a live or finished one is not |
| Object pool, versioned object pool (`utility/object_pool.h`, `versioned_object_pool.h`) | free objects, count, version and factory | `get_or_create`, `update_factory`, return by the deleter | an object is held by one user; nobody is handed an object of an old factory |
| Model download (`model_mgmt/model_downloader.cc`, `restapi_data_transport*.cc`, `file_model_loader.cc`, `data_callback_fn.cc`) | ETag-like `_last_modified` and `_datasz` of the transport | `run_iteration`, `get_data`, the data callback | a model that was published reaches the decisions; a failed step is retried |
| VW model (`vw_model/vw_model.cc`, `safe_vw.cc`, `pdf_model.cc`) | a versioned pool of `safe_vw`, upgrade rules | `update`, `choose_rank` and its variants | ranking and updating may overlap; a batch of decisions sees one model |
| Live model (`live_model_impl.cc`, `*_loop.cc`) | `_model_ready`, `_bg_model_proc`, loggers, learning mode | `choose_rank`, `request_*`, `report_*`, `refresh_model`, `init` | what is logged is what was decided with, under each learning mode |
| Loggers (`logger/logger_facade.cc`, `event_logger.cc/.h`, `logger_extensions.cc`) | initialised flag, batcher, time provider | `init`, `log`, `append` | no append before `init`; each protocol version logs one event per call |
| HTTP transport (`logger/http_transport_client.h`, `preamble_sender.cc`, `moving_queue.h`) | queue of tasks with a retry count each | `send`, task completion, retry, destructor | at most `max_tasks` in flight; each message is acknowledged or reported; the destructor waits |
| Deduplication (`dedup.cc`, `dedup_internals.h`) | dictionary of objects with reference counts | `add_object`, `remove_object`, `get_object`, transform of a batch | an object named by a batch is in the dictionary when it is sent |
| Multi-step episodes (`multistep.cc`, `multistep_loop.cc`) | history of event ids | `update_history`, `request_episodic_decision` | an episode's events chain to earlier ones |
| Responses, sampling (`ranking_response.cc`, `multi_slot_response*.cc`, `sampling.cc`, ...) | actions with probabilities, chosen action | `populate_response`, `sort_by_scores`, `reset_*` | the chosen action is the one in front |
| Serializers (`serialization/*`, `schema/*`) | a FlatBuffers builder | `add`, `finalize` | metadata of a batch belongs to its events |
| Configuration, factories, utilities (`utility/config*.cc`, `factory_resolver.cc`, `azure_factories.cc`, `time_helper.cc`, `trace_logger.cc`, ...) | parsed settings, maps of constructors | parse, create | sequential code |
| Binary parser and joiners (`src/external_parser/`) | per-event groups, batch grouped by id | parse of a log, join of interactions and observations, dedup dictionary | every interaction is learned from once, with the rewards in its window |
| Bindings (`src/bindings/`), examples, benchmarks, ONNX extension, vendored libraries | none of their own that the library relies on | wrappers | not modelled |

### How the parts meet

An application thread calls `live_model`; `live_model_impl` asks the VW model for a decision (a `safe_vw` from the versioned pool), builds an event and gives it to a logger facade, which appends it to an async batcher.
The batcher's background thread hands filled buffers to a sender: a preamble sender around an HTTP client or a file.
A second background thread runs the model downloader, whose callback calls `model->update`, which replaces the factory of the pool under the feet of the ranking threads.
Both threads register with the watchdog.
Everything that fails in the background reports to one error callback.

### What is hard

- Threads of the application, two background threads and the destructor meet on the queue, the pool and the flags; several reads are made outside the locks (`is_full`, `_model_ready`, `_thread_is_running`).
- Values are read once and used later: the queue's size in `flush`, the pool's size and version in `update_factory`, the transport's `_last_modified`.
- Steps fail half-way: an event that does not serialize, a download that does not parse as a model, an HTTP post that is refused.
- The order of the events, and the index counts that describe what throttling took, must survive all of it.

The hazards found in the code are listed with their lines in `PROJECT.json`.

## 2. The modules, and the order they were planned in

First the paths that every decision and every event take, then what surrounds them.

| # | Module | Models | Composes / implements |
|---|---|---|---|
| 1 | `EventChannel` | what a batcher promises: a channel that numbers, delivers in order, discards only if lossy, is empty when closed | abstract |
| 2 | `AsyncBatcher` | event queue, batcher, the periodic procedure that carries the flush, destructor | implements `EventChannel` |
| 3 | `ModelRegister` | what a pool promises to the ranking threads: the model in force when they ask | abstract |
| 4 | `VersionedPool` | `versioned_object_pool` | implements `ModelRegister` |
| 5 | `ModelRefresh` | transports, downloader, `refresh_model`, `vw_model::update`, ranking | uses `ModelRegister` in the place of the pool |
| 6 | `Delivery` | what a sender promises: each buffer is acknowledged or given up, within a window | abstract |
| 7 | `HttpTransport` | `http_transport_client`: bounded tasks, retries by count and by time, destructor; `moving_queue` | implements `Delivery` |
| 8 | `Watchdog` | `watchdog`, `periodic_background_proc`, `interruptable_sleeper` in discrete time | composes the watchdog with the threads it watches |
| 9 | `LiveModel` | `init`, decisions and reports under each learning mode, version and type; what is logged, shown and returned | composes `live_model`, the facades and the responses |
| 10 | `Dedup` | the sender's dictionary over the life of a batch, the receiver's cache | composes the client and the trainer over a lossy network |
| 11 | `Rewards` | the reward functions, against a definition without loops | used by 12 and 13 |
| 12 | `Joiner` | the message loop, grouping and joining of the binary parser, labels | |
| 13 | `Multistep` | an episode from its decisions to the trainer's ordering and rewards | composes the client and the trainer |

Each has an `MC` module that gives it an instance; `AsyncBatcherInvariant` holds the inductive invariants of the batcher, and the modules ending in `Proofs` the theorems; those of `Rewards`, `Joiner` and `Multistep` are together in `JoinerProofs`, as the two joiners share the reward functions.
Every safety and action property that a run checks is also a theorem. What the plan leaves open is the composition of `VersionedPool` with `ModelRefresh`, and of `AsyncBatcher` with `HttpTransport`.

## 3. The modules and the code

### AsyncBatcher

| State | Code |
|---|---|
| `queue`, `capacity`, `eventIndex`, `dropPass` | `event_queue::_queue`, `_capacity`, `_event_index`, `_drop_pass` |
| `event` | per pushed event: its size estimate, the draws of `try_drop` it survived, the factors multiplied into `_pass_prob` |
| `unexamined` | the entries that a `prune` in progress has not reached yet |
| `pc` | where each application thread is in `append`: before the check, waiting, between the predicate and the sleep (`drowsy`), sleeping, pruning |
| `fl`, `remaining`, `inflight`, `batch`, `batchSize`, `endIndex`, `range` | locals of `flush` and `fill_buffer`, and `_buffer_end_event_index` |
| `bg`, `interrupt`, `dtor` | the background thread, its sleeper, the destructor |
| `sent`, `pruned`, `lost` | what has left, by the sender, by `prune`, or with a report to the error callback |

Each lock-protected section is one step; what happens between two sections (a queue read without a lock, a notification, a batch) is a step of its own.
`prune` is cut in one step per entry, although it holds the queue's mutex, because `is_full` and `size` read the queue without that mutex.
An event is the ticket that `push` gives it, so the list is a set whose front is its least ticket.
`try_drop` hashes the event's id and the pass, so two draws with the same pass are the same draw, and draws of different passes are independent; the model keeps the set of draws survived.

### VersionedPool

`version`, `model`, `count`, `free` are `_version`, `_factory`, `_objects_count`, `_pool` of the implementation in force; `loan` and `loanVersion` are the object and the `current_version` captured by the deleter of each `unique_ptr`; `made`, `builtFrom`, `deleted`, `failures` only observe.
Every operation holds the mutex throughout, so each is one step.
A factory may throw in `create` (after the count was incremented) and while `update_factory` fills the new pool.

### ModelRefresh

| State | Code |
|---|---|
| `published` | external: the resource, each change with its time and length |
| `lastModified`, `dataSize` | `_last_modified`, `_datasz` of the transport |
| `at`, `opened`, `stamped`, `got` | where a loader is in `get_data` and `update`, the file it opened, the file whose time it read, its `model_data` |
| `current`, `using` | the pool, through `ModelRegister` |
| `fetched`, `ranked`, `faults` | observers |

The steps are cut where the outside may change: between HEAD and GET, between the opening and the `stat` of a file, between `get_data` and `update`.
A poll that finds the resource unchanged leaves all of this as it is, and is a stutter.
`_model_ready` is written by `refresh_model` and `handle_model_update` and read by nobody; it is left out.

### HttpTransport

`tasks`, `oldest` and `caller` are `_tasks`, the task that `pop_task` joins, and where the only thread that sends or destroys is; `task` holds what each chain of continuations is doing, its `try_count`, the time since `_start_time` and its calls of the error callback; `stored` counts the copies the server has taken, whatever it answered.
Each continuation is a step; time is counted in `RETRY_DELAY`s, and a request takes any time up to a bound.
A retry whose posting throws ends the task without a report, as `send_request` only traces the exception.

### Watchdog

| State | Code |
|---|---|
| `thread`, `left`, `interrupted` | `time_loop` of each procedure, its sleeper's rest and `_interrupt` |
| `info` | `_thread_infos`, with the time since the last check-in |
| `stopping` | the `stop` that the owner of procedures and watchdog is in |
| `dog`, `dogLeft`, `dogIntr`, `running`, `dogTimeout`, `failed` | `loop`, its sleeper, `_running`, `_timeout_in_ms`, `failed_thread_names` |
| `told`, `late`, `beat` | observers |

Time passes by `Tick` and is kept as ages and remainders, so that behaviours need no end. Background threads may stall for ever; the watchdog's own thread takes no time, since what it reports is measured against its promptness.
Two things the code does show in the model: the sleeper's `_interrupt` is never cleared, so after the first registration the watchdog runs without a pause, and the timeout it would sleep for is converted to seconds and then compared with milliseconds (`watchdog.cc:23`).
The live model never calls `_watchdog.start()`; `Watchdog` models the class as its tests use it.

### LiveModel

A call is cut in three: `Call` (checks in the order of the code, and the model's decision), `Log`, `Return` (the response's final form, then the flag). In between other users call and background threads fail.
`setup` is the configuration, `log` the events handed over, `ret` what the last call of each user returned, with what it drew and what it was shown.
`reset_chosen_action_multi_slot` compares `size() >= index` and so reads one past the end for the slot behind the last baseline: there the model shows any action, or none that exists.

### Dedup

`dict` is `dedup_dict::_entries`, `used` the builder's `_used_objects`, `evt` an event between its transform and its batch; `lru` and `examples` are the receiver's cache. `net` keeps every batch that was sent, so that each may arrive never, once or often, in any order. A batch may be closed after any event, in the place of the sizes that close one; `leaked` observes the references that a failure leaves behind.

### Joiner and Rewards

`grouped` and `queue` are `_batch_grouped_events` and `_batch_event_order`; `config` is `_loop_info` with the reward function, `fixed` the settings of the command line (`sticky_value`); `learned` what the learner is given, with the group it was made from.
An event is the record of what its bytes say: whether it can be read, its type, mode and value. `Rewards` has one operator per loop of `reward.h`, a recursive function on the number of outcomes read, and `IsReward`, which says without loops what each is to compute.
A CCB event in apprentice mode whose baseline has not an action for each slot is left without rewards; its labels are then read past the end of an empty vector, and the model gives them any value.

### Multistep

`depths` is `episode_history::_depths`; `interactions`, `announced` and `outcomes` what the client logged; `batch`, `order` and `rewards` what the joiner got and made of it, `credited` what it gave to the learner. The service that puts the events with one primary id in one payload is external and taken at its word; it may lose an event or repeat an interaction.
`Turn` is one turn of the loop of `topo_sorter::get`, a depth-first walk with a stack of layers, and `PopulateOrder` the loop: it is cut after `2n + 1` turns for `n` interactions, by which time the stack is empty (`OrderIsRight`). Means are kept as fractions.
`LineOf` says which interactions one follows, back to the first or to a gap, as the least set closed under "the one it follows"; it uses nothing of the walk.

## 4. The runs

| Run | Question | Bounds |
|---|---|---|
| `batcher_block` | overshoot, coverage of the snapshot, contiguous counts, refinement of the lossless channel, delivery and shutdown of a blocking batcher that subsamples | 2 threads, sizes 1 and 2, capacity 2, mark 2, 4 appends |
| `batcher_drop` | order, accounting, capacity and pass probability under pruning and every fault | 2 threads, sizes 1 and 2, capacity 2, 3 appends |
| `pool` | ownership, size, refinement of the register | 3 threads, 1 initial object, 2 updates, 1 failure |
| `refresh_http` | the HTTP transport with failing requests; freshness | 2 threads, sizes 0, 1, 2, 3 publications, 2 failures |
| `refresh_file` | the file transport, renamed over at any point, with repeated times | 1 thread, sizes 0 and 1, 2 publications, 2 failures |
| `http_transport` | ownership of the tasks, window, reports, refinement of the sender, every wait ends | 2 tasks, 2 retries, a duration of 1 delay, requests of 0 or 1, 3 buffers |
| `watchdog` | registration against check-in, late reports, no false ones, every stop returns | 2 procedures with intervals 1 and 2, initial timeout 20, seconds of 2 |
| `live_model` | log, response and return code of every call agree | 2 users, 1 call each, 2 actions, 2 slots, baselines of length 0, 1, 2; 84 configurations |
| `dedup` | references balance; what is rebuilt is what was meant; eviction; events move on | 3 objects, 4 events in batches of up to 2, 1 failure, any loss, repetition and order |
| `joiner` | grouping, pairing, what is learned from and with which rewards | 2 ids, 2 payloads, 3 events, six contents of interactions and four of outcomes, every reward function |
| `multistep` | history, order and credit of an episode | 3 interactions, 2 times, 2 outcomes, 1 event lost or repeated, every multistep reward |
| `multistep_outcome` | the finding of section 7 | the same |

Why these bounds are enough for what they show:

- Two appending threads make every pair of an append with an append, a flush or the destructor; capacity 2 with sizes 1 and 2 makes a queue that is full, overfull and just below; four appends make more than one buffer and a second flush, and three are enough for a prune between two pops.
- Three borrowers over two updates have objects of all three versions out at once. Two or three publications put a change between any two requests of a poll, and one more after it.
- Three buffers over a queue of two make the owner wait for the oldest while the other retries; two retries and a duration of one delay let each limit be the one that ends a task.
- Two procedures of different intervals let a thread register with a shorter timeout than the watchdog is asleep for, while the other is stalled. Ages are counted to two milliseconds past the timeout, where nothing distinguishes them any more.
- One call of each user is enough for another's call, or a background failure, to fall between its steps; only the flag outlives a call, and it is never cleared.
- Batches of two over four events let a dictionary repeat, extend or replace the ids of the one before.
- Two ids and three events put an outcome before and after an interaction, a repeated interaction, an unreadable event and another id between; two payloads let a failed one leave its groups to the next.
- Three interactions make a line, a fork, two roots, a missing ancestor and a cycle.

Beyond the bounds the theorems of section 6 hold for every value of the constants.
Symmetry is used only in runs without liveness properties, over threads, users or event ids, which the modules treat alike.
Deadlock is checked where the system has no end: a destroyed batcher and a destroyed client are given a stuttering step, and a thread can always rank. It is not checked in `live_model`, `dedup`, `joiner` and `multistep`, where the bounded input is used up or the log has ended.

`EventuallyLeaves` and `ShutdownCompletes` are checked where they hold, in a blocking queue without faults; section 7 says what a prune and an event that fails do to them.
`ServesLatest` is checked with failing requests, not with a failing `update`: the transport has advanced by then, and nothing is tried again before the next publication (a hazard of `PROJECT.json`).

## 5. Fairness

- `AsyncBatcher`: weak fairness of each thread inside `append`, of the flushing thread, of the end of a timed sleep and of the destructor once it has begun. The operating system schedules runnable threads, and `wait_for` ends. Nothing is assumed of the application: it need not append, nor destroy the batcher; a spurious wake-up need not come.
- `ModelRefresh`: weak fairness of the polling thread, whose interval ends and whose requests end by an answer or by their timeout. Failures are bounded in a behaviour, so that a transport that fails for ever is not asked to deliver; publications are bounded too, so that the last one can be caught up with.

- `HttpTransport`: weak fairness of the owner's thread once it is inside a call and of each task. Requests end, by an answer or by the HTTP library's timeout. Nothing is assumed about their success: the retries end by themselves. Nobody needs to send or to destroy.
- `Watchdog`: weak fairness of the watchdog's thread, of each background thread and of the return from a join. An iteration ends after any time; the owner need not stop anything.
- `Dedup`: weak fairness of the batcher's thread, which adds what it has transformed and closes a batch that is not empty. The network owes nothing.

Every other property is a safety property and is checked and proved without fairness.

## 6. What is proved

The theorems hold for every number of threads, every size, capacity, bound and set of faults that the modules' assumptions admit. These are `BatcherAssumption` (finitely many threads; positive capacity and mark; sizes with an upper bound), `PoolAssumption`, `RefreshAssumption`, `TransportAssumption` (a queue of at least one task: with a limit of zero `v_send` would join a task that does not exist) and `WatchdogAssumption` (intervals and the initial timeout are natural numbers; seconds are not empty), `LiveModelAssumption` (at least one action and one slot), `DedupAssumption` (object ids are finitely many, as they are 64-bit numbers; every object has one) `JoinerAssumption` (what the records of interactions and outcomes are made of; the configured reward function is one of the six) and `MultistepAssumption` (ids are positive, times are natural numbers, values and the default reward are integers).
Two theorems have a hypothesis of their own beyond these: `PassProb`, that `append` does not subsample, and `Rebuild`, that no two objects share an id; each has a companion without it (`Draws`, `RebuiltById`).

`AsyncBatcherProofs`:
- `TypeCorrect`: by itself almost inductive; what it lacks is that a pop finds `remaining > 0` and that one prune examines the queue at a time (`Locals`).
- The control invariant (`Control` in `AsyncBatcherInvariant`) says that one thread flushes at a time, that nothing is appended once the destructor has begun, and what the locals of `flush` hold at each location. It is needed because the order of the batches depends on one popper, and the last flush on nobody pushing.
- Every step is then shown to move events in one of seven ways (`Flow`: an event enters, is popped, serialized, sent, lost, pruned, or none moves), and `InOrder` and `EventsAccounted` are proved from those seven, not from the actions. `EventsAccounted` also needs `Draining`: the destructor's flush counts at least what is left.
- `Snapshot` (no poll of an empty queue in a blocking queue without failing events), `Overshoot` (by how much a blocking queue is overfull), `Counts` (index ranges without gap), and `Refinement`: every step is a step of `EventChannel` or leaves it alone.
- `Capacity`: the queue's capacity is the sum of the sizes of its events. What a push and a pop do to a sum over a finite set (`SumRemove`, `SumSame`) is all that its steps need.
- `Draws`: an event's pass probability has a factor for each draw that it survived and, if `append` subsamples, one more, because `append` and `push` both account for that draw (section 7, item 5); `PassProb` is what this says where `append` does not subsample. The invariant (`DrawsInv`) also says which draws are possible: no event that the current `prune` has yet to examine was drawn for with its pass.

`VersionedPoolProofs`: `PoolTypeCorrect`; `PoolAccounted`; `PoolIsCurrent`, whose invariant speaks of the borrowers of the current version too, as they will give their objects back; `PoolCount`, from which `PoolSize` follows: a thread that creates an object finds the pool empty and holds none itself, so the count is that of the other threads' objects, and of failures; `PoolRefinement`.

`ModelRefreshProofs`: `RefreshInvariant` (`RefreshInv`: one loader at work, what it carries is not older than the pool's model, and no thread has ranked with a newer one); from it `NeverGoBack`; `UsableServed`; `HttpReload`, under the two assumptions that it states: the transport is HTTP, and the resource's time advances with each publication. Its invariant (`Remembers`) is that the time the transport keeps is that of the model it returned last.

`HttpTransportProofs`: `TransportInvariant`. The inductive invariant says that the queue holds the last tasks pushed in their order (`QueueIsSuffix`), that the one being joined came just before them (`JoinsOldest`), that all earlier ones are over (`LeftIsOver`), and that the room `v_send` found is still there when it creates a task (`Room`); `Retrying` relates a task's count, time and copies. It is needed because the window is about tasks that have left the queue, of which the queue says nothing. From it `TransportTypes`, `TasksAreOwned`, `WindowHolds`, `FailuresReportedOnce`, `RetriesAreBounded` and, step by step, `TransportDelivers`.

`WatchdogProofs`: `WatchdogInvariant`, the inductive invariant, in four parts, and from it `CheckInsNeverThrow`, `ReportsAreLate` and `LateAreReported`. `Enrolled` ties the registration to where a thread is; `LateIsKnown` says that a thread reported and not yet heard of again is still late; `Prompt` is why no late thread goes unreported: once a thread has registered the watchdog's sleeper stays interrupted, so it has looked at the threads in every millisecond before time passes (`beat`), and what it found is in the names it is about to report or has reported. The steps of the threads enter through what they do to lateness (`RegisterAges`, `CheckInAges`, `EndStopAges`, `TickAges`), not through the ages.

`LiveModelProofs`: `LiveModelInvariant`, the inductive invariant, says of each call in progress what it has drawn, what it will be shown and whether its event is already in the log, and of each call that has returned the same once more; and that an event in the log belongs to one call. It is needed because `log` is shared: a call's event must be told from those of every other user's calls in between. From it `FailuresAreUnlogged`, `LogTellsWhatWasShown`, `BaselinesAreShown` and `FlagIsAlwaysSeen`.

`DedupProofs`: `Invariant` says of the sender that the dictionary holds whole entries under their own ids (`SenderInv`) whose references are those of the open batch, of the event on its way and of the leaked ones (`Balanced`); of a batch that has left, that its dictionary has the objects of its events (`Closed`); of the receiver, that its cache holds an object for each id of its list, each id once (`CacheInv`). `Balanced` is what makes the batch complete: an id that the batch uses has a reference, so its entry is there when `finalize` reads it (`NoMissingKey`). For the receiver, `TouchAllType` says that the loop over a dictionary leaves its ids in front with the first of them last, and `ClearedType` that `clear_after` with that one keeps them and nothing else. From these `References`, `RebuiltById`, `Rebuild` and `Cache`.

`JoinerProofs`, about a group: `Invariant` says that the queue lists each group once, that the events of a group come from payloads already read, and that what was learned comes from earlier payloads than the one being grouped and from others than the events of the same id that wait (`LearnedBefore`). This last is what `LearnedOnce` lacks to be inductive: a payload that fails leaves groups behind, and the next may bring more events of their ids. `Justified` is the invariant of the loop over one group; it also lists the places of the outcomes read so far behind the interaction chosen (`Reads`). From these `Queue`, `Once` and `Justification`.

`JoinerProofs`, about rewards: `RewardIsRight` says of each loop of `reward.h`, over any outcomes, that it computes what it is named for. The loops for sum, least, greatest and earliest carry what they have computed of the outcomes seen so far (`Seen`). For the median, that the observed outcomes can be listed in ascending order (`SortedExists`, by taking greatest ones out of a smallest counterexample), and that whatever list ascends has the `n`-th value at its `n`-th place (`SortedNth`), so that it does not matter which of the orders of equal values the sort gives. `Reward` then says of `LearnedIsRight` that the outcomes a slot is rewarded with are exactly those behind its interaction, and the configured function got them in their order.

`JoinerProofs`, about episodes:
- `OrderIsRight`: the walk of `topo_sorter::get`, over any finite set of interactions with gaps and cycles among them, ends, and returns each interaction at most once and after the one it follows, leaving out none that is first or follows one returned. The invariant of a turn (`WalkInv`) says that an entry is in its layer until it is in the result, that the layers of what is in the result and not empty are on the stack, and that the turns so far are twice the result's length and one, less the stack's; the last is what bounds the walk.
- `EpisodeInvariant`: `ClientInv` ties `depths` to the logged interactions, by their number, and `BatchTyped` and `BatchCredited` say that what is left of the order, and what was given to the learner, are interactions of the batch, with a credit each if it is a line. `HistoryIsRight` follows.
- `OrderFollowsLines`: an order as above has exactly the interactions whose `LineOf` goes back to a first one (`OrderIsRooted`); what is not in the order is closed under "the one it follows" and has no first.
- `CreditIsRight`: of a line, the order is the line from its first interaction (`LineInOrder`), so `LineOf` is a prefix (`LineIsPrefix`) and what comes after an interaction a suffix of it (`AfterIsSuffix`); and the sums from the back are the sums over these sets (`SuffixIsSum`).

Loops are folds (`AddObjects`, `TouchAll`) or recursive functions on the number of turns (`Joined`, those of `Rewards`, `PopulateOrder`, `SuffixSum`). The library's induction theorems take an operator as a parameter and cannot be applied here; induction on the steps of a loop is obtained instead from one fact about finite sets, that a family of subsets of one has a minimal member (`SmallestSubset`). From it come induction on a bounded index (`BoundedInduction`), the existence of the function a fold or a loop is defined by (`FoldExists`, `SumExists`, `LoopExists`) and the existence of a greatest index (`MaxIndex`). The modules state these facts each for itself, as each speaks of its own fold.

Proving showed two definitions whose `CASE` arms overlapped, so that the model left open which one is taken where the code decides by their order: the rewards of a Slates or CA event in online mode (`RewardsOf` of `Joiner`), and which error a refused call reports first (`Refusal` of `LiveModel`). Both are now in the order of the code.

Only model-checked are the liveness properties (`EventuallyLeaves`, `ShutdownCompletes`, `ServesLatest`, `CallerReturns`, `StopReturns`, `EventsMoveOn`), which the prover cannot treat. What a multistep reward is for an episode that is not a line is not stated by any property: the code sums along its order, which for a fork mixes branches.

`CountsAreContiguous` is checked in `batcher_block` and proved for both queue modes; `ImplementsChannel` likewise.
That `ModelRefresh` may use `ModelRegister` for the pool rests on `PoolRefinement`; the composition of the two modules themselves is not checked. The batcher calls the sender through `Delivery` only in the sense that it calls `v_send` from one thread; that composition is not checked either.

## 7. Where code and text disagree

With a run that shows it:

1. `multistep_outcome`: `report_outcome(event_id, episode_state&, ...)` hands the event's id on as the primary id and the episode's as the secondary one (`multistep_loop.cc:37` and `:43`), the reverse of what `report_outcome(episode_id, event_id, ...)` does at line 25. The outcome is filed under an episode that does not exist and is not "associated with an individual interaction" (`multistep_loop.h:91`).

Known from the same models, stated here without a run of their own; each is why a property is limited in the way section 4 says:

2. `fill_buffer` notifies without the mutex of the condition variable; a thread that has just found the queue full can miss the last notification and sleep beside an empty queue until another append (`async_batcher.h:169`, against the comment at line 130).
3. In DROP mode a prune during a flush takes events that `flush` still counts, and `fill_buffer` polls an empty queue for ever, under the destructor's join (`async_batcher.h:165`, against `async_batcher_test.cc:254`).
4. An event that does not serialize stays counted, with the same end (`async_batcher.h:170`).
5. With subsampling the pass probability is multiplied by the rate twice for one draw (`event_queue.h:69` and `async_batcher.h:121`, against `Metadata.fbs:21`); `PassProbIsSurvival` is checked and proved without subsampling, and `Draws` says what becomes of it with.
6. What `append` subsamples away gets no index, so that the event counts leave it out (`async_batcher.h:121`, against `event_queue_test.cc:194`).
7. The file loader takes content and time from two files when one is renamed over the other in between, and then believes the new one loaded (`file_model_loader.cc:61`, against the comment at line 63); `NoNeedToReload` is checked and proved for HTTP.
8. `reset_chosen_action_multi_slot` reads one past the end of the baselines (`live_model_impl.cc:718` and `:735`); `BaselineShown` says nothing of that slot.
9. `reward::max` starts from the smallest positive float, so outcomes none of which is positive count as no outcome (`reward.h:73`); `IsReward` says nothing of that case, nor does `RewardIsRight`.
10. The labels of a CCB event in apprentice mode are read past the end of an empty vector when the baselines do not match the slots (`joined_event.h:236`, then `:214`); `LearnedIsJustified` says nothing of those.
11. Two contents with one 64-bit hash share an entry of the dictionary (`dedup.cc:28`): an event then comes back with the content of the first. The instance's hash is injective, `Rebuild` assumes as much, and `RebuiltById` says what holds without.

## 8. What is not modelled, and why

`PROJECT.json` lists every component with its state. In short:
- what VW computes and how contexts are parsed, the encodings of the serializers, compression, file framing, configuration and construction: sequential code whose data no property here is about;
- the sampling of an action: `LiveModel` lets every outcome happen;
- the transport with OAuth follows the same steps as the one modelled and adds a header; the empty transport does nothing; authorization headers hold a credential of an outside service;
- object pool of buffers: the unversioned case of the versioned pool;
- a model file written in place instead of renamed, two application threads in `refresh_model` at once, and a second `init` of a live model: the interface promises nothing for them;
- in the joiners: metrics, the conversion to JSON, an event id with interactions in two payloads of one batch beyond what `GroupFails` leaves behind;
- federation (interfaces without an implementation), the bindings for Python and C#, examples, benchmarks and test tools, the ONNX extension and the vendored libraries under `src/ext_libs/`: wrappers, or code of others. They are most of the repository's lines.
