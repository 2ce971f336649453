# TLA+ models of melon

This directory holds TLA+ specifications of the concurrent and stateful parts of
melon (the sources under `src/`), with the TLC configurations that check them.
`PROJECT.json` is the machine-readable index of the project:

- the components and their status;
- the runs and the properties each one checks;
- the mutants that show every property can fail;
- the map from each TLA+ definition to the source lines it translates;
- the hazards in the code that the runs address.

Run any check from this directory:

    tlasany ExtendedEndPoint.tla
    tlc -workers 2 -config MC_ExtendedEndPoint.cfg MC_ExtendedEndPoint

## The system and its parts

melon is an RPC framework built on a fiber (M:N thread) runtime. Most of the
runtime itself (scheduler, timers, butex, stacks, sockets) is not among the
sources here. What is here consists of three groups.

**Shared, reference-counted or lock-free data structures** used from many threads:

- `ExtendedEndPoint` with its `GlobalEndPointSet` (`src/unnamed/part_004`);
- `ListOfABAFreeId` (`src/melon/fiber/list_of_abafree_id.h`);
- the var reducers `AgentCombiner` and `AgentGroup` (`src/melon/var/detail/`);
- the sampling `Collector` (`src/unnamed/part_009`);
- `bounded_queue` (`src/unnamed/part_011`).

**Protocols:**

- raft's `BallotBox`, which tracks quorum grants and commits log indexes (`src/melon/raft/ballot_box.cc`);
- the Consul naming client and service, which register, renew and poll (`src/melon/naming/consul_naming_service.cc`);
- raft's `MemoryLogStorage`, the in-memory log store (`src/unnamed/part_005`);
- `HttpMessage`'s progressive body reading, where the parse fiber and a user thread share a body buffer and a reader (`src/melon/rpc/http/http_message.cc`).

**Glue, I/O and formatting:** the byte-level HTTP parser, builtin pages, logging
sinks, string and format helpers, storage URI dispatch, tests and examples.

### How they interact

- **end_point and ExtendedEndPoint.** An `end_point` (ip, port) that holds an IPv6 or unix address stores the ResourcePool id of an `ExtendedEndPoint`. Copying, assigning and destroying `end_point`s change that object's reference count. Objects for equal addresses are shared through `GlobalEndPointSet`.
- **Socket and ListOfABAFreeId.** `melon::Socket` keeps a `ListOfABAFreeId` of the fiber session ids waiting on it. On error it notifies each one with `apply()`. Sessions end on other threads.
- **Var reducers.** Each thread updates a thread-local agent. Readers combine all agents. `reset` exchanges every agent's value. A thread that exits commits its agent into the global result.
- **Collector.** Samplers submit samples through a reducer. A grab thread collects them, drops the excess against a speed limit, and hands them to a dump thread.
- **BallotBox.** The raft node appends a pending ballot per log entry, and `commit_at` records a peer's grant for a range. When a ballot reaches quorum, the pending queue up to it is committed and the `FSMCaller` waiter is told.

### Inventory: state, operations, hard behaviours, properties needed

**ExtendedEndPoint / GlobalEndPointSet**
- State: per object `_ref_count`, `_u.sa.sa_family`, pool membership; the set; each `end_point`'s (ip, port).
- Operations: `create` (`new_extended_endpoint`, `dedup`, `embed_to`), the copy constructor / `set_endpoint` + `inc_ref`, `operator=`, `reset` / destructor + `dec_ref`, `GlobalEndPointSet::insert` / `erase`.
- Hard: `dec_ref`'s `fetch_sub` runs outside the set's mutex, so an `insert` of the same address can see a count of 0 and must not revive the object. `erase` must not remove the entry that replaced it.
- Needed: counts equal the number of holders; a held object is the set's entry for its address; a pooled object is clean and not in the set; no unreferenced object leaks.

**ListOfABAFreeId**
- State: blocks of ids, `_cur_block`, `_cur_index`, `_nblock`.
- Operations: constructor, `add` (scan 4 positions, or grow a block and scatter), `forward_index`; `apply` and `get_sizes` read.
- Hard: ids stop existing on other threads. The scatter writes while the cursor crosses block boundaries and wraps to the head, after the saved positions may have moved into the new block.
- Needed: no live accepted id is lost; none is stored twice; every allocated block is on the chain; the size limit.

**BallotBox** (modelled)
- State: `_pending_meta_queue` of ballots, `_pending_index`, `_last_committed_index`.
- Operations: `commit_at`, `append_pending_task`, `reset_pending_index`, `clear_pending_tasks`, `set_last_committed_index`.
- Hard: committing earlier ungranted ballots when a later one is granted; `on_committed` called after the unlock, so notifications may arrive out of order.
- Needed: the committed index only grows; nothing is committed without a quorum, up to the documented exception.

**AgentCombiner / AgentGroup**
- State: per-thread agent values, the global result, the agent list, the free agent ids.
- Operations: `get_or_create_tls_agent`, the agent's `modify` (CAS loop), `combine_agents`, `reset_all_agents`, `commit_and_erase`, `clear_all_agents`, `create_new_agent` / `destroy_agent`.
- Hard: a `modify` racing `reset`; thread exit racing a read; ids reused after `destroy_agent`.
- Needed: conservation (everything ever added = what was reset + global + agents).

**Collector** (modelled)
- State: the grabbed list, `_ngrab`, `_ndrop`, `_ndump`, the stop flags.
- Operations: `submit`, `grab_thread` iteration, `dump_thread` iteration, stop.
- Needed: the counters agree with the samples in flight; stop terminates both threads.

**bounded_queue**
- State: `_start`, `_count`, `_cap`, the items.
- Operations: push, elim_push, push_top, pop, pop_bottom, clear, top/bottom.
- Needed: refines an abstract bounded sequence (the ring buffer is shown to implement a queue/deque through `INSTANCE ... WITH`).

**Consul naming client** (`SnsNamingClient` and `ConsulNamingService` modelled)
- State: `_registered`, the renew fiber, and the service's `_consul_index`.
- Operations: `register_peer`, `periodic_renew`, the destructor, `GetServers`.
- Needed: a failed registration can be retried; cancel only what was registered.

## Plan

Modules in order, each with an MC module and cfgs:

1. `ExtendedEndPoint`: done.
2. `ListOfABAFreeId`: done.
3. `BoundedQueue` with an abstract `BoundedQueueSpec` and a refinement run: done.
4. `AgentCombiner`: per-thread agents, reset, thread exit and destruction: done. The mutex-based element with `merge_global` is done too; id reuse is still open.
5. `BallotBox`: done. `Ballot` is modelled as the majority rule, since its code is not under `src/`.
6. `Collector`: done. The grab and dump threads, the drop rule, and stop with liveness.
7. `SnsNamingClient`: done. `register_peer` from concurrent threads, the renew fiber and the destructor.
8. `ConsulNamingService`: done. The polling fiber, index handling, the backup file and stop.
9. `MemoryLogStorage`: done. The in-memory raft log, with entry reference counts, refines the abstract `LogStorage`.
10. `HttpMessage`: done. The parser callbacks, progressive body reading (`OnBody`, `OnMessageComplete`, `SetBodyReader`), a failing reader and the destructor.

## Modules and runs

### ExtendedEndPoint (`ExtendedEndPoint.tla`, `MC_ExtendedEndPoint.tla`)

**State.** The ResourcePool holds a set of `Slots`. Each slot has:
- `ref[s]`: `_ref_count`;
- `fam[s]`: the address, or `Unspec` for `AF_UNSPEC`;
- `pooled[s]`: on the free list.

`table` is `GlobalEndPointSet::_set`, keyed by address. It holds at most one object per address, because its `Equals` compares the address.

Each thread owns one `end_point`, `ep[t]`: the slot it embeds, or `NoSlot` for a plain IPv4 or `IP_ANY:0` endpoint.

**Actions.** Each action is one step under the code's atomicity. Atomicity is the set's mutex, or a single atomic on the count. The actions are:

| Action | Code |
|---|---|
| `new_extended_endpoint` | `get_resource`, then count 1 and family set |
| `dedup` | `GlobalEndPointSet::insert` (the helper `insert`); a loser is reset and returned to the pool |
| `embed_to` | store the id in the `end_point` |
| `assign` | `operator=` from another thread's `end_point`; starts with `reset()` |
| `create` | `ExtendedEndPoint::create(sp, port, ep)`. Parsing is abstracted to a choice of address; a string that does not parse returns `nullptr` and takes no step |
| `destroy` | `~end_point`; `reset()` |
| `reset` | `end_point::reset`: `dec_ref` (the helper `dec_ref`, its `fetch_sub` and the test for 0) on an extended endpoint, then `IP_ANY:0` |
| `erase` | when the count reached 0, the later `GlobalEndPointSet::erase` under the mutex, the family reset and `return_resource` |
| `set_endpoint` | the copy, with `inc_ref` |

`pc`/`cont` record where each thread is between steps. The caller of `operator=` keeps `rhs` unchanged until the call returns, so a thread being copied from starts no operation (`BeingCopied`).

**Run `ee_safety`** (`MC_ExtendedEndPoint.cfg`) uses 3 threads, 3 slots and 1 address, with symmetry over threads and slots. One address makes every `create` race on the same set entry. That is where the hazards are. With 3 slots, a fresh object, a dying one and a reused one can coexist. The run explores 6,267 distinct states, and it checks:

- `RefCountExact`: every count equals the number of `end_point`s and in-flight `create`s holding the slot.
- `HeldIsIndexed`: every held object is the set's entry for its address.
- `PooledIsClean`: a pooled object has count 0, `AF_UNSPEC` and no entry.
- `NoLeak`: an unreferenced object is pooled or about to be erased.

It finds no violation. The `dec_ref` / `insert` race is handled: `insert` undoes the increment and replaces the entry. `erase` checks that the entry is still its own object.

### ListOfABAFreeId (`ListOfABAFreeId.tla`, `MC_ListOfABAFreeId.tla`)

**State.** Blocks are an arena `1..MaxBlocks`. They are linked by `next` and allocated in order, and block 1 is `_head_block`. Ids are `1..NumIds`, and `0` is `ID_INIT`. `live` is the set of ids for which `exists()` holds.

**Actions.** `add` is one action: the container is not thread-safe and is used from one inserting thread. Its sequential body is written as functions on a record of the fields it touches: `Scan`, `Grow`, `Scatter` and `forward_index`. Its outcomes are the disjuncts:
- stored in the scan;
- `EAGAIN` at the limit;
- `ENOMEM`, where `new (std::nothrow)` may fail;
- grow and scatter.

`invalidate` is another thread ending a session. Ids are added in order `1, 2, ...`, because they are interchangeable.

**Bounds.** `BLOCK_SIZE = 5`, below the real 63, with `ASSUME BLOCK_SIZE >= 5`. With 4 or fewer entries per block, a scan could visit a position twice, which no real block size allows. The class is a template over `IdTraits`, so `MAX_ENTRIES` is chosen in `Init` from `{5, 10}` and never changes. One run then checks both instantiations. With `MAX_ENTRIES = 10`, the list grows to 3 blocks. So a block is inserted in the middle of the chain, and scans wrap from the last block to the head. With `MAX_ENTRIES = 5`, a crowded scan at two blocks returns `EAGAIN`; with 10 ids, three blocks never crowd. 10 ids are enough to crowd two blocks.

`CHECK_DEADLOCK FALSE`: the model stops once every id has been issued and invalidated. That end comes from the bound on ids, not from the code.

**Runs:**
- `abafree_safety` (`MC_ListOfABAFreeId.cfg`, 879k distinct states, about 75 s) checks:
  - `NoLiveIdLost`: every accepted id that still exists is on the chain `apply()` walks.
  - `NoDuplicate`: no id is stored twice.
  - `ChainIsAllBlocks`: the chain is exactly blocks `1.._nblock`.
- The limit check, `_nblock * BLOCK_SIZE > MAX_ENTRIES`, is the definition `BlockLimitReached`. It runs before `++_nblock`, so the list can hold one block more than `MAX_ENTRIES`, although IdTraits documents that value as "Max #entries". That is `(MAX_ENTRIES / BLOCK_SIZE + 1) * BLOCK_SIZE` entries, 65583 with the documented values. The run reaches the overshoot with `MAX_ENTRIES = 5` (two blocks) and with 10 (three blocks). That the overshoot stops at one block follows from that single comparison, so it is recorded as a hazard and not restated as a property.
- Mutants: a `Grow` that drops the tail breaks `NoLiveIdLost`, a scatter that keeps a copy breaks `NoDuplicate`, and a `Grow` that cuts the chain breaks `ChainIsAllBlocks`.

The scatter's trickiest case passes: the saved positions have already moved into the new block, and the cursor wraps while writing. No id is lost or duplicated.

### BoundedQueue (`BoundedQueue.tla`, `BoundedQueueSpec.tla`, `MC_BoundedQueue.tla`)

**Abstract spec.** `BoundedQueueSpec` is what the header's comments promise: a deque of at most `Cap` items, with the top at the head of `q`. Each call's result is kept in `ret`, either a bool or the item that `pop(T *item)` copies out.

**Model.** `BoundedQueue` is the ring:
- `items` over slots `0.._cap-1`, where `None` marks a slot with no constructed object;
- `count` and `start`;
- one action per method. Overloads that differ only in what they return are disjuncts of one action.

The fields are `uint32_t`. `U(x) == x % 2^W` applies the field width to every sum before `_mod` sees it. W is 32 in the code and 3 in the runs, so `max_capacity()` is 7.

**Refinement.** The mapping is `Contents == [i \in 1..count |-> items[(start + i - 1) % Cap]]`: the `_count` items from `_start`, with true arithmetic. `Refines == Abstract!Spec` is checked as a PROPERTY.

**Runs:**
- `bq_refines` (`Cap = 4 = 2^(W-1)`, 2 values, 312 states) checks `Refines`, `AccessorsAgree` and `LiveSlotsExact`. `AccessorsAgree` says that `top()`, `bottom()`, `top(index)` and `bottom(index)` (the operators `top`, `bottom`, `top_at`, `bottom_at`, with `None` for nullptr) name the abstract deque's items counted from either end, for every index up to `Cap`. A `bottom(index)` that loses its `- 1` breaks it. `LiveSlotsExact` says that exactly the slots in the ring hold a live object: no leak, no double construction, no double destruction. `Cap = 4` is the largest capacity for which `_start + _count` cannot wrap. The run covers every wrap of `_start`, in both directions.
- Above `2^(W-1)` the code is wrong, and the wrap is recorded as a hazard rather than a run. `MC_BoundedQueue.tla` keeps `MCCapOver = 5`, still within `max_capacity()`. With `Cap <- MCCapOver`, `Refines` fails. At `_start = 4`, `_count = 4`, a push computes `U(8) = 0` and constructs over the second item from the top. With 32-bit fields, this happens for any capacity above 2^31 that `max_capacity()` admits.

**Left out.** `swap()`, and `_cap = 0`. With `_cap = 0`, `elim_push` would loop forever in `_mod`; that is listed as a hazard.

### AgentCombiner (`AgentCombiner.tla`, `MC_AgentCombiner.tla`)

The model is `AgentCombiner` with `op = +`. `atomicElem`, chosen in `Init` and never changed, selects the `ElementContainer`:
- the atomic one, which `Adder` uses;
- the generic one, whose operations take the element's own `_lock` (`elock[t]` while the owner holds it across steps).

**State.** Each writer thread's agent has:
- `val`: the element;
- `comb`: `agent->combiner` is this combiner;
- `inList`: linked in `_agents`.

The combiner has `global` (`_global_result`) and `_lock`.

**Actions.**
- `begin_modify`: `get_or_create_tls_agent`, which attaches and appends the agent under `_lock`, then modify's first load.
- `cas`: `compare_exchange_weak`. On failure, including a spurious one, it reloads and retries.
- `modify_locked`: the generic container's `modify`, one step under the element's lock.
- `merge_global`, which only the generic container has, modelled with the `op` its comment describes:
  - `merge_begin` locks the element;
  - `merge_test` either skips the merge, or has `GlobalValue::lock` unlock the element;
  - `merge_lock` takes `_lock`, moves the element into `_global_result`, unlocks, and relocks the element;
  - `merge_end` unlocks it.
- `commit_and_clear`.
- Thread exit in two steps: `exit_begin` is `~Agent` reading `combiner` without a lock, and `commit_and_erase` runs under `_lock`.
- `restart`: a new thread with a fresh agent.
- The reader's `combine_agents` and `reset_all_agents`. Each holds `_lock` across a loop of one agent per step (`combine_begin`/`reset_begin`, `reader_step`, `reader_end`). On the generic container, `reader_step` waits for the element's lock.
- `destroy`: `~AgentCombiner` with `clear_all_agents` (a helper of its own). It is allowed only when no thread is inside `modify` and no reader runs, which is what its users must ensure.
- `construct`: a new combiner once the last one is destroyed. `AgentGroup::create_new_agent` pops the id that `destroy_agent` pushed, so the new combiner finds the threads' same thread-local agents. `cgen` counts the combiners and is bounded by `MaxGens`. `egen[t]` is the combiner a thread's `~Agent` read. `commit_and_erase` on a combiner other than the current one (`Freed`) is a use after free.

History variables: `added` counts completed additions, and `harvested` is the total that `reset_all_agents` returned.

**Runs:** two writers and at most 3 additions, with symmetry over threads.
- `combiner_safety` (`MaxGens = 2`, so one reuse of the id; 503,474 states) checks the two properties below. Deadlock is checked as well: a `GlobalValue::lock` that kept the element's lock would deadlock with `reset_all_agents`, and TLC reports exactly that.
  - `Conservation`: while the combiner lives, `added - harvested` is `_global_result` plus the listed agents plus an in-progress reset's `tmp`;
  - `CombineInRange`: an action property. `combine_agents` returns a value between the variable's value when `_lock` was taken and its value at return.

  Both hold. The CAS loop is what keeps `Conservation`: a blind store loses a reset. Resetting the agents in `clear_all_agents` keeps it too. The code comment says this is a must "because the agent object may be reused". A `clear_all_agents` that only unlinks leaves `agent->combiner` set, so `get_or_create_tls_agent` of the next combiner returns an agent that is not in its list. TLC finds the lost addition (mutant `clear_all_agents_no_reset`). Taking `_lock` in `commit_and_clear` is what keeps `CombineInRange`.
- `combiner_exit_uaf` expects a violation of `NoUseAfterFree`. A thread exits, and `~Agent` reads `combiner`. Another thread destroys the variable. Then `commit_and_erase` runs on the freed combiner. This is recorded as a finding. No write to the variable overlaps its destruction.

### BallotBox (`BallotBox.tla`, `MC_BallotBox.tla`)

`BallotBox` (`src/melon/raft/ballot_box.cc`) is the raft leader's record of which log entries a quorum holds.

**State.** The box has:
- `pending_index`: `_pending_index`;
- `queue`: `_pending_meta_queue`, one ballot per entry, recording its configuration and the peers that granted it;
- `last_committed`: `_last_committed_index`.

Each caller has a `note`: the index it passes to `on_committed` after unlocking. The waiter's `applied` is the highest index it was told of.

The environment is modelled only as far as it decides the calls and their arguments:
- the node's role;
- its log (`lastLog`, with the configuration `logConf[i]` of each entry);
- each peer's acknowledged prefix `acked[p]`.

`Ballot` is not under `src/`. Its `grant` and `granted` are the majority rule over `conf` and, during joint consensus, also over `old_conf`. They are marked spec_modelled in the map.

**Actions.**
- `reset_pending_index`: the node becomes leader.
- `append_pending_task`: the leader proposes an entry, which may install the next configuration.
- `clear_pending_tasks`: the node steps down. The destructor also runs it.
- `follower_append`: environment only.
- `commit_at`: peer `p` reports entries `acked[p]+1..last` stored. `CommitAt` is the locked part: its early returns (`EINVAL`, below `_pending_index`, `ERANGE`), the grant loop, the pop, and the store.
- `set_last_committed_index`: as a follower.
- `on_committed(c)`: the call made after unlocking.

**Run `ballot_safety`.** Four peers `a..d`, and the configurations `{a,b,c,d}`, then `{a,b,c}` with old `{a,b,c,d}`, then `{a,b,c}`. Log indexes go up to 3. The run reaches 367,430 states in under 2 minutes, and it checks:
- `CommittedByQuorum`: every entry committed this term is held by a quorum of the configuration of some entry at or after it;
- `NoGrantedLeftPending`: no granted ballot stays queued;
- `QueueCoversLog`: one ballot per entry from `_pending_index` to the end of the log, which is what the index arithmetic and `ERANGE` assume;
- `CommitMonotone`: `_last_committed_index` never decreases, across leadership changes;
- `ResetChecksHold`: the `MCHECK`s of `reset_pending_index` hold at every election;
- `EveryCommitNotified`: a liveness property; every committed index reaches the waiter.

All of them hold.

The removal case that `commit_at`'s comment calls "not well proved" is reached. Joint entry 1 is held only by `a` and `b`, which is not a quorum of `{a,b,c,d}`. It is committed together with entry 2 of `{a,b,c}`. So the box guarantees only the weaker `CommittedByQuorum`, not a quorum of each entry's own configuration. The model also lets the leader append the `{a,b,c}` entry before the joint entry commits. The box itself does not forbid this; braft's configuration change waits for it.

### Collector (`Collector.tla`, `MC_Collector.tla`)

`melon::Collector` (`src/unnamed/part_009`) moves sampled `Collected` objects from user threads to a dump thread. Before a user thread creates a sample, `is_collectable` (`src/melon/var/detail/combiner.h`) asks the type's `CollectorSpeedLimit` whether to sample at all. After every round, the grab thread rescales `sampling_range` with `update_speed_limit`. The model has one speed limit, shared by all samples.

**State.**
- `st[s]`: each sample's status, which is where the sample is. It is one of:
  - `new`, then `skipped` (never created) or `sampled`;
  - `reduced`: in the reducer;
  - `grabbed`: in the grab thread's preprocessor lists;
  - `kept`: in the grab thread's `root`;
  - `dumpq`: in `_dump_root`;
  - `dumping`: in the dump thread's `root`;
  - or released: `dumped`, `dropped` or `rejected`.
- The counters `_ngrab`, `_ndrop` and `_ndump`, and the flags `_created` and `_stop`.
- The grab thread's last read of `_ndump`.
- A program counter for each thread and for the destructor.
- Whether `_dump_thread_cond` was signalled while the dump thread waited.
- The speed limit's `sampling_range` (`range`) and `ever_grabbed` (`ever`), and `last_ngrab_map[sl]` (`lastNgrab`). With one speed limit, `ngrab_map[sl]` is `_ngrab`.

**Actions.**
- `is_collectable`: before the first grab, `is_collectable_before_first_time_grabbed` returns `sampling_range`. Its counter, its timestamp and its `wakeup_grab_thread` only time the grab thread's wait, so they change nothing modelled. After the first grab, the sample is taken when `fast_rand() & (BASE - 1)`, any value in `0..Base - 1`, is below `sampling_range`.
- `submit`: accept or destroy. The decision is a time window, so it is modelled as a choice.
- The grab thread's loop:
  - `grab_top`: starts the dump thread, checks `_stop`, and calls `reset()`;
  - `grab_count`: per sample, `++_ngrab` then the drop rule `DropRule`. The rule reads `_ndump` racily: any value between the previous read and the current one.
  - `grab_publish`: splices into `_dump_root` under the mutex and signals;
  - `grab_sleep`: `update_speed_limit`, then the timed wait. A round that grabbed nothing leaves the limit alone. Otherwise `NewRange` recomputes the range from the round's count and an elapsed interval chosen from `Intervals`, and `Clamp` bounds it to `1..BASE`.
  - `grab_exit`: sets `_stop` under the mutex and signals;
  - `grab_join`.
- The dump thread's loop:
  - `dump_top`: under the mutex, leave on `_stop`, wait if empty, or take the list;
  - `dump_wake`;
  - `dump_iter`: one `dump_and_destroy` and `++_ndump`, until the root is empty or `_stop` is seen.
- `~Collector`: `destroy` and `destroy_join`.

**Runs.** Four samples, and `max_pending_samples = 2`, so drops happen both with and without a dump in between. The speed limit is scaled down:
- `BASE = 4`;
- 2 expected samples per second;
- a second of 2 ticks;
- intervals `{-1, 0, 1, 2, 3}`. The `-1` is a wall clock that stepped back.

At this scale the formula reaches every range in `1..4`, and intervals exist both under and over a second. `collector_safety` (348,867 states, about a minute) lets `~Collector` start at any point, or never. It checks:
- `PendingExact`: `_ngrab - _ndrop - _ndump` equals the samples kept and not yet dumped;
- `PendingBelowMax`: fewer than `max_pending_samples` are pending, despite the racy read;
- `EverySampleReleased`: a liveness property. With a created grab thread, every accepted sample is dumped or dropped unless `_stop` has been set;
- `DestructorReturns`: a destructor started at any point returns.

All hold. Weak fairness of each thread is justified: the grab thread's waits are timed, and the dump thread's wait ends with the signal that enables `dump_wake`.

The model reaches two leaks, which are listed as hazards:
- samples accepted in the 200 ms window after a failed `pthread_create`;
- samples left queued when `_stop` ends the dump loop.

No property claims otherwise, because the code states no intent.

### ConsulNamingService (`ConsulNamingService.tla`, `MC_ConsulNamingService.tla`)

`melon::naming::ConsulNamingService` (`src/melon/naming/consul_naming_service.cc`, lines 67-254) runs a fiber, `RunNamingService`. The fiber polls consul with blocking queries through `GetServers` and hands each new list to `ResetServers`.

**State.**
- Consul (environment):
  - `cidx` is the service's `X-Consul-Index`;
  - `cbody` is its answer, an array of entries. An entry is a server node or `Bad`, which stands for any element the loop skips (no `Service`, a bad address, port or tag).
- The service: `connected` (`_consul_connected`), `index` (`_consul_index`; 0 is empty) and `loaded` (`_backup_file_loaded`).
- The loop's locals `rc`, `servers` and `ever_reset`, and `held`, the list last passed to `ResetServers`.
- The fiber's place `fpc`, and `stopped` and `interrupted` for `fiber_stop`.

**Actions.**
- `get` is `GetServers` as one fiber step:
  - the channel is initialised once;
  - the call fails (`DegradeToOtherServiceIfNeeded`, modelled as `Degraded`, reads the backup file at most once);
  - or the answer lacks the index, carries the known index ("no change"), or is not an array;
  - or the array is parsed (`ParseLoop`, with its `presence` set), `_consul_index` is updated, and an all-invalid answer is refused.

  A join inside the call clears `interrupted`, as the comment at line 221 describes.
- `check` is the stop test, then `ResetServers` on success or on the first failure.
- `sleep` is `fiber_usleep`, which fails with `ESTOP` only if interrupted.
- Environment: `stop` (`fiber_stop` sets the stop flag and interrupts) and `consul_change`.

**Runs.** Two nodes, answers of up to two entries, consul's index moving to 3, and the backup file enabled and listing `n2`.
- `consul_safety` (17,033 states) passes. It checks:
  - `NoDuplicateServers`;
  - `FirstBatchReported`: `ResetServers` runs at least once, unless the fiber is stopped first;
  - `StopTerminates`: a stopped fiber returns, even when the join consumed the interrupt;
  - `ConsulListResumed`: a list `ResetServers` got from elsewhere than consul's current answer is replaced once consul's index moves past `_consul_index`. Such a list is either the backup file's, after a failed call, or an older answer's. A mutant that takes `_consul_index` before the "no change" test breaks it.

  While the index stays put, the file's list stays in force. Every blocking query then ends as "no change". The premise of `ConsulListResumed` is reached with the file's list held and consul's index ahead. This covers the two consul hazards:
  - the backup file replacing a good list;
  - the index taken before an all-invalid answer is refused. The skipped version costs nothing once the index moves again.

  Mutants that drop the presence test, the first-failure reset or the stop test are caught.

**Fairness.** The fiber is weakly fair. Consul is assumed to answer eventually: strong fairness of `get_answered`, a call that reaches consul and returns the array. `FirstBatchReported` and `StopTerminates` need only the fiber's fairness; `ConsulListResumed` needs consul's.

### SnsNamingClient (`SnsNamingClient.tla`, `MC_SnsNamingClient.tla`)

`melon::naming::SnsNamingClient` (`src/melon/naming/consul_naming_service.cc`, lines 412-542) registers the process with the sns discovery server. A background fiber, `periodic_renew`, keeps the entry alive, and the destructor cancels it.

**State.**
- `registered` is `_registered`, and `params` says whether `_params` was stored.
- `pc[t]` and `ret[t]` are each calling thread's place in `register_peer` and its result.
- `fpc` is the renew fiber's place, `"none"` while `_th` is `INVALID_FIBER`.
- `fstopped` is whether `fiber_stop` was called, and `errs` is `consecutive_renew_error`.
- `srv` is the server's entry ("absent" or "present"). `cancelled` records that a `do_cancel` reached the server.
- `mpc` is the destructor's place.

**Actions.**
- `register_peer` has four steps, one per early return: `register_call` (the relaxed load and the exchange), `validate`, `register_rpc` and `start`.
- The fiber: `init_sleep`, `loop` (the stop check and the threshold test), `rereg`, `rereg_ok`, `rereg_fail`, `rereg_sleep`, `renew` and `sleep`.
- The environment's `expire` drops the entry.
- The destructor: `destroy` (load `_registered`, `fiber_stop`), `destroy_join` and `destroy_cancel`.

Every RPC may fail before reaching the server. A registry may also be applied with its answer lost, so a failed `do_register` can still create the entry. Likewise, a `do_cancel` may fail before it reaches the server (`CancelFails`), or be applied with its answer lost (`CancelFails` with the entry removed); only a successful one (`CancelOk`) sets `cancelled`. `AlreadyExists` counts as success. `do_renew` (an update) succeeds only when the entry exists, and never creates one.

`consecutive_renew_error` is only compared with `==`, so every value above the threshold behaves alike. The model saturates it at `Threshold + 1`.

**Runs.** Two threads, `Threshold = 2`.
- `sns_safety` (257 states) passes. It checks:
  - `NoRegistrationAfterCancel`: once a cancel reached the server, the entry is never recreated. The destructor joins the fiber before `do_cancel`; the mutant that skips the join is caught.
  - `EventuallyRegistered`: while the fiber runs and is not stopped, a dropped entry is registered again. The mutant in which a failed renew is not counted is caught.
- `sns_false_success` (violation) checks `NoFalseSuccess`. `_registered` is set before validation and registration. If the first call fails, every later call returns 0 with nothing registered and no renew fiber. TLC finds it in 3 steps.
- The threshold 0 is recorded as a hazard, not a run. The flag is described as the threshold "beyond which Register would be called again", and it has no validator. With `Threshold <- MCThresholdZero`, `EventuallyRegistered` fails: one failed renew sets the counter to 1, it is never equal to 0 again, and renew retries forever with no sleep.

**Fairness.** The fiber is weakly fair: every step is a bounded RPC or a sleep. The server is assumed to accept a re-register eventually, stated as strong fairness of `rereg_ok`. Without that assumption no client could promise registration. The destructor's join and cancel are weakly fair. Calling the destructor is not forced.

### MemoryLogStorage (`MemoryLogStorage.tla`, `LogStorage.tla`, `MC_MemoryLogStorage.tla`)

`melon::raft::MemoryLogStorage` (`src/unnamed/part_005`, lines 190-330) keeps the raft log in a `std::deque` of reference-counted `LogEntry` pointers. It also keeps the atomics `_first_log_index` and `_last_log_index`. Every operation runs under `_mutex`.

`LogStorage.tla` is the abstract log. It has `first`, `last` and `log`, where `log` is a function from `first..last` to terms. Its operations are `append_entry`, `truncate_prefix`, `truncate_suffix` and `reset`, with the fix-ups the code makes when a truncation goes past either end.

**State** (`MemoryLogStorage.tla`).
- `data` is the deque, and `first` and `last` are the two indexes.
- `refs[e]` is the reference count of `LogEntry` e. An entry is identified by its LogId (index, term).
- `batch` holds the entries `append_entries` still has to append, and `wheld` the entries the writer created and still holds.
- `held[r]` is the entry reader r got from `get_entry`.

**Actions.**
- `append_entries`: the writer (the LogManager's thread) creates entries for the next indexes with one reference each, and calls the storage.
- `append_entry`: one locked step per entry. An index other than `last + 1` fails `CHECK(false)` and aborts the process, so it is a guard.
- `writer_release`: the writer drops its references after the call returns.
- `truncate_prefix`, `truncate_suffix` and `reset`: each is one step, including the `Release` of the popped entries after the unlock. `reset`'s `EINVAL` for `next_log_index <= 0` is a disjunct.
- `get_entry` (`NULL` out of range, else `AddRef`) and the environment's `reader_release`.

The storage checks neither `first_index_kept >= _first_log_index` nor `last_index_kept <= _last_log_index`. Its callers are not under `src/`. The model passes only arguments for which the result is still a log: `first..MaxIndex+1` for a prefix and `0..last` for a suffix. Outside those, the bounds describe entries the deque lacks. `get_entry` then fails its `CHECK` or reads past the deque. This is recorded as a hazard.

**Run.** `memlog_refines` uses terms {1, 2}, indexes up to 3, batches of up to 2 entries and two symmetric readers (5,854 states, a few seconds). It checks:
- `RefsExact`: every entry's count equals its holders, counting one each for the deque, the writer and each reader. So no entry is freed while held and none leaks, even when a truncation pops an entry a reader holds.
- `Implements`: the refinement of `LogStorage!Spec`. The mapping reads the log from the entries' own indexes, so it also checks `get_entry`'s and `get_term`'s `CHECK(temp->id.index == index)`.

Mutants:
- a `get_entry` without `AddRef` breaks `RefsExact`;
- a `truncate_prefix` that does not raise `_last_log_index` breaks `Implements`;
- a `reset` that accepts 0 breaks `TypeOK`.

### HttpMessage (`HttpMessage.tla`, `MC_HttpMessage.tla`)

`melon::HttpMessage` (`src/melon/rpc/http/http_message.cc`, lines 47-470) holds one HTTP message while `http_parser` calls its callbacks. With `_read_body_progressively`, the body is handed to a user's `ProgressiveReader` as it arrives. Two threads then share `_body` and `_body_reader` under `_body_mutex`:
- the **parse fiber** runs `OnBody` and `OnMessageComplete`;
- the **user thread** calls `SetBodyReader`.

**State.**
- Message: `progressive`, `kind` (request or response), `head` (a response to HEAD), `stage` (`_stage`), `nobody` (`on_headers_complete` returned 1).
- Shared: `body` (`_body`, a sequence of part numbers), `breader` (`_body_reader`), `parsed`.
- Parse fiber: its place `ppc`, its local `r` (`pr`), its `body_seen` (`pseen`), and the part being handled (`pat`).
- User thread: its place `upc`, `r` (`ur`, which becomes `FailAllRead` after a failure), `body_seen` (`useen`) and `ntry`.
- The user's reader records what it received: `got` (the parts, in order), `ends` (`OnEndOfMessage` calls) and `est` (the first end's status).

One body part is one IOBuf block and one unit of size. `Limit` stands for `socket_max_unwritten_bytes`. Header names and values and the URL are abstracted away: a header callback only changes `_stage`. The URL check in `on_headers_complete` is a choice for requests.

**Actions.**
- Header phase: `on_url`, `on_status`, `on_header_field`, `on_header_value` and `on_headers_complete`.
- `OnBody`: appends to `_body` when not progressive. Otherwise it runs `BodyLocked`: buffer the part, sleep (`wait`) if `_body` is over the limit, or flush and deliver to the installed reader.
- `OnBody_wake`: the sleep loop re-reads `_body_reader`.
- `OnBody_flush`: `UnlockAndFlushToBodyReader`, one block per step.
- `OnBody_deliver`: hands over the part itself.
- `OnMessageComplete`: flushes what `SetBodyReader` left in `_body`.
- `OnMessageComplete_end`: clears `_body_reader` and ends the reader with OK.
- `broken`: the connection fails between callbacks.
- `SetBodyReader`: returns `EPERM` when not progressive.
- `SetBodyReader_loop`: one locked turn. It installs the reader, ends it, gives up after `MAX_TRY`, or drains `_body`.
- `SetBodyReader_deliver`: one block of `body_seen`. A failure ends the reader and switches to `FailAllRead`.
- `destroy`: `~HttpMessage`, once neither thread is inside. It ends a reader that is still installed with `ECONNRESET`.
- Any `OnReadOnePart` of the user's reader may fail; `FailAllRead` fails every one.

**Run.** `http_progressive` covers requests and responses, HEAD responses, and both reading modes. Each case is a frozen choice of `Init`. The bounds are five body parts, a `_body` limit of one part, and up to three header callbacks. Five parts are the fewest with which `SetBodyReader` can drain twice and then give up at `MAX_TRY` while the parse fiber sleeps. The run reaches 3,042 states and fires every action and disjunct. `CHECK_DEADLOCK FALSE` is used because a message's life ends after the destructor. The run checks:
- `PartsInOrder`: the reader gets parts 1, 2, ... in order, with no part lost or repeated, although three code paths deliver to it.
- `WholeBodyOnOk`: an OK end comes only after the whole body. This covers the `MAX_TRY` give-up over a non-empty `_body`.
- `NoOrphanReader`: once the message is complete or destroyed, an accepted reader has been ended exactly once: never forgotten, and never ended a second time by `OnMessageComplete` or the destructor.
- `NoConcurrentReads`: the two threads never call the reader at the same time.

Mutants:
- flushing the last block first breaks `PartsInOrder`;
- an `OnMessageComplete` without the flush breaks `WholeBodyOnOk`;
- an end that leaves `_body_reader` set breaks `NoOrphanReader`, because the destructor ends the reader again;
- a destructor that drops the reader silently breaks `NoOrphanReader`;
- installing the reader before draining `_body` breaks `NoConcurrentReads`.

- `WaitEnds`, a liveness property: once the user has called `SetBodyReader`, `OnBody` does not sleep for good. The call must drain `_body` or install the reader, including in its `MAX_TRY` give-up branch. A mutant whose give-up branch returns without setting `_body_reader` leaves the parse fiber asleep forever.

**Fairness.** The run uses `FairSpec`, with weak fairness of `OnBody_wake` and of the user thread's steps inside `SetBodyReader`. The sleep loop wakes every 10 ms, and `SetBodyReader` blocks on nothing but `_body_mutex`. The model does not assume that the user calls `SetBodyReader`, nor that more of the message arrives. Without the call, `OnBody` sleeps forever when `_body` is full, and nothing in the code obliges the user to make it.

## Fairness

`Collector` assumes weak fairness of its grab thread, its dump thread and the destructor's join, as explained above. `BallotBox` assumes weak fairness of `on_committed(c)` for each caller. A thread that has unlocked in `commit_at` or `set_last_committed_index` goes straight on to call the waiter; nothing can block it. The role changes, appends and acknowledgements have no fairness, because the environment may stop at any time. `HttpMessage` assumes weak fairness of OnBody's wake-up and of a running `SetBodyReader`. The other runs, `memlog_refines` included, check safety only. `ConsulNamingService` assumes weak fairness of its fiber and strong fairness of a consul answer. `SnsNamingClient` assumes weak fairness of the renew fiber and strong fairness of a successful re-register, as explained above.

## Abstractions common to all modules

- Relaxed atomics are modelled as sequentially consistent single steps. The counts in ExtendedEndPoint are only changed by read-modify-write operations, which are totally ordered per location even when relaxed.
- Addresses, ids and payloads are model values or small integers; strings, hashing and formatting are left out.
- Memory allocation failure is a nondeterministic outcome where the code checks for it (`ENOMEM`).

## Not modelled

See `components` in `PROJECT.json` for the full list and the reason for each. In short:

- **Pure conversions and I/O:** the byte-level `http_parser`, HTTP header storage and the raw request/response serialisers, pages, logging, string and format helpers, endpoint parsing and printing.
- **Parts whose code is not under `src/`:** the fiber scheduler, butex, `ExecutionQueue`'s implementation, and `Ballot` (modelled as the majority rule).
- **Small leftovers:**
  - `bounded_queue::swap` exchanges the fields of two queues, one assignment per field, with nothing to check.
  - The var reducers other than the `+` combiner (`Maxer`, `Miner`, window and percentile) share `AgentCombiner`'s protocol with a different operator.
  - `utf16`, `rotl` and `ParseServerList` are pure conversions.

  None of them adds a question the runs above do not already ask.
- **Left out for now:** `TempFile` and `fd_guard`, `ComlogSink`, and `SnsNamingParams`/`SnsNamingService::GetServers`. Each is sequential code around a file, a socket or an RPC, and each would need a run of its own that this project does not yet have. The raw HTTP serialisers (`MakeRawHttpRequest`/`MakeRawHttpResponse`) are also left out. They send a caller's `Transfer-Encoding` header next to their own `Content-Length`, and they send a body with a 304. A framing property would therefore be violated, and stating it would need a separate violation run.
