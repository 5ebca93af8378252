# Verification of SpeedyColibri

SpeedyColibri runs mixture-of-experts language models that do not fit in memory.
The experts of a layer are read from disk into a bounded cache, a monitor moves
the cache's budget as the machine's memory comes and goes, a ledger decides which
requests may be admitted, a layer can be split over several machines, and six
families of models share one engine with several caches of per-sequence state.
This directory models the control of those parts in TLA+, checks it with TLC on
small instances, and proves the ledger, eviction and the expert cache, the server
with its budget monitor, the cluster exchange, the sharding and shipping of a model,
the expert reads with their buffer pool and the MoE layer's dispatch with TLAPS. Paths below are relative to `src/crates/`.

`PROJECT.json` records the components, the runs, the map from definitions to
source lines, the hazards, the findings and the theorems.

## 1. Inventory

| part | state | operations | correct if |
|---|---|---|---|
| RAM ledger (`colibri-engine/src/ram.rs`) | `total`, a counter and a peak per class, all atomics | `commit`, `commit_or_wait`, `set_usage`, drop, `hold_forever` | commitments stay under the ceiling and no difference is lost |
| Eviction (`cache.rs` `evict_to_protecting`, `colibri-core/src/tier.rs`) | the residents' recency and heat, a wrapping clock | one sorted pass | least recently used first, across the wrap |
| Expert cache (`cache.rs`) | entries, pins, byte count under a mutex; a queue to a loader thread | `fetch`, `expert`, `pin`, `prefetch`, `load_batch`, `evict_to`, `publish_ram` | counts are exact, pins hold, a batch survives its insertion, calls return |
| Adaptive budget (`cache.rs`) | `budget`, `reserved`, the monitor's counters | the tick, `reserve_ram`, `release_ram` | no underflow, reservations balance, memory comes back below the floor |
| HTTP server (`coli/src/serve.rs`) | one thread, one request, the shutdown flag | start-up, accept, `complete`, signals | each path gives back what it took; requests and shutdown end |
| Start-up plan (`coli/src/main.rs`) | none | target, floors, coverage, first budget, window | it gives the server arguments the monitor can live with |
| Cluster exchange (`colibri-cluster/src/net.rs`, `moe.rs`, `attention.rs`, `cmd_worker`) | pooled connections under a mutex, one thread per peer, workers with their maps | handshake, exchange, retry, the two handlers | a returned sum counts every piece once |
| Sharding (`colibri-cluster/src/sharding.rs`) | quotas and loads | three constructors, `owner`, `range_for`, `head_slice` | one owner each, counts follow capacity |
| Shard distribution, preload (`main.rs` `cmd_shard_*`, `cmd_repack`; `preload.rs`) | a node's snapshot, a packed directory and its manifest | serve, pull, export, repack, load | bytes read back are the source's, whatever pass was cut off |
| Sequence state (`model.rs` `KvCache`, `dsv4.rs`, `gpu.rs` `DeviceKv`) | rows, a ring, recurrent states, pooled blocks, a device shadow | write, ensure, sync, snapshot, restore | what is read is what the sequence wrote |
| Forward pass and generation (`forward.rs`, `attention.rs`, `dsa.rs`, `kda.rs`, `mtp.rs`) | that state, the draft, the position | prefill in chunks, emit, draft, verify, accept, roll back | the tokens are the greedy continuation |
| MoE layer (`moe.rs`, `gpu.rs`, `dsv4.rs`) | the union of experts, partial sums | route, grouped calls, single calls, CPU, peers, fold | each token gets each of its experts once, in a fixed order |
| Configuration, converter, loaders (`config.rs`, `convert.rs`, engine `lib.rs`, `loader.rs`) | directories of shards with headers | convert, head-only convert, requant, load | what loads decodes to what was trained |
| Shard reads and buffers (`colibri-safetensors/src/lib.rs`, `quant.rs`) | a pool of recycled buffers, page-locks, an arena | batched reads by map, ring, thread pool; drop | an expert's bytes are the file's for as long as it refers to them |

How they interact: `serve` sizes everything once, then one thread takes requests;
a request reserves in the cache, commits in the ledger, and runs the generation
loop, whose MoE layers fetch experts from the cache (which reads them through the
buffer pool) or send work to peers; the cache reports to the ledger under its
lock; the monitor thread moves the budget beside all that. What is hard is in
"hazards": races over atomics and over loads done without the lock, readings that
are stale when used, broken connections and restarted workers, passes over files
cut off anywhere, speculative state that must be undone, several device paths
that may fail half-way, and bounded waits.

## 2. Modules

| module | models | abstraction |
|---|---|---|
| `LedgerSpec` | what the ledger promises: admit, release, report as single steps | |
| `RamLedger` | `ram.rs`, one step per atomic operation | word size `W`; `note_peak`'s loop is one step; the timeout is a number of polls |
| `Eviction`, `EvictPass` | the outcomes of a pass, and the pass step by step | sizes are one additive function `Weigh` |
| `ExpertCache` | the cache, one step per critical section | a load is the time between two steps; statistics are left out |
| `AdaptiveBudget` | the monitor and the reservations | memory in units of one expert; the cache is its byte count; swap and other tenants are free |
| `Serve` | the server over `AdaptiveBudget` and the ledger's Kv class | a request is a probe, a rejected body, or a prompt and a limit |
| `Sizing` | the start-up plan, as operators | integers for the plan's u64 arithmetic |
| `ClusterExchange` | driver, transport and workers | a partial sum is the set of pieces in it; equal fingerprints mean equal maps |
| `Sharding` | the constructors and their queries | weights and capacities are small numbers |
| `Shipping` | on `Sharding`: shard commands, repack, preload | a byte is a cell of a tensor; metadata is one file |
| `KvCache`, `KvBytes` | the per-sequence state, and what it is charged for | a vector is the set of (position, token) pairs it was computed from |
| `ForwardPass` | one pass of the five layer stacks over a batch | as `KvCache`; arithmetic inside a row is left out |
| `GreedyDecode` | what generation promises | |
| `Decode` | `generate_stream_drafting` over `ForwardPass` | the model is an operator `LM`, a draft is any token |
| `Routing` | `route`, unions, V4's routing | scores are small naturals, weights exact fractions |
| `MoeDispatch` | a MoE layer on all its paths | a sum is the sequence of what was added |
| `ModelConfig` | `config.json` to the model's structure | floating-point hyperparameters are left out |
| `Converter`, `ModelLoad` | what each tensor becomes, and what each loader reads | bytes are their encoding and what they decode to |
| `Container` | passes over a directory, cut off anywhere, and loads | a file is what it was written as and how much of it is there |
| `BufferPool`, `ShardReads` | recycled buffers, page-locks, the arena; the read paths above them | a byte is (file, offset); a drain is one step; the index is true of the files |
| `SumTheorems` | lemmas about sums over finite sets, that the library's folds compute them, and about loops | |
| `RamLedgerProofs`, `ExpertCacheProofs`, `ServeProofs`, `ExchangeProofs`, `ShardingProofs`, `ShardReadsProofs`, `DispatchProofs` | the proofs about the module of that name (`ExpertCacheProofs` with `EvictPass`, `ServeProofs` with `AdaptiveBudget`, `DispatchProofs` is about `MoeDispatch`, `ShardingProofs` with `Shipping`, `ShardReadsProofs` with `BufferPool`) | |
| `MC_*` | the instances | |

Composition: `Serve` extends `AdaptiveBudget` and takes its constants from
`Sizing` in `MC_Serve`; `Decode` extends `ForwardPass`, which extends `KvCache`,
with `KvBytes` beside it; `Container` runs `Converter` and `ModelLoad`, both over
`ModelConfig`; `ShardReads` extends `BufferPool`; `MoeDispatch` extends `Routing`;
`Shipping` extends `Sharding`. `EvictPass` shows that the loop produces one of
`Eviction`'s outcomes, and `ExpertCache` takes any of them in one step, which is
one critical section. `ExpertCache.published` stands for the ledger's Experts
figure; its `StoreBudget`, `MonitorEvict` and `ReservePass` are the monitor and
`reserve_ram` with any values, and `AdaptiveBudget` computes those values against
a cache that is a number.

Refinements: `RamLedger` implements `LedgerSpec` with `booked <- live` and
`usage <- applied` (checked and proved); `Decode` implements `GreedyDecode` with
`ended <- pc \in Ended` (checked).

Definitions named `X_Something`, or `x_something` where the source's name is in
lower case, beside a definition are faulty variants of it; each property is
violated when one of them takes its place.

## 3. Runs

| run | instance | shows |
|---|---|---|
| `ram_ledger` | two handlers, a monitor, ceiling 5, amounts 0 and 2, one poll; 438,150 states | `CommitmentsBounded`, `TotalAccountsForAll`, `RefinesLedger` |
| `expert_cache` | two experts, pinning beside a forward pass, loader, monitor, reservations; beside that (`CacheOrPass`) an eviction pass step by step over three experts of sizes 4, 3, 3, the clock wrapping at 4; 225,950 | `BytesMatchEntries`, `LedgerMatchesCache`, `OutcomeIsDeclared`, `LeastRecentlyUsedFirst`, `BatchSurvivesInsert`, `OverBudgetOnlyProtected`, `PinnedNeverEvicted`, `CallsReturn` |
| `cluster_exchange` | a driver, two workers, two maps, two calls; 66,954 | `SumIsExact`, `OnlyAgreeingPeersWork`, `CallEnds` |
| `sharding` | all clusters of up to three nodes and five experts; two passes of shipping or repacking; 412,663 | `PlacementFollowsCapacity`, `BlocksTile`, `WeightsExact` |
| `decode` | five stacks in eight variants, prompts of 1 to 10 tokens, up to 6 new tokens, drafts up to 3; 10,797 | `NoFault`, `DeviceShadowCurrent`, `BlocksExact`, `VerifiedRowsExact`, `RecurrentStateExact`, `KvCharged`, `ImplementsGreedy`, `CallEnds` |
| `moe_dispatch` | three experts, two per token, up to three tokens and nodes, every format and switch; 12,846 | `ContributionsExact`, `AccumulationFixed`, `DispatchEnds` |
| `container` | eight checkpoints of six architectures, two layers and three experts each, two passes; 39,012 | `LoadedAsTrained`, `CompletedLoads`, `HeadWholeOrOff` |
| `serve` | a machine of 8 experts, two sizes of tenants, five requests, one with an empty prompt; 275,952 | `BudgetTakesHold`, `ReservationsBalance`, `GuardRecovers`, `RequestEnds`, `ShutdownEnds` |
| `expert_io` | two loaders, an evicting thread, four set-ups of flags and pool; 244,972 | `ViewsExact`, `PageLocksSound`, `ArenaKept`, `LoadsEnd` |
| `hash_padding`, `indexer_ape`, `ring_uncharged` | | end in a counterexample, section 5 |

Why the bounds are enough:

- *Ledger.* Two commitments of 2 and the smallest non-zero reports collide under
  a ceiling of 5: the second of a pair is refused, retried, and admitted after a
  drop. The word is wide enough that a wrap would be an error.
- *Eviction.* Ages 0 to 2 cross the wrap of a clock of period 4 from every
  position; heats are below, at and above the cap; the budgets stop the pass
  before the first, between any two and after the last.
- *Cache.* The larger budget holds both experts, the smaller one only the small
  one, so an insertion evicts none, some or all others, itself included. With a
  clock of period 1 any unpinned expert may be the victim. The two callers and
  the loader are the threads that load without the lock.
- *Exchange.* Two peers are the fewest whose threads compete for the pool; two
  calls the fewest in which an answer could be left over; the other map swaps
  the workers' experts, and the two routes give a worker different work.
- *Sharding and shipping.* Capacities 0, 1 and 3 give shares that divide, tie and
  vanish. Two passes are a cut-off one and one over what it left, for another
  rank or file count; a file holds two experts and a resident tensor, so shards
  have one to four files.
- *Decode.* Prompts end at every position inside a compressor window of 4, cross
  a chunk boundary and the ring's wrap; two sparse keys out of many make the
  selection matter; a draft of 3 is rejected at each place; `AutoOffAfter` turns
  drafting off within a call.
- *MoE.* Grouped calls take at most two experts, so a layer of three needs two
  chunks; one-row limits make calls decline; peers own all, some or none.
- *Container.* Two passes are the fewest in which one shadows another. Heads lie
  over several shards, and each file may stop in its header, codes or floats.
- *Serve.* With the larger tenants the planned cache does not fit and each guard
  fires; two low ticks are needed; the requests fit, compete for memory, exceed the
  window or are refused as empty.
- *Reads.* One span begins unaligned, one ends at an odd file length, two tensors
  touch at equal offsets of different files; one arena slot for two loaders.

Deadlock is checked except where the modelled call or the bounded number of
passes ends (`sharding`, `decode`, `moe_dispatch`, `container` and the runs that end
in a counterexample).

### Fairness

- `ExpertCache`: a thread inside a call keeps running, and the loader receives.
  A disk read ends with the expert or an error. Nobody has to start a call.
- `Serve`: the monitor's thread and the server's are scheduled. Nothing is
  assumed of clients, inserts or other processes; a client that drips its
  request or does not read its answer holds the thread, and the properties say so.
- `ClusterExchange`: the driver's threads run and a running worker answers. The
  sockets have no read timeout, so a worker that hangs would hang the call; the
  assumption is needed and the hazard is listed. Weak fairness suffices: a thread
  takes the pool's mutex once in a call.
- `ShardReads`: a loader inside a call keeps running; the arena's wait is bounded
  by its rounds.
- `Decode`, `MoeDispatch`: a call that has not returned takes another step (weak
  fairness of `Next`, written out because `ENABLED` of those actions is costly).
- The others are checked for safety only.

## 4. Proofs

All leaves are checked by TLAPS; no constant is bounded except as assumed.

**`RamLedgerProofs`**, for any threads, amounts and ceiling:
`CommitmentsNeverExceedCeiling`, `TotalIsExact`, `LedgerTypes`,
`LedgerRefinement`. Assumptions: `LedgerAssumption` (the word is wide enough for
the ceiling and one report of each of the three reported classes on top) and
`Serialised = Reported`: two reports of one class never overlap. The second holds
for Experts, which is reported under the cache's lock, and for classes with one
reporting thread; where it fails the theorem does too (section 5, item 4).

`CommitmentsBounded` is not inductive. A commit is admitted because `total` plus
its bytes fits, so `total` must be known to be at least the live commitments at
that instant (`TotalAccountsForAll`), in every position of every report
(`Reports`, `OneReport`). A drop subtracts from `total` and from its class, so
both must contain what the handle holds: `TakenSum` says the live commitments are
the sum over the threads of what each has taken, plus what `hold_forever` left
behind, and `CountedSum` the same per class. The sums are stated with `IsSum` of
`SumTheorems`, for an arbitrary set of threads. The refinement follows from the
same invariant: the compare-exchange is `Admit`, the first step of a drop
`Release`, the `fetch_add` or `fetch_sub` of a report `Report`, and every other
step stutters.

**`ExpertCacheProofs`**, for any experts, sizes, threads, budgets, queue length
and clock period: `BytesAreExact`, `LedgerAgrees`, `PinsHold`, `BatchesSurvive`,
`InsertsEnforceBudget`.
Assumption: `Weigh` is additive over disjoint sets, which is what a sum of sizes
is. The argument reduces every step to one of three things it can do to the
cache (`CacheStep`): nothing, a hit on one entry, or the insertion of absent
experts followed by an eviction. `InsertKeeps` shows that the third keeps the
count exact, publishes it and keeps pinned and protected entries. The inductive
invariant `CacheInv` adds to the properties that a call's locals fit the step it
is at (`CallOK`): without it the key that is inserted after a load could be any.
`BatchesSurvive` needs in addition that a thread leaves the middle of
`load_batch` by inserting only (`BatchEndsInserting`).

`InsertsEnforceBudget` comes from what a maximal eviction leaves (`EvictShrinks`,
`InsertEnforces`): over budget, no evictable entry outside the batch is left.

The same module, about `EvictPass`, for any experts, sizes, heats, budget, clock
position and word size: `EvictsLeastRecentlyUsed`, `PassImplementsDeclaration`,
`PassKeepsBytes`. Assumption: `EvictionAssumption` (`Weigh` is additive, there are
finitely many keys); ages under one turn of the clock are the pass's initial states. `AgeRecovered` shows that the
wrapping difference of clock and stamp is the age wherever the clock stands, and
`HighBitsDecide` that the heat in the score's low bits never outweighs it. The
invariant (`PassInput`, `Listed`, `PassLoop`): the list holds every evictable key once, in
ascending score; what is gone is the list up to the loop's position; the cache was
over budget before the last removal. With that, the second theorem is what lets
`ExpertCache` take a pass as one step.

**`ServeProofs`**, for any machine, tenants, floors, window, requests and ceiling:
`RequestsBalance`, `NothingWraps`. Assumptions: `BudgetAssumption`,
`ServeAssumption` (types and non-zero limits only). `ReservationsBalance` is not
inductive: `RequestControl` adds where `reserve_ram` stands at each stage of the
server's thread, that the request in hand has asked for the KV bytes of its own
prompt, and that the load of `release_ram` is still current when it stores, which
holds because one thread reserves. `NoUnsignedWrap` collects the u64 subtractions
of `reserve_ram`, the monitor, the window and the release. The proof fails if an
empty prompt can reach the completion (a KV cache without a commitment);
`serve.rs:763` refuses it, and the model has that refusal.

**`ExchangeProofs`**, for any finite set of peers, maps, heads and routes and any
bound on the calls: `SumsAreExact`, `AgreeingPeersOnly`, `RetriesNeverDuplicate`,
`ExchangeTypes`. Assumption: `ExchangeAssumption` (experts and heads are told
apart, maps are total). The invariant: between calls no thread runs (`Calls`); an
open connection leads to a worker that runs and agrees, since a restart severs it
and only a handshake opens one, and a message exists only while its thread awaits
it on an open connection, and is the one request of this call or its answer
(`Wire`); exactly the holder of the mutex is in a round trip (`OneRoundTrip`); a thread that is done holds its whole share or, if the
owner could not load it, nothing (`Shares`). That the shares of the nodes partition the work
is the map's totality, and `SumIsExact` counts with it.

**`ShardingProofs`**, for any number of nodes and experts and any capacities and
weights: `SharesFollowCapacity`, `ClosedFormsTile`, `EveryExpertOwned`,
`PlacementTypes`, all of `AllSpec`. Assumption: `ShardingAssumption` (at least one
node and one expert). The first is the correctness of the largest-remainder
rounding: with `left` the experts that the floors leave over, `left * Total` is the
sum of the remainders (`SumScale`, `SumAdd`, `SumUnique`); each is less than `Total`,
so at least `left` nodes have a positive one (`SumMonotone`); ranks in the order of
`rem` are dense (`RanksDense`, by the pigeonhole), so exactly `left` nodes get one
more, each with a positive remainder, and the quotas sum to `n_experts`. The
invariant (`Books`, `Phases`, `Shares`): `used` counts the table, its sum is the number
of experts placed, no node is over its quota. If no node were open the sums would
be equal and everything placed; when everything is placed `SumSqueeze` makes every
count its quota. The tiling is arithmetic: both roundings of `range_for` and `owner`
are brought to products (`CeilBound`, `DivIs`), slices abut and are ordered, and
a head lies in the last slice that begins at or before it.

`WeightsAlwaysExact`, in the same module: for any number of layers and experts, any
size of file, file counts, budgets and number of passes, what is read back is the
source's bytes, all of them or an error. Assumption: `ShippingAssumption` (at least
one layer, no file count of zero). `WeightsExact` reads the directories and says
nothing of how they came about; the invariant does, in two parts that no action of
the other disturbs.

- *Snapshot* (`ShipInv`). Whatever a file was left by, it is the beginning of a file
  that some pass writes, header first (`DirSound`, `Piece`); a pass has written all of
  its files but the last, of which `left` is missing (`PassSound`); the shard that
  went through last is there whole until a later pass creates a file (`ShardSound`).
  An entry of the header that ends inside the data is then exact whichever pass
  wrote the file (`ReadFrom`), which is why a later file may shadow an earlier one;
  and grouping loses no tensor that the rank needs (`SelectKeeps`, `GroupsKeep`).
- *Packed directory* (`PackInv`). A file of `n` holds the experts round robin as far
  as it goes, whichever passes over `n` files wrote it (`PackSound`, `Blob`); a
  repack under way has noted every blob it wrote where it put it (`RepackSound`);
  a manifest of `n` files, whole or torn, says where that is, but for the number a
  torn one ends with (`ManifestSound`, `Loc`). With `begun` for `n` they meet, and an
  expert gets its own bytes (`LoadsOwn`). After a repack for another count that was cut
  off they do not; what is left then is that blobs start at even places in every
  file, whichever repack wrote it (`Paired`), and that a location that is read lies
  inside the file, so what is read is some expert's whole blob (`LoadsSome`).
  `RepackWriteStep` is the arithmetic of whose turn it is
  (`RoundRobin`, `Turn`).
- *Preload.* The chunks of `preload_parallel` cover the experts, and a thread passes
  its share by one at most (`PreloadReads`).

**`ShardReadsProofs`**, for any tensors and files, any number of loaders and of
live buffers, any alignment, tile size, pool caps, arena and ceiling:
`ViewsAlwaysExact`, `LocksAlwaysSound`, `ArenaNeverShrinks`, `ReadsInvariant`.
Assumptions: `PoolAssumption` (non-zero sizes), `IndexAssumption` (a tensor has
bytes and its file holds them: the index is true of the files) and
`LoadAssumption` (finitely many loaders, finite groups of names, addresses modulo
the alignment, a claimed arena has slots of some size). Names that the index does
not have, reads that fail, and rings that come up short are in the specification.

None of the three properties is inductive. `ViewsExact` speaks of the spans the
cache references; that no other thread writes into them needs to know who owns
every buffer, in every step of every loader, of the error path and of the
eviction. `OwnInv` says that two functions exist, `kind` (free, pooled, a loader's,
referenced by the cache, or being dropped by it) and `who` (which loader's), that
describe the state: the pool lists pooled buffers, each once (`PoolOk`); the spans
of a loader have buffers of their own (`SpansOk`); between `pin_alloc`'s check and
its lock the loader has one more, of the size it asked for and not locked
(`RegisterOk`); a span that is referenced has been read (`HeldOk`); a buffer on its
way to the allocator was rejected by the pool, so with an arena it is a small one
(`FreeOk`, `EvictOk`), and an arena slot that is in use is not (`ArenaOk`). A step
then only changes what its thread owns or what the pool has: `FrameLoad` and
`FrameHeld` show that the rest of the invariant does not see it, and each action
has a lemma that says what it does to the owners.

That a buffer holds the file's bytes goes through the operators: the coalescing
loop yields runs whose tensors lie inside them (`CoalescedPieces`, `PlanPieces`),
a span set up for a run fits its buffer wherever the allocation lies, pad, skew
and rounding included (`HeapSpanOk`), tiles leave no gap (`FilledOk`), and reading
spans with different buffers leaves each one's bytes in place (`AfterOk`).

`PageLocksSound` bounds the overshoot of a check-then-add. `PinInv` says that
`PIN_BYTES` is the sum of the capacities that are locked and that, but for a set of
buffers with fewer elements than there are loaders, what is locked or about to be
is below the ceiling (`Over`). A check that passes compares with what is locked,
so it leaves out only what is about to be: at most one buffer of each other loader
(`PendCount`). A lock that is taken changes neither side; unlocking and freeing only
take buffers away.

**`DispatchProofs`**, for any experts, tokens, scores, biases and hash rows, any
formats, device switches and batch limits, any number of nodes and any placement:
`ContributionsAlwaysExact`, `OrderAlwaysFixed`, `DispatchInvariant`. Assumptions:
`RoutingAssumption` (an expert, a unit) and `DispatchAssumption`: a row of scores for
each token, a positive softmax sum that divides `Unit`, and that relu2 is Nemotron's
(only its parser sets it). Formats and switches are any. The activation a term is
computed with is the model's, with one exception the statement names (`Activations`):
a situ model whose experts' grouped SwiGLU call is switched on gets the device's SiLU
from it (section 5, item 7).

`ContributionsAlwaysExact` has one hypothesis more, `WholeHashRows`: a row of a hash
layer's table names as many different experts as a token has slots, or none. The jobs
of `moe_dispatch` meet it (TLC evaluates that as an `ASSUME`); the rows that do not
are those of `hash_padding`, where the property fails (section 5). It constrains hash
layers only: no other theorem and no other router needs it.

The output of a call is what was added, in order, so the theorem compares sequences.
`Given(as, n, t, act)` is what the first `n` entries of the list `as` add to token
`t`. A scatter of one more entry adds that entry's terms (`SumNext`) and a scatter of
all of them at once adds the same (`SumWhole`), so the grouped calls, which stage
everything and scatter last, and the expert loop leave one sum. The invariant
(`DispatchInv`): this node's sum is `Given` of the first `k` entries of its shard and
`active` holds the others (`LocalOK`), with `k = 0` for as long as a grouped call is
to be tried; each call on the list computes one of `Activations` on any batch it
takes (`Right`, from `SuitsRight` and `ArmsRight`), and the expert loop the model's
(`FfnAct`), so a node's whole sum has one activation (`Summed`, `AnswerOf`); every peer is awaited, has
answered with its shard's sum or has failed (`PeersOK`); a finished call's output is
the fold (`OutOK`). What the entries of a shard add is the weights of its columns,
column by column (`GivenAll`, `EntriesGive`). The answers' order is gone from the fold
because only one sequence lists a set in ascending order (`ListsUnique`). It rests on
`RoutedType`: for every router, with or without the hash table and its padding, the
union lists experts of the model and has a weight for every token and each of them.

That these are the weights the router declares goes through `Serves(row, k, want)`: the
last slot of a row that names an expert has that expert's declared weight, and an
expert in no slot is declared 0. Each router's row does (`RowServes`): the greedy
choice of the best `k` is the set `Chosen` declares (`GreedyIs`); the normalised
weights are taken over a sum in slot order that equals the declared one over the
experts (`SharesAre`, `SumReindex`; `ScaledShares` for the softmax, whose division is
exact); `ById` sorts the picks without losing one (`ByIdIs`), and fixed-stride rows
repeat only the first pick, at weight 0, which `WholeHashRows` keeps from happening to
a pick that counts (`StridedServes`, `HashServes`). The union assigns the last slot's
weight to each of its columns (`UnionIs`), so it lists every wanted expert once, with
that weight (`RoutedIsRight`), and stays so for the rest of the call (`NextExact`).
Every column is exactly one node's (`OnePlace`) and is one term of that node's sum
(`TermPlace`), so the fold holds it once (`SumExact`).

**`SumTheorems`.** `IsSum(f, S, v)` says that `v` is the sum of `f` over `S` without
computing it. Its lemmas need no induction for one changed share; existence,
uniqueness, and that `SumFunction` of the library is the sum (`FoldIsSum`) go by
`SubsetInduction`: induction over the subsets of a finite set, with the set of good
ones as a parameter in place of a predicate, from the well-foundedness of strict
inclusion. In the same way `Steps` is induction over the naturals, `Recursion`
says that a loop whose steps stay in a set has a result in every state, and `Stays`
that a set no step leaves is never left. With them a recursive function of the
models (`select_shard_names`, `Groups`, `Coalesced`) is shown to exist and its result
to have what the loop preserves; a concatenation (`FlattenSeq`) is split into its
parts the same way (`FlattenParts`). The arithmetic of division (`DivMod`) and of
ranks in an order (`RanksDense`) is here too.

**Only model-checked:** all liveness (the prover has no rules for fairness and
`ENABLED`), `LoadsEnd` among it; `Decode`, `Container` and the modules under them,
whose properties are about what operators on sequences (`SelectSeq`, `SortSeq` with
any order, folds with an operator, `@@`) return for every input, of which only
`FlattenSeq`, the sums and what routing uses have lemmas here; `Sizing`, which is
arithmetic the run evaluates once.

## 5. Where the code and its comments disagree

With a run that ends in the counterexample:

1. `hash_padding` (`moe.rs:3867`). A V4 hash row that names an expert twice yields
   fewer picks than `k`; it is padded with the first pick at weight 0, and the
   union assigns weights, so the pad overwrites the real one.
2. `indexer_ape` (`convert.rs:536`). With `COLI_KEEP_INDEXER=1` V4's position table
   of the indexer's compressor is quantised, and read as plain numbers.
3. `ring_uncharged` (`model.rs:843`). `KvCache::fixed_bytes` returns 0 when `layer_kind`
   is empty, and DeepSeek-V4's parser leaves it empty, so the raw ring of the only
   ringed architecture is charged by nobody, against the test comment at
   `model.rs:2117` ("The ring must be CHARGED, not merely bounded"). `KvCharged` holds
   for every architecture with that ring's bytes on top (`Uncharged`).

Seen while modelling, and excepted by name in the models where they matter:

4. *Ledger.* In a CUDA build the forward pass and the monitor report Scratch with
   no lock in common (`ram.rs:207`); the swap and the add of one may straddle the
   other's, `total` is too low for a moment, and a commitment passes the ceiling
   `ram.rs:5` says can never be exceeded. `RamLedger` has this as a constant
   (`Serialised`); the run and the proof have the CPU build.
5. *Cache.* When pinned experts fill the budget, the expert `pin` loads is evicted
   by its own insertion and then pinned while absent (`cache.rs:235` "ensure
   resident"). The tick reads `reserved` and stores `budget` in two steps, so a
   reservation between them is not subtracted until the next (`cache.rs:1010`).
6. *Exchange.* The pool's mutex is held while a thread waits for its own peer
   (`net.rs:482`), so requests do not overlap as `moe.rs:1660` says. A worker that
   cannot load an expert answers zeros and the driver returns a success
   (`main.rs:1144`, against `transport.rs:257`), and so does one asked for the heads of
   a layer its model lacks (`main.rs:1112`), as the handshake compares expert maps
   only: the pieces in `lost`. The order of a sharded sum is fixed
   but not the single node's, so in f32 it is not "identical". `dsv4_moe` never
   shards, so on several nodes each V4 layer fails at the first expert of a peer.
7. *GPU.* `try_matmul_qt` keys resident weights by pointer, and a recycled buffer
   may reuse an address, against `mark_gpu_eligible`'s doc. `moe.rs:1154` says a situ
   (Kimi) model whose experts are not MXFP4 "still lands on the CPU reference", and the
   single-expert call does; but the loop offers the batch to the grouped calls first,
   and those for int2, NVFP4 and e4m3 experts, and the MXFP4 one with
   `COLI_DSV4_GROUP=1`, take it and compute SiLU. The jobs of `moe_dispatch` include
   these models, and `Activations` in `ContributionsExact` is exactly this exception.
8. *Server.* `complete` compares with the ledger less the evictable cache, so a
   request may be refused although the next tick would make room (`serve.rs:875`);
   the device shadow and the MTP head's rows are not in what is reserved; a
   streamed answer can be cut inside a UTF-8 character (`serve.rs:1236`); an engine
   error in a stream ends as "length"; a client that does not read its answer
   holds the only thread, shutdown included.
9. *Reads.* The ring accepts a short read, and one closed on an error may still
   write into a buffer that has been recycled; both are behind `doubtful` in
   `ShardReads`. A direct read within an alignment of the file's end fails, though
   the doc says enabling the flag can never break a read. Loaders that together
   hold all arena slots starve by contention alone, and the extra buffer stays.
10. *Containers.* A V4 pass without validation of `topk`; `COLI_XFP8` over MXFP4
   experts writes half-width codes; an e4m3 container loaded without
   `COLI_EXPERT_FP8` is read as int8; a head augmented in one format and shadowed
   by another decodes wrongly (`FormatsMixed`); a torn head shard makes the whole
   directory unreadable even after a full reconversion.
11. *Shipping.* The doc of `shard-export` says the contiguous map is "the same one
    the runtime uses"; with `COLI_SHARD=hot` it is not. A pull with fewer files
    over a cut-off one leaves a torn file that `Shards::open` refuses (`Leftover`
    in `WeightsExact`). A repack with another file count, cut off, leaves the old
    manifest over new files: `PackExact` then promises each expert some expert's whole
    bytes, no more, and TLC reaches states in which they are not its own. A manifest cut off
    inside a number is taken as it stands by the lenient parser: the one location it
    ends with (`Torn`) may give any bytes; all others are covered. `shard-export` succeeds when the metadata could not be copied.
12. *Comments.* `ram.rs:71` says `total` never exceeds the ceiling, while `set_usage`
    may push it past by design; `cache.rs:786` says the cache never grows past the
    budget between ticks, which holds but for pinned experts and the batch being
    inserted (`OverBudgetOnlyProtected`); `serve.rs:222` and `main.rs:2680` say
    `reserve_ram` has no callers.

## 6. Not modelled

- The arithmetic of kernels, codecs and samplers: floating point, tested against
  reference outputs. The loop decodes greedily; `sample_top_p` has no caller.
- The device side (`colibri-backend`): kernels and the VRAM budget of the device's
  expert cache. Its callers' fallbacks are in `MoeDispatch`.
- The batched bench pass (`forward_batched`) and the commands that only measure,
  report or test.
- Usage history (`usage.rs`): advisory; a lost file changes no result.
- Discovery prints what it hears; RDMA is a stub that returns an error.
- Tokenizer, JSON and grammar: pure parsers over text.
- What the predictor names: `ExpertCache` takes any set.

## 7. Plan

1. Proofs: lemmas for `SelectSeq`, `SortSeq` and `@@` in the manner of `FlattenParts`,
   then `KvCharged` of `Decode` and `HeadWholeOrOff` of `Container`.
2. `UsageHistory`: merge, save, load and a crash during save.
3. `forward_batched`, as a second refinement of `GreedyDecode`.
