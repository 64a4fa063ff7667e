# A verification project for FIND EVIL

FIND EVIL is a set of small Python daemons that share a SQLite evidence ledger,
a Valkey server, NATS streams, ZeroMQ sockets and one local language model. This
directory holds TLA+ modules translated from the code, the TLC runs that check
them on small instances, and TLAPS proofs for every value of the constants.
Source paths below are relative to `src/src/findevil/` unless they start with
`scripts/`, `tests/` or a capital letter.

## 1. Inventory

| component | state it keeps | operations | how it interacts | what makes it correct |
|---|---|---|---|---|
| Ledger writer (`ledger/writer.py`, `events.py`, `scripts/seed_genesis.py`) | the table `ledger`, one `threading.Lock` per instance | `append`, `tip`; `append_consensus_frame` (up to 17 appends), `append_raw_record`, genesis | every daemon opens its own instance on one file | one hash chain; a consensus entry only with its reports; an error never keeps the lock |
| Chain verifier (`ledger/verify.py`) | none | `verify_chain` | reads the file; CLI, MCP and an hourly unit call it | taints exactly the damaged rows |
| Merkle anchor (`ledger/anchor.py`) | the table `anchor`, Rekor's log | `anchor_batch`, root, copath, proof | timer, CLI; minutes-long HTTP submission | every entry in one batch, batches consecutive, Rekor never contradicted |
| Key rotation (`scripts/rotate_signing_key.py`, `keygen.py`) | `sk` and `pk` files | rotation entry, two file replacements | writers read the files when they open | the public-key timeline can be rebuilt from the ledger |
| CACAO executor (`cacao/executor.py`, `factory.py`) | instances in Valkey, entries in the ledger | daemon loop, `execute_playbook` | SUB on `consensus.v1`, MCP calls, PUB on `mitigation.fire` | no tool is called twice or out of order; the ledger entry names every step that acted or may still act; the daemon survives a failure |
| Fractal watcher (`fractal/watcher.py`, `agent.py`) | tasks, `live`, a semaphore | `_dispatch`, `run_pivot`, follow-ups | PULL on `fractal.spawn`, inference, an append thread, PUSH on `fractal.report` | budgets exact; lineage in the ledger; nothing waits for ever |
| Ingest dataflow (`ingest/*`) | windows, dedupe keys in Valkey | decode, dedupe, window, `_process_window`, sinks | NATS and ZeroMQ in; Valkey, ledger, frames out | no event is lost or counted twice without a record; no frame without its ledger entry |
| Parsers and evidence (`ingest/parsers.py`, `indicators.py`, `threshold.py`, keyer of `flow.py`) | none | `parse_*`, `keyer`, `raw_event_id`, agent reports | called per message and per window | one artifact has one key whoever reports it; a report is weighed once |
| Fusion and thresholds (`swarm/ds_fusion.py`, `evaluator.py`) | none | `fuse`, `evaluate` | called per window | no total conflict; agreement has no order; mitigation needs two agents |
| Attribution (`swarm/shapley.py`, `ledger/events.py`) | none | `shapley_attribution_exact`, the sampled kernel | recorded in the consensus entry | adds up to the belief |
| Responses (`cacao/factory.py`, `schema.py`, `swarm/attck_map.py`, `fractal/scoped_prompt.py`, `ledger/events.py`, `ledger/schema.py`) | none | frame, playbook, pivot spawn, entries of the ledger | what a decision becomes | a mitigation is answered; an entry is accepted |
| Interop exports (`ledger/interop.py`) | none | OCSF, STIX | CLI, MCP | exports say what the entry says |
| Window processor and sinks (`ingest/flow.py`, `sinks.py`, `transport/nats_bus.py`, `zmq_bus.py`) | the window under way, sockets | `_process_window`, PUB, JetStream, PUSH | Valkey, ledger, executor, watcher, narrator, dashboard | no frame leaves before its entry is written or refused; nothing goes backwards |
| Pheromone store (`transport/valkey.py`, `swarm/decay.py`, `cti/stix_priors.py`, `taxii_ingest.py`) | `pher:*` hashes, script cache | Lua deposit and decay; priors | three processes write one key | believed trails stay, others fade, priors alone never mitigate |
| Inference facade (`inference/facade.py`, `outlines_schemas.py`) | a `flock` file, the default thread pool | `_openai_chat`, JSON repair, second attempts | watcher and narrator processes share the lock | one request at a time; the lock comes back; a cut answer is read as its beginning |
| Narrator (`narrator/*`) | debate tasks, a semaphore | debate under a budget, verdict entry | SUB on `consensus.v1`, inference, NATS, ledger | debates end; the verdict is the higher of both orders |
| Dashboard (`ui/http.py`, `ledger/reader.py`, `mcp_server/shadow.py`) | `last_seq` per client, a subscription | polling tail, relayed frames | reads the ledger; Valkey pub/sub | every committed entry is sent once, in order |
| MCP server (`mcp_server/server.py`, `resources.py`) | `control:focus` | resources, notifier, snapshot and focus tools, actuators | reads Valkey and the ledger; called by agents and the executor | who is told of a change and reads again sees it |
| CTI graphs (`cti/diamond.py`) | the document `cti:diamond:graph` | `build_diamond_graph`, `refresh_diamond_graph` | reads recent ledger rows, writes Valkey | every edge ends at vertices |
| Tool shims, calibration, red team, CLI, TUI, config, observability | little or none | façades, conversions, presentation | | see section 7 |

What is hard in this system: several processes and threads on one SQLite file
without a common lock; multi-step operations that any error or process death
may cut; state read first and used later (chain tip, key files, anchor count);
cancelled asyncio tasks whose threads go on; messages that are lost when their
reader is down; external calls that time out after they took effect. `hazards`
in `PROJECT.json` lists these places line by line with the property that
watches each.

## 2. Modules

| module | models | uses |
|---|---|---|
| `AbstractLedger` | what the ledger promises: an append-only hash chain | |
| `Ledger` | `LedgerWriter.append` and its callers: threads, instances, errors, crashes | refines `AbstractLedger` |
| `VerifyChain` | `verify_chain` as a function of the table | |
| `MerkleTree` | leaf and node hashes, padding, root, copath, RFC 6962's tree for comparison | |
| `LedgerDamage` | a growing ledger, one anchored batch and one accident, composed with the two modules above | `VerifyChain`, `MerkleTree` |
| `KeyRotation` | rotation script, key files, services that read them | `VerifyChain` |
| `Anchor` | `anchor_batch` with overlapping callers and Rekor | |
| `LedgerTail` | the dashboard's tail of a table that grows | `Ledger` |
| `LedgerProofs` | the proofs about the ledger and what guards it: chain, tail, rotation, anchors, verifier and Merkle tree | `LedgerTail`, `KeyRotation`, `Anchor`, `LedgerDamage` |
| `CacaoExecutor` | the executor daemon and the playbooks it builds | |
| `CacaoExecutorProofs` | the proofs about `CacaoExecutor` | `CacaoExecutor` |
| `Watcher`, `WatcherProofs` | the fractal watcher and its pivot tasks | |
| `Ingest` | the ingest dataflow up to the windows that fire | |
| `Parsers` | raw events to keys, confidences and agent reports, as functions | |
| `Evidence` | `Ingest` with real events: which of them meet in a window | `Ingest`, `Parsers` |
| `ParsersProofs` | lemmas about the functions of `Parsers`: lists, reports, hashes in keys | `Parsers` |
| `IngestProofs` | the proofs about `Ingest` and `Evidence` | `Evidence`, `ParsersProofs` |
| `Fusion` | the fold of `fuse()` report by report, and `evaluate()` | |
| `Attribution` | Shapley values, exact and sampled, as sums | `Fusion`, `Parsers` |
| `Response`, `Entries` | playbook, pivot spawn; ledger entries and what `LedgerEntry` accepts | `Fusion`, `Parsers` |
| `Decisions` | a window from its events to everything done about it | `Attribution`, `Entries` |
| `FusionProofs` | the proofs about `Fusion`, `Attribution` and what `Decisions` says of playbooks, pivots and entries | `Decisions`, `ParsersProofs` |
| `Interop` | OCSF and STIX exports | `Entries` |
| `DiamondGraph` | the Diamond graph of ledger rows | `Entries` |
| `Resources` | the resources, URIs and tools of the MCP server over Valkey | `Entries` |
| `ModelServer` | what the inference lock promises: one request at a time | |
| `InferenceLock` | the lock file, thread pools, cancelled tasks | |
| `ModelAnswer` | the text of a model, cut anywhere, and its repair | |
| `InferenceFacade` | requests with their answers, repairs and second attempts | `InferenceLock`, `ModelAnswer` |
| `Narrator` | debates, and the pivots that compete with them | `InferenceFacade`, refines `ModelServer` |
| `InferenceProofs` | the proofs about the four modules of inference | `Narrator` |
| `Pheromone` | one key, its scripts, decay, priors, processes and Valkey | |
| `Blackboard`, `BlackboardProofs` | the window processor and the sinks around that key | `Pheromone` |
| `MCLedger`, `MCLedgerTail`, `MCKeyRotation`, `MCAnchor`, `MCIngest`, `MCSwarm`, `MCInference`, `MCBlackboard` | instance and size assignments, sample inputs, symmetry sets | |

How state corresponds to code, module by module:

* **Ledger.** `rows` is the table in `seq` order; a row keeps the position of
  the row whose hash it embeds (`prev`), what it is, its `chain_of_custody` and
  its writer. Hashes are identities: an entry holds a UUID and a nonce. `lock`
  is the lock of each instance, `pc` and `seen` a thread's place in `append` and
  the tip it read. The read of the tip and the INSERT are separate steps because
  the connection runs in autocommit mode. `job` is the rest of the caller's
  work: `append_consensus_frame` appends every report and then the entry that
  cites them. `Fail` is an exception anywhere between the lock and the commit,
  `Crash` the death of a process.
* **VerifyChain / LedgerDamage.** `Walk` is the loop body of `verify_chain`,
  `Seed` its start for `start_seq > 1`. `LedgerDamage` lets one accident hit any
  row at any time: an unreadable payload, a changed payload, a changed
  `prev_hash` column, content and `entry_hash` changed together, a lost row.
* **MerkleTree.** BLAKE3 is taken to be injective: a hash is the tuple of its
  input with the domain byte. `TreeHash` is RFC 6962's tree over every range of
  the batch, `Powers(n)[i]` the largest power of two up to `i`, where the RFC
  splits a range of `i + 1` leaves; `Way(i, n)` is the list of indices of a leaf on
  its way up.
* **KeyRotation.** A key pair is a number. `Path.write_bytes` is truncate and
  write, hence `CutSk`, `WriteSk`, `CutPk`, `WritePk`; a service may read the
  files between any two of these. A rotation that reads a cut file dies.
* **Anchor.** A caller reads the maximal batch, reads the rows, submits to
  Rekor, inserts. Rekor may log a root although the caller sees an error, and
  the primary key of `anchor` rejects the second of two equal batches.
* **CacaoExecutor.** One action per stage of `execute_playbook`; every call to
  Valkey, MCP, the ledger or the socket may fail, and a write that fails may
  have landed. A step is a tool call: `Dispatch` makes it, and it ends for the
  daemon with an answer (`StepSucceeds`), whatever that says, or with an error
  or the time limit (`StepFails`). The tool runs in the MCP server (`Serve`),
  which outlives the time limit, the client and the daemon: `calls` are the tools
  at work, `answers` those that returned, `effects` those that acted, and
  neither of the last two follows from the other. Frames reach the daemon only
  while it is up.
* **Watcher.** A pivot is a task with its stage in `_dispatch` and the thread
  that appends its finding. The time limit (`Expire`) cancels the task, never
  the thread. The event loop runs new tasks, and the semaphore wakes its
  waiters, in order of arrival.
* **Ingest.** `stream`, `todo` and `unacked` are the JetStream side of the
  durable consumer; `Fetch` acknowledges at once, as `next_batch` does, and an
  acknowledgement that fails leads to `Redeliver`. `copies` is every message the
  dataflow was handed with what `_decode` made of it; `Decode` is the whole way
  of one message through `_decode`, the parsers, the keyer and the windowing,
  which Bytewax runs in one thread. `seen` is the expiry of the dedupe keys. A
  Valkey error in the dedupe check lets the message pass, with or without the
  key set. The event clock of the windows belongs to Bytewax and is modelled
  from its use: `lag` is how far the watermark of a key is behind the system
  clock, and it is forgotten with the key's last window. Time is counted in
  windows. Events are not from the future, and Valkey does not evict a dedupe
  key before it expires.

* **Parsers / Evidence.** A raw event is a source, a sensor, a host and a body
  that maps the fields it has to values; each parser is an operator from a body
  to the indicators, the confidence and the techniques it finds. A name is an
  abstract value with the form the code tests (lower or upper case, ATT&CK id
  or not). Every parser starts from the same blank event (`Parsed`), to which
  `IndicatorParts` adds what a URI names. `Kept` picks the items of a sequence
  at a set of places, as `SelectSeq` would, in a form the proofs can use.
  `Evidence` runs `Ingest` on such events, so what the dedupe check takes for
  the identity of an event is what the code takes (`raw_event_id`).
* **Fusion.** Floating-point masses are exact fractions over a common
  denominator, and comparisons are made without products (`AtMost`), since TLC
  has 32 bits. One step is one turn of the loop of `fuse()`, including its
  choice between Dempster's and Yager's rule.
* **DiamondGraph / Resources.** Functions of ledger rows and of what the keys of
  Valkey hold; an answer that a resource's type refuses is `Raises`.
* **Attribution / Response / Entries / Interop / Decisions.** Functions of the
  reports that `Fusion` has fused. A Shapley value is kept as the sum of
  beliefs it is, with a coefficient for each, and never computed. What the
  rounding of floating point can do to a plausibility near one is a choice
  (`Plausibilities`); `Resolution` says how small the mass on the benign side
  must be for it. The model lets it happen for more masses than the machine
  does.
* **InferenceLock / InferenceFacade / Narrator.** `stage` is where a task is in
  `_openai_chat`; `job`, `queue` and `busy` are the default executor of its
  process; `lock` is the task whose file object holds the `flock`. Cancelling a
  task leaves its job to the pool. `heard` holds the fields that the facade
  reads from a text cut at any token. A debate is four requests; its exhibits
  and its entry are calls on the same pool.
* **Pheromone / Blackboard.** `store` is the hash of one key with its set of
  sensors, beliefs and tau in thousandths; `left` and `witnessed` are history
  variables (the tau after the last deposit, and whether a window ever made
  one). `scripts` is Valkey's script cache, empty after a restart until any
  client loads its scripts. The decay worker reads the belief in `Scan` and
  wears the trail down in `Decay`. A window runs through `stage`: deposit,
  sensors, diversity, ledger, ZeroMQ, JetStream, pivot.
* **LedgerTail.** A client's `last_seq`, and two history variables that tell
  whether it missed a row and whether a burst outran its page.

## 3. Runs

| run | question | result |
|---|---|---|
| `ledger_shared` | do threads that share one writer implement an append-only chain? | yes: `Ledger` refines `AbstractLedger` through errors and crashes |
| `ledger_instances` | what is left with several instances, and what does a dashboard see meanwhile? | rows link backwards, no instance forks with itself, consensus entries are complete; the tail gets every row once and in order unless a burst outruns its page |
| `ledger_damage` | what do `verify_chain` and the anchored root make of one accident? | exact taint; late walks agree; a proof fits its leaf only; nothing slips past both |
| `rotation` | can the key timeline be rebuilt from the ledger? | yes, through overlaps, crashes and half-written files |
| `anchor` | do overlapping, failing, repeated calls anchor every entry once? | yes with one batch size |
| `executor` | are tools called once and in order, can the ledger be relied on for what acted, does the daemon come back? | yes, with tools that answer without acting and tools that act late |
| `watcher` | are the budgets exact, is the lineage kept, does every pivot get its turn? | yes |
| `ingest` | is evidence counted and weighed once, in the right window and at one key, and does every window fire? | yes |
| `ingest_identity` | are two Sysmon events of one type told apart? | **violated**: the event type is taken for the identity (`flow.py:224`) |
| `swarm` | does fusion depend on conflict, order or a single agent; is every decision answered and recorded, does its attribution add up? | fusion behaves; a mitigation is answered unless its key has no target; four things keep a frame out of the ledger; attribution adds up while nobody is opposed |
| `inference` | one request at a time, does the lock come back, do debates end, what is read from a cut answer? | yes, with one permit in each process |
| `blackboard` | what do restarts, priors and decay do to a trail, and does a frame leave without its entry? | trails behave; a frame has its entry or a failed append behind it |

`MCSwarm` has statements (`ASSUME`) about pure functions that TLC evaluates in
the run `swarm`: parser and keyer agree on keys, which findings of pivots the
ledger accepts, what the exports keep of an entry, that the Diamond graph is
closed (`DiamondClosed`), and that a client which is told of a change and reads
again is shown it (`AnnouncedIsRead`).

Bounds. Each is a constant named in its module, and appears only in the guard
of the action that creates new work, so it cuts histories short and nothing
else (in `Watcher` it also holds back a `Report` whose children would not fit).

* Ledger runs: two or three threads, at most two or three rows above which no
  job starts (a job that has started may add several), frames of 0 to 3 reports
  against a limit of 1 or 2. Two threads of one instance and one of another give
  every pair of actors; a fork needs two rows on one tip; the cut of a frame
  needs one report above the limit. The tail has pages of one and two rows, so
  two appends between polls fit and three do not.
* `ledger_damage`: six entries. A batch of 1 to 6 has every shape of odd level
  up to depth three, and an accident has rows on both sides of it and room for
  rows appended later.
* `rotation`: three processes and three keys, so two rotations overlap while a
  service reads. `anchor`: three callers of one batch size and three batches:
  one caller may be late by two.
* `executor`: playbooks of two steps (a first, a last step and the edge between
  them) and one waiting frame, which becomes a second instance while tools of
  the first are still at work.
* `watcher`: three pivots with one slot and width two: a pivot waits, another is
  rejected, and a pivot has two children that race.
* `ingest`: a process creation, a hit on the same file in the flat format with
  an event id, and a malformed event; a source that must be prompt and one that
  may be two windows late; one stream message and three copies in all. Three
  copies are two duplicates and one event that moves the clock of a key between
  them; the clock runs to three, one more than any lateness, so an event expires
  while its copies are in flight. `Tick` goes on beyond the bound as long as a
  window waits.
* `swarm`: every window of up to five events of four sensors that are sure of
  evil or of its contrary, and every window of up to three of all parsers'
  kinds. Four opinions are what it takes for both rules, both orders and the
  ignorance floor to occur in one fold. Keys of every dimension, with a process
  that has no number and a name that is too long.
* `inference`: two debates on two pool threads of the narrator, and a pivot of
  the watcher on one. A debate that expires in `flock` leaves its thread there
  and its permit to the next, and the lock's release needs a thread of the pool
  it came from. The permits are one for each process, which is the narrator's
  default and what the unit of the watcher sets
  (`etc/systemd/findevil-watcher.service:12`). `LockReturns` and `DebatesEnd`
  hold for that only, and more threads do not help: with two permits, two
  threads and three pivots of one process, a pivot expires in `flock`, its
  thread stays, the third pivot gets its permit and the other thread, and the
  release of the first waits behind both for ever (twelve steps, seen with TLC
  on this module; the same instance with one permit satisfies `LockReturns`).
  The default in the code of the watcher is 16 permits
  (`FINDEVIL_WATCHER_CONC`, `max_width`).
* `blackboard`: two windows, one bundle whose two usable indicators meet at the
  key, one death of any process or of Valkey. Two windows are an earlier frame
  in flight while the next is processed; the fault can hit at every step. The
  socket of the shadow publisher has room for one frame, so the second may be
  dropped.

Fairness. `CacaoExecutor`: weak fairness of the daemon's next step (each
dispatch has a timeout of its own) and of the restart by systemd; no tool has
to end. `Watcher`:
weak fairness of the tasks of the event loop as a whole; the time limit ends
the inference and the wait for the thread. `Ingest`: time passes, the dataflow's
only worker runs (Bytewax polls its operators also when no source has a
message), and systemd restarts the unit. `Narrator`: pool threads run,
`flock` is granted when the file is free, requests end by the HTTP client's
timeout, time limits pass, and the event loop goes on with what is ready.
`Blackboard`: systemd restarts Valkey and, by `Requires=` in the units of
ingest, decay and MCP, its clients with it; the decay worker ticks, an ingestion
goes on. `Fades` depends on that: a client never loads its scripts a second
time, so a Valkey that came back alone would answer NOSCRIPT for ever. No
fairness makes a caller, a frame, a window or a fault come.

Deadlock checking is off where the bound ends every behaviour, or where an idle
daemon has nothing to do.

## 4. Proofs

`LedgerProofs`, for all sets of threads and instances and all bounds:
`TypeCorrect`; `OrderedPerInstance` (`[]ChainOrder`); `ConsensusParents`
(`[]ConsensusComplete`); under the assumption that all threads share one
instance, `SingleWriterChain` (`[]ChainLinked`) and `SingleWriterRefines`
(`Spec => AL!Spec`, the refinement of `AbstractLedger`). None of these is
inductive. The strengthening says who may be between `tip` and `insert`: a
thread there holds its instance's lock, so two such threads have different
instances; what it has seen is not older than any row of its instance; with one
instance it has seen the last row. For the consensus entries it says that the
ids a job has collected are report rows of its instance, as many as the job has
appended so far. `DashboardFollows` (`[]TailFollows`) is about the tail, for
every page size but 0: a client that has gone leaves no `last_seq` behind, and
no client has looked at more rows than there are. That the query for newer rows
gives a run of consecutive numbers is a lemma about `Newer` (`NewerSeqs`).

It also has the proofs about what guards the ledger.

* Key rotation: `RotationTypeCorrect` and `TimelineRebuildable`
  (`[]KeyAnnounced`), by an invariant about every place a key can be: a key in a
  file, in a service's memory or in a running rotation is one the ledger knows,
  except the key of a rotation that has not appended its entry yet.
* Anchors: `AnchorTypeCorrect`; `ConsecutiveAnchors` (`[]Consecutive`) and
  `OneContentPerBatch` (`[]RekorAgrees`) under the assumption that all callers
  use one batch size. The invariant: batch `b` in the table, in Rekor or in the
  hands of a caller has the rows `(b-1)*size+1 .. b*size`, and a caller is never
  ahead of the table by more than one batch.
* The verifier: `TaintIsExact` (`[]TaintExact`) and `RangeIsSound`
  (`[]RangeAgrees`), for a ledger of any length with any accident. The invariant
  `DamageInv` describes the table row by row: each is as `append` wrote it but
  for what the accident says of it. The walk itself is computed by lemmas
  (`WalkedStep`, `TaintedIs`, `SeedIs`): where it stands after any number of
  rows, whatever they hold.
* The batch under the root: `NothingGoesUnseen` (`[]NothingSlips`). A level with
  its padding determines the one below it, so equal roots of equally many leaves
  have equal leaves (`RootInjective`).
* Inclusion proofs: `InclusionProofs` (`[]ProofsVerify`), in batches of every
  size: a leaf's own proof verifies, it verifies for no other leaf
  (`RecomputedInjective`), and in a batch of a power of two the root is RFC
  6962's (`RootIsTreeHash`).

`CacaoExecutorProofs`: `TypeCorrect`, `TruthfulEntries` (`[]EntryTruthful`) and
`ActsInOrder` (`ActsOnceInOrder`).
The invariant ties the daemon's local variables to the world while an instance
is under way: the steps tried are exactly those before the cursor, and the one
whose call is out; tools were called, answered and acted for these only; a tried
step that is not in `errors` has its answer, so its tool is through; and no
earlier entry names this instance. For an instance that is over, one that is
told to have succeeded has no tool at work, so no late effect can belong to it.

`IngestProofs`: `TypeCorrect`, `CountedOnce` (`[]AtMostOnce`) and
`PromptWeighedTogether` (`[]PromptTogether`), for every set of events, sources
and keys, every wait and every lateness. The invariant: the dedupe key of an
event that was let through lives until the event is late, so of all copies of an
event one at most is let through; a copy is in a window only once decoded, and
leaves the window of a key when it is fused. The step that needs it is a copy
that arrives after the dedupe key expired. For prompt evidence a second one is
needed: a key with an open window has a clock that is behind by the wait at
least, so a second that has fired is over for prompt copies, and none of them is
left in its window. The assumption `IngestAssumption` says that every lateness
is below the life of a dedupe key: 180 s at most against `DEDUPE_TTL_S`, 300 s
unless the environment variable `FINDEVIL_INGEST_DEDUPE_TTL_S` lowers it, which
nothing in the code prevents.

Two theorems compose this with the parsers, for every set of raw events.
`OneFramePerHash` (`[]HashesMeet`): every way a hash can take through a parser
ends in `Sha`, which forgets the spelling (`ParsedHash`), so two keys for one
hash are the same key and `PromptWeighedTogether` applies. `EveryEventCounts`
(`[]WeighedOnce`): a copy waits and is fused under keys of its own event only
(`Own`); the evaluator groups a parsed event under each of these
(`KeyAggregated`), although it computes its keys by a function of its own; the
agents of a window are listed once each (`DistinctIs`), so an event is in the
report of its agent and in no other; and a noisy-OR of any number of
confidences stays between none and certainty (`NoisyOrIs`).
`EvidenceAssumption` says that the events of `Ingest` are encodings of raw ones,
that hashes are records as `Parsers` has them, and that a confidence is a
number, absent or unreadable.

`WatcherProofs`: `TypeCorrect`, `BudgetsAlwaysExact` (`[]BudgetsExact`) and
`LineageTrue` (`[]Lineage`), for every depth, width, concurrency and number of
follow-ups. The invariant counts: the width counter is the number of pivots
that wait for a slot or have one, the semaphore its capacity less the number of
those that have one. `Lineage` alone is not inductive, because a child is
created long before it has a row: the strengthening says that a parent's append
thread is done when its follow-ups are created, that the rows are exactly those
of the threads that wrote, and which threads a stage of a task allows, also
when the time limit has overtaken them.

`FusionProofs`, for every list of reports:

* `TypeCorrect` and `NeverTotalConflict` (`[]ConflictBounded`). The masses on
  evil, on its contrary and on ignorance add up to the denominator, by a product
  expanded per step. The bound: if both operands of a step lean to one side,
  (e1 - b1)(e2 - b2) >= 0 keeps the conflict at one half or below; if not, the
  code takes Dempster's rule only for a conflict below 0.30.
* `CorroborationHolds` (`Corroborated`, an action property): for one step of the
  fold, from the same inequality.
* `OrderDoesNotMatter` (`[]AgreementIsProduct`). The invariant `AgreeInv` says of
  reports of one preference that the fold has that preference, which is what
  keeps the code at Dempster's rule, and that the ignorance and the
  plausibilities are products over all reports so far.
* `NobodyMitigatesAlone` (`[]MitigationNeedsTwo`). That fewer than two reports
  leaning to evil do not reach 4/5 is not inductive: one further report to the
  contrary could still raise the normalised belief. The invariant `SoleInv` adds
  that evil is then at most 25/6 as plausible as its contrary (`Tempered`) and,
  from the second report on, not believed to 4/5 even after the floor of the
  ignorance (`Doubtful`). It rests on the ignorance that `threshold.evaluate`
  declares, 0.05 or 0.15 (`EvaluatedAssumption`): an agent that declared none and
  is certain would reach 0.8019 against one of 0.15 that leans slightly to the
  contrary.
* `MitigationsAnswered` (`[]Answered`), for every key; those for which the
  executor has no target, or dies, are of an unclassified scheme or of a process
  without a number. The next step of an
  execution is computed for any set of failing steps (`RunVisits`), the
  technique of the playbook and that of the pivot are the first of two lists of
  which one contains the other, and the exhibits differ because the agents do.
  The hypothesis `NoneIsNothing` says that `None` is no number, technique,
  signature, key pair or consensus record, and that no target is `None` or
  `Raises`.
* `FramesRecorded` (`[]Recordable`), for every key and any number of reports and
  techniques, under `NoneIsNothing`: what the entries of a frame show is computed
  from the lists the code joins, filters, makes unique and cuts (`FlattenIs`,
  `TechnicalIs`, `DistinctItems`, `CutIs`), and an entry is refused for the name
  in its key, the id of its agent, one of these techniques or a plausibility
  above 1 only (`FrameAccepted`). `KeysAssumption` says that the hash in a key is
  one in lower case, `TacticsAssumption` that what is no ATT&CK id comes from an
  EDR agent, whose report shows what all reports of the sensor show.
* `WindowsAreInputs` discharges the assumptions on `Inputs` and `Keys`: for a
  window of any number of parsed events, whatever producers sent, the reports
  of `threshold.evaluate` satisfy `InputsAssumption`, `EvaluatedAssumption` and
  `TacticsAssumption`, and the key under which they are gathered satisfies
  `KeysAssumption`. Every parser is gone through for what it fills in
  (`ParsedShaped`), a noisy-OR in lowest terms stays a fraction between none and
  certainty (`LowestIs`, by the common divisors of Euclid's algorithm), and a
  report shows what the events of its sensor mention (`TechniquesBySensorIs`).

* `AttributionsAddUp` (`[]AttributionAddsUp`), for any number of reports. Where
  the statement holds every set of reports has one fold, in whatever order
  (`Coalesces`): Dempster's rule is associative over masses that add up
  (`MeldExists`), and two reports need no associativity. So a gain depends on a
  set and an agent only, and per belief the sums cancel: a coalition of size k
  that has the belief is joined with weight k (k-1)! (n-k)! and left with weight
  (n-k) k! (n-1-k)!, both k! (n-k)!, but for the empty one and that of all
  (`SharesAddUp`). Agents that say the same are exchanged in every coalition
  (`SharesAlike`), and of the n! orders k! (n-1-k)! have a given coalition before
  an agent (`PlacingIs`, `SampledAlike`). The sums of the community modules are
  over a set in an order TLC chooses; `WeighIs` says that they are sums in any.

`AtMost`, the comparison without products, is shown to be the comparison of
products for all fractions (`AtMostIs`).

`InferenceProofs`, for any number of processes, threads, debates and pivots:
`NarratorSafe` (`[]NarratorInv`, types included), `OneRequestAtATime`
(`Spec => Refines`, the refinement of `ModelServer`), `HigherScoreWins`
(`[]HigherOfBoth`) and `LockIsNeverLost`. The refinement is not inductive,
because a cancelled task leaves its thread behind. `LockInv` says for every task
which job its stage allows, that who posts or has a release in the pool holds
the lock, that a job is queued or has a thread, and that a lock whose holder is
through is about to come back or went with its process. `TaskInv` ties what a
task has heard to the request it is at, and `DebateInv` the scores of a debate
to its place in the script, so that the second verdict is compared with the
first and not with one of an earlier attempt.

`BlackboardProofs`: `TypeCorrect`, `TrailsReinforced` (`[]Reinforced`),
`PriorsAlwaysModest` (`[]PriorsModest`), `DiversityAlwaysWitnessed`
(`[]DiversityWitnessed`), `FramesAlwaysBacked` (`[]FramesBacked`) and
`FramesInOrder` (`InOrder`), for every set of outcomes, bundles and sensors,
every rate of decay, every size of a socket and any number of windows and
deaths. `PriorsModest` keeps what priors alone show below the belief of a
mitigation, not below that of a finding. Three facts make them inductive: while the worker has a decay in hand, a
trail that is believed is as its deposit left it; between SADD and HSET the key
names the sensors of the window; and what waits for the shadow publisher is in
the order of the frames, behind all that was shown and before the frame that is
still to be published.

Every proof starts from the module's own specification and the named assumptions
on its constants, which TLC evaluates in the runs; the hypotheses of single
theorems (one instance, one batch size, `NoneIsNothing`) are named above.

Recursive functions (the walk, the levels of a tree, products, the run of a
playbook) are handled without an induction theorem that takes a predicate:
`LeastNumber` gets the least number of a set that is not empty from `WFMin`, and
`Upwards` turns it into induction over the set of numbers for which a formula
holds. A recursive definition is a choice, so each such function is first shown
to exist and then to be determined (`LevelsExist` and `LevelsAre`, `PartialIs`,
`RunVisits`).

Only model-checked are:

* all that is temporal under fairness (`WindowsFire`, `PivotsEnd`,
  `ReturnsToSocket`, `LockReturns`, `DebatesEnd`, `Fades`): liveness is out of
  the prover's reach;
* `ReadsBeginning`: a statement about a pushdown automaton on every prefix of
  the sample answers;
* the `ASSUME`s of `MCSwarm`, on samples of findings, rows and keys.


## 5. Disagreements met on the way

With a run: `ingest_identity` (details in `PROJECT.json`, `findings`). Without a
run of its own, seen while translating:

* `ledger/writer.py:82-83` lets "a single writer" serialize "via a threading
  lock", and `tests/test_ledger_chain.py:76` expects one chain of it; the lock of `writer.py:100` belongs to an instance, and the tip is read (129)
  in another statement than the INSERT (171-182): two instances can link to one
  row. `SingleWriterChain` is proved for one instance only.
* `scripts/rotate_signing_key.py:5-7` wants verifiers to rebuild the timeline of
  keys; `ledger/verify.py:76` checks every signature with the one key it is
  given, and after one clean rotation it taints the rows of the other key.
* `cacao/executor.py:11-12` gives every terminal instance a ledger entry; the
  outer `except` (265) ends an instance as failed and appends nothing.
* `fractal/watcher.py:9-10` describes follow-ups; they are created behind the
  PUSH of the report (83), which needs a reader, and nothing in the repository
  opens one. The model has `HasConsumer` for this.
* `scripts/seed_genesis.py:9` calls itself idempotent; the emptiness check runs
  before `append` takes any lock, so a genesis row can follow other rows
  (`StartGenesis`).
* `scripts/rotate_signing_key.py:8` and `:87` speak of an atomic replacement;
  `write_bytes` truncates in place, and the pair is two files. Line 11 makes the
  new key authoritative after the rotation entry; an open writer keeps its old
  key until it is restarted.
* `ledger/anchor.py:98` anchors "the next complete batch"; the start is computed
  from the batch size of the call, so calls with different sizes (the CLI
  default 256 and `settings.ledger.anchor_every_n`) overlap or leave gaps. The
  proofs of `ConsecutiveAnchors` and `OneContentPerBatch` assume one size for this reason.
* `succeeded` does not say that a tool acted. `cacao/executor.py:160-169` and
  `:211-212` take every answer for a success; tools answer `{"ok": False}` when
  they did nothing (`tools/shims/yara.py:84-85`, `:100-101`), which
  `mcp_server/server.py:303-311` passes on. The target of a hash key has no path
  (`executor.py:317`), so its quarantine never finds a file and the entry says
  `succeeded`. And a step that ran out of time (`executor.py:163-166`) or whose
  daemon died may act later: the entry says `failed`, or there is none.
  `EntryTruthful` and `ActsOnceInOrder` say what can be relied on.
* `PLATFORM.md:77` has high belief from enough sensors trigger a playbook. The
  executor runs none for a key without a target (`executor.py:299-300`): those
  of users, registry keys, tasks, files and URLs. The key of a process whose pid
  is no number raises at `:322-323`, outside the `try`, and ends the daemon with
  the frames it had queued. `Answered` excludes these and no others.
* `cacao/factory.py:7` promises `on_failure -> rollback`; line 83 continues with
  the next action.
* `fractal/agent.py:178-180` calls the pivot chain fully reconstructable from
  the ledger; an append that fails is only logged and the children still run, so
  a child may name a parent without a row (the exception in `Lineage`).
* `PLATFORM.md:80` says that late telemetry is routed for audit. A copy that
  passes the lateness check of its source (up to 180 s) but is behind the
  watermark of a key (2 s) goes to the late stream of the windowing, which
  nothing reads (`dropped` in `Ingest`); the comment at `ingest/flow.py:553`
  takes the first check to be enough.
* `ingest/nats_source.py:41` keeps messages in JetStream while Valkey is down;
  the messages of a batch are acknowledged as soon as they are fetched, so those
  in flight are lost when the dataflow dies, and since the dedupe key is set
  first, one that is sent again is discarded as a duplicate.

* `PLATFORM.md:51-52`: the LLM "explains and enriches after the ledger entry
  exists"; an append that fails is swallowed (`flow.py:374`) and the frame goes out all the
  same, without a parent. `FramesBacked` therefore says "its entry or a failed
  append".
* `ingest/parsers.py:322` takes the techniques of an EDR alert as they come,
  without the pattern the other parsers use: one that begins with T and is no
  ATT&CK id makes `LedgerEntry` refuse the whole consensus entry. So does a key
  longer than 512 characters, of which a pivot's `artifact_uri` may have 4096.
  So does the id of an agent, source and sensor as producers name them
  (`ingest/flow.py:139-140`, `:151-152`, `threshold.py:52-54`), if it is longer
  than the 128 characters of `ledger/schema.py:147`. And so does a plausibility
  that floating point makes 1.0000000000000002: `swarm/ds_fusion.py:151-156` adds
  belief and ignorance without a limit, three EDR sensors that are sure and name
  no technique get there, and `ConsensusInput` takes 1 at most. `flow.py:374`
  swallows the refusal and the playbook runs. `Recordable` says that these four
  are the only ways, but for the cut behind 32 techniques, which can save such a
  frame.
* `cacao/factory.py:3-5` picks "the first matching technique"; the code takes the
  first one mentioned, and a playbook for review if that one matches nothing.
* `PLATFORM.md:79` lets a high conflict suppress automated mitigation;
  `swarm/evaluator.py:40-46` tests for mitigation before it looks at the
  conflict.
* `tests/test_shapley.py:1,34,69`, `tests/test_ledger_events.py:85` and
  `docs/AUTONOMOUS_RUN_LOG.md:91-92` state that attributions add up to the fused
  belief. Each coalition is fused with the agent in question last, and a fold
  that mixes both rules depends on the order: three reports of confidence 0, 1
  and 1 add up to 0.567 against a belief of 0.706. `AttributionAddsUp` says when
  the statement holds.
* `cti/stix_priors.py:3` and `PLATFORM.md:154` speak of decaying priors. A prior
  has a belief of at least 0.2, the worker skips what is above 0.15, so a prior
  stays as it is until a window reports on its key. A prior on a key of the hot
  path also cuts its tau to 0.35 and replaces a higher belief, which is why
  `PriorsModest` speaks of keys no window has reported on.
* `cti/stix_priors.py:29-30` keeps priors from the mitigation threshold, and they
  are kept from it; their belief may be 0.45, above the 0.40 of a finding
  (`config/settings.py:54`). Only a window makes findings, and it reads its own
  belief, not the prior's.
* `inference/facade.py:304-313` takes and releases the lock on the same pool of
  threads that may all wait for it. With the defaults only the watcher, when
  it runs without its unit, has more than one permit; then the lock can be lost
  for ever (section 3, `inference`).
* `swarm/decay.py` rounds tau to six decimals: with the default rho of 0.05 it
  stops falling at ten millionths (the bound in `Faded`).
* `ingest/flow.py:321` writes the sensor diversity of one window over the count
  that the deposit script took from the whole set; the blackboard then shows
  fewer than it could, never more (`DiversityWitnessed`).
* `inference/facade.py:383` has a fallback for an answer with other fields; the
  schema forbids them (`extra="forbid"`) before it is reached. A number at the
  end of a cut answer may be read shortened, and prose with braces before the
  object is taken for the object.
* `ledger/interop.py` writes STIX patterns with the whole indicator URI for a
  value: a bundle read back by `cti/stix_priors.py` never lands on the key of
  the finding it came from.
* `cti/diamond.py:17` looks for artifacts that begin with `ip:`, `domain:`,
  `hash:` or `url:`, as those of `tests/test_cti_for578.py:72` do; the entries of
  frames have `pher:ip:...` (`ledger/events.py:171,207`), so only findings of
  pivots can give the graph infrastructure (`DiamondClosed`).
* `mcp_server/resources.py:79` says that the focus biases the ingest dataflow;
  nothing but its own resource reads `control:focus`. No code writes
  `host:*:processes` or `attack:current_path`, whose resources answer blank, and
  changes of `cti:diamond:graph` are not announced.
* `mcp_server/server.py:228-237` offers `ledger.verify` a range and ignores it.

## 6. Plan

Done: the ledger and what guards it (writer, verifier, anchor, keys, tail), the
executor, the watcher, ingest from the message to the sinks, fusion and what
follows from it, the blackboard, inference and the narrator, each with the
proofs of section 4. Left, all of it proof:

1. `AnnouncedIsRead` and `DiamondClosed` of `MCSwarm` for every board and every
   list of rows.
2. An abstract at-most-once log that `Ingest` implements.


## 7. Not modelled

* Of the **MCP server** its start, metrics and the registration of actuators; the
  tool that ingests bundles is in `Pheromone`, calls of actuators in
  `CacaoExecutor`, and the tools of the ledger call what `VerifyChain` and
  `LedgerTail` model. The notifier maps the keys of sensor sets to resources
  that cannot be read (`AnnouncedIsRead`); how fast it announces is not modelled.
* **Calibration** is numerical (scikit-learn, real arithmetic), out of TLC's
  reach; without a trained model it is the identity, as `Parsers` has it.
* **Tool shims, red-team runner, CLI, TUI, settings, observability**:
  presentation, wrappers around external programs, drivers of a running system.
* Of the dashboard only the ledger tail and the relayed frames; the other routes
  format what they read once. Of the buses only what their users do; REQ and REP
  sockets and `subscribe` have no caller.
* Of the Shapley sampler the orders it draws (a seeded generator);
  `AttributionAddsUp` says what it gives over all orders.

* Of the **model server** what it does with a request whose client is gone:
  `Refines` of `Narrator` is about what clients have posted and still wait for; a
  cancelled POST may leave the server at work while the next one is posted.

In the modelled components, formats, hashes, signatures, timestamps and logging
are abstracted to what the properties tell apart; SQLite is taken to be durable
and serializable per statement, as its WAL mode promises. A crash is that of a
process: of a host crash Valkey may lose the last second (`appendfsync
everysec`), and it may evict keys at its memory limit; neither is modelled.
