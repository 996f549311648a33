# Verification of the AIOps fault-injection platform

This directory holds TLA+ specifications of the platform in `src/`, the TLC
configurations that check them on small instances, and theorems about them that
TLAPS checks for every value of the constants.

    tlc -workers 2 -config Ledger.cfg MCLedgerUnderFault     # one run
    tlapm LedgerProofs.tla                                    # one proof module

`PROJECT.json` lists the runs, the mutants that show each property can fail,
the code lines each definition stands for, the disagreements found and the
hazards the properties are aimed at.

## 1. The system

Four Spring Boot services serve payments; each carries one controlled fault that
can be injected and reset over HTTP. A Python telemetry program polls them and
runs experiments (inject, wait, reset), `dataset-tools` turns what was recorded
into labelled incidents, and `ai-orchestration` learns a baseline, detects
anomalies, retrieves similar incidents, names a root cause and proposes a remedy.

| Component | State it keeps | Operations | Interacts with |
|---|---|---|---|
| ledger-service (accounts, entries) | tables `accounts`, `ledger_transactions`; row locks; pooled connections | create, get, debit, credit | PostgreSQL through HikariCP; called by payment-service |
| ledger-service (DB-lock fault) | flag, list of held connections, the object's monitor | inject, reset, status | the same pool |
| payment-service (chain) | none of its own: threads waiting in blocking calls | `POST /api/payments` | auth, ledger, notification over HTTP with timeouts |
| payment-service (memory-leak fault) | flag, byte counter, list of chunks | inject, reset, scheduled allocation | the scheduler thread |
| auth-service | active signing key (swapped by the fault) | login, validate, inject, reset | callers, payment-service |
| notification-service | latency flag and delay | receipt, inject, reset | payment-service |
| telemetry: experiment | two threads, the probe's cached token, three JSONL files | run an experiment, collect, probe | all services |
| dataset-tools | the Memory and Evaluation files, a Chroma collection | reconstruct, label, number, split, write, index, query | telemetry's files |
| ai-orchestration: detectors | two files per service (model, metadata); what a process has loaded of them | train, save, load, score | dataset-tools' Memory file |
| ai-orchestration: workflow | one workflow state per record | extract, detect, interpret, retrieve, analyse, propose, finalize | detectors, Chroma, the Evaluation file, a language model |
| deployment | - | start, restart | Kubernetes and Compose manifests |

What is hard in it, and what must hold:

* **ledger-service** writes absolute balances computed from an entity it read
  earlier, so correctness rests on row locks, on the unique index and on
  transactions that undo everything. Correct means: rows and balance tell one
  story, each request takes effect at most once and exactly when its caller is
  told so, and no connection is lost on any path.
* **DB-lock fault** competes with requests for connections, may time out half
  way, and waits inside the monitor that `reset()` needs. It must leave the
  service one connection and be fully on or fully off between calls.
* **memory-leak fault** has three thread-safe fields and nothing that holds them
  together. What it can retain must be bounded.
* **payment chain**: three calls in a row, each of which can be lost, answered
  late, or cut off by a crash; a timeout does not undo what was asked for.
  Replies and ledger must never contradict each other.
* **signing key and latency faults** change while requests are on their way.
* **telemetry**: the thread that runs an experiment, the collector thread and the
  services share nothing but a clock. A call that has failed for the client may
  still be executed; the collector may outlive `join(timeout=10)`; the process
  may be killed with a fault left on. Correct means: the files, read back by
  timestamps alone, tell what was going on when a record was measured.
* **dataset-tools** gives incidents new numbers in each build and writes its files
  one after another without locks, while indexing, retrieval and training read
  them; Memory and Evaluation are told apart by number alone. Correct means: no
  incident that is set aside for evaluation has been indexed, retrieved or
  trained on, whatever was killed or has failed in between.
* **detectors** are saved as two files and loaded as two files, in the opposite
  order, by another process, perhaps of another version of the code. Correct
  means: no model of an older feature schema is ever scored with.
* **workflow**: every node depends on something that may be missing, late or
  wrong. Correct means: each record is decided, what was missing is said, and
  neither retrieval nor the language model turns weak evidence into an action.

## 2. The modules

| Module | Models | State and actions against the code |
|---|---|---|
| `HikariPool` | the JDBC pool, as `src/` uses it | `idle`; `Borrow` is `getConnection()`, `BorrowTimesOut` its timeout, `GiveBack` is `close()` |
| `LedgerService` | `LedgerService.java` behind its controllers | one stage of `pc` per point where a thread can be overtaken: before the connection, before the read, between read and write, before the commit, before the connection goes back. One action per step and outcome |
| `DbLockFault` | `DbLockFaultService.java` | `monitor` is the `synchronized` lock; connections are acquired and closed one per step |
| `LedgerUnderFault` | one ledger-service process | the two above over one pool, with crashes; the properties and the refinement |
| `AtomicLedger` | abstract: what the ledger promises | a map of balances and rows, changed by whole operations |
| `MemoryLeak` | `MemoryLeakFaultService.java` | one action per access to the flag, the counter or the list |
| `PaymentChain` | `PaymentController` and its three clients, with the parts of auth-, ledger- and notification-service they talk to | per payment the stage of its thread and the state of each call at the other end |
| `PaymentProbe` | `PaymentProbe` of `payment_probe.py` | the two fields of the token cache, one action per access to one |
| `Phases` | `reconstruct.py` and the eligibility test of `incidents.py` | pure operators from the events file and a record to a label |
| `Experiment` | `experiment.py`, `collector.py`, the JSONL files, and the fault endpoints as seen by a client | `main` and `collector` are the places of the two threads; a call is `sent`, then executed by the service at any later time |
| `IncidentDataset` | `build_dataset.py`, `split.py`, `write_jsonl` and `read_jsonl` | the incidents of a build, their numbers and their sides are functions of how many real ones there are of each type; one action per file that is begun or ended, and one (`WriteOn`) by which a file under way grows |
| `IncidentMemory` | `chroma_store.py`, `rag/retriever.py`, the choice of training data in `feature_extractor.py` | the collection, and the place of the indexing and of the retrieving process; one action per access to a file or to the collection |
| `Detectors` | `anomaly/train.py`, `save` and `load` of `anomaly/detector.py`, `load_all_detectors` | two files per service, each absent, torn or of a feature schema; one action per file that is begun, ended or read |
| `Diagnosis` | `rca/signatures.py`, `analyze` of `rca/analyzer.py`, `remediation/proposer.py` | pure operators from a record's metrics and retrieved fault types to a conclusion and a remedy |
| `Workflow` | `graph/workflow.py` and what its nodes make of answers from outside | `node` is the node to run; one action per node |
| `Orchestrator` | the process that loads detectors and invokes the graph | the two above together; the properties |
| `RunningSums` | - | a running sum along an enumeration, as a recursive function: where each type's incident numbers begin (`Offset`), what the rows of an account add up to (`Moved`) |
| `MCLedgerUnderFault`, `MCMemoryLeak`, `MCPaymentChain`, `MCExperiment`, `MCIncidentMemory`, `MCOrchestrator` | - | constants of the small instances |
| `LedgerProofs`, `MemoryLeakProofs`, `PaymentProofs`, `ExperimentProofs`, `LabelProofs`, `IncidentMemoryProofs`, `OrchestratorProofs` | - | theorems |
| `Induction` | - | induction over the natural numbers for sets, and lemmas about running sums, for the proofs |

`LedgerUnderFault` EXTENDS `LedgerService` and `DbLockFault`, which both EXTEND
`HikariPool`: the pool's `idle` is the variable they share. `AtomicLedger` is the
abstract specification of the ledger, instantiated WITH the committed tables of
the detailed one for its variables; locks, connections, threads and crashes do not
occur in it. `PaymentChain` treats a debit as one step; the refinement of
`AtomicLedger` is what allows it. `Experiment` EXTENDS `PaymentProbe` and
`Phases`: the first gives the collector thread its probe, the second reads the
files the two threads have written. `IncidentMemory` EXTENDS `IncidentDataset`,
whose `AddReal` is where an experiment of `Experiment` becomes an incident.
`LedgerUnderFault` and `IncidentDataset` EXTEND `RunningSums`; `LedgerProofs`,
`IncidentMemoryProofs` and `OrchestratorProofs` EXTEND `Induction`.
`Orchestrator` EXTENDS `Detectors` and `Workflow`, which EXTENDS `Diagnosis`:
`detectors` is what they share. What `IncidentMemory` may retrieve, `Workflow`
takes from a set (`Retrievals`); that reading a torn Evaluation file ends the
workflow is in both.

Abstractions and assumptions:

* The database runs READ COMMITTED, PostgreSQL's default, which nothing in
  `src/` changes; `open-in-view` is off, so a request holds its connection for
  the transaction only.
* Requests that fail bean validation are answered 400 before the service is
  entered. They change nothing and are left out, except that a payment without
  an amount passes payment-service's validation and is refused by
  ledger-service; `PaymentChain` has it (`NoAmount`).
* Amounts are whole multiples of the column's unit, 0.0001.
* A crash is followed by an immediate restart with a full pool. Requests that
  arrive in between get no answer and change nothing.
* payment-service retries nothing itself; that its HTTP library might send a
  request again after a connection reset is not modelled.
* In `PaymentChain` tokens are the key that signed them, or `none`, or
  `expired`; in `Experiment` a token is 0 for the original key or the number of
  the run whose injection swapped it.
* The position of an event in the events file is its timestamp, and the
  timestamp of a record is the number of events before it. Two stamps within one
  microsecond and a wall clock set back are not considered.
* A record is judged by the faults that were on when its health and metrics were
  fetched (`met`); `met`, like the number of the run that wrote a line, is not in
  the files and no label depends on it.
* `records` and `probes` hold at most one line each, chosen arbitrarily among
  those written: labels and properties speak of one line at a time, and this
  keeps the state small.
* In `IncidentDataset` a real incident is the i-th experiment of its type in time,
  and experiments are only added: later ones come last. The seeded shuffle is an
  arbitrary function `Chosen` of fault type and group size, of which the proofs use
  only what `ShareAssumption` says (they hold for every seed). A line that is cut
  makes every reader of the file fail, so a torn file has no contents in the model.
* One training runs at a time, and one indexing. Nothing else is assumed of when the
  processes of `IncidentMemory` and `Detectors` start.
* In `Diagnosis` metrics are integers in units that make every threshold an
  integer, and ratios are compared over a common denominator, which is exact. A
  feature that a service's schema has not is 0. The
  isolation forest may give any verdict on any vector. A language model's answer
  is one of seven shapes (`Replies`); an array or string that happens to contain
  the keys is not among them. A string that is valid JSON falls under `list`.
* Services are named by the fault they carry. An injection executed after the
  client has given up is executed all the same, possibly much later.

## 3. The runs

| Run | Instance | Properties | What it shows |
|---|---|---|---|
| `ledger` | 4 requests chosen from 6 operations on 2 accounts, 2 connections, column limit 3, 1 crash | `TypeOK`, `LockDiscipline`, `JournalChain`, `BooksBalance`, `ReplyMatchesJournal`, `CreatedOnce`, `ImplementsAtomicLedger` | no lost update, no half-written entry, books that balance in the account's currency, replies that match the tables |
| `pool_under_fault` | 2 requests, 2 callers of the fault, 3 connections, 1 crash | `ConnectionsConserved`, `FaultLeavesOne`, `FaultConsistent`, `EveryRequestEnds`, `MonitorComesFree` | no connection leaks, the fault never takes the last one, and row locks, pool and monitor do not block each other |
| `leak_concurrent_admins` | 3 admins, chunk 2, cap 5 | `TypeOK`, `RetainedBounded`, `LeftoverBounded`, `LeakFillsUp` | what the leak can retain at most, and that from a moment of rest on it does fill up, but for one chunk |
| `payment_rivals` | 2 payments, money for one | `TypeOK`, `OutcomeMatchesLedger`, `EveryPaymentEnds` | replies and ledger agree over lost and late calls |
| `payment_faults` | 1 payment, 1 fault key, delays below and above the timeout | `DebitNeedsValidToken`, `ReceiptNeedsDebit`, `DebitedIsAccepted` | what holds while keys and latency change under a payment |
| `experiment` | 2 db-lock experiments, 1 collection cycle each, 1 kill | `RecoveryIsClean`, `ActiveIsFaulty`, `SliceIsOwn`, `LeftOnIsRecorded` | labels read back from the files fit what was measured, over late calls, collectors that are not joined, and restarts |
| `experiment_probe` | 1 auth-key-error experiment, 2 cycles with payment probes | `TypeOK`, `SymptomsCount`, `FreshTokenIsKept`, `RunsEnd` | no symptom at another service is labelled away; the cached token is never silently replaced; an experiment ends |
| `experiment_token` | the same | `RecoveryTokenIsRestored` (violated) | a login under way undoes `force_new_token` |
| `experiment_refused` | 1 db-lock experiment | `IncidentHadItsFault` (violated) | a refused injection counts as an injected fault |
| `dataset` | 2 fault types with a target of 2, one of which grows to 3 real incidents, 1 kill, 1 match per query | `TypeOK`, `RealsDoNotLeak`, `AlarmMeansOutgrown`, `FreshCollectionIsMemory` | up to its target a type's real incidents keep their side through every build, kill and failed deletion; the indexer raises its alarm only if a type has outgrown its target |
| `dataset_stale` | the same two types, which grow to 3 and 4 real incidents, 2 matches per query | `StaleDoesNotLeak` (violated) | a rebuild renumbers and deals new sides, and a real incident of the Evaluation file is retrieved from the older collection |
| `orchestrator` | 2 services, 2 feature schemas, 1 killed training, 5 records, 3 retrievals | `TypeOK`, `OldModelsAreRefused`, `EvidenceOutweighsRetrieval`, `RemedyNeedsMetric`, `LimitationsTellAll`, `RecordIsDecided` | no older model is scored with; retrieval and language model do not decide; results say what they lack; the graph ends |

Why the bounds are enough. Requests interfere through an account's row lock and
through the pool: two that want the same lock, one that holds a connection
without it and one that waits for a connection are four requests over two
connections. Two accounts in two currencies give every refusal, and a limit of
3 against credits of 2 makes the column overflow. Three connections with
`HoldRequested = 5` make the clamp of `inject()` matter. A cap that is not a
multiple of the chunk tells the cap check from its neighbours. Three admins allow two
resets to be half done while a third call injects, and the cap has room for two chunks,
so that a list short of one chunk differs from an empty one. In the payment chain, 2 of 3
units tell the first payment from the second. Two
experiments let the leftovers of one meet the next, and one kill separates
"ended" from "stopped anywhere"; a second cycle lets a probe find the token that
an earlier one cached. Only in `experiment` the collector's status calls never fail
(`StatusFails`): a record that knows no flag is outside of `ActiveIsFaulty` and the
same to the run's other properties, and `experiment_probe` has such records. In
`dataset`, a target of 2 has one Memory and one Evaluation incident per type
(`round(n * 20/68)`), the first real incident displaces a synthetic one, the second
the other, and the third makes the group grow; the second type has its numbers
shifted by the first; the places are those that the program's own seeds give for
auth-key-error and memory-leak. One kill is
enough to have the two files of different builds, since a later build may be caught
between them without a kill as well. In `orchestrator`, the second service is what a
training killed between two services leaves behind, and the second schema tells an
old model from a current one. The records have three signatures at once with a tie
between two, one, none with a metric at its threshold, and a gap; the retrievals
agree, disagree, tie and lack a type. `MaxRuns`, `MaxCycles`, `MaxKills`,
`MaxCrashes`, `MaxReals`, `MaxSchema` and `MaxTrainKills` are the bounds on
counters.

`CHECK_DEADLOCK FALSE` stands in `Ledger.cfg`, where all requests have ended and
nobody calls the fault controller, and in the `Experiment*.cfg`, where the
number of experiments is bounded and the program ends after the last one. Elsewhere
somebody may always call.

`Ledger.cfg` uses symmetry among requests: `Init` and `Next` treat them alike, no
property names one, and none of its properties is a liveness property. No other
run uses symmetry.

Fairness:

* `pool_under_fault`: weak fairness of every thread inside the service. A thread
  whose lock or connection stays available gets it, and a wait for a connection
  ends with Hikari's timeout, so a thread in `begin` always has a step. Row locks
  are not assumed to be handed out fairly, nor is the monitor: nothing is
  assumed of arrivals, of calls to the fault controller or of crashes.
* `leak_concurrent_admins`: the scheduler keeps ticking, and a `reset()` that has
  begun goes on.
* `payment_*`: a thread of payment-service goes on once its call is answered or
  timed out (`block(timeout)`). Of the other services nothing is assumed.
* `experiment_probe`: the main thread goes on. It waits for nothing but sleeps,
  HTTP calls with a timeout and a `join` with a timeout. Nothing is assumed of the
  collector, of the services or of whoever starts the next experiment.
* `orchestrator`: the nodes of one `invoke()` run one after the other. They wait for
  the language model only, behind a timeout of 3 s for the health check and of
  `OLLAMA_TIMEOUT_SECONDS` for the answer (`ollama_client.py:31`, `54`); `requests`
  applies it to each read, so a server that sends its answer in drops is taken not to
  exist. Nothing is assumed of trainings, upgrades or restarts.

The properties of `Experiment` about labels leave out two cases that the code
cannot tell apart from the rest, and say so (`Undisturbed`): records of a
collector that outlived `join`, and records taken while an injection of an
earlier experiment, which failed for its client, may still be executed.

## 4. What is proved

All theorems hold for every value of the constants that satisfies the named
assumptions (`PoolMaxAssumption`, `LedgerAssumption`, `DbLockAssumption`,
`RequestsAssumption`, `LeakAssumption`, `ChainAssumption`, `ProbeAssumption`,
`ExperimentAssumption`, `DatasetAssumption`, `ShareAssumption`,
`MemoryAssumption`, `DetectorsAssumption`, `WorkflowAssumption`). Every invariant
and action property of a passing run is proved; the theorems that state no property
of a run are marked with an asterisk below.

* `LedgerProofs`. The inductive invariant `LInv` is `TypeOK` and
  `LockDiscipline`: the entity a request holds between read and commit equals
  the committed row because it holds the row lock. It gives `TypeCorrect`,
  `LocksProtectReads`, and with them `JournalIsChained` and `Refinement` (a
  commit is the only step that is not a stutter of `AtomicLedger`, and what it
  writes is what the abstract operation computes from the current balance).
  `AccountsAreCreatedOnce` needs that a request which is about to commit a new account
  holds the account's place in the unique index. `RepliesMatchRows` adds
  `RepliesAgree` to `LInv`: what each request's reply and stage say of the number of
  its rows; `RowsAreCommitted` says that a row names the request that wrote it.
  `FaultInv` relates stage, counter and held connections of the call inside the
  monitor and gives `FaultNeverEmptiesPool` and `FaultIsConsistent`.
  `ConnectionsAreConserved` counts the requests in a transaction; its lemmas say
  how the count changes when one request enters or leaves.
  `MoneyIsConserved` says that a balance is the opening amount of its create, plus all
  credits, less all debits, each asked for in the account's currency. `BooksInv` adds
  that an account without a row in `accounts` has no entries, that a request has a
  reply only once its transaction is over, and that one about to commit an entry is in
  the account's currency; `MovedAppend` says what one row more adds to a running sum.
* Progress in `LedgerProofs`. `RequestsOnlyAdvance`\* bounds a request's steps by its
  stage (`Distance`): no step of anything else takes it back. `NobodyWaitsInACircle`\*:
  whoever holds a row lock is past every point where it could wait for one.
  `MonitorHolderAdvances`\* bounds the work of the call inside the monitor by the
  connections it has yet to acquire and close (`Work`).
* `MemoryLeakProofs`. `CapInv` strengthens `RetainedBounded` with what the
  counter says at each point of a tick; `LeftoverInv` strengthens
  `LeftoverBounded` with the resets that are on their way. The arithmetic is
  linear because the number of half-done resets is only ever raised or lowered
  by one. `CounterInv` says that the counter stands for one chunk at most while the fault
  is off and no reset has yet to zero it, so that at rest it is at most one chunk ahead of
  the list; `AlmostCounted` keeps that until the next reset, and `LeakStopsWhenFull`\*
  follows: the allocator gives up only when the list is full but for one.
* `PaymentProofs`. `ChainInv` says, per payment, which calls may have been made
  at each stage and what an answer implies; `OutcomesAgree`,
  `DebitsAreAuthorised` and `ReceiptsFollowDebits` follow from it, and with `Rest`
  (the fields that `ChainInv` does not mention, and a balance that a debit keeps
  natural) `TypeCorrect`. `PaymentsOnlyAdvance`\* ranks a payment's stages and the
  states of its calls: each step of the thread moves it on, from the receipt on there is
  no outcome but 200 or the death of the process, no call is executed twice, and what
  was answered stands.
* `ExperimentProofs`. `RunInv` says, per run, what each event in the file tells of
  its call and that no run is past a call without an event; with it, a reset
  executed after an injection known to be over is final (`ResetIsFinal`), which
  gives `FaultLeftOnIsRecorded`. `LoginIsNeeded` (a probe logs in only once its
  token has gone or lapsed) gives `TokenIsKept`; the proof has one lemma for the
  collector's steps and one for the main thread's. `WindowInv` orders the events file
  by run and says of every line, written or not, that it was stamped after its run's
  start and, unless its collector outlived the join, before the next run's
  (`OwnStamp`). Since an EXPERIMENT_END closes a block of its own run
  (`BlockIsOfOneRun`), `WindowsDoNotMix` follows. With `Leftovers`, the counters and
  cursors that the others do not mention, the types follow (`TypeCorrect`).
* `LabelProofs` builds on it. `TruthInv` says of every draft and line of a quiet run
  (no earlier injection under way, collector not left behind) that what was stamped
  after the reset's event was not measured under the fault (`CleanAfterReset`), and
  what was stamped after the injection's and has seen the fault on was measured under it
  (`FaultyWhileOn`). It is inductive because in such a run no injection can be executed
  any more (`NoLateInjection`), and because what the two ask of the events file cannot
  come about once a line is stamped (`PremisesStand`). `RecoveryIsFaultFree`,
  `ConfirmedIsFaulty` and `NoSymptomIsLost` follow. `LifeInv` ranks events and the
  places of the main thread and gives `EventsTellOneStory`\*; with `RunInv` that gives
  `MarkedExperimentsHappened`\* (the refused db lock is the only way to an incident
  without its fault, the finding of `experiment_refused`) and `RunsAreNotSplit`\*.
  `WindowsAreDisjoint`\* is about `Phases` alone and any events file.
* `IncidentMemoryProofs`. Up to the target a fault type always has exactly `Target`
  incidents with the real ones first, so a real incident has the same place, and the
  seeded shuffle the same verdict on it, in every build (`BuildsAgree`). `SidesInv` says
  that everything derived from the Memory file holds real incidents of that one side
  only, and the Evaluation file those of the other, torn and half-written files
  included (`BuildWrites` says what a step of a build may do to them); `NoRealLeaks`
  follows. `FreshInv` follows an indexing that has emptied the
  collection through its stages and gives `CollectionIsMemory`. `Offset` is a running
  sum of group sizes, so the number ranges of the fault types neither overlap nor leave
  a gap (`NumbersAreUnique`\*, `NumbersAreConsecutive`\*), and each is dealt out in the
  rounded proportion (`SplitIsStratified`\*). `AlarmsAreTrue` rests on the first.
* `OrchestratorProofs`. `FilesInv` says that metadata never promises a later schema than
  the model beside it has, since `save` writes the model first and no training starts on
  an older schema than the one before, and that a model whose metadata has been accepted
  can only be replaced by a later one; `OldModelsRefused` follows. `GraphInv` says that
  conclusion and proposal are the functions of record and incidents that `Diagnosis`
  defines; with the order on matches being total and transitive (`OneIsFirst`,
  `BestIsMatch`) it gives `EvidenceWins` and `RemedyHasMetric`. `PathInv` says what each
  node has left for the next ones and gives `NothingIsLeftUnsaid`. `Contents` adds the
  types of what the nodes fill in, and all four together give `TypeCorrect`.
  `TopVotedWins` shows that the vote among the retrieved incidents has a winner that was
  retrieved, which gives `HighConfidenceIsEarned`\*. `GraphOnlyAdvances`\* numbers the
  nodes along the edges of the graph: nothing else touches a graph under way.
* `Induction`. The library's induction theorems take the formula as an operator, which
  the installed provers cannot instantiate. `SetInduction` says the same of a set that
  holds 0 and is closed under successor, and follows from the least element that it would
  otherwise lack (`WFMin`). On it rest the lemmas about running sums, which exist,
  satisfy their equation, do not fall, and agree where their terms do.

Only model-checked: the liveness properties `EveryRequestEnds`, `MonitorComesFree`,
`LeakFillsUp`, `EveryPaymentEnds`, `DebitedIsAccepted`, `RunsEnd` and
`RecordIsDecided`, since fairness is out of the prover's reach. The progress theorems
above are what there is to prove of them without it: the work that is left is finite and
only falls. That the next step stays possible is in `NobodyWaitsInACircle` for row locks,
and otherwise TLC's to show.

## 5. Disagreements found

Shown by a run:

* `force_new_token` clears a cache that the collector thread may be about to
  fill: a login answered under the swapped key is stored after the clearing, and
  the recovery phase goes on with a token of the wrong key (`experiment_token`).
* The db-lock fault refuses an injection with status 200 and `success` false;
  `experiment.py` looks at the status only and writes `FAULT_INJECTED`, and an
  incident is built from an experiment without a fault (`experiment_refused`).
* The retriever's check against a stale collection compares numbers that each build
  gives anew, so after a rebuild it may let real incidents of the Evaluation file through
  (`dataset_stale`). It takes that fault types outgrow their targets (`RealsDoNotLeak`);
  with the program's own types, seed and target of 17, it is enough that memory-leak and
  notification-latency go from 17 to 18 real incidents each.

Met while modelling, and told here only:

* A tick of the memory leak that has seen the flag adds its chunk after
  `reset()` has cleared the list; the chunk stays although the fault is off, where
  `MemoryLeakFaultService.java:17-18` says that a reset makes everything collectable.
  At most one chunk stays (`LeftoverBounded`).
* `reset()` zeroes the counter before it clears the list, so what is retained may
  exceed the cap for a moment, and for longer when resets and an injection
  overlap. `RetainedBounded` and `MemoryIsBounded` say by how much.
* For the same reason an injection that overlaps a `reset()` may leave a fault that is on
  and leaks nothing. The reset zeroes the counter (`MemoryLeakFaultService.java:51`), the
  fault is injected, ticks count up to the cap, and then the reset clears the list
  (`:52`): the counter stays at the cap (`:74`), the list empty and the flag on until
  the next reset, where `:16-18` says that an enabled fault allocates and retains.
  `<>[]enabled => <>[](retained > 0)` fails in the model of `leak_concurrent_admins`
  in this way. `LeakFillsUp` therefore begins at a moment when every call has returned
  and the fault is off, and has no reset after it.
* A debit refused with 400 is reported as 502, ledger-service unavailable
  (`LedgerServiceClient.java:35` against `:52`).
* Telemetry is labelled NORMAL up to `FAULT_INJECTED`, which is written when the
  answer has come back; the fault is on some time before that. The detector's
  baseline includes such records, where `feature_extractor.py:91-94` has
  "telemetry captured while no fault was active".
* `interpret.py:1-4` promises never to crash the workflow. A response that is a JSON
  number or null (`k not in parsed`), or a body that is not JSON (`resp.json()`, outside
  the `try`), raises all the same; `analyzer.py:76` raises for anything that is not an
  object. In `Workflow` these are ways to `crashed`.
* A detector may be of a *later* schema than its process: if the code is replaced and
  a training saves its model between the two reads of `load`. `OldModelsAreRefused` is
  one-sided for that reason. If the later schema has another number of features, the
  forest raises when it scores (`detector.py:142`) and the graph ends with it;
  `DetectAnomaly` leaves open which. And after a kill between the two files the metadata's audit
  trail (`models.py:54`) is that of the training before.
* `http_server_requests_error_count` is a counter since the start of payment-service;
  after one auth-key-error experiment it stays above its threshold (`signatures.py:61`),
  and with a high enough ratio it outranks the signature of a later fault.
* `split.py:5-7` promises the same assignment for the same incident list. That is so,
  but adding one real incident to a type beyond its target deals its sides anew.
* `synthetic_model.py:91-93` promises "byte-identical output" for the same type, index and
  seed; lines 94 and 103 use `hash()` of a string, which Python salts per process. A
  synthetic incident is therefore another one after each build, and `Same` is about real
  incidents only.

## 6. Not modelled, and why

* What synthetic incidents look like (`synthetic_model.py`), incident texts, deltas,
  averages and severities, Prometheus parsing, feature values and the isolation forest,
  prompts: arithmetic and wording, without state or protocol.
* `validate_no_leakage`: it reads and reports, and nothing acts on it.
  `all_incidents.jsonl` and `split_manifest.json`: written and read by nobody.
* Rotation of the JSONL files in `storage.py`: a write is one step that succeeds, and
  the readers merge all days.
* Correlation ids, request logging, the payload classes, the user store: no state that
  anything depends on, or state that never changes.
* Kubernetes and Compose manifests: restarts are modelled where they matter (the
  crash of ledger-service, the kills of telemetry, builds, indexing and training), not
  how they come about.
* `DemoAccountSeeder`: what it does to the tables is a `createAccount`, which is
  modelled; that its failure would end the start-up is not.
* The delay the latency fault reports: its two fields are read and written one after
  the other in `PaymentChain`, but no property speaks of the value.
* `/fault-status` of the db-lock fault, which reads flag and list without the monitor.
* Rounding of amounts to the column's four decimals.

## 7. How the project may grow

The order of the work has been by how much of the system's promise rests on the part:
the ledger with its fault, the leak, the payment chain, telemetry, the dataset, the
detectors and the workflow. What is left with state of its own is small: the seeder's
start-up and the rotation of the JSONL files. Of the theorems, the progress of the main
thread of an experiment is not stated.
