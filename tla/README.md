# go-yandex-metrics in TLA+

A verification development of the metrics collector in `src/`: an agent that
samples its host and sends the samples to a server, and a server that keeps them
in memory (and a file) or in PostgreSQL and reports updates to an audit. The
modules are translated from the Go code; TLC checks them on small instances and
TLAPS proves the safety properties of every component, and the refinements, for every
value of the constants; liveness stays with TLC.

## 1. The system

| component | state | operations | talks to |
|---|---|---|---|
| **agent** `internal/agent` | `SafeMetrics`: data, `revision`, `sentRevision`, `mu`, `sendMu`; two tickers; the context | `RunAgent` (loop, shutdown), `collect`, `sendUnsentMetrics`, `sendUnsentMetricsGRPC`, retries | pool (tasks), server (HTTP or gRPC) |
| **worker pool** `internal/workerpool` | bounded channel of tasks, wait group | `Start`, `AddTask`, `Close`, `Wait` | agent |
| **server process** `cmd/server/main.go` | servers, contexts, `errCh` of the file storage | `RunServer`: set-up, select, shutdown in an order | all server parts |
| **handlers** `internal/handler/server` | none of their own | update by path, by JSON, in bulk; reads; ping; middleware | service, audit |
| **gRPC service** `internal/grpcserver` | none | `UpdateMetrics`, subnet interceptor | service |
| **service** `internal/service` | none | thin layer: update, create, batch, get | storage |
| **memory storage** `internal/repository/memory.go` | slice and index under a RW mutex | get, get all, save, save batch | – |
| **PostgreSQL storage** `internal/repository/postgres.go` | table `metrics` | the same, with transactions and retries | database |
| **file storage** `internal/server` | ticker, `errCh`, the file | restore, periodic save, last save; temporary file and rename | service |
| **audit** `internal/audit` | observers, per call two channels and workers, the audit file | `Publish`, `Notify`, `Close`, retrying HTTP client | receiver |
| encryption, signatures, gzip `internal/cryptoutil`, `hashutil`, `server/gzip` | none | transformations of one body, in an order that both ends must share | handlers, agent |
| flags and configuration `cmd/*/flags.go`, `internal/config` | the configuration of a program | two passes over the command line, file, environment | both programs |
| reset generator `cmd/reset` | the generated files of a module | load, generate, write and rename per package | the build |
| object pool `pkg/pool` | a `sync.Pool` | `Get`, `Put` with a reset | generated methods |
| TLS, logger, protobuf, linter, gencert | none that interacts | – | – |

**Hard behaviours.** Goroutines of the pool that collect and send at the same
time as the loop ends; a mutex held over network requests and sleeps; requests
that are lost, answered late or applied after the caller gave up; handlers that look a
metric up and save it under two locks; a save to the file that runs among
updates, fails, or is cut by a crash; a shutdown whose steps must come in one
order; transactions that lock rows in different orders; retries of what may have
been done; channels whose reader waits for their writers; a configuration read in
passes that each depend on the one before; encryption, compression and
signatures that two programs must nest the same way; a generator that reads what it
generated, and can stop between two files.

**What makes each part correct.** Agent: nothing is called sent that the server
has not applied, no sample is sent twice by two workers, an ordinary end has sent
everything, and a signal ends it. Server: an acknowledged delta is counted, a batch is whole
everywhere and always, the file never loses what it had, a clean stop has saved
everything, a signal ends it once its handlers have ended. PostgreSQL: batches are atomic, answers are true, nobody
waits for ever. Audit: a success is recorded, nothing happens after the return,
and publishing returns once its attempts have ended. Agent and server together: a sample is counted once, and once
more only for an attempt whose outcome nobody could know. Configuration: the strongest
source wins. One exchange: keys that fit deliver the batch that was sent, and the
answer verifies. Generator: no file is ever cut off, success means current; pool: what it
hands out again is clean.

The full list of the hazards, each with its line and the properties that
cover it, is in `PROJECT.json`.

## 2. Modules

| module | models | lines of code it stands for |
|---|---|---|
| `Reporter` | abstract: what the agent promises about its samples | – |
| `MetricsAgent` | RunAgent, pool, SafeMetrics, both senders, shutdown | `agent.go`, `grpc.go`, `workerpool.go` |
| `MetricsAgentProofs` | theorems about `MetricsAgent` | – |
| `DurableStore` | abstract: a store with images that become durable in one piece | – |
| `Delivery` | `MetricsAgent` with the network and the server's counter PollCount | `agent.go`, `memory.go`, `postgres.go`, `handler.go` |
| `DeliveryProofs` | theorems about `Delivery` | – |
| `MetricsServer` | RunServer, handlers, memory storage, file storage, crash and restart | `cmd/server/main.go`, `handler.go`, `memory.go`, `service.go`, `server.go`, `file_converter.go`, `grpcserver/server.go` |
| `MetricsServerProofs` | theorems about `MetricsServer` | – |
| `AuditManager` | audit manager, observers, retrying client | `audit.go` |
| `AuditManagerProofs` | theorems about `AuditManager` | – |
| `PostgresStorage` | transactions, upserts, retries, the handlers over them | `postgres.go`, `handler.go` |
| `PostgresStorageProofs` | theorems about `PostgresStorage` | – |
| `Configuration` | parseFlags of both programs | `cmd/agent/flags.go`, `cmd/server/flags.go`, `config.go` |
| `ConfigurationProofs` | lemmas about `Configuration`, one for each pass | – |
| `Exchange` | one batch over HTTP between two configured programs | `agent.go`, `rsa.go`, `hash.go`, `zipper.go`, `handler.go` |
| `ExchangeProofs` | theorems about `Exchange` and `Configuration` | – |
| `ResetCommand` | runs of the generator on a module that is edited between them | `cmd/reset/main.go` |
| `ResetCode` | the generated statements and their effect on an object | `cmd/reset/main.go` |
| `ResetGenerator` | `ResetCommand`, and a program built with what it generated, with the object pool | `cmd/reset/main.go`, `pool.go` |
| `ResetGeneratorProofs` | theorems about `ResetGenerator`, `ResetCommand` and `ResetCode` | – |
| `MC*` | the modules TLC is started on; constants are in the `.cfg` files | – |

Each module with a component also holds, in front of some definitions, a changed
one whose comment starts with "mutant:". No specification uses them. They are
plausible mistakes, one for each property, with which TLC finds the property violated.

### MetricsAgent

A sample is its `revision`, which `collect` increments together with
`PollCount`. Actions follow the points at which another goroutine can interfere:

* `Configure`, `Startup`, `SelectPoll`, `SelectReport`, `SelectDone`, `AddTask`,
  `PoolWait` are the steps of `RunAgent`; a full channel blocks `AddTask`, so the
  loop then looks at no tick and no cancellation, as in the code.
* `TakeTask`, `ExitWorker` and `Collect` are a worker. `Collect` is the critical
  section of `collect`.
* `LockSend`, `Snapshot`, `CheckUnsent`, `Attempt`, `AttemptSucceeds`,
  `AttemptFails`, `Wake`, `MarkSent` are a send, by a worker or, at the end, by
  `RunAgent` itself (`Main`). `snapshotWithRevision` and `hasUnsent` take `mu` one
  after the other, so they are two actions. Sleeps do not look at the context,
  and neither do the requests.
* `ServerApplies` and `LateArrival` are the server, reduced to the set of
  revisions it has applied and the last one. A request that timed out stays in
  `late` and may arrive any number of times, since its retries carry the same sample.
* Errors are classes, and `isRetriableRequestError` and `isRetriableGRPCError`
  say which are tried again. A connection the server closes with no
  answer (`io.EOF`) is not, a timeout is.

### MetricsServer

A request stands for what it carries: a counter is the set of the requests whose
deltas it sums, a gauge the request that wrote it last. `Restore` is the part of
`SaveMetricsToFileWithContext` before its goroutine; it runs before the
servers accept anything, so it is one step. `LeaveSelect`, `HTTPStopped`, `GRPCStopped`,
`Flushed` are the branches of RunServer's select, which differ only in whether
they end with `stopAndFlushFileStorage`. `TakeSnapshot`, `Encode`, `Rename` are a
save; `Crash` may fall between any two. A path update is `Lookup`, `Save`,
`Reply`; a batch is `SaveBatch` and `Reply`; a read is `Lookup` and `Reply`. The
history variable `known` is what had been answered when a request came, so that
`AnswerIsRecent` can say that an answer has it all. `seen` is what the answer is made
of: the metric that was looked up, also for an update of an existing metric, and for an
update that found none what `SaveMetrics` returned, the metric as it then was, with the
deltas that others had saved since the lookup. `Reject` stands for every refusal of a
request that has come, before something is stored (subnet, body, signature, decryption,
values). Until then the handler may be reading the body, and a client may never end it.
The audit is configured with both observers here: what happens otherwise is
`AuditManager`'s matter.

### Delivery

Extends `MetricsAgent`: each step is a step of the agent (`AgentStep`, `Handle`,
`Fail`, `ArriveLate`) with what it means for the counter. PollCount of a sample is
its revision, all polls so far, and the server adds it, so that the counter holds
1 + 2 + ... and not the number of polls: `CleanExitCounts` states what that
leaves true. Integers go from `MinInt` to `MaxInt`: `Wrap` is Go's addition, which goes round,
and `Fits` the range of the column, beyond which PostgreSQL refuses the statement. The
history `added` is the sum in unbounded integers, to which `SumInv` ties the
counter. The server handles a request once here: the repeats it makes itself after a
commit in doubt are `PostgresStorage`'s. `doubts` counts the attempts that ended without saying whether the server had applied them,
`inTransit` the requests that were given up and may still arrive, each once.

### Configuration and Exchange

`parseFlags` is the same in both programs: `FirstPass` (only for the path of
the file), `ApplyFile`, `ApplyEnvironment`, `SecondPass`, then `Start`, what
the program does with the values before it serves (the rate limit is not among the
options, and with it the panic of `NewPool` for one below zero is left out). Package `flag` is external: the
parsing ends at the first word that is no flag, and a boolean flag does not take the next
word. `env.Parse` passes over empty variables, `STORE_FILE` does not.
`Saying` gives the value each option should have directly from the surroundings, in
terms of what each source says (`FlagSays`, `VariableSays`, `FileSays`), and
`StrongestSourceWins` compares it with what the passes arrive at.

`Exchange` extends it with one batch: the client (`SendRequestToServer`, or
`OtherClient` with gzip and without a signature), the middleware in its order
(`ZipIn`, `Handle` with the subnet and `readAndVerifyRequestBody`, `HashResponse`,
`ZipOut`) and `Unzip`. A body is a sequence of bytes, each of which says what
it is part of; encryption cuts the body into blocks of the key's size. A signature is
the pair of body and key, which has no collisions.

### ResetCommand, ResetCode and ResetGenerator

A type is the sequence of its pointers and arrays (`layers`) and the kind of the leaf
they end in, since each has one element type. `generateReset` yields the statements for
it as the code does, each alone in the body of the one before: pointers are
tested and followed, arrays ranged over, plain structs left alone. A value is the set of
the places (sequences of indices) of its nil pointers and of its leaves that are not
clear. A statement runs once for each sequence of indices `k` that the loops before it
bring and the tests let through (`Runs`); every loop binds `i`, so what its expression
names (`Named`) has the innermost index at every array, and an array inside of an array
is only visited where its indices are the same, or beyond its end. The loops do not look at the
object: Go does not evaluate the range expression of an array when only the index is
bound. `Clean` states what that leaves true, and `MayPanic` when it may panic.

`ResetCommand` has the development of a module (marks and uses of generated
methods come and go) and the run: `Load` with the overlay that hides all generated
files, `GeneratePackage`, `WriteTemporary`, `Rename` per package, each of which may
fail, and `Crash` anywhere. `ResetGenerator` adds, when everything is current and
compiles, a program with a `Pool`: `Get`, `Put`, and `Collect` for the garbage collector.

### AuditManager

`observers` is the value of the manager's list, computed as Go does: an interface
that holds a nil pointer is not nil. `Publish`, `Take`, `Join` are the
manager's `Publish` with its workers and channels; `NotifyFile`, `Do`, `Sleep`,
`NotifyHTTP` the observers; `Disconnect` cancels the context of a request;
`Close` is deferred in RunServer and runs when the servers have waited for the handlers.

### PostgresStorage

Only counters, since an upsert that adds is what a retry can spoil. The database
is external: a row is locked from the upsert to the end of the transaction, what
is committed is read, a cycle of waits is broken by aborting one transaction with
an error that is not of class 08, hence not retried. `Fail` is the rollback and
the decision of `withRetryValue`. With `AmbiguousCommit` an error may follow
a commit that happened: one of class 08, which is tried again, or a lost connection
without a `PgError`, which is answered with an error at once.

## 3. Runs

| run | what it shows | bounds |
|---|---|---|
| `agent` | safety, shutdown, order of snapshots, inductive invariant, refinement of `Reporter` | 2 workers (two sends, or a send and a collect, at once), 1 retry (first and last attempt differ), 2 polls and 2 reports (a second sample during the send of the first) |
| `agent_late` | violation: with late arrivals the order is lost | 1 worker |
| `agent_blocked` | violation: a collection waits while the only worker is in a request | 1 worker, the default of `-l` |
| `server` | acknowledged deltas, whole batches, the file, refinement of `DurableStore` | 2 counters (a batch can be split), one request of each kind, 2 starts (a crash or stop and what follows it); the counters are symmetric |
| `server_stop` | answers are recent; the shutdown ends if the handlers do, and is clean only after a whole save | a counter, a gauge that cannot be encoded, a path update, a gRPC batch and a read (an update before, during and after the read), 1 start |
| `audit` | publishing to both observers; it returns if its attempts end | 2 events, 2 retries |
| `audit_empty` | violation: a nil observer is called | no flag set, the default |
| `postgres` | batches, answers, deadlocks | 2 counters and 2 batches (the smallest deadlock), 1 single update, 1 retry |
| `postgres_single` | violation: a failed save answered with success | 1 counter, 2 updates, 3 retries |
| `delivery` | how often a sample is counted, and what the sum is | 2 workers, 1 retry, 2 polls and 2 reports, late requests, both storages; integers from -4 to 3, so that two or three additions leave the range |
| `exchange` | precedence of the sources, fitting keys, signed answers | see below |
| `reset` | the generator's files, the pool's objects | 2 packages (a run can stop between them), 2 structs (symmetric), 9 shapes of objects with pointers, arrays and arrays in arrays, 2 pooled objects |

Each passing run but `server_stop` also checks the inductive invariant of its module as
an invariant (`IInv`, `DeliveryInv`, `ExchangeInv`, `GeneratorInv`), and with it the type
invariant: what the proofs use is true of the small instance.

**Bounds in the models.** `MaxPolls`, `MaxReports` bound the ticks that are
looked at, `MaxStarts` the starts of the process; each request is made once; every
retry loop has the bound of the code, reduced by a constant in some runs.
`MaxPooled` bounds the pool. In `exchange`, `MCInputs` lists the surroundings: one program
with every command line of up to two arguments, every setting of its variables and with or
without two files, the other plain; or both with every pair of keys (two RSA
keys, one that is too small, one whose file is missing, none; two signing keys or none).
RSA keys have 4 bytes of which 2 are overhead, and batches 4 and 5 bytes: an exact
and a short last chunk.

**Deadlock.** Every run but `reset`, whose program may end with a panic of `Put`, checks for it. The states in which a program has ended
are the stuttering action `Terminated` of each module.

**Fairness.** Weak fairness for the steps of goroutines, timers and I/O that ends:
`client.Timeout` and the deadline of the gRPC call bound an attempt of the agent.
Strong fairness where a choice recurs: Go's `select` takes a ready case at random,
so a cancellation is not passed over for ever; `sync.Mutex` hands over to a starving
waiter; PostgreSQL queues those who wait for a row. Ticks, signals, failures,
disconnections and crashes are never required to happen.

What the code does not bound is not assumed to end. `http.DefaultClient` has no timeout,
so an attempt of the audit may last for ever: `Do` has no fairness, and `PublishReturns`
has the hypothesis `AttemptsEnd` for the event it speaks of. `httpServer` has no
`ReadTimeout`, and `Shutdown` is called with `context.Background()`: the server's
handlers have no fairness, and `ShutdownCompletes` has the hypothesis `HandlersEnd`. Without
the hypotheses TLC finds both properties violated: a hanging body or receiver does hold the
shutdown. `RequestsAreAnswered` assumes that the database answers.

## 4. Findings

1. **A nil audit observer is called** (`audit_empty`). `NewManager` tests
   `observer != nil` on interfaces that hold nil pointers. With no audit flag,
   the default, the first audited update panics in a goroutine of `Publish`; so does
   `Close` at the shutdown.
2. **A failed update is answered with 200** (`postgres_single`). `UpdateMetrics`
   and `UpdateMetricsByJSON` discard the error of `services.UpdateMetrics`.
3. **Collection is blocked by sends** (`agent_blocked`), against the comment of
   `sendUnsentMetrics`: both are tasks of one pool. In the trace the only worker holds
   `sendMu` during its request, and a collect task fills the channel behind it.
4. **The order of snapshots is not kept** (`agent_late`), against the same
   comment, when a request is handled after its timeout.

## 5. Proofs

Each component has a module of theorems. They hold for every value of the constants
that meets the assumptions of the component's module, which TLC evaluates in every
run. Beside those that give the flags their types and keep kinds of requests apart, the
assumptions are:

| assumption | why the code justifies it |
|---|---|
| `RateLimitAssumption`, `MaxRetriesAssumption`, `BoundsAssumption`, `LimitsAssumption`, `RetriesAssumption` | numbers of workers, retries and ticks are natural numbers; no upper bound is assumed, and only `Publish`, whose constant is 4, needs a worker |
| `MaxIntAssumption` (`Delivery`) | the agent's own PollCount does not overflow: it would need 2^63 polls. The server's sum may, and does |
| `CountersAssumption` (`PostgresStorage`) | a table has finitely many rows |
| `KindsAssumption`, `FlagsAssumption` (`MetricsServer`) | a request has one kind; `-i` and `-r` are a number and a boolean |
| `InputsAssumption` (`Configuration`) | no file has an empty path, and the JSON type of `restore` is a boolean |
| `KeySizeAssumption`, `OverheadAssumption`, `LengthsAssumption` (`Exchange`) | an RSA key has at least a byte (one too small for OAEP is allowed), a batch at least one metric: the agent sends no empty one |
| `PackagesAssumption` (`ResetCommand`), `ShapesAssumption` (`ResetGenerator`) | the packages are listed in a sequence; a struct has a sequence of fields with types |

None of the properties is inductive alone. The inductive invariants, and what each
needs its parts for:

**MetricsAgent** (`IInv`). `SendsOnlyUnsent` needs that only one goroutine is between the
lock and the unlock (`MutexInv`), or another could mark a newer revision;
`ConfirmedWasApplied` that a sender about to mark has an applied snapshot
(`AnswerInv`); `CleanExitFlushed` that the last send starts when the workers have
ended, so that its snapshot is the last revision (`MainInv`, `PoolInv`); the order on
the server (`SnapshotsOrderedUntilLate`, and `SnapshotsStayOrdered` without late
delivery) that nothing newer than the snapshot in progress was applied (`OrderInv`).
There is a lemma for the steps of each goroutine, and `StepIInv` joins them.
`Refinement`, `Spec => Reporter!Spec`, maps each step to a step of `Reporter` or to a
stutter: a return of the last send is its `Finish`, also the one that confirms.
`PollsAreCollected` proves `EveryCollectionCounted` from `CollectInv`, which counts
the polls that are collected, with a worker, in the channel or about to be added.

**Delivery** (`DeliveryInv`). `DeliveryIsAgent`: the counter, the network and the
history only observe the agent, so that all of the above holds here.
`SampleCountedOncePerDoubt` follows from `CountInv`: what was applied and what is still
in transit is at most the doubts, and one more when the agent knows of an application.
That needs the agent's invariant: a request is handled only for a sample that nobody
knows applied, and a failed attempt trades knowledge for a doubt. `CleanExitIsBounded`: at an ordinary end the counter has at
least all polls, and 1 + 2 + ... at most if no answer was lost (`AddedInv`, `OnceInv`); in
memory until its sum wraps around, in PostgreSQL always, since a sum that does not fit is
never confirmed (`SumInv`).

**MetricsServer** (`IInv`). `AckedIsCounted` and `AnswerIsRecent` need what a handler has
between its two critical sections (`HandlerInv`, `LookedUpInv`, `StoredInv`): the
counter it has looked up may have grown, never shrunk. `AnswerIsRecent` covers
both answers of an update, the metric it had looked up and the one it created. `CleanStopSavesAll` needs that
the last save begins when no handler is left (`QuietInv`, `ProcessInv`) and that what it
renames is what memory holds (`SavedInv`). `FileNeverForgets` and the refinement of
`DurableStore` need that with `-r` every image has all that the file has. Restarts and
crashes are steps like any other, for any number of starts.

**PostgresStorage** (`IInv`). `BatchIsAtomic` needs that a transaction owns the locks of
what it has upserted (`LockInv`), and `BatchAnswerIsTrue` how far each request is
(`RequestInv`). `BatchAnswersAreTrue` has the hypothesis `~AmbiguousCommit`, since
with an error after a commit that happened the answer cannot be true, whether the error
is tried again or not;
`DuplicatesAreBounded` says what remains then: a delta once at most for each attempt.

**AuditManager** (`IInv`). For each event and each setting of the observers:
`SuccessIsRecorded`, `NothingAfterReturn`, and `ErrorsHaveRoom`: the buffer of the error
channel is large enough, so that no worker waits for `Publish`. `SuccessIsRecorded`
holds with a nil observer as well, since `Publish` panics before it could return nil.

**Configuration and Exchange** (`ExchangeInv`). `ConfigInv` says, for each stage of
`parseFlags`, what the options have from the sources read so far, and that the first pass leaves
nothing behind but the path; `ConfigurationProofs` has a lemma for each pass, and
`SourcesAreOrdered`, `NoPanicFromFiles` follow. `AnswerInv` follows a signature
through packing and unpacking (`AnswersVerify`). `RequestInv` says that what the handler
gets is the batch, packed, or sealed with the agent's key. `FittingKeysAreEnough` then
rests on `FlattenChunks` (the chunks of a body, put one after the other, are the body,
for any sizes), `DecryptsOwn` (Decrypt undoes Encrypt with the same key) and
`DecryptsNoOther`. `FlattenSeq` of the community modules is a recursive function over the
length of a sequence: `FlattenPrefixes` unfolds it, and `LeastExists`, a least number for every property that some
number has, takes the place of an induction.

**ResetCommand** (`CommandInv`). `FilesOldOrNew`, `SuccessIsCurrent` and
`UseStopsGeneration` need that just the packages still listed have their old files
(`LoopInv`), and that a run after a success finds what it will write (`AgainInv`).
`ImplementsCommand`: the steps of `ResetGenerator` are steps of the command or leave it
alone.

**ResetGenerator** (`GeneratorInv`). `PooledIsClean` is kept by `Put` only because
what the program hands in is an object of its struct in which nothing lies behind a nil
pointer (`PoolTypeOK`); `Get`, the garbage collector and the program's own work then
only move objects. What one reset does is proved of the generated statements, for
every type and every value (`ResetIsComplete`): `NamedIsMeant` (where the indices agree
an expression names the place its loops mean), `ResetClears` (such a leaf is reached:
no test on the way finds nil), `NamesOneIndex` (no other is), and `OnlyStraysPanic`:
unless an inner array is longer than the one around it or behind a pointer in it
(`Strays`), what a statement names exists (`NamesNoneBeyond`), and each pointer on the way
was tested with the same index (`NamesWhatWasTested`).
No induction is needed, since a type is a sequence and a nest of statements a function of
the position in it. A panic is only bounded from one side: for some of the arrays that stray
(behind a pointer in an array of one element, say) no object makes the reset panic.

Only model-checked: liveness (`ShutdownCompletes` of the agent and the server,
`PublishReturns`, `RequestsAreAnswered`), which is out of the prover's reach. Every
invariant and every action property that a passing run checks, and both refinements,
are theorems.

## 6. Not modelled

Logging, TLS and the certificate generator are I/O and library calls; the protocol
buffers are generated; the linter is a pure predicate on syntax trees. Ping and the
list of all metrics change nothing and answer from one call. Migrations run before
anything else. `PROJECT.json` lists each with its reason.

Hazards without a property: the readings of a sample are taken before `mu`, so of two
collects the older may come last; an array of plain structs makes the generator write a
file that does not compile. No document promises otherwise, so there is nothing to check
against. With a rate limit of 0 `AddTask` blocks for ever (the agent's `ShutdownCompletes` is
checked for two workers and would be false), and below 0 `NewPool` panics. A
connection lost at a commit makes a batch count twice or its answer false:
`BatchAnswerIsTrue` is checked without that, and `DuplicatesAreBounded` is what remains.

Some properties bound a hazard rather than rule it out: `CleanExitCounts` (the
counter holds 1 + 2 + ..., as `agent_test.go` expects), `FilesNeverPanic` (flags and
environment may still make the ticker panic), `PooledIsClean` (arrays in arrays),
`UseStopsGeneration` and `SuccessIsCurrent` (the file of a package that lost its marks stays).

## 7. Plan

1. *Done*: `Reporter`, `MetricsAgent` and its proofs; `DurableStore`,
   `MetricsServer`; `AuditManager`; `PostgresStorage`.
2. *Done*: `Delivery` and its proofs; `Configuration`, `Exchange`; `ResetCode`,
   `ResetGenerator`; reads in `MetricsServer`.
3. *Done*: proofs of all safety properties of `MetricsAgent`, `Delivery`,
   `MetricsServer`, `PostgresStorage`, `AuditManager`, `Configuration`, `Exchange` and
   `ResetCommand`, and of both refinements.
4. *Done*: `ResetCode` without recursive operators, and with it the proofs of
   `PooledIsClean` and that `ResetGenerator` implements `ResetCommand`.
5. Left: that a reset panics on some object whenever an array strays; how long `lock` of
   `PostgresStorage` can be waited for, as a well-founded order of
   the transactions that would replace the strong fairness there.
