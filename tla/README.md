# A TLA+ model of the GLIDE Rust client

This directory holds TLA+ modules that model the parts of the client with behaviour of their own,
the TLC configurations that check them on small instances, and TLAPS proofs of their main
properties for every instance. `PROJECT.json` lists the runs, the source lines behind each
definition, the hazards the properties are aimed at, and the theorems. Paths below are relative to
the crate's `src/` directory.

## 1. Inventory

The crate is a thin layer over `glide-core` (connections, routing, reconnection, request timeouts)
and the `redis` crate (commands, decoding). Both are external here: they are modelled only by what
the crate relies on.

| Component | State | Operations | Interacts with | What is hard | What makes it correct |
|---|---|---|---|---|---|
| Pub/Sub receive path (`client/mod.rs`) | an unbounded channel of pushes, its receiver in an async mutex shared by all clones | connect, `get_pubsub_message`, `try_get_pubsub_message` | the core sends pushes and may drop its sender | concurrent callers, a mutex held across an await, callers that give up, closing | each message to exactly one caller, in order; nothing lost on close or cancellation; nobody hangs |
| Scan iterators (`commands/scan.rs`, `scan*` in `commands/core.rs`) | page spec, cursor, current batch | `scan*`, `next_item`, blocking `next` | one page request at a time | a collection that changes between pages, failed, undecodable or abandoned pages, empty pages | nothing that stays is missed, no repeats, calls end |
| Script invocation (`script.rs`, `commands/scripting.rs`) | none in the client; the servers' script caches | `invoke`, `invoke_async`, `load`, `eval`, `evalsha`, `script_flush` | two commands, one after the other | caches that change in between, keys that move, requests executed late | at most one run, with the right KEYS and ARGV; NOSCRIPT stays hidden |
| Pipelines and transactions (`pipeline_options.rs`, `client/connection.rs`) | options; the watched keys of the shared connection | `execute_pipeline`, `query_glide`, `watch`, `unwatch` | all clones share one multiplexed connection | lost connections, retries, timeouts, aborted EXEC, WATCH shared by tasks | atomic and never repeated transactions, repeats only where allowed, replies that are true |
| Cluster scan (`client/mod.rs`) | cursor ids; state in the core's process-global container | `cluster_scan` | the container | unknown, finished, repeated or shared cursors; lost replies; state never removed | an id continues the scan it came from, every time; nothing missed or repeated |
| Configuration (`config/`) | builder fields | constructors, builders, `from_url`, `from_urls`, `to_request` | the core's connection request | conflicting URLs, orders of calls, saturating durations, partial credentials | what is configured is requested; conflicts are rejected in any order |
| Session (`client/mod.rs`, `commands/pubsub.rs`, `select`) | the request and password the core keeps; the push channel; the connection's database and subscriptions | `connect`, `update_connection_password`, (un)subscribe at run time, `select` | the core reconnects from its request | state of the connection that a reconnection resets, passwords that rotate, clones | every new session is as configured, with the password given last |
| Blocking clients (`sync/mod.rs`) | one process-wide runtime in a `OnceLock` | `block_on`, `run`, blocking commands | the async clients | first use by several threads, a build that panics, calls from inside a runtime | one runtime; no blocking of its own workers |
| Dispatch, routes, errors (`executor.rs`, `routes.rs`, `error.rs`) | none | send one command, convert a route, classify an error | the core chooses nodes | partial execution, lost answers, timeouts reported in several ways | executed where the route says; the result and the error class are true |
| Stream commands (`commands/stream.rs`, `value.rs`) | none in the client; the group's pending entries | every X command, its options and decoder | replies in RESP2 or RESP3 shape, old and new servers | two encodings of one value, lost replies, sweeps over several pages, deleted entries | a call means what it says; nothing delivered is lost; sweeps are complete |
| Other command encoders, telemetry, crate root | none of their own | one command or call each | the core | little | argument order |

## 2. Plan

Modelled and proved about, each with its `*_proofs` module: `Push`/`PubSub`/`PushStream`, `ScanIter`,
`ScriptInvoke`, `Pipeline`, `ClusterScan`, `Config`/`Session`, `Calls` and
`StreamCodec`/`StreamServer`/`Streams`.

Next, in this order:

1. Action properties of the modules proved about, in the manner of `EntriesAreFixed` and
   `OnlyTimeoutsRunLate`: what a failed call may never change in `Session` and `Calls`.
2. Of the remaining commands, those with several reply shapes (`ZRANGE`/`ZMPOP` with scores, `GEOSEARCH`),
   as operators in the manner of `StreamCodec`.

Abstract specification: `PushStream`, the receive path as one ordered stream. `ScanIter` and
`ClusterScan` could share one, a set enumeration; their invariants state its guarantees directly.

## 3. Modules

**`Push`** is the conversion of a push into a message. Values keep a tag, so that string replies
(bytes kept) and others (Debug-formatted) differ; an option is a set of at most one element.

**`PubSub`** is `make_push_channel`, `pubsub_rx`, `recv_pubsub_message` and
`try_recv_pubsub_message`, with the callers that use them. `lockQ` is tokio's mutex: its holder
first, then the waiters in order (tokio documents it as FIFO). A call is `Lock`, `Acquire`, then
`Receive`, or `Skip` and again, or `FoundClosed`, or, for a try, `FoundEmpty`. `Cancel` drops a
call at either of its await points. Taking a push and returning it is one action because the code
has no await between the two. `sent` and `delivered` are history.

**`PushStream`** says what the receive path promises: a log that grows until it is closed, of which
each next message is handed out, once and in order. The mutex, the loops, cancellation and the
channel are hidden by the refinement `log <- sent, closed <- ~open`.

**`ScanIter`** is the iterator and a server whose table has buckets: a page covers some buckets
from the cursor on. The command words are built by `PageSpec` and `to_cmd` as in the code, and the
server understands only well-formed ones. `PageFails` is `.ok()?`: None, with nothing assigned.
Rehashing of the table while it is scanned, which may repeat items, is not modelled.

**`ScriptInvoke`** is EVALSHA, then EVAL on NOSCRIPT, with the raw commands beside it. A key may
write several words (`KeyWords`), which `Script` counts after writing them and the raw commands
before; words are opaque members of `Word`. Nodes' caches are loaded and flushed at any time and the keys may move to another node. A
request whose caller gave up may still be executed (`Fail` with `lost = FALSE`).

**`Pipeline`** is `run_pipeline` and `dispatch_pipeline` with the shape each gives to a reply, over
one connection shared by all tasks. `Request` is what each entry point asks of the core: a
transaction takes no retry flags, and `query_glide` raises errors and never retries. The core
resends a whole pipeline on a fault its flag allows, and a lost connection takes its WATCHed keys
with it. The model is of a standalone deployment; a cluster splits a pipeline over its nodes.

**`ClusterScan`** is `cluster_scan` over the core's container, which maps an id to the slots left.
A call is `Start` (new cursor), `Continue` (the id is looked up) or `Unknown` (an error), then
`Reply` or `Fails`; a call may fail after the core has scanned. Callers repeat calls, take over each
other's cursors and keep their ids across a `Restart` of the process. A slot stands for the core's
unit of progress. `returned` and `stable` are history.

**`Config`** holds the conversions of `config/` as operators: the two constructors, the builder
methods (`Set`), URLs (`from_url`, `from_urls`) and `to_request`. What the fork's URL parser
returns is a constant. Durations are microseconds, so that cutting to milliseconds can be seen. An
Option is a sequence of at most one item (`IsOption`). Every setting of a configuration reaches the
request under a name of its own, the four fields of the IAM configuration and the parts of the retry
strategy included.

**`Session`** extends `Config`: a configuration is made and changed (`FromUrl`, `FromUrls`,
`WithAddress`, `Call`), lowered and opened (`Connect`), and the core loses and reopens the session
from the request it was given, with the password it stores. `session.touched` marks a session that
run-time commands have changed, `session.current` one opened or authenticated with the last
password. That the core restores configured subscriptions and not those made at run time is what
`commands/pubsub.rs:31` says of it.

**`Calls`** is one call of any client. A blocking one goes through `get_or_init` (with `BuildOk`
or `BuildFails`) and `block_on`; then it, like an async one, is routed, sent and answered. A caller
has a stack of calls, because the closure of `run()`, which is evaluated before `block_on`, or its
future, which is polled inside, may call a blocking client again; the future may do so before its
own command is sent, while that is under way or after it is answered (`CallInside`). `InAsync` is
tokio's rule: a thread that a runtime is polling may not block, and panics. A panic unwinds the whole
stack and keeps a record of the calls it unwinds. A task that blocks would keep its worker
(`Holds`), and answers need a free one (`WorkerFree`). `Routing` is the route of the call or, without
one, the core's: the primary of the key or, for a read of a client whose `read_from` is not
`Primary`, any node that has the key. What ends a call is named for its `ErrorKind`: before
anything is sent (`NotSent`, or no node known), when the request is given up and may have run or may
yet run on none, some or all of its nodes (`Losses`, with the kinds that reach the `_` arm of
`from_redis_error`), when nodes answer without executing it (`Refused`: a node that loads, or a
MOVED to a node without a connection, which `tests/common/cluster.rs:388` describes), and when they
answer. The kinds are external; which of them the `redis` fork really makes is not visible in this
repository, so the model allows those that the code or the tests make plausible.

**`StreamCodec`** holds what each typed stream method sends (`xadd` .. `xgroup_set_id`, with the
options) and how it decodes a reply (`parse_*`, `collect_strings`, the conversions of `value.rs`). A
command (`Command`) is a sequence of items: its name (a subcommand is joined to it by an
underscore), positional arguments, and options grouped with their values, in the order they are
written; values keep their RESP tag. Filtering, flattening and pairing are written as functions of
the index, without recursion. An item of another shape is dropped where the code drops it; one that
has the shape and cannot be converted fails the whole reply, as `?` does (`TryEach`).

**`StreamServer`** is external: how a server reads such a command (`Parse`: options stand together
at the command's place for them, else it is a syntax error; arguments are bound by position and
options by keyword), what it does (`Serve`) and the shape of its reply (`AsValue`), in RESP2 and
RESP3, of an old server (XAUTOCLAIM with two items and Nil for deleted entries) and a new one.

**`Streams`** composes the two with consumers of one group that add, read, claim, acknowledge,
delete and sweep. `StreamRequest` is the set of all requests, a set of records for each method with
the types of its arguments: lists of any length, numbers of any size, every option present or
absent. XADD takes the id `*` only, XREADGROUP one stream, and `idle_unix_time` is left out, as time
is only recent or past. In `Exchange` the command is served and its reply arrives or is lost. `settled`
is history: the entries whose content arrived somewhere, or for which the guarantee was waived
(NOACK, a deleted consumer, an id set by hand).

Operators introduced as *mutants* are variants with a plausible bug. No specification uses them:
each replaces a definition to show that a property can fail.

## 4. Runs

| Run | Instance | Shows |
|---|---|---|
| `pubsub` | 3 callers, 4 push shapes, 2 pushes | one consumer at a time, exactly-once in order, closed means drained, None means no message, refinement of `PushStream`; a waiting get is served and closing releases every call |
| `pubsub_try` (violation) | 2 callers, 1 push | a try behind a parked get blocks |
| `scan` | 4 items in 3 buckets, 2 match, 1 does not decode | nothing missed, no repeats, calls end |
| `scan_end` (violation) | the same | None after a failed page is not the end |
| `script` | 2 invocations, 2 nodes, 1 script, plain and two-word keys | at most one run, right keys, NOSCRIPT hidden, invocations end |
| `script_own_error` (violation) | 1 invocation, 1 node | a script answering NOSCRIPT itself is run twice |
| `pipeline` | 2 tasks, 1 key, 16 calls, 2 faults | atomic transactions, repeats only if allowed, truthful replies, errors raised or inline |
| `pipeline_watch` (violation) | 2 tasks, 2 keys, no faults | another task's EXEC drops a WATCH |
| `cluster_scan` | 2 callers, 2 keys, 3 slots, 2 ids | nothing missed, nothing twice or unasked, ids stay usable |
| `session` | 12 URLs, up to 3 of them, every builder method, 3 passwords | conflicts rejected in any order, the request is as asked, every session as configured, the last password is used |
| `calls` | 2 threads and a task, 1 worker, 2 primaries and a replica, every route, reads from primaries and from replicas, 1 failed build | one runtime, after a panic it is known what may be repeated, truthful outcomes, calls end |
| `streams` | 2 consumers, 2 entries, old and new servers, all methods | calls mean what they say, nothing delivered is lost, sweeps are complete |

**Bounds.** `MaxSent` bounds the pushes of a behaviour: two are enough for a message behind a
confirmation, with three callers so that one can be overtaken by another while a third holds the
mutex. `Buckets = 3` gives a first, a middle and a last page, pages of every width, one bucket of
two items and, with MATCH, an empty page. `MaxFaults = 2` gives one fault of each kind, or a retry
that fails again. Two tasks suffice for one to disturb the other's connection state. Three slots and
two ids give a cluster scan a first, a middle and a last page, or a page whose reply is lost and
that is asked for again. Three URLs let a conflict be in the second or the third; two builder calls
show that the order does not matter and that the last one wins; `MaxU32 = 4` scales u32::MAX down so
that timeouts lie below, at and above it. One worker is the tightest runtime: a blocked one is then
all of them. `MaxBuildFailures = 1` lets a build fail while the other callers wait for it and one of
them build it then. Two entries and COUNT 1 make every sweep one of two pages or more. `pipeline` and
`cluster_scan` use the symmetry of their callers; runs with liveness use none.

**Deadlock** is checked in every run but those of `Pipeline`, where each task makes one call, so
that behaviours may stop.

**Fairness.** `PubSub`: weak fairness of each caller's own steps (a woken task is polled; the mutex
hands itself to its first waiter); nothing obliges the core to send or anyone to call. `ScanIter`
and `ScriptInvoke`: weak fairness of a call's own steps and of the server's answer, which the core's
request timeout bounds (a timeout is one of the answers).
`Calls`: weak fairness of a caller's own steps, and strong fairness of the request timeout, which
fires on a worker: a worker that is free again and again between tasks sees to the timers.
`Pipeline`, `ClusterScan`, `Session` and `Streams` are checked for safety only.

**Findings.** The four violation runs show where the code does not do what its comments say: a
"without blocking" call that blocks (`client/mod.rs:248`), an iteration that a failed page does not
end (`commands/scan.rs:21`), a fallback taken for an error of the script's own (`script.rs:17`), and
a `watch` that does not survive other tasks of the same client (`commands/generic.rs:243`).

**Observations** that no run is about. `GlideError::Closing` is declared and never made (`TypeOK` of
`Calls` would fail if it were). `GlideError::Request` is documented as an error the server returned
(`error.rs:42`), and is also the class of errors found before anything is sent, such as a route that
names no known node, of replies that do not decode, and of unanswered requests whose kind the match
has no arm for (`error.rs:96`): it does not mean that a server answered, and no class but
`CircuitBreaker`, `Configuration` and `ExecAbort` says by itself what happened to the command.
`ConnectionNotFoundForRoute` may be raised before anything is sent or after a MOVED
(`tests/common/cluster.rs:388`), in both cases without an execution. The comments on `BackoffStrategy`
(`config/common.rs:356-359`) call `factor` "the exponent base" and `exponent_base` "the multiplier",
the reverse of their names; the conversion to the core's strategy passes each on under its own name, which is all that
`RequestAsAsked` says, so that a caller who goes by the comments gets the two exchanged if the core
goes by the names. A timeout below a millisecond is sent
to the core as 0 (`config/common.rs:494`). A pipeline routed to several nodes has no response policy,
since that comes from a command's name. Nothing ends a cluster scan before its last page, so an
abandoned one keeps its entry; `CursorStaysValid` is why it may not simply be removed.

## 5. Proofs

**`PubSub_proofs`**, for any set of callers, any set of pushes that meets `PushAssumption`, and any
`MaxSent`. None of the invariants is inductive alone. The inductive invariant `IInv` joins
`TypeOK`, `SingleConsumer`, `ChannelIsUntaken` (the channel is the untaken end of `sent`, so that a
taken push has a position), `ExactlyOnceInOrder` and `ClosedIsFinal` (a caller was told "closed" only
when the channel was empty and its sender gone, which stays so). Each action has its lemma. From
`IInv` follow `TypeCorrect`, `MutexSafe`, `DeliverySafe`, `ClosedSafe`, the action property
`NoneSafe`, and `Refinement`: every step is a `Publish`, a `HandOut`, a `Shut` or a stutter of
`PushStream`.

**`ScanIter_proofs`**, for any collection, number of buckets and assignment of items to them
(`ScanAssumption`). `IInv` joins `TypeOK`, `NothingMissed`, `NoRepeat` and `Support`, which ties the
batch and what was returned to buckets before the cursor and an unfinished `New` to an iterator that
has returned nothing. From it follow `TypeCorrect`, `ScanComplete` and `ScanOnce`.

**`ScriptInvoke_proofs`**, for any invocations, nodes, scripts and parameters (`ScriptAssumption`: a
script answers a value, an error or, of its own, a NOSCRIPT; keys and arguments are sequences of
words). That no script runs twice does not follow from itself: `IInv` adds what is on the wire at each
step (`WireInv`), that a request under way is a run still to come (`CountInv`), that a NOSCRIPT means
that nothing ran (`PlainInv`) and that an outcome is the reply received (`OutInv`). `RunsTwiceAtMost`
holds whatever scripts answer. `RunsOnce`, `RepliesAreTrue` and `CacheIsHidden` assume
`PlainScripts`, that no script answers NOSCRIPT of its own; the run `script_own_error` shows that
they need it.

**`Pipeline_proofs`**, for any tasks, keys, jobs and number of faults (`PipelineAssumption`: the
types of the options). `IInv` relates, for each task, the counts of what ran to the batch on the
connection: replies are to the first commands in their order and each had its command run or is an
error (`BatchInv`), a transaction ran as a whole or not at all (`ExecInv`), and a command still
to be served has a run to spare in its `Budget` (`PendingInv`, without which the bound on retries is
not inductive). From it follow `TransactionsAtomic`, `RetriesAllowed`, `ResultsAreTrue` and
`ErrorsAreRaised`. The action property `OnlyTimeoutsRunLate` needs one more invariant, `LeftBehind`: a
batch is still on the connection after its call only if that timed out. Proving these showed that the branches of `Returned` overlapped for a reply
that is an error, where the code returns before it looks at the entry point; they are an IF now.

**`ClusterScan_proofs`**, for any callers, keys, slots, filters and number of ids
(`ClusterScanAssumption`). `IInv` adds to the properties that what a caller was given lies behind its
cursor (`BehindInv`: why no key comes twice) and that a call in flight scans what lies ahead of it
(`FlightInv`: why none is missed when the reply is lost). They hold because entries of the container
are never changed: `EntriesAreFixed` states that as an action property, with `Restart` as the one
step that drops entries. From `IInv` follow `ScanComplete`, `ScanOnce` and `CursorsValid`.

**`Calls_proofs`**, for any threads, tasks, workers, nodes, slots, policies and failed builds.
`CallsAssumption` is about the cluster (slots are owned by primaries, of which there is one at
least); `RouteAssumption` has the types of calls and their routes; `InnerAssumption` says that the
call made from a closure or a future is a blocking one without a closure of its own: nesting is two
deep. Kinds of errors are those of `Losses`, `Refusals` and `NotSent`. The invariant says of each call on a stack that it is `Good` (nothing is out before it is
sent, then what has run and what still may are one choice of the core for its route), of each
stack that only its innermost call is under way and the calls around it wait in a closure or a
future, of which only the latter may have sent (`Nested`), and that no blocking call is past
`runtime()` without a runtime (`Past`), and that at most one caller builds one (`BuildsOK`). The
lemma `Chosen` compares the nodes the core chooses with those the route names. From it follow
`RuntimeIsOne`, `PanicIsClean` (which states `RepeatableAfterPanic`) and `OutcomesAreTrue`.

**`Session_proofs`**, for any URLs, builder arguments, passwords and channels, any number of URLs
and calls and any `MaxU32`. `SettingAssumption` and `UrlAssumption` are the Rust types of the
builders' arguments and of the URL parser's results. `IInv` follows a setting on its way: the
configuration has what was asked last, else what the URL said, else the default, which for
`read_from` and the periodic checks no URL changes (`CfgOK`), the
request is the configuration lowered, and the session, the client's database and the stored
password are those of the request and of the last update (`SessionOK`). `UrlsAgree` is inductive with
these because `FromUrlsOk` proves that comparing every URL with the first, as the code does, is the
same as comparing all with each other. `CollectsNext` counts the certificates. From `IInv` follow
`UrlsAreChecked`, `RequestsAreAsAsked`, `SessionsAreAsConfigured`, `PasswordsAreShared` and
`TypeCorrect`, which has the 32 bits of a timeout by `MillisIs`.

**`Streams_proofs`**, for any consumers, any requests of `StreamRequest` and any `MaxId` and
`MaxDeliveries` (`StreamsAssumption`). It has three parts.

1. Codec. For each method, what the server parses from the encoded command is the request
   (a lemma for each, from `MeansLen` to `MeansAddOptions`, from others on where options and arguments stand in a
   `Command`), and what the method decodes from a reply is what the server answered (`EntriesDecoded`,
   `StreamsDecoded`, `AutoclaimDecoded`, ..., for sequences of any length, both encodings, both kinds
   of server). Lengths are no obstacle because every operator is a function of the index: two
   sequences are equal when they are equal at each, so no induction is needed.
2. Server. For each command, `Effect`: the answer is decoded, the server keeps its type, and nothing
   is lost but what the request waived. `Served` joins the two parts for one request, and `ServedAll`
   has it for all of `StreamRequest`.
3. Steps. `NothingLost` is not inductive, because XSETID may set the next id back to or below the
   group's last one: an entry added afterwards is one the group is already past. `Accounted` therefore
   adds that the ids not yet given out that the group is past are settled, and that no entry has such
   an id. `SweepIsComplete` speaks of ended sweeps only; `Swept` adds what holds of one under way:
   each target is claimed already, or is still idle and not before the cursor. A page whose reply is
   lost leaves the cursor where it was, so that the page is asked for again, and `PageServed` says
   that one that arrives moves it past claimed entries only.

From `IInv` follow `TypeCorrect`, `CallsAreTyped`, `NothingIsLost` and `SweepsAreComplete`.

In every module `TypeCorrect` is proved from the same invariant, and `Inductive` is its theorem.

**Only model-checked:** everything under fairness (`WaitingGetIsServed`, `CloseReleasesCallers`,
both `CallsEnd`, `InvocationsEnd`), which is beyond the prover. The four violation runs are
counterexamples and have no theorem.

## 6. Not modelled

The typed encoders other than those of streams, scans, scripts, run-time subscriptions, `select`,
`watch` and `unwatch` write the words of one command and decode one reply; they have no state and no
order of steps, and a model would only repeat their words. Telemetry forwards to the core's
process-global one. Of the modelled components: wall-clock values of timeouts (a timeout may fire at
any moment), the growth of the unbounded channel, SHA-1 collisions, `.ignore()` markers (decoded by
the `redis` crate), pipelines split over the nodes of a cluster, slot migration during a cluster scan
(the core's task), text of messages and errors, and the redacting `Debug` implementations.
