# TLA+ models of the Aviary auction server

These modules model the concurrent core of the Aviary server (`src/`). Aviary runs
untrusted JavaScript bidding and scoring functions and runs auctions over them. TLC
checks each module. `PROJECT.json` lists every run, mutant, mapping to source lines,
finding and hazard.

## 1. The system and its parts

| Part | Source | State it keeps | Operations |
|---|---|---|---|
| Auction service `AdAuctionsImpl` | `server/ad_auctions.cc`, `.h` | `function_repository_` (a `unique_ptr`) behind `function_repository_mutex_` (`absl::Mutex`); the refresher handle | `ComputeBid`, `RunAdAuction`, `RunGenerateBidFunction`, `RunScoreAdFunction`, `Create`, `RefreshFunctionRepository` |
| Function repository | `server/function_repository.cc` | two immutable maps from uri to function, where `nullptr` marks a function whose Create failed | `GetBiddingFunction`, `GetAdScoringFunction` |
| Function source | `server/function_source.h`; the implementation is the C++ appended to `proto/proto_descriptor.bzl` (lines 38-137) | none | `GetFunctionCode(spec)`: the script of a uri, read locally or fetched with an HTTP GET (`TranslateResponse` maps the status) |
| Periodic refresher | `util/periodic_function.cc` | a thread and an exit `Notification` | wait the first delay, then run, wait the interval, run again; the destructor notifies and joins |
| In-process engine `BiddingFunction` | `function/bidding_function.cc` | a V8 isolate, a snapshot of the warmed-up function | `Create` (compile, look up, 10 warmups, snapshot), `BatchInvoke` (under `v8::Locker`, one context per batch), `WaitForPromise` |
| SAPI function `SapiBiddingFunction` | `function/sapi_bidding_function.cc`, header `unnamed/part_006` | one sandbox (a child process) with a comms channel and a wall-time limit | `Create` (Init, 5 s limit, kCompile exchange, disarm), `BatchInvoke` (1 s limit, kBatchExecute exchange, disarm) |
| Sandboxee | `sapi_bidding_function.cc` 256-355, `bidding_function_sapi_adapter.cc` | one compiled function per process (`function_type`) | `ServeRequest`: kCompile, kBatchExecute, kMsgExit |
| Unused port finder (tests) | `util/unused_port.cc` | `next_port_` behind a mutex | `FindUnusedPort` |
| Status encoding, macros | `unnamed/part_009`, `part_008` | none | `SaveStatusToProto`/`StatusFromProto` (called only by their tests); early returns |
| Server main, configuration loading | `unnamed/part_005`, `AdAuctionsImpl::Create`, `GetFunctionSourceCodes` | the listening port | read the file, fetch every source (duplicates refused), bind, serve |
| Server test environment `AviaryServer` | `server/ad_auctions.cc` 400-613 | the static file thread, the server process, the ports | start the static server, start the server, wait until ready, run RPCs, tear down |
| V8 init, build files | `v8/`, BUILD, bzl, Docker, protos | none after start-up | none |

How the parts interact:
- gRPC worker threads serve requests concurrently. Each call to a bidding or scoring
  function takes the repository reader lock, looks the function up, and invokes it
  while still holding the lock.
- The refresher thread rebuilds the whole repository without the lock. It fetches every
  source and creates every function; a function that fails becomes `nullptr`. It then
  swaps the new repository in under the writer lock, which destroys the old one and its
  functions (and ends their sandboxes).
- With `--use_sandbox2`, each function is a SAPI sandbox. Every request thread holding
  the reader lock may call `BatchInvoke` on the same sandbox at the same time.

What is hard here:
- **Lock interplay:** interleavings of requests and the refresh through the reader/writer
  lock.
- **Swap ordering:** the destroying swap against in-flight calls.
- **Writer preference:** whether absl's writer preference keeps the refresh from
  starving.
- **Sort and winner:** the unstable sort and the `> 0` winner rule.
- **Sandbox protocol:** a message protocol shared by concurrent callers.
- **Wall-time limit:** a single per-sandbox limit that each caller arms and disarms.
- **Killed sandbox:** a sandbox killed mid-call that is never recycled.
- **In-process engine:** it has no deadline, and a batch shares one context, so one
  input's globals leak into the next.
- **Refresher shutdown:** it must reach a thread that may be waiting or mid-refresh, and
  must join it before the owner's members go away.
- **Port probe:** it works on the byte-swapped port, and it releases the port it found
  free, so two calls can return the same port.
- **Test readiness:** the server test only learns that something on the gRPC port
  accepted a channel, and its TearDown can stop the static server before it serves.

What makes each part correct:
- **Auction service:**
  - no function is used after its repository is destroyed;
  - if every function call returns, every request returns and every refresh is
    eventually published;
  - the reply is ranked, holds each scored bid once, and the winner is strictly positive;
  - per the spec, one snapshot per request and a stable tie order.
- **SAPI function:**
  - each caller gets the outputs of its own inputs;
  - host and sandboxee stay in step;
  - a script never runs without an armed limit;
  - every call returns.
- **In-process engine:** `Create` and `BatchInvoke` give what spec 4.B's abstract
  engine gives.
- **Refresher:** its destruction finishes when the refresh returns, and it keeps
  refreshing while the server lives.
- **Port finder:** a returned port can be bound.
- **Configuration loader:** `Create` from a file returns what spec sections 3, 4.A and
  6 allow.
- **Server test:** the test binary ends.

## 2. Modules

The modules are listed in order of importance.

### `AdAuctions.tla`: request path and hot reload

It models the request path and hot reload in `ad_auctions.cc` and
`function_repository.cc`.

**State:**
- `repo` is `function_repository_`. Each uri maps to the source version of its function,
  or to `Unavailable` for `nullptr`.
- `gen` is the identity of the repository object.
- `readers` is the set of reader-lock holders.
- `refresher` is `"sleeping"` or `"locking"`, and `candidate` is the repository it built.
- Each thread has `pc`, `task`, `next` (the interest-group index), `fn` (the generation
  and version of the function it is inside), `bid`, `scored` (`scored_bids`), `seen` (the
  generations it has read) and `resp`.

**Actions:**
- `StartComputeBid`, `ComputeBidLookup`, `ComputeBidReturn` model `ComputeBid`.
- `StartAuction`, `SkipDisallowedOwner`, `BidLookup`/`BidReturn`,
  `ScoreLookup`/`ScoreReturn` and `FinishAuction` model `RunAdAuction`. A lookup action
  is the locked lookup; the matching return is `BatchInvoke` coming back and the lock
  released.
- `Reply` sends the reply.
- `RefreshBuild` models `CreateFunctionRepository`: any subset of the flaky functions
  fails.
- `Publish` models the writer lock and the swap.
- `EditSource` changes a remote script: what a later fetch of the same uri returns. It
  is environment (the remote server), taken from spec 4.A.

**Data:**
- A bid and a score are small integers computed from the function version (`BidOf`,
  `ScoreOf`).
- The sort is every permutation that `IsSorted` by score, which is exactly what
  `std::sort` promises.

### `SapiFunction.tla`: one sandboxed function

It models the host side (`Create`, `BatchInvoke`, `BatchExecute`, `CompileFunction`) and
the sandboxee (`ServeRequest`, `DoCompileFunction`, `BatchExecuteFunction`).

**State:**
- `toBox` and `toHost` are ordered channels. `sandbox2::Comms` sends and receives one
  whole message under its own lock, so a message is the unit of interleaving.
- `alive` and `armed` hold the process and its wall-time limit.
- `box`, `boxFn`, `running` and `looping` are the sandboxee's state.
- `creator` is where `Create` is; each caller has `pc` and `result`.

**Actions:** one action per send, receive or `SetWallTimeLimit` of the code.
- `Kill` is the sandbox2 monitor ending an armed sandboxee.
- `PolicyKill` is seccomp ending the sandboxee on a syscall the policy of `ModifyPolicy`
  does not list. It can happen at any point of a compile or a run, armed or not. The
  host's receive then fails, and disarming the dead sandbox turns the result into
  UNAVAILABLE. No fairness is assumed for it, since it is a fault.
- `Replace` is the next refresh swapping in a new function once no caller is inside.

**Data:** a payload is abstracted to its owner: the caller whose inputs it carries, or
the creator for the spec.

### `ScriptEngine.tla` and `EngineSpec.tla`: the in-process engine

`ScriptEngine` models `BiddingFunction` in `bidding_function.cc`. This engine also runs
inside every sandboxee.

**The function:** a JavaScript function is the constant `Behave(g, x)`. It gives what a
call with input `x` does when the context's globals are `g`:
- the outcome: a value, a throw, a fulfilled, rejected or forever-pending promise, or a
  loop;
- whether the value has the output's JSON shape;
- the globals after the call.

`MC_ScriptEngine` defines it as a counter kept in a global, so a reused context is
visible in the outputs.

**State:**
- `cstate`, `cg` and `warm` are where `Create` is, the construction context's globals,
  and the warmups done.
- `snap` is the snapshot's globals.
- `locker` is the `v8::Locker`.
- Each caller has `pc`, `batch`, `i`, `ctx`, `outs` and `result`.

A script is a record: whether it compiles, runs and exports a function, and `vm`,
which says whether V8 refuses it: `"oversized"` (`NewFromUtf8` of the source fails,
INTERNAL) or `"readonly"` (its top-level code made the internal global read-only, so
`SetFunctionValue` fails, INTERNAL). A call's result also says whether its value has
a JSON form: `JSON::Stringify` of one that has none (a cycle, a BigInt) is INTERNAL in
`ConvertOutput`.

**Actions:**
- `CreateCompile`, `CreateRun`, `CreateLookup`, `CreateWarmUp` (×10, errors ignored but
  effects kept) and `CreateSnapshot` are the steps of `Create`. Each early return is
  `CreateFail(code)`. `cstatus` is the status `Create` returned. A compile or top-level
  failure (`ToLocalTryCatch`) and a missing function are INVALID_ARGUMENT.
- `Begin`, `Lock` (the locker, and one context from the snapshot), `InvokeInput` (build
  the arguments, invoke, wait for the promise, convert; the first failure releases and
  returns) and
  `FinishBatch` are `BatchInvoke`.
- `Replace` is the next refresh.

**Arguments:** `BuildArguments(x)` models `InvokeFunctionOnce`'s argument building. The
constant `Fields(x)` gives the input's top-level fields in declaration order, each with
its type and whether it has a JSON form.
- With `Flatten` (the server sets `flatten_function_arguments`), `FlattenedArguments`
  walks the fields in order and returns at the first failure. `FieldArgument` is the
  switch on the type: a map (`GetMapArgument`) or a message goes through
  `ConvertArgument` (MessageToJsonString then JSON parse), a double is a number, and any
  other type is FAILED_PRECONDITION.
- Without it the whole input is converted once.
- A failure returns INTERNAL before the function is called, so the context's globals
  are unchanged. `CreateWarmUp` builds the empty input's arguments the same way.

**Abstract spec:** `EngineSpec` is what spec section 4.B promises.
- `Create` is one step whose result is `CreateResult(script)`, kept in `created`, to which
  `cstatus` maps. `RECURSIVE WarmState`
  gives the globals after the 10 warmups.
- A batch is one step whose result is `RECURSIVE BatchResult(snap, batch)`: every input
  on a fresh copy of the snapshot, with the first failure winning.
- `ArgumentStatus(x)` is spec 4.B step 2: flattened mode accepts message, map and double
  fields only. The spec names no kind for a value with no JSON form, so it is taken as
  INTERNAL (section 7).

`ScriptEngine` maps onto `EngineSpec` through `FnState`, `cstatus` and `inside`. The runs
check `Abstract!SafetySpec` and `Abstract!Spec` as properties. `Returns(b)` says which
calls come back: every one but a loop, since `WaitForPromise` gives up on a pending
promise when the async wait elapses.

### `PeriodicFunction.tla`: the refresher thread and its test double

It models `periodic_function.cc` and `test_periodic_function.cc`.

**State:**
- Each object has `kind` (the factory that made it), `thread` (`delay`, `run`,
  `interval` or `exited`), `notified` (the sticky `absl::Notification`) and `owner`
  (`unborn`, `serving`, `joining` or `destroyed`). The owner's members are destroyed
  right after the join.
- `instances` is the container's vector of raw pointers, and `sweep` is
  `InvokeAllNow`'s position in it.
- A finite duration may time out at any step. An infinite one (the test factory) ends
  only by notification.

**Actions:**
- `FirstDelay`, `RunReturns` and `IntervalEnds` are the thread body. `WaitStep` is
  the two timed waits; `RunReturns` is `function_` coming back.
- `Construct` is a factory call.
- `Notify` and `Join` are the destructor.
- `InvokeAllNow` and `InvokeNowReturns` are the container's loop.

The test thread does one of these at a time.

### `UnusedPort.tla`: the test port finder

It models `FindUnusedPort` as the server test calls it: sequential calls, each returned
port then bound by a server of the test (`Use`).

**The probe:** `IsPortAvailable` binds `ByteSwap16(port)`. This is `sin_port` without
`htons` on a little-endian host, computed on the 16-bit value.
- A port below 1024 binds only when the process is root.
- `taken` holds the ports of other processes.

**Actions:** `Start` reads the port range file (ResourceExhausted when it cannot)
and `next_port_`. `Probe` is one loop iteration with its wrap; its socket or
`setsockopt` may fail (out of descriptors), which counts as a busy port. `GiveUp` is
the ResourceExhausted return after `kMaxTries`.

On its own, the module is checked only for the `htons` failure (`unused_port_htons`).
Its actions also run inside `ServerHarness`. There, the loop bound is part of
`TestBinaryEnds`, and the off-by-one that lets `next_port_` reach the first
ephemeral port is reachable (the gRPC server may get 1030). So is a second call
returning the first call's port, when its tries wrap round before the static thread
has bound it.

### `ServerHarness.tla`: the server, its configuration loader and its test environment

It composes `UnusedPort` (by `EXTENDS`) with three actors of the integration test
(`ad_auctions.cc` 400-613) and the server's start-up (`unnamed/part_005`).

**Test thread (`main`):**
- `FindPort` is `UnusedPort`'s `Start`, `Probe` and `GiveUp`. `ValueOfError` is the
  test's reaction to ResourceExhausted.
- `StartStaticResourcesServer` starts the file thread. `StaticReady` and
  `StaticWaitTimesOut` are the two ends of the 5 s wait (a timeout is a fatal failure,
  so gtest skips the tests).
- `StartGrpcServer` launches the process. `TryConnect` is one of the `MaxRetries`
  `WaitForConnected` calls of `WaitUntilServerIsReady`, and its last failure fails the
  `ABSL_ASSERT`. `ConnectOutcomes` says when a call succeeds: surely once the server
  process listens, never with nobody listening, and either way against another
  listener on the port (another process, or the static server). Whether a gRPC channel
  gets READY against a peer that is not a gRPC server depends on the gRPC version,
  which the repository does not pin.
- `SendRpc` is one test RPC: served by the server, answered by another listener
  (`"foreign"`), or UNAVAILABLE.
- `StopGrpcServer`, `StopStaticResourcesServer` and `JoinStaticThread` are `TearDown`.
  httplib's `stop()` closes the socket only once the accept loop runs.

**Static file thread (`sthread`):** `StaticBind` (its result is ignored),
`StaticNotify`, `StaticListen` and `StaticStopped`.

**Server process (`proc`):** `ProcInit` is `main`. `ProcCreate` is
`AdAuctionsImpl::Create` from the test's configuration. Its remote fetch is answered
by the static server once its accept loop runs, by whatever holds that port, or gets
no reply (connection refused, or httplib's 5 s read timeout while the connection waits
in the backlog), as `RemoteAnswers` says. `ProcBind` is `AddListeningPort`, and a zero bound port exits.

**Configuration loading:** `Decode` is the YAML conversion of one entry: a non-map,
an empty uri, or a uri or source that is not a string all end in a
`RepresentationException`. `FoldSourceCodes` is `GetFunctionSourceCodes`' loop. It
stops at the first fetch error and refuses a uri seen before. `CreateFromFile` is
`Create`'s sequence: missing file, unparsable file, bidding functions, then scoring
functions. `GetFunctionCode` and `TranslateResponse` are modelled from their code in
`proto/proto_descriptor.bzl`: a uri `url_re` does not match, or one without a scheme,
is INVALID_ARGUMENT; a `local` uri returns its source or INVALID_ARGUMENT; any other
scheme is fetched and its inline source ignored; no reply is INTERNAL, and a status
maps 200/400/401-403/404/other to OK, INVALID_ARGUMENT, PERMISSION_DENIED, NOT_FOUND
and INTERNAL. The spec side of the check (`SpecWellFormed`, `SpecFetch`,
`SpecSource`, `SpecOutcomes`) is written from spec sections 3, 4.A and 6 alone and
shares no operator with the code side.

## 3. Runs

| Run | Cfg | Expect | What it shows |
|---|---|---|---|
| `adauctions` | `MC_AdAuctions.cfg` | pass | 2 threads and the refresher. `NoUseAfterFree`: no `BatchInvoke` runs on a destroyed repository. `AuctionResponseRanked`: losers are sorted, a winner is strictly positive and at least every loser, and with no winner nothing is positive. `ResponseHoldsEachScoredBidOnce`: the reply is the multiset of scored bids, all from allowed buyers. `RequestsComplete` and `RefreshPublished`: if every `BatchInvoke` returns (`InvocationsReturn`, the hypothesis of both), every request gets its reply and a waiting refresh is published. |
| `adauctions_snapshot` | `MC_AdAuctions_snapshot.cfg` | violation | `SingleSnapshotPerRequest` fails: one auction reads generations 1 and 2. |
| `sapi_single_caller` | `MC_SapiFunction.cfg` | pass | One caller, scripts that may loop forever. `ProtocolInSync`, `DeadlineArmedWhileBusy` and `CallsReturn` hold. |
| `sapi_crossed` | `MC_SapiFunction_crossed.cfg` | violation | Two callers: `ResponsesMatchCaller` fails, and a caller receives the other's outputs. |
| `sapi_deadline` | `MC_SapiFunction_deadline.cfg` | violation | Two callers: `CallsReturn` fails, because one caller disarms the limit while the other's script loops. |
| `engine_safety` | `MC_ScriptEngine.cfg` | pass | Two callers with single-input batches (as the server makes them) of every outcome kind, an input whose map field has no JSON form, an output with none, and the scripts V8 refuses. `ScriptEngine` implements `EngineSpec`'s safety part. |
| `engine_context` | `MC_ScriptEngine_context.cfg` | violation | A batch of two inputs returns `<<1, 2>>` where fresh contexts give `<<1, 1>>`. |
| `engine_no_deadline` | `MC_ScriptEngine_deadline.cfg` | violation | A looping script: the batch never returns, because there is no deadline in-process. |
| `periodic` | `MC_PeriodicFunction.cfg` | pass | Two objects from either factory. `DestructionCompletes`: if every `function_` call on a reload thread returns, a destructor's join returns. `RefreshRecurs`: a live server object's refresh keeps coming back. |
| `unused_port_htons` | `MC_UnusedPort_htons.cfg` | violation | As root with 1024 held by another process, the probe binds port 4, and 1024 is returned and fails to bind. |
| `harness` | `MC_ServerHarness.cfg` | pass | The server test environment: the static file thread, the server process and the test thread. `TestBinaryEnds`: unless something other than the server process listens on the gRPC port (`OtherGrpcListener`), the test binary ends, by finishing or by the readiness assert. Without that hypothesis TLC finds the join hanging (section 5). |
| `harness_config` | `MC_ServerHarness_config.cfg` | violation | `ConfigurationLoadMatchesSpec` fails: an entry with an http uri and an inline source loads, where spec sections 3 and 6 forbid the source. Run with that one entry left out of `Entries`, the check passes over the whole state space: every other file and reply loads as the spec says. |

Each passing property has a mutant in `PROJECT.json`, a plausible bug in the mapped code
that TLC catches:
- the writer not waiting for readers (`NoUseAfterFree`);
- a zero score allowed to win;
- the winner also kept among the losers;
- the reader lock leaked on a bidder error;
- a reader-preferring lock;
- a lookup without the `nullptr` check;
- outputs sent after an error status;
- `Create` or `BatchInvoke` without the wall-time limit;
- an OK status treated as an error;
- a pending promise read as a value;
- a context kept from the previous batch;
- the destructor joining before it notifies;
- the loop condition inverted;
- an off-by-one in `InvokeAllNow`;
- a readiness wait without a retry bound.

### Bounds and why they suffice

**`MC_AdAuctions`:**
- **Threads and uris:** two threads, two bidders `b1, b2` and one scorer `s1`. `b2` and
  `s1` are remote (their script may be edited), and `b2` is flaky (its Create may fail).
- **Versions and generations:** at most 2 source versions and 2 repository generations
  in the `adauctions` run, so a swap can happen while a request is in flight. The
  snapshot run uses 3 generations.
- **Auction A1:** three interest groups. `o3` is not a buyer, so its group is filtered
  out. Two of the groups can score equal, which exercises ties in the sort.
- **Auction A2:** an unknown bidder (`u0`, NOT_FOUND, skipped) and an unknown scorer
  (NOT_FOUND, which fails the auction).
- **Scores:** `ScoreOf = v*b - 1` gives scores of 0, 1 and 3, which covers the `> 0`
  boundary.
- **Symmetry:** the threads are symmetric in the violation runs.
- **One run:** safety and liveness are checked together. To keep the temporal check
  within minutes, only `s1` is remote (editable) in this run, `MaxVersion = 2` and
  `MaxGen = 2` (one swap, which can happen while a request is in flight), and no
  symmetry is used (TLC does not combine symmetry with liveness soundly). The lock
  interplay is unchanged.

**`MC_SapiFunction`:**
- One caller for the passing run, two for the violations.
- `Loops = BOOLEAN`, so each compile or batch may run forever.
- The state space is finite without counters, because `Replace` returns to the initial
  shape.

**`MC_ScriptEngine`:**
- **Scripts:** seven of them. One compiles, runs and exports a callable; one exports a
  global function by name. Three fail to compile, fail at the top level, or export
  nothing; one is too long for a V8 string and one blocks `SetFunctionValue`.
- **Behaviour:** a global counter modulo 3, which gives 3 distinct globals and makes
  warmup effects and context reuse visible.
- **Inputs:** `MCFields` gives every input the five fields of `BiddingFunctionInput`
  (four messages and a map). The input `"nojson"` has a map value with no JSON form, so
  the INTERNAL argument path is reached; `"cyclic"` returns a value `JSON::Stringify`
  refuses. `Flatten = TRUE`, as in the server.
- **Batches:** the passing run uses single inputs of every outcome kind, and `"nojson"`. The violation
  runs use a batch of two values and a looping input.
- **Warmups:** `WarmUps = 10` as in the code.

**`MC_PeriodicFunction`:**
- Two objects, which lets one be destroyed while the other still runs.
- Both factories are present, which exercises finite and infinite waits and the
  container.

**`MC_UnusedPort`:**
- **Ports and tries:** real port numbers. `kFirstUserPort = 1024` and `kMaxTries = 10`;
  `MinEphemeral = 1030` leaves six user ports.
- **Byte swap:** 1024 to 1027 swap to ports below 1024, 1028 to itself, and 1029 and
  1030 to unprivileged ports.
- **Other processes:** they may hold 1024, 1028 and 1284.
- **Root and calls:** root or not, and three calls. That is enough for the probe to
  find every port busy and for the wrap.

**`MC_ServerHarness`:**
- **Ports:** as in `MC_UnusedPort`, with two calls (the static port, then the gRPC
  port). Other processes may also hold 1025 and 1029, the ports the gRPC call returns
  as root and otherwise, so a foreign listener on the gRPC port is reached.
- **Readiness:** `MaxRetries = 3` instead of 10. Every retry is the same step, so the
  count changes only how long the wait lasts, not what it can see.
- **RPCs:** two test RPCs, enough for one to be sent before and one after a change.
- **Fetch replies:** another process's port may answer 200, 400, 403, 404 or 500.
- **Configuration files:** `harness_config` covers every file of up to two bidding
  entries and one scoring entry over nine kinds of entry (local with a source, without
  one, or with a non-string one; remote with and without a source; schemeless;
  malformed; no uri; not a map), with every reply (none, 200, 400, 403, 404, 500), so
  duplicates, decode failures, every fetch error and their order all meet.

### Fairness

Weak fairness is assumed in these places:
- **Request threads:** each thread with a request keeps being scheduled (gRPC's thread
  pool).
- **Refresher:** it keeps running (a timer loop). New requests and refreshes are not
  required to arrive.
- **Invocations:** nothing makes a `BatchInvoke` return: a looping script has no
  deadline in process (`engine_no_deadline`) and can lose its deadline in the sandbox
  (`sapi_deadline`). `AdAuctions` therefore assumes no fairness for the steps where a
  call comes back (`InvocationReturns`), nor for `RefreshBuild` (its `Create` may hang
  too). `RequestsComplete` and `RefreshPublished` take weak fairness of those steps
  as their hypothesis (`InvocationsReturn`): they say what the locking guarantees
  once the functions return.
- **Sandbox:** in `SapiFunction` the sandboxee keeps serving, and the sandbox2 monitor
  (`Kill`) ends a sandboxee whose limit stays armed.
- **Engine:** in `ScriptEngine` the refresh thread and every caller holding the locker
  keep running. No fairness is assumed for a call that loops, which is exactly what
  `engine_no_deadline` shows. The `v8::Locker` is an ordinary, unfair mutex. Acquiring
  it is therefore only weakly fair, and a waiting caller can be overtaken forever:
  `ImplementsEngineSpec` fails on such a starvation trace even without a looping script.
  So `engine_safety` claims no per-caller progress.
- **Refresher:** in `PeriodicFunction` each reload thread keeps being scheduled, so a
  finite wait times out (`WaitStep`), and a join whose thread has exited returns.
  `function_` is not assumed to return, on the reload thread or in `InvokeNow`;
  `DestructionCompletes` takes its return as the hypothesis. Building and destroying
  objects is never forced. `CHECK_DEADLOCK FALSE` is used because a
  program whose objects are all destroyed really stops.
- **Server test environment:** in `ServerHarness` the test thread, the static file
  thread and the server process are each weakly fair: they are separate threads and
  a separate process that the OS keeps scheduling. Nothing else is assumed, so a wait
  that is never notified ends only by its timeout. `CHECK_DEADLOCK FALSE` is used
  because the test binary really ends.
- **Port finder:** `UnusedPort` is checked for safety only. The test ends after its
  calls, so deadlock is not checked there either.

## 4. Not modelled, and why

- **Formatting and wire encoding:** YAML syntax, flag handling and protobuf packing are
  pure conversions or I/O. `SaveStatusToProto`/`StatusFromProto` are imported by the
  SAPI function and adapter but called on no server path, since sandbox2's comms carry
  statuses. The macros `RETURN_IF_ERROR`/`ASSIGN_OR_RETURN` are the early-return branches
  of the actions. The models carry their results as status
  codes or owners.
- **V8 platform init and the seccomp policy:** one-shot setup with no runtime state.
- **Build and packaging files:** no behaviour.
- **JavaScript semantics:** abstracted to `Behave`, since V8 is out of TLC's reach.
  Argument building keeps its control (field order, type switch, first failure) and
  abstracts each value to whether it has a JSON form. The server's input types contain
  only messages, maps and doubles, so the FAILED_PRECONDITION branch is unreachable
  there and no `MCFields` input takes it.
- **Timing in the test environment:** the 5 s and 200 ms timeouts are modelled as a
  wait that may end at any moment. The `Notify` on the stack-local `server_ready`
  after the 5 s wait has given up (a use after scope) is reachable in
  `ServerHarness` but has no property, because its effect is undefined behaviour on a
  dead stack frame.
- **The `NDEBUG` build of the test:** `ABSL_ASSERT` is compiled out under `NDEBUG`.
  The variant `StartGrpcServerNoWait` models that build; no property is checked
  against it, since whether the test RPCs reach the server under test also depends
  on what else listens on the port, in either build.
- **Container dangling pointers:** `PeriodicFunction` models the container's raw
  pointers, and the model reaches `InvokeAllNow` calling an object whose destructor
  has finished. No test destroys an owner before `InvokeAllNow`, and the call is a
  use after free with no state to check, so this stays an unchecked hazard.
- **Tie order:** `StdSort` is any ordering by score, as `std::sort` promises. Spec
  4.E asks for a stable sort; libstdc++'s `std::sort` reorders equal scores only above
  16 elements (its insertion sort below that is stable), libc++'s may reorder three.
  No run asserts the tie order.
- **Other URL schemes:** `GetFunctionCode` hands any scheme but `local` to
  `httplib::Client`, whose handling of schemes other than http and https depends on the
  httplib version; the model's uris are local, http, schemeless and malformed.
- **Dead branch:** `m.size() < kPathGroup` in `GetFunctionCode` never holds after a
  match, so it has no counterpart.

## 5. Findings

The violation runs show these:
- **Snapshot:** one auction reads two repository generations, against spec section 5.
- **Inline source on a remote uri:** the configuration loader fetches an http uri
  and ignores the inline source given with it, where spec sections 3 and 6 forbid the
  source.
- **Crossed responses:** concurrent `BatchInvoke`s on one sandbox get each other's
  outputs.
- **Deadline disarmed:** a caller disarms the deadline another caller's script relies on.
- **Shared context:** the in-process engine runs a batch in one shared context, against
  spec 4.B.
- **No in-process deadline:** the in-process engine has no deadline, against the spec's
  resource-safety section.
- **Missing `htons`:** `FindUnusedPort` probes the byte-swapped port.

`PROJECT.json` gives the source line and the reasoning for each.

Three more behaviours are reachable in the models but have no run of their own:
- **Test binary hang:** in `ServerHarness`, when another process listens on the gRPC
  port, or the second `FindUnusedPort` call returns the static server's port because
  its tries wrapped round before the static thread bound it, `WaitUntilServerIsReady`
  can succeed at once. TearDown then may call `stop()` before the static thread's accept
  loop has started; `stop()` closes nothing and the join waits forever. `TestBinaryEnds`
  excludes that case by its hypothesis; dropping the hypothesis gives the trace.
- **Status of a killed call:** in `SapiFunction`, a call whose sandboxee is killed (by
  the wall time limit or by the seccomp policy) ends with UNAVAILABLE. The disarm on the
  dead sandbox replaces the INTERNAL from the failed receive. Spec section 7 gives an
  aborted invocation internal or invalid-argument, and keeps unavailable for a script
  that failed to compile. Every later call on that function is UNAVAILABLE until the
  next refresh.
- **Locker starvation:** in `ScriptEngine`, under the weak fairness an unfair
  `v8::Locker` justifies, a caller can wait forever while another keeps re-acquiring
  the lock.
