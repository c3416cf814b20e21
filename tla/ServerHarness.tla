---------------------------- MODULE ServerHarness ----------------------------
(***************************************************************************)
(* The end-to-end server test of src/server/ad_auctions.cc (the AviaryServer *)
(* test environment) composed with the server binary it starts (main and   *)
(* RunServer, src/unnamed/part_005), the configuration loader of           *)
(* AdAuctionsImpl::Create, and FindUnusedPort (module UnusedPort).         *)
(*                                                                         *)
(* Three actors:                                                           *)
(*  - the test's main thread: SetUp (StartStaticResourcesServer, write the *)
(*    YAML file, StartGrpcServer with WaitUntilServerIsReady), the test    *)
(*    cases' RPCs, TearDown (kill the server, stop and join the static     *)
(*    server thread);                                                      *)
(*  - static_resources_server_thread_: bind_to_port, server_ready.Notify,  *)
(*    listen_after_bind;                                                   *)
(*  - the server process: flags and V8 set-up, Create from the YAML file   *)
(*    (which fetches doubling.js from the static server), then the gRPC    *)
(*    listening port.                                                      *)
(* Time is abstracted away: a wait with a timeout may time out whenever    *)
(* what it waits for has not happened yet.  The build has assertions on    *)
(* (ABSL_ASSERT evaluates its argument).  cpp-httplib's Server::stop only  *)
(* closes the socket while the accept loop runs (is_running_).             *)
(***************************************************************************)
EXTENDS UnusedPort, Sequences, FiniteSets

CONSTANTS
    MaxRetries,     \* WaitUntilServerIsReady: int retries = 10
    TestRpcs,       \* RPCs sent by the ServerTest cases
    ForeignReplies, \* what another process's HTTP server may reply
    LocalUri,       \* local://constant
    RemoteUri,      \* the static server's doubling.js URL (http://host:port/path)
    SchemelessUri,  \* host/path: url_re matches with an empty scheme
    MalformedUri,   \* a string url_re does not match (e.g. "http://")
    NoUri,          \* a YAML entry without a uri
    NotAMap         \* a YAML list element that is not a map

VARIABLES
    main,       \* the test's main thread
    sthread,    \* the static server thread: "none" | "bind" | "notify" | "listen" | "running" | "exited"
    proc,       \* the server process: "none" | "init" | "create" | "bind" | "serving" | "exited" | "killed"
    staticPort, \* static_resources_port_
    grpcPort,   \* the port of address_
    notified,   \* server_ready has been notified
    handler,    \* the /doubling.js handler is registered
    sockOpen,   \* the static server's listening socket is open
    fatal,      \* a fatal failure was recorded during the environment's SetUp
    retries,    \* WaitUntilServerIsReady's counter
    answers     \* what the test RPCs sent so far got: a sequence

hvars == <<main, sthread, proc, staticPort, grpcPort, notified, handler,
           sockOpen, fatal, retries, answers>>
allvars == <<vars, hvars>>

-----------------------------------------------------------------------------
(* Configuration loading (AdAuctionsImpl::Create from a file).              *)

\* A YAML entry is [uri, source] with source "absent", "string" or
\* "nonstring" (a map or a list where a string is expected).

\* YAML::convert<FunctionSpecification>::decode: false for a non-map or an
\* empty uri (yaml-cpp then throws TypedBadConversion); as<std::string> of a
\* non-string throws.  Both are RepresentationExceptions.
Decode(e) == e # NotAMap /\ e.source # "nonstring" /\ e.uri # NoUri

\* An HTTP GET's outcome: [res |-> FALSE] when httplib gets no response
\* (connection refused, read timeout), else the status code.
NoReply == [res |-> FALSE, status |-> 0]

\* TranslateResponse: the body on 200, else a status by the HTTP code.
TranslateResponse(reply) ==
    CASE reply.status = 200              -> "OK"
      [] reply.status = 400              -> "INVALID_ARGUMENT"
      [] reply.status \in {401, 403}     -> "PERMISSION_DENIED"
      [] reply.status = 404              -> "NOT_FOUND"
      [] OTHER                           -> "INTERNAL"

\* FunctionSource::GetFunctionCode: url_re must match, with a scheme; a
\* local uri returns its inline source, any other scheme is fetched with
\* a GET of the path and the inline source is ignored.  (The m.size() <
\* kPathGroup branch is dead: a match always has every group.)
GetFunctionCode(e, reply) ==
    CASE e.uri = MalformedUri  -> "INVALID_ARGUMENT"
      [] e.uri = SchemelessUri -> "INVALID_ARGUMENT"
      [] e.uri = LocalUri      -> IF e.source = "string" THEN "OK" ELSE "INVALID_ARGUMENT"
      [] ~reply.res            -> "INTERNAL"
      [] OTHER                 -> TranslateResponse(reply)

\* The loop of GetFunctionSourceCodes: ASSIGN_OR_RETURN on the fetch, then
\* the insert that refuses a uri seen before.  Result: a status and the
\* uris of the map.
RECURSIVE FoldSourceCodes(_, _, _)
FoldSourceCodes(specs, reply, uris) ==
    IF specs = <<>> THEN [status |-> "OK", uris |-> uris]
    ELSE LET e == Head(specs) IN
         IF GetFunctionCode(e, reply) # "OK"
         THEN [status |-> GetFunctionCode(e, reply), uris |-> {}]
         ELSE IF e.uri \in uris THEN [status |-> "INVALID_ARGUMENT", uris |-> {}]
         ELSE FoldSourceCodes(Tail(specs), reply, uris \cup {e.uri})

GetFunctionSourceCodes(specs, reply) == FoldSourceCodes(specs, reply, {})

\* Create(file): BadFile, ParserException and RepresentationException (from
\* a failed decode) are caught and mapped; then the bidding sources, then the
\* scoring sources; a function that does not compile becomes a placeholder,
\* so past the sources the build succeeds.
CreateFromFile(file, reply) ==
    CASE file.kind = "missing"    -> "NOT_FOUND"
      [] file.kind = "unparsable" -> "INVALID_ARGUMENT"
      [] \E i \in DOMAIN file.bidding : ~Decode(file.bidding[i]) -> "INVALID_ARGUMENT"
      [] \E i \in DOMAIN file.scoring : ~Decode(file.scoring[i]) -> "INVALID_ARGUMENT"
      [] OTHER ->
           LET bidding == GetFunctionSourceCodes(file.bidding, reply)
               scoring == GetFunctionSourceCodes(file.scoring, reply)
           IN IF bidding.status # "OK" THEN bidding.status ELSE scoring.status

\* The file SetUp writes: local://constant with its source, the static URL.
TestConfiguration ==
    [kind |-> "yaml",
     bidding |-> << [uri |-> LocalUri, source |-> "string"],
                    [uri |-> RemoteUri, source |-> "absent"] >>,
     scoring |-> << >>]

-----------------------------------------------------------------------------
(* The static resources server thread.                                      *)

\* bind_to_port("0.0.0.0", static_resources_port_); its result is ignored.
StaticBind ==
    /\ sthread = "bind"
    /\ IF Bindable(staticPort)
       THEN serving' = serving \cup {staticPort} /\ sockOpen' = TRUE /\ UNCHANGED bindFailed
       ELSE bindFailed' = TRUE /\ UNCHANGED <<serving, sockOpen>>
    /\ sthread' = "notify"
    /\ UNCHANGED <<root, taken, nextPort, pc, port, tries, ret, calls>>
    /\ UNCHANGED <<main, proc, staticPort, grpcPort, notified, handler, fatal, retries, answers>>

\* server_ready.Notify(), on a local of StartStaticResourcesServer.
StaticNotify ==
    /\ sthread = "notify"
    /\ notified' = TRUE /\ sthread' = "listen"
    /\ UNCHANGED vars
    /\ UNCHANGED <<main, proc, staticPort, grpcPort, handler, sockOpen, fatal, retries, answers>>

\* listen_after_bind: the accept loop runs while the socket is open, and
\* returns at once when the bind failed.
StaticListen ==
    /\ sthread = "listen"
    /\ sthread' = IF sockOpen THEN "running" ELSE "exited"
    /\ UNCHANGED vars
    /\ UNCHANGED <<main, proc, staticPort, grpcPort, notified, handler, sockOpen, fatal, retries, answers>>

\* stop() closed the socket: the accept loop ends.
StaticStopped ==
    /\ sthread = "running" /\ ~sockOpen
    /\ sthread' = "exited"
    /\ UNCHANGED vars
    /\ UNCHANGED <<main, proc, staticPort, grpcPort, notified, handler, sockOpen, fatal, retries, answers>>

-----------------------------------------------------------------------------
(* The server process (main, RunServer).                                    *)

\* What the GET of doubling.js gets: the static server answers once its
\* accept loop runs, with 404 when the handler was never registered; before
\* that the connection waits in the listen backlog, and httplib's 5 s read
\* timeout may end the wait with no reply.  A port the static server could
\* not bind belongs to another process; with nobody listening the connection
\* is refused.
RemoteAnswers ==
    CASE sockOpen /\ sthread = "running" -> {[res |-> TRUE, status |-> IF handler THEN 200 ELSE 404]}
      [] sockOpen                        -> {NoReply}
      [] staticPort \in taken            -> ForeignReplies
      [] OTHER                           -> {NoReply}

\* absl::ParseCommandLine and V8PlatformInitializer.
ProcInit ==
    /\ proc = "init" /\ proc' = "create"
    /\ UNCHANGED vars
    /\ UNCHANGED <<main, sthread, staticPort, grpcPort, notified, handler, sockOpen, fatal, retries, answers>>

\* AdAuctionsImpl::Create(source, --configuration_file): on an error RunServer
\* prints it and returns, and main returns 0.
ProcCreate ==
    /\ proc = "create"
    /\ \E a \in RemoteAnswers :
          proc' = IF CreateFromFile(TestConfiguration, a) = "OK" THEN "bind" ELSE "exited"
    /\ UNCHANGED vars
    /\ UNCHANGED <<main, sthread, staticPort, grpcPort, notified, handler, sockOpen, fatal, retries, answers>>

\* AddListeningPort and BuildAndStart: bound_port 0 means exit(1).
ProcBind ==
    /\ proc = "bind"
    /\ IF Bindable(grpcPort)
       THEN serving' = serving \cup {grpcPort} /\ proc' = "serving" /\ UNCHANGED bindFailed
       ELSE bindFailed' = TRUE /\ proc' = "exited" /\ UNCHANGED serving
    /\ UNCHANGED <<root, taken, nextPort, pc, port, tries, ret, calls>>
    /\ UNCHANGED <<main, sthread, staticPort, grpcPort, notified, handler, sockOpen, fatal, retries, answers>>

-----------------------------------------------------------------------------
(* The test's main thread.                                                  *)

Finding == {"findStatic", "findGrpc"}

\* FindUnusedPort runs on the main thread.
FindPort ==
    /\ main \in Finding /\ (Start \/ Probe \/ GiveUp)
    /\ UNCHANGED hvars

\* FindUnusedPort().value() on ResourceExhausted: the test binary aborts.
ValueOfError ==
    /\ main \in Finding /\ pc = "done" /\ ret = Exhausted
    /\ main' = "aborted"
    /\ UNCHANGED vars
    /\ UNCHANGED <<sthread, proc, staticPort, grpcPort, notified, handler, sockOpen, fatal, retries, answers>>

\* StartStaticResourcesServer: take the port, start the thread, then wait up
\* to 5 s for server_ready.
StartStaticResourcesServer ==
    /\ main = "findStatic" /\ pc = "done" /\ ret # Exhausted
    /\ staticPort' = ret /\ pc' = "idle" /\ sthread' = "bind" /\ main' = "waitStatic"
    /\ UNCHANGED <<root, taken, serving, nextPort, port, tries, ret, calls, bindFailed>>
    /\ UNCHANGED <<proc, grpcPort, notified, handler, sockOpen, fatal, retries, answers>>

\* The wait returns true: the /doubling.js handler is registered, and SetUp
\* writes the YAML file.
StaticReady ==
    /\ main = "waitStatic" /\ notified
    /\ handler' = TRUE /\ main' = "findGrpc"
    /\ UNCHANGED vars
    /\ UNCHANGED <<sthread, proc, staticPort, grpcPort, notified, sockOpen, fatal, retries, answers>>

\* The wait times out: ASSERT_TRUE records a fatal failure and returns from
\* StartStaticResourcesServer before the handler is registered; SetUp goes on.
StaticWaitTimesOut ==
    /\ main = "waitStatic" /\ ~notified
    /\ fatal' = TRUE /\ main' = "findGrpc"
    /\ UNCHANGED vars
    /\ UNCHANGED <<sthread, proc, staticPort, grpcPort, notified, handler, sockOpen, retries, answers>>

\* Variant: ABSL_ASSERT compiled out (NDEBUG), so nothing waits.
StartGrpcServerNoWait ==
    /\ main = "findGrpc" /\ pc = "done" /\ ret # Exhausted
    /\ grpcPort' = ret /\ pc' = "idle" /\ proc' = "init"
    /\ retries' = MaxRetries /\ main' = "tests"
    /\ UNCHANGED <<root, taken, serving, nextPort, port, tries, ret, calls, bindFailed>>
    /\ UNCHANGED <<sthread, staticPort, notified, handler, sockOpen, fatal, answers>>

\* StartGrpcServer: popen the server, then ABSL_ASSERT(WaitUntilServerIsReady()).
StartGrpcServer ==
    /\ main = "findGrpc" /\ pc = "done" /\ ret # Exhausted
    /\ grpcPort' = ret /\ pc' = "idle" /\ proc' = "init"
    /\ retries' = MaxRetries /\ main' = "waitReady"
    /\ UNCHANGED <<root, taken, serving, nextPort, port, tries, ret, calls, bindFailed>>
    /\ UNCHANGED <<sthread, staticPort, notified, handler, sockOpen, fatal, answers>>

\* A TCP listener on port p: a server of the test or another process.
Listening(p) == p \in serving \cup taken

\* Whether a fresh channel's WaitForConnected(200 ms) reaches READY: surely
\* once the server process listens; against another listener (another
\* process, or the static server when both calls returned the same port)
\* it may, depending on whether the gRPC build waits for the peer's HTTP/2
\* SETTINGS; with nobody listening it does not.
ConnectOutcomes ==
    CASE proc = "serving"     -> {TRUE}
      [] Listening(grpcPort) -> BOOLEAN
      [] OTHER               -> {FALSE}

\* Variant: the loop condition without the decrement.
TryConnectForever ==
    /\ main = "waitReady"
    /\ \E connected \in ConnectOutcomes :
          IF connected THEN main' = "tests" /\ UNCHANGED retries
          ELSE UNCHANGED <<main, retries>>
    /\ UNCHANGED vars
    /\ UNCHANGED <<sthread, proc, staticPort, grpcPort, notified, handler, sockOpen, fatal, answers>>

\* One pass of the do-while on WaitForConnected; after the last retry the
\* function returns false and ABSL_ASSERT aborts the test binary.
TryConnect ==
    /\ main = "waitReady"
    /\ \E connected \in ConnectOutcomes :
          IF connected THEN main' = "tests" /\ UNCHANGED retries
          ELSE /\ retries' = retries - 1
               /\ main' = IF retries - 1 > 0 THEN "waitReady" ELSE "aborted"
    /\ UNCHANGED vars
    /\ UNCHANGED <<sthread, proc, staticPort, grpcPort, notified, handler, sockOpen, fatal, answers>>

\* A ServerTest case sends an RPC on a stub for Address(): the server under
\* test answers it, another process listening there does, or, with no one
\* listening, the call fails UNAVAILABLE.
SendRpc ==
    /\ main = "tests" /\ ~fatal /\ Len(answers) < TestRpcs
    /\ answers' = Append(answers, CASE proc = "serving"       -> "served"
                                     [] Listening(grpcPort) -> "foreign"
                                     [] OTHER               -> "UNAVAILABLE")
    /\ UNCHANGED vars
    /\ UNCHANGED <<main, sthread, proc, staticPort, grpcPort, notified, handler, sockOpen, fatal, retries>>

\* The tests are done, or skipped after a fatal failure in SetUp;
\* TearDown's StopGrpcServer kills the server process.
StopGrpcServer ==
    /\ main = "tests" /\ (fatal \/ Len(answers) = TestRpcs)
    /\ proc' = "killed" /\ main' = "stopStatic"
    /\ UNCHANGED vars
    /\ UNCHANGED <<sthread, staticPort, grpcPort, notified, handler, sockOpen, fatal, retries, answers>>

\* static_resources_server_.stop(): closes the socket if the accept loop runs.
StopStaticResourcesServer ==
    /\ main = "stopStatic"
    /\ sockOpen' = (sockOpen /\ sthread # "running")
    /\ main' = "join"
    /\ UNCHANGED vars
    /\ UNCHANGED <<sthread, proc, staticPort, grpcPort, notified, handler, fatal, retries, answers>>

\* static_resources_server_thread_->join().
JoinStaticThread ==
    /\ main = "join" /\ sthread = "exited"
    /\ main' = "finished"
    /\ UNCHANGED vars
    /\ UNCHANGED <<sthread, proc, staticPort, grpcPort, notified, handler, sockOpen, fatal, retries, answers>>

-----------------------------------------------------------------------------

HarnessInit ==
    /\ Init
    /\ main = "findStatic" /\ sthread = "none" /\ proc = "none"
    /\ staticPort = 0 /\ grpcPort = 0
    /\ notified = FALSE /\ handler = FALSE /\ sockOpen = FALSE /\ fatal = FALSE
    /\ retries = 0 /\ answers = << >>

MainStep ==
    \/ FindPort \/ ValueOfError \/ StartStaticResourcesServer
    \/ StaticReady \/ StaticWaitTimesOut \/ StartGrpcServer \/ TryConnect
    \/ SendRpc \/ StopGrpcServer \/ StopStaticResourcesServer \/ JoinStaticThread

\* The static server thread dies with the test binary.
StaticStep ==
    main # "aborted" /\ (StaticBind \/ StaticNotify \/ StaticListen \/ StaticStopped)

ProcStep == ProcInit \/ ProcCreate \/ ProcBind

HarnessNext == MainStep \/ StaticStep \/ ProcStep

\* Each thread and the server process keep being scheduled.
HarnessSpec ==
    HarnessInit /\ [][HarnessNext]_allvars
    /\ WF_allvars(MainStep) /\ WF_allvars(StaticStep) /\ WF_allvars(ProcStep)

-----------------------------------------------------------------------------
(* Properties.                                                              *)

\* Something other than the server process listens on the port the test
\* chose for it: another process, or the static server, whose port the
\* second FindUnusedPort call may return again when its probes wrap round
\* before the static thread has bound it.
OtherGrpcListener == grpcPort # 0 /\ (grpcPort \in taken \/ grpcPort = staticPort)

\* Unless something else listens on the gRPC port, the test binary ends,
\* aborting or after TearDown's join: the 5 s wait and the readiness retries
\* are bounded, and the join returns because stop() finds the accept loop
\* running (the tests start only once the server process has fetched
\* doubling.js from it) or the thread leaves listen_after_bind by itself
\* after a failed bind.  With such a listener WaitUntilServerIsReady succeeds
\* at once, stop() may come before the accept loop starts and close nothing,
\* and the join never returns.
TestBinaryEnds == [](~OtherGrpcListener) => <>(main \in {"finished", "aborted"})

SE == INSTANCE SequencesExt

\* YAML entries the loader may meet.
Entries ==
    {[uri |-> LocalUri, source |-> "string"], [uri |-> LocalUri, source |-> "absent"],
     [uri |-> LocalUri, source |-> "nonstring"],
     [uri |-> RemoteUri, source |-> "absent"], [uri |-> RemoteUri, source |-> "string"],
     [uri |-> SchemelessUri, source |-> "absent"], [uri |-> MalformedUri, source |-> "absent"],
     [uri |-> NoUri, source |-> "absent"], NotAMap}

ConfigFiles ==
    [kind : {"missing", "unparsable"}] \cup
    [kind : {"yaml"}, bidding : SE!BoundedSeq(Entries, 2), scoring : SE!BoundedSeq(Entries, 1)]

\* The replies a remote fetch may get.
Replies == {NoReply} \cup [res : {TRUE}, status : {200, 400, 403, 404, 500}]

Elements(s) == {s[i] : i \in DOMAIN s}

Duplicated(s) == \E i, j \in DOMAIN s : i < j /\ s[i].uri = s[j].uri

\* Spec section 6: uri is a required string and source an optional string.
SpecWellFormed(e) == e # NotAMap /\ e.uri # NoUri /\ e.source # "nonstring"

\* Spec section 4.A on an HTTP fetch: 200 is the body; 400 invalid-argument;
\* 401/403 permission-denied; 404 not-found; any other status or a
\* transport failure internal.
SpecFetch(reply) ==
    IF ~reply.res THEN "INTERNAL"
    ELSE CASE reply.status = 200          -> "OK"
           [] reply.status = 400          -> "INVALID_ARGUMENT"
           [] reply.status \in {401, 403} -> "PERMISSION_DENIED"
           [] reply.status = 404          -> "NOT_FOUND"
           [] OTHER                       -> "INTERNAL"

\* Spec sections 3, 4.A and 6 on one entry: a local uri requires its inline
\* source; an http(s) uri forbids one and is fetched; a malformed uri is
\* invalid-argument.
SpecSource(e, reply) ==
    CASE e.uri = LocalUri  -> IF e.source = "string" THEN "OK" ELSE "INVALID_ARGUMENT"
      [] e.uri = RemoteUri -> IF e.source = "absent" THEN SpecFetch(reply) ELSE "INVALID_ARGUMENT"
      [] OTHER             -> "INVALID_ARGUMENT"

\* What spec section 6 allows Create(file) to return: not-found for a missing
\* file; invalid-argument for malformed YAML or an entry that is not a map
\* of strings with a uri; otherwise success exactly when every source is
\* obtained and no list names a uri twice, and else one of the errors that
\* apply.
SpecOutcomes(file, reply) ==
    IF file.kind = "missing" THEN {"NOT_FOUND"}
    ELSE IF file.kind = "unparsable" THEN {"INVALID_ARGUMENT"}
    ELSE LET es == Elements(file.bidding) \cup Elements(file.scoring) IN
         IF \E e \in es : ~SpecWellFormed(e) THEN {"INVALID_ARGUMENT"}
         ELSE LET errors == ({SpecSource(e, reply) : e \in es} \ {"OK"})
                            \cup (IF Duplicated(file.bidding) \/ Duplicated(file.scoring)
                                  THEN {"INVALID_ARGUMENT"} ELSE {})
              IN IF errors = {} THEN {"OK"} ELSE errors

\* When the server process loads its configuration (AdAuctionsImpl::Create
\* from a file: decode, then GetFunctionSourceCodes calling
\* FunctionSource::GetFunctionCode on each entry), the result is what the
\* spec allows, for every file of up to two bidding and one scoring entry
\* and every reply the remote fetch may get.
ConfigurationLoadMatchesSpec ==
    proc = "create" =>
        \A file \in ConfigFiles, reply \in Replies :
            CreateFromFile(file, reply) \in SpecOutcomes(file, reply)

=============================================================================
