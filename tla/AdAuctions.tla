----------------------------- MODULE AdAuctions -----------------------------
(***************************************************************************)
(* The request path and hot reload of the Aviary server                    *)
(* (src/server/ad_auctions.cc, src/server/function_repository.cc).          *)
(*                                                                         *)
(* AdAuctionsImpl keeps one FunctionRepository behind an absl::Mutex.      *)
(* Request threads run ComputeBid and RunAdAuction; every call of          *)
(* RunGenerateBidFunction / RunScoreAdFunction takes the reader lock,      *)
(* looks the function up and invokes it while holding the lock.  The       *)
(* PeriodicFunction thread runs RefreshFunctionRepository: it builds a new *)
(* repository without the lock and swaps it in under the writer lock,      *)
(* destroying the old one.                                                 *)
(*                                                                         *)
(* Data is abstracted: a script is the version of its source, a bid and a  *)
(* score are small integers computed from the version by BidOf / ScoreOf.  *)
(***************************************************************************)
EXTENDS Integers, Sequences, FiniteSets, SequencesExt, Functions

CONSTANTS
    Threads,        \* gRPC worker threads serving requests
    BidderUris,     \* configuration.bidding_function_specs (their uris)
    ScorerUris,     \* configuration.ad_scoring_function_specs (their uris)
    RemoteUris,     \* configured uris fetched over http(s); their source may change
    FlakyUris,      \* configured uris whose Create may fail
    UnknownUri,     \* a uri that is not configured
    Auctions,       \* the RunAdAuctionRequests clients may send
    InvokeErrors,   \* status codes a failing BatchInvoke may return
    MaxVersion,     \* bound on edits of a remote script
    MaxGen,         \* bound on published repositories
    BidOf(_, _),    \* bid returned by bidder uri at source version v
    ScoreOf(_, _),  \* desirability returned by a scorer at version v for a bid
    Unavailable,    \* the nullptr placeholder of a function that did not build
    NoFn, NoBid, NoResponse

ConfiguredUris == BidderUris \cup ScorerUris
ASSUME BidderUris \cap ScorerUris = {} /\ RemoteUris \cup FlakyUris \subseteq ConfiguredUris
ASSUME UnknownUri \notin ConfiguredUris
ASSUME MaxVersion \in Nat \ {0} /\ MaxGen \in Nat \ {0}

VARIABLES
    source,     \* uri -> version of the source FunctionSource would return now
    repo,       \* function_repository_: [bidders, scorers], uri -> version | Unavailable
    gen,        \* generation number of the repository object function_repository_ owns
    readers,    \* threads holding function_repository_mutex_ as readers
    refresher,  \* "sleeping" or "locking" (built a repository, waiting in WriterLock)
    candidate,  \* the repository the refresher built and is about to publish
    pc,         \* per thread: where its request is
    task,       \* per thread: the request being served
    next,       \* per thread: index of the interest group being processed
    fn,         \* per thread: [gen, ver] of the function being invoked, or NoFn
    bid,        \* per thread: bid of the current candidate, or NoBid
    scored,     \* per thread: scored_bids, in insertion order
    seen,       \* per thread: repository generations the request has read
    resp        \* per thread: the response of the last finished request

vars == <<source, repo, gen, readers, refresher, candidate,
          pc, task, next, fn, bid, scored, seen, resp>>

-----------------------------------------------------------------------------
(* Repository contents and lookup.                                          *)

Entry == 1..MaxVersion \cup {Unavailable}
Repository == [bidders : [BidderUris -> Entry], scorers : [ScorerUris -> Entry]]

\* Variant: the nullptr placeholder is returned as if it were a function.
GetFunctionNoNullCheck(functions, uri) ==
    IF uri \notin DOMAIN functions THEN [status |-> "NOT_FOUND"]
    ELSE [status |-> "OK", ver |-> functions[uri]]

\* FunctionRepository::GetBiddingFunction / GetAdScoringFunction: absent key ->
\* NOT_FOUND, nullptr placeholder -> UNAVAILABLE, otherwise the function.
GetFunction(functions, uri) ==
    CASE uri \notin DOMAIN functions      -> [status |-> "NOT_FOUND"]
      [] functions[uri] = Unavailable     -> [status |-> "UNAVAILABLE"]
      [] OTHER                            -> [status |-> "OK", ver |-> functions[uri]]

\* CreateFunctionRepository with every fetch succeeding: each function whose
\* Create failed (compile error, sandbox Init or time limit) becomes nullptr.
BuildRepository(broken) ==
    [bidders |-> [u \in BidderUris |-> IF u \in broken THEN Unavailable ELSE source[u]],
     scorers |-> [u \in ScorerUris |-> IF u \in broken THEN Unavailable ELSE source[u]]]

-----------------------------------------------------------------------------
(* Scored bids, sorting and the response.                                   *)

ScoredBid(ig, b, s) == [name |-> ig.name, owner |-> ig.owner, bid |-> b, score |-> s]

ScoreAtLeast(a, b) == a.score >= b.score

\* absl::c_sort with `first.score > second.score`: std::sort promises only an
\* order by the comparator, so any permutation ordered by score is a result.
Permute(s, p) == [i \in 1..Len(s) |-> s[p[i]]]

StdSort(s) ==
    { t \in { Permute(s, p) : p \in Bijection(1..Len(s), 1..Len(s)) } :
        IsSorted(t, ScoreAtLeast) }

\* Variants of the winner split: a zero score allowed to win, and the head
\* kept among the losers (loser_it not advanced).
SplitWinnerAtZero(sorted) ==
    IF sorted # <<>> /\ sorted[1].score >= 0
    THEN [status |-> "OK", winner |-> sorted[1], losers |-> Tail(sorted)]
    ELSE [status |-> "OK", winner |-> NoBid, losers |-> sorted]

SplitWinnerKeepsHead(sorted) ==
    IF sorted # <<>> /\ sorted[1].score > 0
    THEN [status |-> "OK", winner |-> sorted[1], losers |-> sorted]
    ELSE [status |-> "OK", winner |-> NoBid, losers |-> sorted]

\* The head becomes the winner only when its score is strictly positive;
\* every other scored bid is a loser, in sorted order.
SplitWinner(sorted) ==
    IF sorted # <<>> /\ sorted[1].score > 0
    THEN [status |-> "OK", winner |-> sorted[1], losers |-> Tail(sorted)]
    ELSE [status |-> "OK", winner |-> NoBid, losers |-> sorted]

-----------------------------------------------------------------------------
(* function_repository_mutex_ (absl::Mutex).  The writer holds it only for  *)
(* the swap, which is one step, so what matters is when each side may get   *)
(* it.  A reader-preferring lock, e.g. a default glibc pthread_rwlock, lets *)
(* readers in past a waiting writer.                                        *)

ReaderPreferringMayLock == TRUE

\* ReaderMutexLock: absl::Mutex queues a new reader behind a waiting writer.
ReaderMayLock == refresher # "locking"

WriterIgnoringReadersMayLock == TRUE

\* WriterMutexLock: the writer waits until no reader holds the lock.
WriterMayLock == readers = {}

NoTask == [kind |-> "none"]

Transition(t, from, to) == pc[t] = from /\ pc' = [pc EXCEPT ![t] = to]

-----------------------------------------------------------------------------
(* ComputeBid (ad_auctions.cc 233-249 calling RunGenerateBidFunction).      *)

StartComputeBid(t, uri) ==
    /\ Transition(t, "idle", "cb_lookup")
    /\ task' = [task EXCEPT ![t] = [kind |-> "cb", uri |-> uri]]
    /\ UNCHANGED <<source, repo, gen, readers, refresher, candidate,
                   next, fn, bid, scored, seen, resp>>

\* Reader lock, GetBiddingFunction; a lookup error is returned at once and the
\* lock released, otherwise BatchInvoke runs with the lock held.
ComputeBidLookup(t) ==
    LET f == GetFunction(repo.bidders, task[t].uri) IN
    /\ pc[t] = "cb_lookup"
    /\ ReaderMayLock
    /\ seen' = [seen EXCEPT ![t] = @ \cup {gen}]
    /\ IF f.status # "OK"
       THEN /\ pc' = [pc EXCEPT ![t] = "reply"]
            /\ resp' = [resp EXCEPT ![t] = [status |-> f.status]]
            /\ UNCHANGED <<readers, fn>>
       ELSE /\ pc' = [pc EXCEPT ![t] = "cb_invoke"]
            /\ readers' = readers \cup {t}
            /\ fn' = [fn EXCEPT ![t] = [gen |-> gen, ver |-> f.ver]]
            /\ UNCHANGED resp
    /\ UNCHANGED <<source, repo, gen, refresher, candidate, task, next, bid, scored>>

\* BatchInvoke({input}) returns; bids.back() or the error becomes the reply.
ComputeBidReturn(t) ==
    /\ Transition(t, "cb_invoke", "reply")
    /\ \/ resp' = [resp EXCEPT ![t] =
                     [status |-> "OK", bid |-> BidOf(task[t].uri, fn[t].ver)]]
       \/ \E e \in InvokeErrors : resp' = [resp EXCEPT ![t] = [status |-> e]]
    /\ readers' = readers \ {t}
    /\ fn' = [fn EXCEPT ![t] = NoFn]
    /\ UNCHANGED <<source, repo, gen, refresher, candidate, task, next, bid, scored, seen>>

-----------------------------------------------------------------------------
(* RunAdAuction (ad_auctions.cc 251-302).                                   *)

StartAuction(t, a) ==
    /\ Transition(t, "idle", "next")
    /\ task' = [task EXCEPT ![t] = [kind |-> "auction"] @@ a]
    /\ UNCHANGED <<source, repo, gen, readers, refresher, candidate,
                   next, fn, bid, scored, seen, resp>>

Candidate(t) == task[t].igs[next[t]]

HasCandidate(t) == pc[t] = "next" /\ next[t] <= Len(task[t].igs)

\* An interest group whose owner is not an interest_group_buyer is dropped.
SkipDisallowedOwner(t) ==
    /\ HasCandidate(t)
    /\ Candidate(t).owner \notin task[t].buyers
    /\ next' = [next EXCEPT ![t] = @ + 1]
    /\ UNCHANGED <<source, repo, gen, readers, refresher, candidate,
                   pc, task, fn, bid, scored, seen, resp>>

\* RunGenerateBidFunction: reader lock and GetBiddingFunction.  NOT_FOUND or
\* UNAVAILABLE is an error of bidding_result: the candidate is skipped.
BidLookup(t) ==
    LET f == GetFunction(repo.bidders, Candidate(t).bidder) IN
    /\ HasCandidate(t)
    /\ Candidate(t).owner \in task[t].buyers
    /\ ReaderMayLock
    /\ seen' = [seen EXCEPT ![t] = @ \cup {gen}]
    /\ IF f.status # "OK"
       THEN /\ next' = [next EXCEPT ![t] = @ + 1]
            /\ UNCHANGED <<pc, readers, fn>>
       ELSE /\ pc' = [pc EXCEPT ![t] = "bid_invoke"]
            /\ readers' = readers \cup {t}
            /\ fn' = [fn EXCEPT ![t] = [gen |-> gen, ver |-> f.ver]]
            /\ UNCHANGED next
    /\ UNCHANGED <<source, repo, gen, refresher, candidate, task, bid, scored, resp>>

\* Variant: the failure path returns without releasing the reader lock.
BidReturnKeepsLockOnError(t) ==
    /\ pc[t] = "bid_invoke"
    /\ \/ /\ pc' = [pc EXCEPT ![t] = "score_lookup"]
          /\ bid' = [bid EXCEPT ![t] = BidOf(Candidate(t).bidder, fn[t].ver)]
          /\ readers' = readers \ {t}
          /\ UNCHANGED next
       \/ /\ pc' = [pc EXCEPT ![t] = "next"]
          /\ next' = [next EXCEPT ![t] = @ + 1]
          /\ UNCHANGED <<bid, readers>>
    /\ fn' = [fn EXCEPT ![t] = NoFn]
    /\ UNCHANGED <<source, repo, gen, refresher, candidate, task, scored, seen, resp>>

\* The bidder's BatchInvoke returns and the reader lock is released.  A
\* failed invocation skips the candidate; a bid moves on to scoring.
BidReturn(t) ==
    /\ pc[t] = "bid_invoke"
    /\ \/ /\ pc' = [pc EXCEPT ![t] = "score_lookup"]
          /\ bid' = [bid EXCEPT ![t] = BidOf(Candidate(t).bidder, fn[t].ver)]
          /\ UNCHANGED next
       \/ /\ pc' = [pc EXCEPT ![t] = "next"]
          /\ next' = [next EXCEPT ![t] = @ + 1]
          /\ UNCHANGED bid
    /\ readers' = readers \ {t}
    /\ fn' = [fn EXCEPT ![t] = NoFn]
    /\ UNCHANGED <<source, repo, gen, refresher, candidate, task, scored, seen, resp>>

\* RunScoreAdFunction: reader lock and GetAdScoringFunction.  Unlike a
\* bidder's, a scorer's lookup error fails the whole auction.
ScoreLookup(t) ==
    LET f == GetFunction(repo.scorers, task[t].scorer) IN
    /\ pc[t] = "score_lookup"
    /\ ReaderMayLock
    /\ seen' = [seen EXCEPT ![t] = @ \cup {gen}]
    /\ IF f.status # "OK"
       THEN /\ pc' = [pc EXCEPT ![t] = "reply"]
            /\ resp' = [resp EXCEPT ![t] = [status |-> f.status]]
            /\ UNCHANGED <<readers, fn>>
       ELSE /\ pc' = [pc EXCEPT ![t] = "score_invoke"]
            /\ readers' = readers \cup {t}
            /\ fn' = [fn EXCEPT ![t] = [gen |-> gen, ver |-> f.ver]]
            /\ UNCHANGED resp
    /\ UNCHANGED <<source, repo, gen, refresher, candidate, task, next, bid, scored>>

\* The scorer's BatchInvoke returns and the reader lock is released.  Its
\* output is appended to scored_bids; its error fails the auction.
ScoreReturn(t) ==
    /\ pc[t] = "score_invoke"
    /\ \/ /\ pc' = [pc EXCEPT ![t] = "next"]
          /\ scored' = [scored EXCEPT ![t] = Append(@,
                 ScoredBid(Candidate(t), bid[t], ScoreOf(fn[t].ver, bid[t])))]
          /\ next' = [next EXCEPT ![t] = @ + 1]
          /\ UNCHANGED resp
       \/ /\ pc' = [pc EXCEPT ![t] = "reply"]
          /\ \E e \in InvokeErrors : resp' = [resp EXCEPT ![t] = [status |-> e]]
          /\ UNCHANGED <<scored, next>>
    /\ bid' = [bid EXCEPT ![t] = NoBid]
    /\ readers' = readers \ {t}
    /\ fn' = [fn EXCEPT ![t] = NoFn]
    /\ UNCHANGED <<source, repo, gen, refresher, candidate, task, seen>>

\* All interest groups processed: sort scored_bids and split off the winner.
FinishAuction(t) ==
    /\ pc[t] = "next"
    /\ next[t] > Len(task[t].igs)
    /\ pc' = [pc EXCEPT ![t] = "reply"]
    /\ \E sorted \in StdSort(scored[t]) : resp' = [resp EXCEPT ![t] = SplitWinner(sorted)]
    /\ UNCHANGED <<source, repo, gen, readers, refresher, candidate,
                   task, next, fn, bid, scored, seen>>

\* The reply is sent and the worker forgets the request.
Reply(t) ==
    /\ Transition(t, "reply", "idle")
    /\ task' = [task EXCEPT ![t] = NoTask]
    /\ next' = [next EXCEPT ![t] = 1]
    /\ scored' = [scored EXCEPT ![t] = <<>>]
    /\ seen' = [seen EXCEPT ![t] = {}]
    /\ resp' = [resp EXCEPT ![t] = NoResponse]
    /\ UNCHANGED <<source, repo, gen, readers, refresher, candidate, fn, bid>>

-----------------------------------------------------------------------------
(* The refresh thread (PeriodicFunction running RefreshFunctionRepository). *)

\* CreateFunctionRepository, run without the lock.  Each Create may fail and
\* leave nullptr.  A failed fetch fails the whole build and keeps the old
\* repository: that is a step that changes nothing, so it is not an action.
RefreshBuild ==
    /\ refresher = "sleeping"
    /\ gen < MaxGen
    /\ \E broken \in SUBSET FlakyUris :
           candidate' = BuildRepository(broken)
    /\ refresher' = "locking"
    /\ UNCHANGED <<source, repo, gen, readers, pc, task, next, fn, bid, scored, seen, resp>>

\* WriterMutexLock, then function_repository_ = std::move(...): the old
\* repository and every function it owns are destroyed.
Publish ==
    /\ refresher = "locking"
    /\ WriterMayLock
    /\ repo' = candidate
    /\ gen' = gen + 1
    /\ refresher' = "sleeping"
    /\ candidate' = candidate
    /\ UNCHANGED <<source, readers, pc, task, next, fn, bid, scored, seen, resp>>

\* The script served at a remote uri changes.
EditSource(u) ==
    /\ u \in RemoteUris
    /\ source[u] < MaxVersion
    /\ source' = [source EXCEPT ![u] = @ + 1]
    /\ UNCHANGED <<repo, gen, readers, refresher, candidate,
                   pc, task, next, fn, bid, scored, seen, resp>>

-----------------------------------------------------------------------------
(* AdAuctionsImpl::Create builds the first repository before serving.       *)

Init ==
    /\ source = [u \in ConfiguredUris |-> 1]
    /\ \E broken \in SUBSET FlakyUris : repo = BuildRepository(broken)
    /\ gen = 1
    /\ readers = {}
    /\ refresher = "sleeping"
    /\ candidate = repo
    /\ pc = [t \in Threads |-> "idle"]
    /\ task = [t \in Threads |-> NoTask]
    /\ next = [t \in Threads |-> 1]
    /\ fn = [t \in Threads |-> NoFn]
    /\ bid = [t \in Threads |-> NoBid]
    /\ scored = [t \in Threads |-> <<>>]
    /\ seen = [t \in Threads |-> {}]
    /\ resp = [t \in Threads |-> NoResponse]

\* The steps of a worker other than the end of a BatchInvoke.
WorkerStep(t) ==
    \/ Reply(t)
    \/ ComputeBidLookup(t) \/ SkipDisallowedOwner(t) \/ BidLookup(t)
    \/ ScoreLookup(t) \/ FinishAuction(t)

\* A BatchInvoke the worker is in comes back.
InvocationReturns(t) == ComputeBidReturn(t) \/ BidReturn(t) \/ ScoreReturn(t)

ThreadStep(t) == WorkerStep(t) \/ InvocationReturns(t)

Next ==
    \/ \E t \in Threads :
           \/ \E u \in BidderUris \cup {UnknownUri} : StartComputeBid(t, u)
           \/ \E a \in Auctions : StartAuction(t, a)
           \/ ThreadStep(t)
    \/ RefreshBuild
    \/ Publish
    \/ \E u \in RemoteUris : EditSource(u)

\* gRPC keeps scheduling a worker that has a request, and the refresh thread
\* that holds a built repository goes on to publish it.  Nothing makes a
\* BatchInvoke come back (a looping script in process, a lost deadline in the
\* sandbox: runs engine_no_deadline and sapi_deadline), nor a Create in
\* RefreshBuild, so neither is assumed here; the liveness properties below
\* take the first as their hypothesis.
Fairness ==
    /\ \A t \in Threads : WF_vars(WorkerStep(t))
    /\ WF_vars(Publish)

\* The hypothesis that every BatchInvoke a worker is in returns.
InvocationsReturn == \A t \in Threads : WF_vars(InvocationReturns(t))

Spec == Init /\ [][Next]_vars /\ Fairness

-----------------------------------------------------------------------------
(* Properties.                                                              *)

TypeOK ==
    /\ source \in [ConfiguredUris -> 1..MaxVersion]
    /\ repo \in Repository /\ candidate \in Repository
    /\ gen \in 1..MaxGen
    /\ readers \subseteq Threads
    /\ refresher \in {"sleeping", "locking"}
    /\ pc \in [Threads -> {"idle", "reply", "cb_lookup", "cb_invoke", "next", "bid_invoke",
                           "score_lookup", "score_invoke"}]
    /\ next \in [Threads -> Nat \ {0}]
    /\ fn \in [Threads -> [gen : 1..MaxGen, ver : 1..MaxVersion] \cup {NoFn}]
    /\ bid \in [Threads -> Int \cup {NoBid}]
    /\ seen \in [Threads -> SUBSET (1..MaxGen)]

\* A finished auction whose reply is OK.
AuctionDone(t) ==
    task[t].kind = "auction" /\ pc[t] = "reply" /\ resp[t] # NoResponse /\ resp[t].status = "OK"

\* winning_bid (when set) followed by losing_bids.
Ranked(t) == (IF resp[t].winner = NoBid THEN <<>> ELSE <<resp[t].winner>>) \o resp[t].losers

\* A function a thread is running belongs to the repository the server owns:
\* the refresh never destroys a repository while a BatchInvoke on one of its
\* functions is in flight (ad_auctions.cc 307-310, 317-320 against 357-358).
NoUseAfterFree == \A t \in Threads : fn[t] # NoFn => fn[t].gen = gen

\* RunAdAuction's reply is ranked: losing_bids are non-increasing in
\* desirability, a winning_bid is strictly positive and at least every loser,
\* and without a winner no loser is positive (ad_auctions.cc 289-300).
AuctionResponseRanked ==
    \A t \in Threads : AuctionDone(t) =>
        LET l == resp[t].losers IN
        /\ IsSorted(l, ScoreAtLeast)
        /\ resp[t].winner # NoBid =>
              /\ resp[t].winner.score > 0
              /\ \A i \in 1..Len(l) : resp[t].winner.score >= l[i].score
        /\ resp[t].winner = NoBid => \A i \in 1..Len(l) : l[i].score <= 0

\* Every bid the loop scored is in the reply exactly once (as winner or as
\* loser) and only interest groups of an allowed buyer ever bid
\* (ad_auctions.cc 259-300).
ResponseHoldsEachScoredBidOnce ==
    \A t \in Threads : AuctionDone(t) =>
        /\ ToBag(Ranked(t)) = ToBag(scored[t])
        /\ \A i \in 1..Len(Ranked(t)) : Ranked(t)[i].owner \in task[t].buyers

\* Spec 5: a request observes exactly one repository snapshot for its whole
\* duration.  The code takes the reader lock anew for every bidder and scorer.
SingleSnapshotPerRequest == \A t \in Threads : Cardinality(seen[t]) <= 1

\* If every BatchInvoke returns, every request a worker has taken gets its
\* reply: the reader locks of ComputeBid and RunAdAuction, taken anew for
\* every bidder and scorer and released on each error path
\* (ad_auctions.cc 201-320), never wait on each other or on the refresh
\* forever.
RequestsComplete ==
    InvocationsReturn => \A t \in Threads : pc[t] # "idle" ~> pc[t] = "idle"

\* If every BatchInvoke returns, a refresh waiting in WriterMutexLock
\* (ad_auctions.cc 357) is published, however many requests keep arriving:
\* absl::Mutex lets no new reader past a waiting writer.
RefreshPublished ==
    InvocationsReturn => (refresher = "locking" ~> refresher = "sleeping")

=============================================================================
