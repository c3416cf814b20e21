-------------------------- MODULE PeriodicFunction --------------------------
(***************************************************************************)
(* PeriodicFunction (src/util/periodic_function.cc) and the test variant   *)
(* and container of src/util/test_periodic_function.cc.                    *)
(*                                                                         *)
(* The constructor starts a thread that waits first_invocation_delay on an *)
(* absl::Notification, then runs function_ and waits invocation_interval,  *)
(* until a wait ends by notification.  The destructor notifies and joins;  *)
(* the owner's members that function_ uses are destroyed after the join    *)
(* (AdAuctionsImpl declares repository_refresh_ last).                     *)
(*                                                                         *)
(* TestPeriodicFunction passes infinite durations.  The container's        *)
(* factory records a raw pointer to every instance it makes; InvokeAllNow  *)
(* calls each one's function_ on the test thread.  The test thread also    *)
(* constructs and destroys the owners, one thing at a time.                *)
(*                                                                         *)
(* A duration is abstracted to whether it is finite: a finite wait may     *)
(* time out at any moment, an infinite one ends only by notification.      *)
(***************************************************************************)
EXTENDS Naturals, Sequences

CONSTANTS
    Instances,  \* PeriodicFunction objects a test or the server may create
    Kinds       \* factories in use: subset of {"default", "test"}

ASSUME Kinds \subseteq {"default", "test"} /\ Kinds # {}

VARIABLES
    kind,       \* per instance: the factory that built it
    thread,     \* per instance, reload_thread_: "delay" | "run" | "interval" | "exited"
    notified,   \* per instance: exit_notification_ has been notified
    owner,      \* per instance: "unborn" | "serving" | "joining" | "destroyed"
    instances,  \* TestPeriodicFunctionContainer::instances_
    sweep       \* InvokeAllNow's position in instances_, 0 when not running

vars == <<kind, thread, notified, owner, instances, sweep>>

\* Variant: the test factory's objects wait finite durations too.
FiniteEvenForTest(k) == TRUE

\* DefaultFactory forwards --function_refresh_interval; TestPeriodicFunction
\* passes absl::InfiniteDuration() for both durations.
Finite(k) == k = "default"

\* The test thread is blocked in a destructor's join.
Joining == \E p \in Instances : owner[p] = "joining"

-----------------------------------------------------------------------------
(* The reload thread of instance p.                                         *)

\* WaitForNotificationWithTimeout: true at once if notified (the flag stays
\* set), false when a finite timeout elapses.  True ends the thread.
WaitEnds(p, from, to) ==
    /\ thread[p] = from
    /\ \/ notified[p] /\ thread' = [thread EXCEPT ![p] = "exited"]
       \/ ~notified[p] /\ Finite(kind[p]) /\ thread' = [thread EXCEPT ![p] = to]
    /\ UNCHANGED <<kind, notified, owner, instances, sweep>>

FirstDelay(p) == WaitEnds(p, "delay", "run")

\* Variant: the loop condition without the negation.
IntervalEndsInverted(p) ==
    /\ thread[p] = "interval"
    /\ \/ notified[p] /\ thread' = [thread EXCEPT ![p] = "run"]
       \/ ~notified[p] /\ Finite(kind[p]) /\ thread' = [thread EXCEPT ![p] = "exited"]
    /\ UNCHANGED <<kind, notified, owner, instances, sweep>>

\* do { function_(); } while (!WaitForNotificationWithTimeout(interval)).
IntervalEnds(p) == WaitEnds(p, "interval", "run")

\* function_ returns.
RunReturns(p) ==
    /\ thread[p] = "run"
    /\ thread' = [thread EXCEPT ![p] = "interval"]
    /\ UNCHANGED <<kind, notified, owner, instances, sweep>>

-----------------------------------------------------------------------------
(* The test (or main) thread.                                               *)

\* The factory makes the object, whose constructor starts reload_thread_;
\* the container's factory also records the pointer.
Construct(p, k) ==
    /\ owner[p] = "unborn" /\ sweep = 0 /\ ~Joining
    /\ owner' = [owner EXCEPT ![p] = "serving"]
    /\ kind' = [kind EXCEPT ![p] = k]
    /\ thread' = [thread EXCEPT ![p] = "delay"]
    /\ instances' = IF k = "test" THEN Append(instances, p) ELSE instances
    /\ UNCHANGED <<notified, sweep>>

\* Variant: the destructor joins before it notifies.
NotifyAfterJoin(p) ==
    /\ owner[p] = "serving" /\ sweep = 0 /\ ~Joining
    /\ owner' = [owner EXCEPT ![p] = "joining"]
    /\ UNCHANGED <<kind, thread, notified, instances, sweep>>

\* ~PeriodicFunction: exit_notification_.Notify().
Notify(p) ==
    /\ owner[p] = "serving" /\ sweep = 0 /\ ~Joining
    /\ notified' = [notified EXCEPT ![p] = TRUE]
    /\ owner' = [owner EXCEPT ![p] = "joining"]
    /\ UNCHANGED <<kind, thread, instances, sweep>>

\* reload_thread_->join(); then the owner's members are destroyed.
Join(p) ==
    /\ owner[p] = "joining" /\ thread[p] = "exited"
    /\ owner' = [owner EXCEPT ![p] = "destroyed"]
    /\ UNCHANGED <<kind, thread, notified, instances, sweep>>

\* InvokeAllNow begins with instances_[0].
InvokeAllNow ==
    /\ sweep = 0 /\ instances # <<>> /\ ~Joining
    /\ sweep' = 1
    /\ UNCHANGED <<kind, thread, notified, owner, instances>>

\* Variant: the loop runs one element past the end.
InvokeNowReturnsPastEnd ==
    /\ sweep > 0
    /\ sweep' = IF sweep <= Len(instances) THEN sweep + 1 ELSE 0
    /\ UNCHANGED <<kind, thread, notified, owner, instances>>

\* The current InvokeNow returns; the loop moves to the next pointer.
InvokeNowReturns ==
    /\ sweep > 0
    /\ sweep' = IF sweep < Len(instances) THEN sweep + 1 ELSE 0
    /\ UNCHANGED <<kind, thread, notified, owner, instances>>

Init ==
    /\ kind = [p \in Instances |-> "default"]
    /\ thread = [p \in Instances |-> "exited"]
    /\ notified = [p \in Instances |-> FALSE]
    /\ owner = [p \in Instances |-> "unborn"]
    /\ instances = <<>>
    /\ sweep = 0

\* The reload thread's timed waits.
WaitStep(p) == FirstDelay(p) \/ IntervalEnds(p)

ThreadStep(p) == WaitStep(p) \/ RunReturns(p)

Next ==
    \/ \E p \in Instances : \/ ThreadStep(p) \/ Notify(p) \/ Join(p)
                            \/ \E k \in Kinds : Construct(p, k)
    \/ InvokeAllNow \/ InvokeNowReturns

\* Every reload thread keeps being scheduled, so a finite wait times out,
\* and a join whose thread has exited returns.  Nothing makes function_
\* return (on the reload thread or in InvokeNow), nor an object be built or
\* destroyed.
Spec == Init /\ [][Next]_vars
        /\ \A p \in Instances : WF_vars(WaitStep(p)) /\ WF_vars(Join(p))

-----------------------------------------------------------------------------
(* Properties.                                                              *)

TypeOK ==
    /\ kind \in [Instances -> Kinds \cup {"default"}]
    /\ thread \in [Instances -> {"delay", "run", "interval", "exited"}]
    /\ notified \in [Instances -> BOOLEAN]
    /\ owner \in [Instances -> {"unborn", "serving", "joining", "destroyed"}]
    /\ instances \in Seq(Instances)
    /\ sweep \in 0..Len(instances)

\* If every call of function_ on a reload thread returns, destroying an owner
\* finishes: the notification (periodic_function.cc 37-38) reaches its reload
\* thread wherever it is, before its first wait, inside function_ or in a
\* wait, and the join (39) returns.
DestructionCompletes ==
    (\A p \in Instances : WF_vars(RunReturns(p)))
        => \A p \in Instances : owner[p] = "joining" ~> owner[p] = "destroyed"

\* While a server object lives, its refresh keeps coming back.
RefreshRecurs ==
    \A p \in Instances :
        (owner[p] = "serving" /\ kind[p] = "default") ~> (thread[p] = "run" \/ owner[p] # "serving")

=============================================================================
