----------------------------- MODULE UnusedPort -----------------------------
(***************************************************************************)
(* FindUnusedPort (src/util/unused_port.cc), as the server test calls it:  *)
(* one thread, one call after another, each returned port then bound by a  *)
(* server of the test.                                                     *)
(*                                                                         *)
(* A call starts at next_port_ (kFirstUserPort when 0) and tries up to     *)
(* kMaxTries ports, moving to the next one and wrapping to kFirstUserPort  *)
(* once it reaches the first ephemeral port.  A port is available when a   *)
(* socket can bind and listen on it; the socket is closed again at once.   *)
(* The probe stores the port in sin_port without htons, so on a            *)
(* little-endian host the kernel binds the byte-swapped port.              *)
(***************************************************************************)
EXTENDS Integers

CONSTANTS
    FirstUserPort,      \* kFirstUserPort
    MinEphemeral,       \* first field of ip_local_port_range
    MaxTries,           \* kMaxTries
    MaxCalls,           \* calls the test makes
    TakenChoices,       \* ports other processes may hold (host order)
    Exhausted           \* the ResourceExhausted result

VARIABLES
    root,       \* the test runs as root: ports below 1024 can be bound
    taken,      \* ports bound by other processes
    serving,    \* ports bound by the test's own servers
    nextPort,   \* next_port_
    pc,         \* "idle" | "probe" | "done"
    port,       \* the port being tried
    tries,      \* tries made in this call
    ret,        \* what the last call returned
    calls,      \* calls made
    bindFailed  \* a server could not bind a port FindUnusedPort returned

vars == <<root, taken, serving, nextPort, pc, port, tries, ret, calls, bindFailed>>

\* htons/ntohs on a little-endian host: sin_port is a uint16_t.
ByteSwap16(p) == LET q == p % 65536 IN (q % 256) * 256 + q \div 256

\* bind and listen succeed on kernel port k.
Bindable(k) == k \notin taken \cup serving /\ (root \/ k >= 1024)

\* IsPortAvailable(port): socket and setsockopt (SO_REUSEADDR), which fail
\* only for want of descriptors or memory (sockOk), then bind and listen
\* with addr.sin_port = port.
IsPortAvailable(p, sockOk) == sockOk /\ Bindable(ByteSwap16(p))

-----------------------------------------------------------------------------

\* The port range file is read (ResourceExhausted when it cannot be, as in
\* a sandbox without /proc); next_port_ is read under the reader lock.
Start ==
    /\ pc = "idle" /\ calls < MaxCalls
    /\ calls' = calls + 1
    /\ \/ /\ pc' = "probe"
          /\ port' = IF nextPort = 0 THEN FirstUserPort ELSE nextPort
          /\ tries' = 0
          /\ UNCHANGED ret
       \/ /\ ret' = Exhausted /\ pc' = "done"
          /\ UNCHANGED <<port, tries>>
    /\ UNCHANGED <<root, taken, serving, nextPort, bindFailed>>

\* One iteration of the loop: a free port is recorded (writer lock) and
\* returned; otherwise the next port, wrapping at the ephemeral range.
Probe ==
    /\ pc = "probe" /\ tries < MaxTries
    /\ \E sockOk \in BOOLEAN :
          IF IsPortAvailable(port, sockOk)
          THEN /\ nextPort' = port + 1 /\ ret' = port /\ pc' = "done"
               /\ UNCHANGED <<port, tries>>
          ELSE /\ port' = IF port + 1 >= MinEphemeral THEN FirstUserPort ELSE port + 1
               /\ tries' = tries + 1
               /\ UNCHANGED <<nextPort, ret, pc>>
    /\ UNCHANGED <<root, taken, serving, calls, bindFailed>>

\* kMaxTries ports were busy.
GiveUp ==
    /\ pc = "probe" /\ tries = MaxTries
    /\ ret' = Exhausted /\ pc' = "done"
    /\ UNCHANGED <<root, taken, serving, nextPort, port, tries, calls, bindFailed>>

\* The test's server binds the returned port (in host order, through its
\* own library); .value() on an error aborts the test.
Use ==
    /\ pc = "done" /\ ret # Exhausted
    /\ IF Bindable(ret) THEN serving' = serving \cup {ret} /\ UNCHANGED bindFailed
                        ELSE bindFailed' = TRUE /\ UNCHANGED serving
    /\ pc' = "idle"
    /\ UNCHANGED <<root, taken, nextPort, port, tries, ret, calls>>

Init ==
    /\ root \in BOOLEAN
    /\ taken \in SUBSET TakenChoices
    /\ serving = {} /\ nextPort = 0
    /\ pc = "idle" /\ port = FirstUserPort /\ tries = 0
    /\ ret = Exhausted /\ calls = 0 /\ bindFailed = FALSE

Next == Start \/ Probe \/ GiveUp \/ Use

\* The test thread keeps running while it is inside a call.
Spec == Init /\ [][Next]_vars /\ WF_vars(Probe \/ GiveUp)

-----------------------------------------------------------------------------
(* Properties.                                                              *)

TypeOK ==
    /\ root \in BOOLEAN /\ bindFailed \in BOOLEAN
    /\ pc \in {"idle", "probe", "done"}
    /\ port \in Nat /\ nextPort \in Nat
    /\ tries \in 0..MaxTries /\ calls \in 0..MaxCalls
    /\ ret \in Nat \cup {Exhausted}

\* A port FindUnusedPort found free can be bound by the caller.
BindSucceeds == ~bindFailed

=============================================================================
