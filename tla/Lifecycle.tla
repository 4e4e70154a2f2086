------------------------------ MODULE Lifecycle ------------------------------
(***************************************************************************)
(* One process from start to exit: NewApp opens the store and the cache,   *)
(* Run starts the background workers and the HTTP server, and a supervisor *)
(* waits for a signal, the end of the server or the end of a worker.  Then *)
(* server and workers are stopped, in goroutines of their own and with one *)
(* deadline, before the store and the cache are closed.                    *)
(***************************************************************************)
EXTENDS Integers

CONSTANTS
    BackgroundWorkers,   \* reconciler, cleanup, queue monitor, email, webhooks
    FailureBuffer,       \* capacity of the failures channel
    MaxRequests          \* bound: HTTP requests in flight

ASSUME LifecycleAssumption == FailureBuffer \in Nat \ {0} /\ MaxRequests \in Nat

VARIABLES
    pc,          \* the main goroutine
    open,        \* the store and the cache, where open
    ready,       \* what /auth/ready answers
    signalled,   \* a signal that NotifyContext has caught
    serve,       \* server.Serve
    requests,    \* HTTP requests in flight
    background,  \* the background workers
    monitored,   \* workers whose monitor still waits for them
    failures,    \* messages in the failures channel
    stopping,    \* BackgroundWorkers.stopping
    deadline,    \* the shutdown context has ended
    result,      \* what the two shutdown calls have returned
    outcome

lifecycleVars == <<pc, open, ready, signalled, serve, requests, background, monitored,
                   failures, stopping, deadline, result, outcome>>

Resources == {"store", "cache"}

\* What NewApp and Run set up, each with what comes after it.
After == [store |-> "schema", schema |-> "mode", mode |-> "metrics", metrics |-> "settings",
          settings |-> "cache", cache |-> "services", services |-> "monitor", monitor |-> "cleanup",
          cleanup |-> "server", server |-> "listener", listener |-> "serving"]
Starting == pc \in DOMAIN After

SetReady(value) == ready' = value

-----------------------------------------------------------------------------
(* NewApp and the first half of Run.                                       *)

\* A stage succeeds; after the last the workers and the server run.
StartupStep ==
    /\ Starting
    /\ open' = open \cup ({pc} \cap Resources) /\ pc' = After[pc]
    /\ IF pc' # "serving"
       THEN UNCHANGED <<ready, serve, background, monitored>>
       ELSE /\ SetReady(TRUE) /\ serve' = "serving"
            /\ background' = [w \in BackgroundWorkers |-> "running"]
            /\ monitored' = BackgroundWorkers
    /\ UNCHANGED <<signalled, requests, failures, stopping, deadline, result, outcome>>

\* The error paths that name a resource: those of NewApp, each with its own calls
\* of Close, and the deferred App.Close of Run.
ErrorPaths ==
    [store |-> {"schema", "mode", "metrics", "settings", "cache",
                "services", "monitor", "cleanup", "server", "listener"},
     cache |-> {"services", "monitor", "cleanup", "server", "listener"}]
ClosedOnError(stage) == {r \in Resources : stage \in ErrorPaths[r]}

StartupFails ==
    /\ Starting /\ pc' = "ended" /\ outcome' = "startup"
    /\ open' = open \ ClosedOnError(pc)
    /\ UNCHANGED <<ready, signalled, serve, requests, background, monitored, failures, stopping, deadline, result>>

-----------------------------------------------------------------------------
(* The server, the workers and their monitors.                             *)

Exists == pc # "ended"

RequestBegins ==
    /\ pc \in {"serving", "draining"} /\ result.server = "uncalled" /\ requests < MaxRequests
    /\ requests' = requests + 1
    /\ UNCHANGED <<pc, open, ready, signalled, serve, background, monitored, failures, stopping, deadline, result, outcome>>

RequestEnds ==
    /\ Exists /\ requests > 0 /\ requests' = requests - 1
    /\ UNCHANGED <<pc, open, ready, signalled, serve, background, monitored, failures, stopping, deadline, result, outcome>>

\* Serve returns: an error of the listener, or ErrServerClosed after Shutdown.
ServeReturns ==
    /\ Exists /\ serve = "serving" /\ serve' = "returned"
    /\ UNCHANGED <<pc, open, ready, signalled, requests, background, monitored, failures, stopping, deadline, result, outcome>>

\* A worker ends, by itself or after its cancellation.
WorkerEnds(w) ==
    /\ Exists /\ background[w] = "running"
    /\ background' = [background EXCEPT ![w] = "ended"]
    /\ UNCHANGED <<pc, open, ready, signalled, serve, requests, monitored, failures, stopping, deadline, result, outcome>>

Speaks == ~stopping /\ failures < FailureBuffer
\* monitor: send unless the channel is full or the shutdown has begun.
Monitor(w) ==
    /\ Exists /\ w \in monitored /\ background[w] = "ended"
    /\ monitored' = monitored \ {w}
    /\ failures' = IF Speaks THEN failures + 1 ELSE failures
    /\ UNCHANGED <<pc, open, ready, signalled, serve, requests, background, stopping, deadline, result, outcome>>

\* The first signal is caught while the process serves; any other ends it.
Signal ==
    /\ \/ pc = "serving" /\ signalled' = TRUE /\ UNCHANGED <<pc, outcome>>
       \/ Exists /\ pc # "serving" /\ pc' = "ended" /\ outcome' = "killed" /\ UNCHANGED signalled
    /\ UNCHANGED <<open, ready, serve, requests, background, monitored, failures, stopping, deadline, result>>

-----------------------------------------------------------------------------
(* superviseLifecycle.                                                     *)

\* The select over the three reasons to stop.
Cause == signalled \/ serve = "returned" \/ failures > 0

\* Mutant: only signals and the server are waited for.
CauseWithoutWorkers == signalled \/ serve = "returned"
Awaited == Cause

BeginDraining ==
    /\ pc = "serving" /\ Awaited
    /\ pc' = "draining" /\ SetReady(FALSE)
    /\ UNCHANGED <<open, signalled, serve, requests, background, monitored, failures, stopping, deadline, result, outcome>>

\* The goroutine of server.Shutdown: no new requests, then wait for the old.
ServerShutdown ==
    /\ pc = "draining" /\ result.server = "uncalled"
    /\ result' = [result EXCEPT !.server = "called"]
    /\ UNCHANGED <<pc, open, ready, signalled, serve, requests, background, monitored, failures, stopping, deadline, outcome>>

\* The goroutine of workers.Shutdown: stopping, then the Shutdown of each worker.
WorkersShutdown ==
    /\ pc = "draining" /\ result.workers = "uncalled"
    /\ stopping' = TRUE /\ result' = [result EXCEPT !.workers = "called"]
    /\ UNCHANGED <<pc, open, ready, signalled, serve, requests, background, monitored, failures, deadline, outcome>>

\* A call returns nil when its part has come to rest, or the error of the deadline.
ServerStopped ==
    /\ Exists /\ result.server = "called"
    /\ \/ requests = 0 /\ result' = [result EXCEPT !.server = "done"]
       \/ deadline /\ result' = [result EXCEPT !.server = "late"]
    /\ UNCHANGED <<pc, open, ready, signalled, serve, requests, background, monitored, failures, stopping, deadline, outcome>>

WorkersStopped ==
    /\ Exists /\ result.workers = "called"
    /\ \/ (\A w \in BackgroundWorkers : background[w] = "ended") /\ result' = [result EXCEPT !.workers = "done"]
       \/ deadline /\ result' = [result EXCEPT !.workers = "late"]
    /\ UNCHANGED <<pc, open, ready, signalled, serve, requests, background, monitored, failures, stopping, deadline, outcome>>

DeadlinePasses ==
    /\ pc = "draining" /\ ~deadline /\ deadline' = TRUE
    /\ UNCHANGED <<pc, open, ready, signalled, serve, requests, background, monitored, failures, stopping, result, outcome>>

Returned == result.server \in {"done", "late"} /\ result.workers \in {"done", "late"}

\* Mutant: an error of the two calls is reported, not acted on.
NeverTimedOut == FALSE
\* shutdownCtx.Err() != nil || errors.Is(shutdownErr, context.DeadlineExceeded)
TimedOut == deadline \/ "late" \in {result.server, result.workers}

\* Both results are in, and that of Serve: Run closes the application, unless the deadline has passed.
FinishDraining ==
    /\ pc = "draining" /\ Returned /\ serve = "returned"
    /\ pc' = "ended"
    /\ IF TimedOut THEN outcome' = "timeout" /\ open' = open
       ELSE outcome' = "clean" /\ open' = {}
    /\ UNCHANGED <<ready, signalled, serve, requests, background, monitored, failures, stopping, deadline, result>>

\* The deadline passes while the supervisor waits: server.Close, and Run leaves
\* the store and the cache to the end of the process.
GiveUp ==
    /\ pc = "draining" /\ deadline /\ ~(Returned /\ serve = "returned")
    /\ pc' = "ended" /\ outcome' = "timeout"
    /\ UNCHANGED <<open, ready, signalled, serve, requests, background, monitored, failures, stopping, deadline, result>>

LifecycleInit ==
    /\ pc = "store" /\ open = {} /\ ready = FALSE /\ signalled = FALSE
    /\ serve = "none" /\ requests = 0
    /\ background = [w \in BackgroundWorkers |-> "none"] /\ monitored = {}
    /\ failures = 0 /\ stopping = FALSE /\ deadline = FALSE
    /\ result = [server |-> "uncalled", workers |-> "uncalled"] /\ outcome = "none"

\* The goroutines of the process, as opposed to what happens to it.
Supervisor == StartupStep \/ BeginDraining \/ ServerShutdown \/ WorkersShutdown \/ ServerStopped
    \/ WorkersStopped \/ FinishDraining \/ GiveUp
ServeEnds == result.server # "uncalled" /\ ServeReturns

LifecycleNext ==
    \/ Supervisor \/ StartupFails \/ Signal \/ DeadlinePasses
    \/ RequestBegins \/ RequestEnds \/ ServeReturns
    \/ \E w \in BackgroundWorkers : WorkerEnds(w) \/ Monitor(w)

\* Goroutines are scheduled and the timer fires; requests and workers may last.
LifecycleFairness ==
    /\ WF_lifecycleVars(Supervisor) /\ WF_lifecycleVars(DeadlinePasses) /\ WF_lifecycleVars(ServeEnds)
    /\ \A w \in BackgroundWorkers : WF_lifecycleVars(Monitor(w))

LifecycleSpec == LifecycleInit /\ [][LifecycleNext]_lifecycleVars
FairLifecycleSpec == LifecycleSpec /\ LifecycleFairness

-----------------------------------------------------------------------------
(* Properties.                                                             *)

\* Types, and a process that drains does not say it is ready.
LifecycleTypeOK ==
    /\ Starting \/ pc \in {"serving", "draining", "ended"}
    /\ open \subseteq Resources /\ requests \in 0..MaxRequests /\ failures \in 0..FailureBuffer
    /\ background \in [BackgroundWorkers -> {"none", "running", "ended"}] /\ monitored \subseteq BackgroundWorkers
    /\ ready => pc # "draining"

\* A start that fails at any stage, and a shutdown that ends in time, close what was opened;
\* the store and the cache are closed only after the last request and the
\* last worker have ended: a deadline that passes at any point of the
\* shutdown leaves them open (superviseLifecycle, Run, NewApp).
ResourcesClosed ==
    /\ outcome \in {"startup", "clean"} => open = {}
    /\ outcome = "clean" => requests = 0 /\ \A w \in BackgroundWorkers : background[w] = "ended"

\* A signal, a server or a worker that ends lead to the end of the process,
\* also when a request or a worker never comes to rest.
ProcessEnds ==
    []<>(pc = "ended" \/ ~(signalled \/ serve = "returned" \/ \E w \in BackgroundWorkers : background[w] = "ended"))

=============================================================================
