---------------------------- MODULE AppLifecycle ----------------------------
(***************************************************************************)
(* Boot and shutdown of the process: the boot chain and the two boots it   *)
(* leaves in the background, a shutdown that may begin at any point of     *)
(* them, its bounded waits, the ordered steps that stop the parts, steps   *)
(* that fail or hang, a deadline, and further signals.                     *)
(*                                                                         *)
(* Source: internal/app/lifecycle.go, internal/lifecycle/shutdown.go,      *)
(* cmd/server/main.go, internal/brokers/registry/brokerlogin.go (worker).  *)
(***************************************************************************)
EXTENDS Integers, Sequences, FiniteSets

CONSTANTS
    Signals,        \* signals the process receives
    MayFail         \* the shutdown steps that may fail

\* The boot chain in its order, by the part each step starts or loads.
BootSteps == <<"sweeper", "eod", "purge", "session", "broker", "runtime", "admin", "rf",
               "hourly", "analytics", "spike", "synth", "fv">>
\* Boots that go on in the background.
Unawaited == {"synth", "fv"}
\* A panic in one of the first steps is caught there or does not concern the chain.
Chain == {BootSteps[i] : i \in 4 .. Len(BootSteps)}

\* The shutdown steps in their order, with the parts each stops.
shutdownSteps == <<"synthetic", "fairvalue", "http", "schedulers", "feeds", "flush", "writes", "database">>
Stops(step) ==
    CASE step = "synthetic" -> {"synth", "spike"} [] step = "fairvalue" -> {"fv"}
      [] step = "schedulers" -> {"eod", "hourly", "analytics", "sweeper", "purge"}
      [] step = "feeds" -> {"runtime"} [] OTHER -> {}

VARIABLES
    bootAt,     \* "new", "check", "run" or "done"
    bootPos,    \* the boot step it is at
    tasks,      \* background boots running
    up,         \* parts that run
    worker,     \* the token-service worker: "off", "on" or "closed"
    stopping,   \* App.stopping
    shut,       \* per signal: "none", "token", "boot", "tasks", "run", "wait" or "returned"
    coord,      \* the coordinator: "idle", "running", "timed out" or "finished"
    step,       \* the shutdown step running, 0 before the first
    listening, inflight,    \* the HTTP server and a handler in progress
    exit,       \* -1 while the process runs, then its exit code
    \* What happened, for the properties.
    ended,      \* parts whose stop step has run
    gaveUp,     \* a bounded wait passed
    failed      \* shutdown steps that failed

bootVars == <<bootAt, bootPos, tasks>>
stepVars == <<coord, step, ended, failed>>
httpVars == <<listening, inflight>>
lifeVars == <<bootVars, up, worker, stopping, shut, stepVars, httpVars, exit, gaveUp>>

LifecycleInit ==
    /\ bootAt = "new" /\ bootPos = 1 /\ tasks = {} /\ up = {} /\ worker = "off" /\ stopping = FALSE
    /\ shut = [g \in Signals |-> "none"] /\ coord = "idle" /\ step = 0 /\ listening = TRUE /\ inflight = FALSE
    /\ exit = -1 /\ ended = {} /\ gaveUp = FALSE /\ failed = {}

alive == exit = -1

--------------------------------------------------------------------------------
(* Boot. *)

Start ==
    /\ alive /\ bootAt = "new" /\ bootAt' = IF stopping THEN "done" ELSE "check"
    /\ UNCHANGED <<bootPos, tasks, up, worker, stopping, shut, stepVars, httpVars, exit, gaveUp>>

\* One step runs unless shutdown has begun.
bootStep ==
    /\ alive /\ bootAt = "check"
    /\ bootAt' = IF bootPos > Len(BootSteps) \/ stopping THEN "done" ELSE "run"
    /\ UNCHANGED <<bootPos, tasks, up, worker, stopping, shut, stepVars, httpVars, exit, gaveUp>>

\* Unless closed, the worker of the token service starts with the runtime.
StartDhanTokenService(p) == worker' = IF p = "runtime" /\ worker = "off" THEN "on" ELSE worker

\* The step's work: the part runs; the last two are started in the background unless
\* shutdown has begun. A panic ends the chain.
bootRun ==
    /\ alive /\ bootAt = "run"
    /\ LET p == BootSteps[bootPos]
       IN \/ /\ bootAt' = "check" /\ bootPos' = bootPos + 1
             /\ IF p \in Unawaited THEN tasks' = (IF stopping THEN tasks ELSE tasks \cup {p}) /\ UNCHANGED <<up, worker>>
                ELSE up' = up \cup {p} /\ StartDhanTokenService(p) /\ UNCHANGED tasks
          \/ p \in Chain /\ bootAt' = "done" /\ UNCHANGED <<bootPos, tasks, up, worker>>
    /\ UNCHANGED <<stopping, shut, stepVars, httpVars, exit, gaveUp>>

background(p) ==
    /\ alive /\ p \in tasks /\ tasks' = tasks \ {p}
    /\ up' = up \cup {p} \/ UNCHANGED up
    /\ UNCHANGED <<bootAt, bootPos, worker, stopping, shut, stepVars, httpVars, exit, gaveUp>>

--------------------------------------------------------------------------------
(* Shutdown: one goroutine per signal. *)

moves(g, from, to) == alive /\ shut[g] = from /\ shut' = [shut EXCEPT ![g] = to]

\* The flag is set and the boot chain cancelled; the worker is closed and waited for.
Shutdown(g) ==
    /\ moves(g, "none", "token") /\ stopping' = TRUE
    /\ UNCHANGED <<bootVars, up, worker, stepVars, httpVars, exit, gaveUp>>
StopDhanTokenService(g) ==
    /\ moves(g, "token", "boot") /\ worker' = "closed"
    /\ UNCHANGED <<bootVars, up, stopping, stepVars, httpVars, exit, gaveUp>>

\* Mutation: the boot chain is not waited for.
Mut_NoBootWait == TRUE
bootDone == bootAt \in {"new", "done"}

\* Each wait ends when what it waits for has ended, or when its time is up.
waitBoot(g) ==
    /\ moves(g, "boot", "tasks") /\ gaveUp' \in IF bootDone THEN {gaveUp} ELSE {TRUE}
    /\ UNCHANGED <<bootVars, up, worker, stopping, stepVars, httpVars, exit>>
waitTimeout(g) ==
    /\ moves(g, "tasks", "run") /\ gaveUp' \in IF tasks = {} THEN {gaveUp} ELSE {TRUE}
    /\ UNCHANGED <<bootVars, up, worker, stopping, stepVars, httpVars, exit>>

--------------------------------------------------------------------------------
(* The coordinator. *)

\* The first caller starts the sequence, the others wait for its result.
RunShutdown(g) ==
    /\ moves(g, "run", "wait") /\ coord' = IF coord = "idle" THEN "running" ELSE coord
    /\ step' = IF coord = "idle" THEN 1 ELSE step
    /\ UNCHANGED <<bootVars, up, worker, stopping, ended, failed, httpVars, exit, gaveUp>>

\* The server stops listening; what remains is closed, and its handlers get a bounded wait.
stopHTTP == listening' = FALSE /\ gaveUp' \in IF inflight THEN {TRUE} ELSE {gaveUp}

\* A step ends, well or not; a failure never stops the later ones. It may also hang. A part
\* that was never started has nothing to stop. The sequence goes on after the deadline, until
\* the process exits.
runStep ==
    /\ alive /\ step \in 1 .. Len(shutdownSteps) /\ step' = step + 1
    /\ LET s == shutdownSteps[step]
       IN /\ \/ up' = up \ Stops(s) /\ ended' = ended \cup Stops(s) /\ UNCHANGED failed
             \/ s \in MayFail /\ failed' = failed \cup {s} /\ ended' = ended \cup Stops(s) /\ UNCHANGED up
          /\ IF s = "http" THEN stopHTTP ELSE UNCHANGED <<listening, gaveUp>>
    /\ coord' = IF step = Len(shutdownSteps) /\ coord = "running" THEN "finished" ELSE coord
    /\ UNCHANGED <<bootVars, worker, stopping, shut, inflight, exit>>

\* Mutation: no deadline.
Mut_NoDeadline == FALSE /\ UNCHANGED lifeVars
deadlinePasses ==
    /\ alive /\ coord = "running" /\ coord' = "timed out"
    /\ UNCHANGED <<bootVars, up, worker, stopping, shut, step, ended, failed, httpVars, exit, gaveUp>>

\* The coordinator states in which Run's result is there.
resulted == {"finished", "timed out"}

\* Result.ExitCode: 1 only after the deadline.
ExitCode == IF coord = "timed out" THEN 1 ELSE 0
exitProcess(g) ==
    /\ moves(g, "wait", "returned") /\ coord \in resulted /\ exit' = ExitCode
    /\ UNCHANGED <<bootVars, up, worker, stopping, stepVars, httpVars, gaveUp>>

\* HTTP handlers.
track ==
    /\ alive /\ (inflight' = ~inflight) /\ (inflight \/ listening)
    /\ UNCHANGED <<bootVars, up, worker, stopping, shut, stepVars, listening, exit, gaveUp>>

LifecycleNext ==
    \/ Start \/ bootStep \/ bootRun \/ (\E p \in Unawaited : background(p))
    \/ \E g \in Signals : Shutdown(g) \/ StopDhanTokenService(g) \/ waitBoot(g) \/ waitTimeout(g) \/ RunShutdown(g) \/ exitProcess(g)
    \/ runStep \/ deadlinePasses \/ track

\* Every wait has a timer, and goroutines are scheduled; a boot or a shutdown step may hang.
Advances(g) == StopDhanTokenService(g) \/ waitBoot(g) \/ waitTimeout(g) \/ RunShutdown(g) \/ exitProcess(g)
LifecycleFairness ==
    /\ \A g \in Signals : WF_lifeVars(Advances(g))
    /\ WF_lifeVars(deadlinePasses)

LifecycleSpec == LifecycleInit /\ [][LifecycleNext]_lifeVars /\ LifecycleFairness

--------------------------------------------------------------------------------
(* Properties. *)

\* Nothing runs after its stop step (unless that step failed): a boot step that was under
\* way when shutdown began has finished before the steps run. The exception is a wait whose
\* time was up.
NothingStartsLate ==
    \A p \in up \cap ended : gaveUp \/ \E s \in failed : p \in Stops(s)

\* Exit code 0 says that the whole sequence ran, the pool was closed last, and no handler
\* and no part that writes was left behind, whichever signal's goroutine exits first.
ExitZeroMeansStopped ==
    exit = 0 => /\ step > Len(shutdownSteps) /\ worker = "closed"
                /\ gaveUp \/ failed # {} \/ (~inflight /\ up \cap {"synth", "spike", "fv", "eod", "hourly", "analytics", "runtime"} = {})

Ending == alive /\ \E g \in Signals : shut[g] # "none"

\* A signal ends the process, whatever hangs.
SignalEnds == Ending ~> ~Ending

\* Nothing runs after its stop step, and exit code 0 tells the truth.
ShutdownSound == NothingStartsLate /\ ExitZeroMeansStopped

--------------------------------------------------------------------------------
(* ShutdownSound is inductive together with what the waits before the steps have seen. *)

LifeTypeOK ==
    /\ bootAt \in {"new", "check", "run", "done"} /\ worker \in {"off", "on", "closed"}
    /\ shut \in [Signals -> {"none", "token", "boot", "tasks", "run", "wait", "returned"}]
    /\ coord \in {"idle", "running", "timed out", "finished"} /\ step \in Nat /\ exit \in {-1, 0, 1}

\* A goroutine that is past a wait has seen the end of what it waited for, or somebody gave up;
\* once shutdown has begun nothing of it begins again.
WaitsSeen ==
    \A g \in Signals :
        /\ shut[g] # "none" => stopping
        /\ shut[g] \notin {"none", "token"} => worker = "closed"
        /\ shut[g] \in {"tasks", "run", "wait", "returned"} => gaveUp \/ bootDone
        /\ shut[g] \in {"run", "wait", "returned"} => gaveUp \/ tasks = {}

\* The steps run only behind the waits, in order, and finish only after the last.
StepsInOrder ==
    /\ coord = "idle" => step = 0 /\ ended = {} /\ exit = -1
    /\ coord # "idle" => \E g \in Signals : shut[g] \in {"wait", "returned"}
    /\ coord = "finished" => step > Len(shutdownSteps)
    /\ exit = 0 => coord = "finished"
    /\ \A i \in 1 .. Len(shutdownSteps) : i < step => Stops(shutdownSteps[i]) \subseteq ended

\* Behind the HTTP step no handler runs, or its bounded wait passed.
HandlersGone == step > 3 => gaveUp \/ (~listening /\ ~inflight)

LifeIInv == LifeTypeOK /\ WaitsSeen /\ StepsInOrder /\ HandlersGone /\ NothingStartsLate
================================================================================
