------------------------------ MODULE JobQueue ------------------------------
(***************************************************************************)
(* The jobs of one call of queueGapsForProcessing (JobSplitter) on their   *)
(* way through the queue: delayed by their number, taken by priority, held *)
(* up by the handler's rate limiter (handlers/gap-processing.handler.ts),  *)
(* and the worker process (queue/worker.ts) being stopped, killed and      *)
(* restarted meanwhile.  What a job does is in TxPipeline, its retries     *)
(* included; here it runs and ends.                                        *)
(***************************************************************************)
EXTENDS JobSplitter

CONSTANTS
    SmallSize,      \* the sizes calculateJobPriority tells apart
    MediumSize,
    Concurrency,
    Rate,           \* jobs the limiter starts per unit of time
    MaxStalled,     \* BullMQ's maxStalledCount
    MaxMishaps,     \* bound: stops, kills and uncaught exceptions
    MaxFollowed     \* bound: longer lists of jobs are built but not followed

ASSUME QueueAssumption ==
    /\ SmallSize \in Nat /\ MediumSize \in Nat
    /\ Concurrency \in Nat \ {0} /\ Rate \in Nat \ {0}
    /\ MaxStalled \in Nat /\ MaxMishaps \in Nat /\ MaxFollowed \in Nat

VARIABLES
    queue,      \* in Redis: the state of each job
    held,       \* in the process: the jobs being processed,
    running,    \*   the one the limiter has let through, 0 for none,
    tokens,     \*   and the limiter's reservoir
    worker,     \* "up", "closing" (gracefulShutdown waits), "down"
    stopped,    \* whether the operator has stopped the container
    mishaps     \* stops, kills and exceptions so far

processVars == <<held, running, tokens>>
queueVars == <<queue, held, running, tokens, worker, stopped, mishaps>>
vars == <<source, gaps, k, currentFromBlock, totalJobs, jobs, pc,
          queue, held, running, tokens, worker, stopped, mishaps>>

Init ==
    /\ SplitInit
    /\ queue = <<>>
    /\ held = {}
    /\ running = 0
    /\ tokens = Rate
    /\ worker = "up"
    /\ stopped = FALSE
    /\ mishaps = 0

Split == SplitNext /\ UNCHANGED queueVars

\* due is what is left of the delay; lost, how often the job's process was
\* killed, is history.
Enqueue ==
    /\ AddBulk
    /\ queue' = [n \in 1 .. Len(jobs) |->
          [state |-> "waiting", due |-> jobs[n].currentJob, stalls |-> 0, lost |-> 0]]
    /\ UNCHANGED <<processVars, worker, stopped, mishaps>>

Followed == pc = "done" /\ Len(queue) <= MaxFollowed

Set(n, state) == queue' = [queue EXCEPT ![n].state = state]

-----------------------------------------------------------------------------
(* Time and the worker's jobs *)

\* Mutant: the reservoir has no refresh interval.
Tick_NoRefresh ==
    /\ Followed
    /\ \E n \in DOMAIN queue : queue[n].due > 0
    /\ queue' = [n \in DOMAIN queue |->
                    [queue[n] EXCEPT !.due = IF @ > 0 THEN @ - 1 ELSE 0]]
    /\ UNCHANGED <<splitVars, held, running, tokens, worker, stopped, mishaps>>

\* A second: delays run, the reservoir is refreshed.
Tick ==
    /\ Followed
    /\ tokens < Rate \/ \E n \in DOMAIN queue : queue[n].due > 0
    /\ queue' = [n \in DOMAIN queue |->
                    [queue[n] EXCEPT !.due = IF @ > 0 THEN @ - 1 ELSE 0]]
    /\ tokens' = Rate
    /\ UNCHANGED <<splitVars, held, running, worker, stopped, mishaps>>

\* calculateJobPriority: small gaps get the largest number.
Priority(n) == IF Size(jobs[n]) <= SmallSize THEN 10
               ELSE IF Size(jobs[n]) <= MediumSize THEN 5 ELSE 1

\* BullMQ takes the lowest number first, and before all of them the jobs that
\* the stalled check put back.
Rank(n) == IF queue[n].stalls > 0 THEN 0 ELSE Priority(n)

Ready == {n \in DOMAIN queue : queue[n].state = "waiting" /\ queue[n].due = 0}

Claim(n) ==
    /\ Followed
    /\ worker = "up"
    /\ Cardinality(held) < Concurrency
    /\ n \in Ready
    /\ \A m \in Ready : Rank(n) <= Rank(m)
    /\ Set(n, "active")
    /\ held' = held \cup {n}
    /\ UNCHANGED <<splitVars, running, tokens, worker, stopped, mishaps>>

\* etherscanLimiter.schedule: one at a time, and as long as there are tokens.
Schedule(n) ==
    /\ n \in held
    /\ running = 0
    /\ tokens > 0
    /\ running' = n
    /\ tokens' = tokens - 1
    /\ UNCHANGED <<splitVars, queue, held, worker, stopped, mishaps>>

\* The handler returns, also while the worker closes.
FinishJob(n) ==
    /\ running = n
    /\ Set(n, "finished")
    /\ held' = held \ {n}
    /\ running' = 0
    /\ UNCHANGED <<splitVars, tokens, worker, stopped, mishaps>>

\* A stalled job is put back, or given up after MaxStalled times.
Stalled(j) == [j EXCEPT !.state = IF j.stalls < MaxStalled THEN "waiting" ELSE "failed",
                        !.stalls = @ + 1]

\* The stalled check of a worker finds an active job nobody holds.
Recover(n) ==
    /\ Followed
    /\ worker = "up"
    /\ n \in DOMAIN queue
    /\ queue[n].state = "active" /\ n \notin held
    /\ queue' = [queue EXCEPT ![n] = Stalled(@)]
    /\ UNCHANGED <<splitVars, processVars, worker, stopped, mishaps>>

-----------------------------------------------------------------------------
(* The worker process *)

Mishap == Followed /\ mishaps < MaxMishaps /\ mishaps' = mishaps + 1

\* gracefulShutdown, up to worker.close; later signals are ignored.
Close == worker' = IF worker = "up" THEN "closing" ELSE worker

\* The operator stops the container: SIGTERM, and no restart after it.
Stop ==
    /\ Mishap
    /\ ~stopped
    /\ stopped' = TRUE
    /\ Close
    /\ UNCHANGED <<splitVars, queue, processVars>>

\* uncaughtException, unhandledRejection, or a signal from elsewhere.
Throw ==
    /\ Mishap
    /\ worker = "up"
    /\ Close
    /\ UNCHANGED <<splitVars, queue, processVars, stopped>>

\* The process is gone, and with it what it held in memory.
ProcessEnds == worker' = "down" /\ held' = {} /\ running' = 0 /\ tokens' = Rate

\* Mutant: the close is not awaited.
Exit_AtOnce ==
    /\ worker = "closing"
    /\ ProcessEnds
    /\ UNCHANGED <<splitVars, queue, stopped, mishaps>>

\* Mutant: the process waits for the queue to run empty.
Exit_WhenQueueEmpty ==
    /\ worker = "closing"
    /\ \A n \in DOMAIN queue : queue[n].state \in {"finished", "failed"}
    /\ ProcessEnds
    /\ UNCHANGED <<splitVars, queue, stopped, mishaps>>

\* worker.close has waited for the running jobs: process.exit(0).
Exit ==
    /\ worker = "closing"
    /\ held = {}
    /\ ProcessEnds
    /\ UNCHANGED <<splitVars, queue, stopped, mishaps>>

\* A crash, SIGKILL after the grace period, or process.exit(1) when the close
\* throws: active jobs stay active.
Kill ==
    /\ Mishap
    /\ worker # "down"
    /\ ProcessEnds
    /\ queue' = [n \in DOMAIN queue |->
                    [queue[n] EXCEPT !.lost = IF n \in held THEN @ + 1 ELSE @]]
    /\ UNCHANGED <<splitVars, stopped>>

\* restart: unless-stopped
Restart ==
    /\ worker = "down"
    /\ ~stopped
    /\ worker' = "up"
    /\ UNCHANGED <<splitVars, queue, processVars, stopped, mishaps>>

\* The operator starts the container again.
StartAgain ==
    /\ worker = "down"
    /\ stopped
    /\ stopped' = FALSE
    /\ worker' = "up"
    /\ UNCHANGED <<splitVars, queue, processVars, mishaps>>

Over == \A n \in DOMAIN queue : queue[n].state \in {"finished", "failed"}

Terminated == pc = "done" /\ (Over \/ ~Followed) /\ UNCHANGED vars

JobStep == \E n \in DOMAIN queue : Schedule(n) \/ FinishJob(n)

Next == \/ Split \/ Enqueue
        \/ Tick \/ JobStep
        \/ (\E n \in DOMAIN queue : Claim(n) \/ Recover(n))
        \/ Stop \/ Throw \/ Exit \/ Kill \/ Restart \/ StartAgain
        \/ Terminated

(***************************************************************************)
(* Time passes; an idle worker takes a job, a job that runs ends, the      *)
(* stalled check runs, a process that may exit does, and the container is  *)
(* restarted unless it was stopped.  Nobody has to start it again.         *)
(***************************************************************************)
Spec == /\ Init /\ [][Next]_vars
        /\ WF_vars(Split \/ Enqueue)
        /\ WF_vars(Tick) /\ WF_vars(JobStep)
        /\ WF_vars(\E n \in DOMAIN queue : Claim(n))
        /\ WF_vars(\E n \in DOMAIN queue : Recover(n))
        /\ WF_vars(Exit) /\ WF_vars(Restart)

-----------------------------------------------------------------------------
(* Properties *)

TypeOK ==
    /\ SplitTypeOK
    /\ queue \in Seq([state : {"waiting", "active", "finished", "failed"},
                      due : Nat, stalls : Nat, lost : 0 .. MaxMishaps])
    /\ held \subseteq DOMAIN queue
    /\ Cardinality(held) <= Concurrency
    /\ running \in held \cup {0}
    /\ tokens \in 0 .. Rate
    /\ worker \in {"up", "closing", "down"}
    /\ stopped \in BOOLEAN
    /\ mishaps \in 0 .. MaxMishaps

(***************************************************************************)
(* Stopping and restarting the worker costs no job anything: a job is      *)
(* found stalled, and given up after too many stalls, only as often as its *)
(* process was killed under it, for gracefulShutdown ("Finalising running  *)
(* jobs") leaves nothing active, whatever exceptions and signals come.     *)
(***************************************************************************)
QuietExit ==
    \A n \in DOMAIN queue :
        LET j == queue[n]
        IN  /\ j.stalls <= j.lost
            /\ j.state = "active" /\ n \notin held => j.stalls < j.lost

(***************************************************************************)
(* A shutdown comes to an end: the jobs it waits for get through the       *)
(* limiter, one after the other, though no new ones are taken.             *)
(***************************************************************************)
ShutdownEnds == worker = "closing" ~> worker = "down"

(***************************************************************************)
(* However delays, priorities, the limiter and restarts fall, the call     *)
(* ends and every job of it is finished or given up in the end, unless the *)
(* container stays stopped.  That small gaps come last (calculateJobPriority *)
(* calls 10 high, BullMQ takes 1 first) starves none of them.              *)
(***************************************************************************)
JobsDrain == <>(pc = "done" /\ (Over \/ ~Followed)) \/ <>[]stopped
=============================================================================
