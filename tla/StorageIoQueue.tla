---------------------------- MODULE StorageIoQueue ----------------------------
(***************************************************************************)
(* The bounded queue of asynchronous storage work and its tickets          *)
(* (StorageIoQueue and StorageTicket, kvmem/src/host/spill_io.cpp).        *)
(*                                                                         *)
(* Each job is submitted at most once; its work closure owns HostKvLeases. *)
(* Workers follow run() with one step between any two critical sections.   *)
(* Callers wait on a ticket, or sample completion_epoch, look at their     *)
(* tickets and wait for the next epoch.  The timeout of that last wait is  *)
(* left out: nothing may depend on it.                                     *)
(***************************************************************************)
EXTENDS Integers, FiniteSets, Sequences

CONSTANTS
    Jobs, Workers,
    Callers,        \* threads that wait
    JobBytes,       \* pinned bytes of each job
    MaxJobs, MaxPinned,
    NoJob

ASSUME QueueAssumption ==
    /\ MaxJobs \in Nat \ {0} /\ MaxPinned \in Nat \ {0}
    /\ JobBytes \in [Jobs -> Nat]
    /\ NoJob \notin Jobs
    /\ IsFiniteSet(Jobs)

VARIABLES
    jobs,           \* Impl.jobs
    outstanding, bytes, epoch, stopping,
    status,         \* StorageTaskState.status; "none" before submit
    running, cancel,
    owned,          \* jobs whose work closure, and leases, still exist
    ran,            \* jobs whose work was called
    wpc, wjob,      \* where each worker is in run(), and its job
    failed,         \* jobs whose work threw
    cpc, cjob,      \* callers: what they do, and the ticket they hold
    seen            \* callers: the epoch sampled

taskVars   == <<status, running, cancel, owned, ran, failed>>
queueVars  == <<jobs, outstanding, bytes, epoch, stopping>>
workerVars == <<wpc, wjob>>
callerVars == <<cpc, cjob, seen>>
vars == <<taskVars, queueVars, workerVars, callerVars>>

Init ==
    /\ jobs = <<>> /\ outstanding = 0 /\ bytes = 0 /\ epoch = 0 /\ stopping = FALSE
    /\ status = [j \in Jobs |-> "none"]
    /\ running = {} /\ cancel = {} /\ owned = {} /\ ran = {} /\ failed = {}
    /\ wpc = [w \in Workers |-> "top"] /\ wjob = [w \in Workers |-> NoJob]
    /\ cpc = [c \in Callers |-> "free"] /\ cjob = [c \in Callers |-> NoJob]
    /\ seen = [c \in Callers |-> 0]

Ready(j) == status[j] \in {"Complete", "Failed", "Cancelled"}
Accepted(j) == status[j] # "none"

-----------------------------------------------------------------------------
(* Callers                                                                  *)

\* Nothing sleeps on `available', or one sleeper is woken.
NotifyOne ==
    \/ /\ \A w \in Workers : wpc[w] # "asleep"
       /\ UNCHANGED wpc
    \/ \E w \in Workers : wpc[w] = "asleep" /\ wpc' = [wpc EXCEPT ![w] = "top"]

\* submit(); a call that meets a limit throws Pending and changes nothing.
Submit(j) ==
    /\ status[j] = "none" /\ ~stopping
    /\ outstanding < MaxJobs /\ JobBytes[j] <= MaxPinned - bytes
    /\ jobs' = Append(jobs, j)
    /\ outstanding' = outstanding + 1 /\ bytes' = bytes + JobBytes[j]
    /\ status' = [status EXCEPT ![j] = "Pending"]
    /\ owned' = owned \cup {j}
    /\ NotifyOne
    /\ UNCHANGED <<epoch, stopping, running, cancel, ran, failed, wjob, callerVars>>

\* StorageTicket::cancel returning true; otherwise it changes nothing.
Cancel(j) ==
    /\ Accepted(j) /\ j \notin running /\ ~Ready(j)
    /\ cancel' = cancel \cup {j}
    /\ UNCHANGED <<status, running, owned, ran, failed, queueVars, workerVars,
                   callerVars>>

\* A caller whose call returned keeps nothing of it.
Return(back) ==
    /\ cpc' = [c \in Callers |-> IF c \in back THEN "free" ELSE cpc[c]]
    /\ cjob' = [c \in Callers |-> IF c \in back THEN NoJob ELSE cjob[c]]
    /\ seen' = [c \in Callers |-> IF c \in back THEN 0 ELSE seen[c]]

\* StorageTicket::wait: test the predicate under the task mutex, or sleep.
Wait(c, j) ==
    /\ cpc[c] = "free" /\ Accepted(j) /\ ~Ready(j)
    /\ cpc' = [cpc EXCEPT ![c] = "waiting"] /\ cjob' = [cjob EXCEPT ![c] = j]
    /\ UNCHANGED <<seen, taskVars, queueVars, workerVars>>

\* completion_epoch(), before the caller looks at its ticket.
Sample(c, j) ==
    /\ cpc[c] = "free" /\ Accepted(j)
    /\ cpc' = [cpc EXCEPT ![c] = "sampled"] /\ cjob' = [cjob EXCEPT ![c] = j]
    /\ seen' = [seen EXCEPT ![c] = epoch]
    /\ UNCHANGED <<taskVars, queueVars, workerVars>>

\* The ticket is ready, or the caller goes on to wait_for_completion.
Look(c) ==
    /\ cpc[c] = "sampled"
    /\ \/ Ready(cjob[c]) /\ Return({c})
       \/ ~Ready(cjob[c]) /\ cpc' = [cpc EXCEPT ![c] = "looked"] /\ UNCHANGED <<cjob, seen>>
    /\ UNCHANGED <<taskVars, queueVars, workerVars>>

\* wait_for_completion: test the predicate under the queue mutex, or sleep.
WaitEpoch(c) ==
    /\ cpc[c] = "looked"
    /\ \/ epoch # seen[c] /\ Return({c})
       \/ epoch = seen[c] /\ cpc' = [cpc EXCEPT ![c] = "epoch"] /\ UNCHANGED <<cjob, seen>>
    /\ UNCHANGED <<taskVars, queueVars, workerVars>>

\* ~StorageIoQueue: stop, wake every worker and join them.
Stop ==
    /\ ~stopping
    /\ stopping' = TRUE
    /\ wpc' = [w \in Workers |-> IF wpc[w] = "asleep" THEN "top" ELSE wpc[w]]
    /\ UNCHANGED <<jobs, outstanding, bytes, epoch, taskVars, wjob, callerVars>>

-----------------------------------------------------------------------------
(* Impl::run                                                                *)

\* The head of the loop, under the queue mutex.
Take(w) ==
    /\ wpc[w] = "top"
    /\ \/ /\ jobs # <<>>
          /\ wpc' = [wpc EXCEPT ![w] = "taken"]
          /\ wjob' = [wjob EXCEPT ![w] = Head(jobs)]
          /\ jobs' = Tail(jobs)
       \/ /\ jobs = <<>> /\ stopping
          /\ wpc' = [wpc EXCEPT ![w] = "exit"]
          /\ UNCHANGED <<jobs, wjob>>
       \/ /\ jobs = <<>> /\ ~stopping
          /\ wpc' = [wpc EXCEPT ![w] = "asleep"]
          /\ UNCHANGED <<jobs, wjob>>
    /\ UNCHANGED <<outstanding, bytes, epoch, stopping, taskVars, callerVars>>

\* Read the cancel flag and mark the job running, under the task mutex.
Begin(w) ==
    /\ wpc[w] = "taken"
    /\ running' = running \cup {wjob[w]}
    /\ wpc' = [wpc EXCEPT ![w] = IF wjob[w] \in cancel THEN "clear" ELSE "work"]
    /\ UNCHANGED <<status, cancel, owned, ran, failed, queueVars, wjob, callerVars>>

\* job.work(), which may throw.
Work(w) ==
    /\ wpc[w] = "work"
    /\ ran' = ran \cup {wjob[w]}
    /\ failed' \in {failed, failed \cup {wjob[w]}}
    /\ wpc' = [wpc EXCEPT ![w] = "clear"]
    /\ UNCHANGED <<status, running, cancel, owned, queueVars, wjob, callerVars>>

\* A worker that keeps the closure until the Job goes out of scope.
ClearLater(w) ==
    /\ wpc[w] = "clear"
    /\ wpc' = [wpc EXCEPT ![w] = "account"]
    /\ UNCHANGED <<taskVars, queueVars, wjob, callerVars>>

\* job.work = {}.
Clear(w) ==
    /\ wpc[w] = "clear"
    /\ owned' = owned \ {wjob[w]}
    /\ wpc' = [wpc EXCEPT ![w] = "account"]
    /\ UNCHANGED <<status, running, cancel, ran, failed, queueVars, wjob, callerVars>>

\* The slot and the bytes of the job are free, under the queue mutex.
Account(w) ==
    /\ wpc[w] = "account"
    /\ outstanding' = outstanding - 1 /\ bytes' = bytes - JobBytes[wjob[w]]
    /\ wpc' = [wpc EXCEPT ![w] = "settle"]
    /\ UNCHANGED <<jobs, epoch, stopping, taskVars, wjob, callerVars>>

\* The outcome, under the task mutex.
Settle(w) ==
    LET j == wjob[w]
    IN  /\ wpc[w] = "settle"
        /\ status' = [status EXCEPT ![j] = IF j \notin ran THEN "Cancelled"
                                           ELSE IF j \in failed THEN "Failed"
                                           ELSE "Complete"]
        /\ wpc' = [wpc EXCEPT ![w] = "notify"]
        /\ UNCHANGED <<running, cancel, owned, ran, failed, queueVars, wjob,
                       callerVars>>

\* A worker that signals completed jobs only.
NotifySuccessOnly(w) ==
    /\ wpc[w] = "notify"
    /\ Return({c \in Callers : /\ cpc[c] = "waiting" /\ cjob[c] = wjob[w]
                              /\ status[wjob[w]] = "Complete"})
    /\ wpc' = [wpc EXCEPT ![w] = "epoch"]
    /\ UNCHANGED <<taskVars, queueVars, wjob>>

\* changed.notify_all().
Notify(w) ==
    /\ wpc[w] = "notify"
    /\ Return({c \in Callers : cpc[c] = "waiting" /\ cjob[c] = wjob[w]})
    /\ wpc' = [wpc EXCEPT ![w] = "epoch"]
    /\ UNCHANGED <<taskVars, queueVars, wjob>>

\* ++epoch, under the queue mutex ...
Epoch(w) ==
    /\ wpc[w] = "epoch"
    /\ epoch' = epoch + 1
    /\ wpc' = [wpc EXCEPT ![w] = "completed"]
    /\ UNCHANGED <<jobs, outstanding, bytes, stopping, taskVars, wjob, callerVars>>

\* ... and completed.notify_all().  A woken caller tests its predicate again.
Completed(w) ==
    /\ wpc[w] = "completed"
    /\ Return({c \in Callers : cpc[c] = "epoch" /\ epoch # seen[c]})
    /\ wpc' = [wpc EXCEPT ![w] = "top"]
    /\ wjob' = [wjob EXCEPT ![w] = NoJob]
    /\ UNCHANGED <<taskVars, queueVars>>

Run(w) == \/ Take(w) \/ Begin(w) \/ Work(w) \/ Clear(w) \/ Account(w)
          \/ Settle(w) \/ Notify(w) \/ Epoch(w) \/ Completed(w)

Call == \/ \E j \in Jobs : Submit(j) \/ Cancel(j)
        \/ \E c \in Callers, j \in Jobs : Wait(c, j) \/ Sample(c, j)
        \/ Stop

Next == \/ Call
        \/ \E c \in Callers : Look(c) \/ WaitEpoch(c)
        \/ \E w \in Workers : Run(w)

Spec == Init /\ [][Next]_vars

\* Threads inside the queue keep running.
FairSpec ==
    /\ Spec
    /\ \A w \in Workers : WF_vars(Run(w))
    /\ \A c \in Callers : WF_vars(Look(c) \/ WaitEpoch(c))

-----------------------------------------------------------------------------
(* Properties                                                               *)

WorkerPcs == {"top", "asleep", "taken", "work", "clear", "account", "settle",
              "notify", "epoch", "completed", "exit"}

\* Shape of the variables.
TypeOK ==
    /\ jobs \in Seq(Jobs)
    /\ outstanding \in 0 .. MaxJobs /\ bytes \in 0 .. MaxPinned
    /\ epoch \in Nat /\ stopping \in BOOLEAN
    /\ status \in [Jobs -> {"none", "Pending", "Complete", "Failed", "Cancelled"}]
    /\ running \subseteq Jobs /\ cancel \subseteq Jobs /\ owned \subseteq Jobs
    /\ ran \subseteq Jobs /\ failed \subseteq ran
    /\ wpc \in [Workers -> WorkerPcs] /\ wjob \in [Workers -> Jobs \cup {NoJob}]
    /\ cpc \in [Callers -> {"free", "waiting", "sampled", "looked", "epoch"}]
    /\ cjob \in [Callers -> Jobs \cup {NoJob}] /\ seen \in [Callers -> Nat]

\* Jobs that still occupy a slot of the queue.
Holding == {j \in Jobs : /\ status[j] = "Pending"
                         /\ \A w \in Workers : wpc[w] = "settle" => wjob[w] # j}

\* The bytes that these jobs pin.
Pinned(S) == UNION {{j} \X (1 .. JobBytes[j]) : j \in S}

\* The two limits count exactly the accepted jobs not yet accounted for, so
\* neither a cancelled nor a failed job leaks a slot or pinned bytes.
LimitsExact ==
    /\ outstanding = Cardinality(Holding)
    /\ bytes = Cardinality(Pinned(Holding))

\* A ticket's outcome is exact.  Whoever sees a final status finds the leases of
\* the job released and its slot free, so the records can be written and a
\* successor submitted at once; and a cancel() that returned true is final: the
\* work never runs and the ticket never answers anything but Cancelled.  The two
\* limits are exact all the while.
OutcomeExact ==
    /\ TypeOK
    /\ LimitsExact
    /\ \A j \in Jobs : Ready(j) => j \notin owned \cup Holding
    /\ cancel \cap ran = {}
    /\ \A j \in cancel : Ready(j) => status[j] = "Cancelled"

\* No wake-up is lost.  Every accepted job is completed, failed or cancelled,
\* though submit wakes one worker only (a job is submitted once, and in the end
\* none is pending); wait() returns; and a caller that samples the epoch, finds
\* its ticket pending and waits for the next epoch is woken without the help of
\* its timeout.  The destructor returns, and not before every accepted job has
\* its outcome and no lease is left behind.
Progress ==
    /\ <>[](\A j \in Jobs : status[j] # "Pending")
    /\ \A c \in Callers : []<>(cpc[c] \notin {"waiting", "epoch"})
    /\ stopping ~> /\ \A w \in Workers : wpc[w] = "exit"
                   /\ jobs = <<>> /\ owned = {}
                   /\ \A j \in Jobs : Accepted(j) => Ready(j)

=============================================================================
