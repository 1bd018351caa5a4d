------------------------- MODULE StorageIoQueueProofs -------------------------
(***************************************************************************)
(* The outcome of a storage ticket (kvmem/src/host/spill_io.cpp) for any   *)
(* number of jobs, workers and callers and any limits: OutcomeExact of     *)
(* StorageIoQueue.                                                         *)
(***************************************************************************)
EXTENDS StorageIoQueue, SequenceTheorems, FiniteSetTheorems, TLAPS

-----------------------------------------------------------------------------
(* The two limits                                                           *)

LEMMA PinnedOne ==
  ASSUME NEW j \in Jobs
  PROVE  /\ IsFiniteSet({j} \X (1 .. JobBytes[j]))
         /\ Cardinality({j} \X (1 .. JobBytes[j])) = JobBytes[j]
  <1> DEFINE n == JobBytes[j]
  <1>1. n \in Nat
    BY QueueAssumption
  <1> HIDE DEF n
  <1>2. IsFiniteSet(1 .. n) /\ Cardinality(1 .. n) = n
    BY <1>1, FS_Interval
  <1>3. IsFiniteSet({j}) /\ Cardinality({j}) = 1
    BY FS_Singleton
  <1> DEFINE one == {j}
             cells == 1 .. n
  <1> HIDE DEF one, cells
  <1>4. /\ IsFiniteSet(one) /\ Cardinality(one) = 1
        /\ IsFiniteSet(cells) /\ Cardinality(cells) = n
    BY <1>2, <1>3 DEF one, cells
  <1>5. IsFiniteSet(one \X cells) /\ Cardinality(one \X cells) = Cardinality(one) * Cardinality(cells)
    BY <1>4, FS_Product, Zenon
  <1>6. IsFiniteSet(one \X cells) /\ Cardinality(one \X cells) = n
    BY <1>1, <1>4, <1>5
  <1> QED
    BY <1>1, <1>6 DEF n, one, cells

LEMMA PinnedFinite ==
  ASSUME NEW S, S \subseteq Jobs
  PROVE  IsFiniteSet(S) /\ IsFiniteSet(Pinned(S)) /\ Cardinality(Pinned(S)) \in Nat
  <1>1. IsFiniteSet(S)
    BY QueueAssumption, FS_Subset
  <1> DEFINE cells(j) == {j} \X (1 .. JobBytes[j])
             g == [j \in S |-> cells(j)]
             T == {cells(j) : j \in S}
  <1>2. IsFiniteSet(T)
    <2>1. g \in Surjection(S, T)
      BY DEF Surjection
    <2> QED
      BY <1>1, <2>1, FS_Surjection
  <1>3. \A t \in T : IsFiniteSet(t)
    BY PinnedOne
  <1>4. IsFiniteSet(UNION T)
    BY <1>2, <1>3, FS_UNION
  <1> QED
    BY <1>1, <1>4, FS_CardinalityType DEF Pinned

LEMMA PinnedAdded ==
  ASSUME NEW S, S \subseteq Jobs, NEW j \in Jobs \ S
  PROVE  Cardinality(Pinned(S \cup {j})) = Cardinality(Pinned(S)) + JobBytes[j]
  <1> DEFINE one == {j} \X (1 .. JobBytes[j])
  <1>1. Pinned(S \cup {j}) = Pinned(S) \cup one /\ Pinned(S) \cap one = {}
    BY DEF Pinned
  <1>2. IsFiniteSet(one) /\ Cardinality(one) = JobBytes[j] /\ JobBytes[j] \in Nat
    BY PinnedOne, QueueAssumption
  <1>3. IsFiniteSet(Pinned(S)) /\ Cardinality(Pinned(S)) \in Nat
    BY PinnedFinite
  <1> HIDE DEF one
  <1>4. Cardinality(Pinned(S) \cup one) =
          Cardinality(Pinned(S)) + Cardinality(one) - Cardinality({})
    BY <1>1, <1>2, <1>3, FS_Union
  <1>5. Cardinality({}) = 0
    BY FS_EmptySet
  <1>6. Cardinality(Pinned(S) \cup one) = Cardinality(Pinned(S)) + JobBytes[j]
    BY <1>2, <1>3, <1>4, <1>5
  <1> QED
    BY <1>1, <1>6

LEMMA LimitsAdd ==
  ASSUME LimitsExact, Holding \subseteq Jobs, NEW j \in Jobs \ Holding,
         Holding' = Holding \cup {j},
         outstanding' = outstanding + 1, bytes' = bytes + JobBytes[j]
  PROVE  LimitsExact'
  <1>1. IsFiniteSet(Holding)
    BY PinnedFinite
  <1>2. Cardinality(Holding \cup {j}) = Cardinality(Holding) + 1
    BY <1>1, FS_AddElement
  <1>3. Cardinality(Pinned(Holding \cup {j})) = Cardinality(Pinned(Holding)) + JobBytes[j]
    BY PinnedAdded
  <1>4. Pinned(Holding)' = Pinned(Holding \cup {j})
    BY DEF Pinned
  <1> QED
    BY <1>2, <1>3, <1>4 DEF LimitsExact

LEMMA LimitsDrop ==
  ASSUME LimitsExact, Holding \subseteq Jobs, NEW j \in Holding,
         Holding' = Holding \ {j},
         outstanding' = outstanding - 1, bytes' = bytes - JobBytes[j]
  PROVE  LimitsExact' /\ outstanding' \in Nat /\ bytes' \in Nat
  <1> DEFINE S == Holding \ {j}
  <1>1. /\ IsFiniteSet(Holding) /\ IsFiniteSet(S) /\ S \subseteq Jobs
        /\ Cardinality(Pinned(S)) \in Nat /\ JobBytes[j] \in Nat
    BY PinnedFinite, QueueAssumption
  <1>2. Cardinality(S) = Cardinality(Holding) - 1 /\ Cardinality(S) \in Nat
        /\ Cardinality(Holding) \in Nat
    BY <1>1, FS_RemoveElement, FS_CardinalityType
  <1>3. Holding = S \cup {j} /\ j \in Jobs \ S
    OBVIOUS
  <1>4. Cardinality(Pinned(S \cup {j})) = Cardinality(Pinned(S)) + JobBytes[j]
    BY <1>1, <1>3, PinnedAdded
  <1>5. Pinned(Holding)' = Pinned(S) /\ Pinned(Holding) = Pinned(S \cup {j})
    BY <1>3 DEF Pinned
  <1> HIDE DEF S
  <1>6. outstanding' = Cardinality(S)
    BY <1>2 DEF LimitsExact
  <1>7. bytes' = Cardinality(Pinned(S))
    BY <1>1, <1>4, <1>5 DEF LimitsExact
  <1> QED
    BY <1>1, <1>2, <1>5, <1>6, <1>7 DEF LimitsExact, S

LEMMA LimitsKept ==
  ASSUME LimitsExact, Holding' = Holding, UNCHANGED <<outstanding, bytes>>
  PROVE  LimitsExact'
  <1>1. Pinned(Holding)' = Pinned(Holding)
    BY DEF Pinned
  <1> QED
    BY <1>1 DEF LimitsExact

-----------------------------------------------------------------------------
(* The invariant                                                            *)

\* Where a worker has a job, and where the outcome of that job is still open.
Unsettled == {"taken", "work", "clear", "account", "settle"}
InFlight == Unsettled \cup {"notify", "epoch", "completed"}

\* A worker has a job of its own exactly while it is in flight.
WorkersHold ==
    /\ \A w \in Workers : wjob[w] # NoJob <=> wpc[w] \in InFlight
    /\ \A w, v \in Workers : wjob[w] # NoJob /\ wjob[w] = wjob[v] => w = v

\* A queued job is pending and nobody has it yet.
QueuedOnce ==
    /\ \A i, k \in DOMAIN jobs : jobs[i] = jobs[k] => i = k
    /\ \A i \in DOMAIN jobs : /\ status[jobs[i]] = "Pending"
                             /\ \A w \in Workers : wjob[w] # jobs[i]

\* What each place in run() means for the job: no cancel can arrive once it is
\* marked running, so the flag that Begin read decides whether the work runs.
Stages ==
    \A w \in Workers : wpc[w] \in InFlight =>
        /\ status[wjob[w]] \in (IF wpc[w] \in Unsettled THEN {"Pending"}
                               ELSE {"Complete", "Failed", "Cancelled"})
        /\ wpc[w] # "taken" => wjob[w] \in running
        /\ wpc[w] = "work" => wjob[w] \notin cancel
        /\ wpc[w] \notin {"taken", "work", "clear"} => wjob[w] \notin owned

Outcomes ==
    /\ ran \subseteq running /\ cancel \cap ran = {}
    /\ \A j \in owned : status[j] = "Pending"
    /\ \A j \in cancel : Ready(j) => status[j] = "Cancelled"

QueueInv == TypeOK /\ WorkersHold /\ QueuedOnce /\ Stages /\ Outcomes /\ LimitsExact

LEMMA OutcomesFollow == QueueInv => OutcomeExact
  BY DEF QueueInv, OutcomeExact, Outcomes, Ready, Holding

LEMMA QueueStarts == Init => QueueInv
  <1> SUFFICES ASSUME Init PROVE QueueInv
    OBVIOUS
  <1>0. TypeOK
    <2>1. <<>> \in Seq(Jobs)
      OBVIOUS
    <2>2. 0 \in 0 .. MaxJobs /\ 0 \in 0 .. MaxPinned
      BY QueueAssumption
    <2> QED
      BY <2>1, <2>2 DEF Init, TypeOK, WorkerPcs
  <1>1. TypeOK /\ WorkersHold /\ QueuedOnce /\ Stages /\ Outcomes
    <2>1. \A w \in Workers : wpc[w] = "top" /\ wjob[w] = NoJob
      BY DEF Init
    <2>2. WorkersHold /\ Stages
      BY <2>1 DEF WorkersHold, Stages, InFlight, Unsettled
    <2>3. QueuedOnce /\ Outcomes
      BY DEF Init, QueuedOnce, Outcomes
    <2> QED
      BY <1>0, <2>2, <2>3
  <1>2. Holding = {}
    BY DEF Init, Holding
  <1>3. Pinned(Holding) = {}
    BY <1>2 DEF Pinned
  <1>4. LimitsExact
    BY <1>2, <1>3, FS_EmptySet DEF LimitsExact, Init
  <1> QED
    BY <1>1, <1>4 DEF QueueInv

LEMMA HoldingJobs == Holding \subseteq Jobs
  BY DEF Holding

\* The calls of those who wait, and the notifications, touch no job.
LEMMA CallersMove ==
  ASSUME QueueInv, UNCHANGED <<taskVars, workerVars, jobs, outstanding, bytes>>,
         epoch' \in Nat, stopping' \in BOOLEAN,
         cpc' \in [Callers -> {"free", "waiting", "sampled", "looked", "epoch"}],
         cjob' \in [Callers -> Jobs \cup {NoJob}], seen' \in [Callers -> Nat]
  PROVE  QueueInv'
  <1> USE DEF taskVars, workerVars
  <1>1. TypeOK'
    BY DEF QueueInv, TypeOK
  <1>2. WorkersHold' /\ QueuedOnce' /\ Stages' /\ Outcomes'
    BY DEF QueueInv, WorkersHold, QueuedOnce, Stages, Outcomes, Ready
  <1>3. Holding' = Holding
    BY DEF Holding
  <1>4. LimitsExact'
    BY <1>3, LimitsKept DEF QueueInv
  <1> QED
    BY <1>1, <1>2, <1>4 DEF QueueInv

LEMMA ReturnTypes ==
  ASSUME TypeOK, NEW back, Return(back)
  PROVE  /\ cpc' \in [Callers -> {"free", "waiting", "sampled", "looked", "epoch"}]
         /\ cjob' \in [Callers -> Jobs \cup {NoJob}] /\ seen' \in [Callers -> Nat]
  BY DEF TypeOK, Return

LEMMA Submits == ASSUME QueueInv, NEW j \in Jobs, Submit(j) PROVE QueueInv'
  <1>1. /\ jobs' = Append(jobs, j) /\ status' = [status EXCEPT ![j] = "Pending"]
        /\ owned' = owned \cup {j} /\ status[j] = "none"
        /\ outstanding' = outstanding + 1 /\ bytes' = bytes + JobBytes[j]
        /\ outstanding < MaxJobs /\ JobBytes[j] <= MaxPinned - bytes
        /\ UNCHANGED <<epoch, stopping, running, cancel, ran, failed, wjob, callerVars>>
    BY DEF Submit
  <1>2. \/ UNCHANGED wpc
        \/ \E w \in Workers : wpc[w] = "asleep" /\ wpc' = [wpc EXCEPT ![w] = "top"]
    BY DEF Submit, NotifyOne
  <1>3. /\ wpc' \in [Workers -> WorkerPcs]
        /\ \A w \in Workers : wpc'[w] = wpc[w] \/ (wpc[w] = "asleep" /\ wpc'[w] = "top")
    BY <1>2 DEF QueueInv, TypeOK, WorkerPcs
  <1>4. \A i \in Jobs : status'[i] = IF i = j THEN "Pending" ELSE status[i]
    BY <1>1 DEF QueueInv, TypeOK
  <1>5. /\ Len(jobs) \in Nat /\ DOMAIN jobs = 1 .. Len(jobs)
        /\ DOMAIN jobs' = 1 .. Len(jobs) + 1 /\ jobs'[Len(jobs) + 1] = j
        /\ \A i \in DOMAIN jobs : jobs'[i] = jobs[i] /\ jobs[i] \in Jobs /\ jobs[i] # j
    BY <1>1 DEF QueueInv, TypeOK, QueuedOnce
  <1>6. \A w \in Workers : wjob[w] # j
    <2> SUFFICES ASSUME NEW w \in Workers, wjob[w] = j PROVE FALSE
      OBVIOUS
    <2>1. wpc[w] \in InFlight
      BY QueueAssumption DEF QueueInv, WorkersHold
    <2> QED
      BY <1>1, <2>1 DEF QueueInv, Stages
  <1>7. TypeOK'
    <2>1. JobBytes[j] \in Nat
      BY QueueAssumption
    <2>2. outstanding' \in 0 .. MaxJobs /\ bytes' \in 0 .. MaxPinned
      BY <1>1, <2>1, QueueAssumption DEF QueueInv, TypeOK
    <2> QED
      BY <1>1, <1>3, <2>2 DEF QueueInv, TypeOK, callerVars
  <1>8. WorkersHold'
    BY <1>1, <1>3 DEF QueueInv, WorkersHold, InFlight, Unsettled
  <1>9. QueuedOnce'
    BY <1>1, <1>4, <1>5, <1>6 DEF QueueInv, QueuedOnce
  <1>10. Stages'
    <2> SUFFICES ASSUME NEW w \in Workers, wpc'[w] \in InFlight
                 PROVE  /\ status'[wjob'[w]] \in (IF wpc'[w] \in Unsettled THEN {"Pending"}
                                                ELSE {"Complete", "Failed", "Cancelled"})
                        /\ wpc'[w] # "taken" => wjob'[w] \in running'
                        /\ wpc'[w] = "work" => wjob'[w] \notin cancel'
                        /\ wpc'[w] \notin {"taken", "work", "clear"} => wjob'[w] \notin owned'
      BY DEF Stages
    <2>1. wpc'[w] = wpc[w] /\ wjob'[w] = wjob[w] /\ wjob[w] \in Jobs
      BY <1>1, <1>3 DEF QueueInv, TypeOK, WorkersHold, InFlight, Unsettled
    <2> QED
      BY <1>1, <1>4, <1>6, <2>1 DEF QueueInv, Stages
  <1>11. Outcomes'
    BY <1>1, <1>4 DEF QueueInv, TypeOK, Outcomes, Ready
  <1>12. Holding' = Holding \cup {j} /\ j \notin Holding
    <2>1. \A w \in Workers : (wpc'[w] = "settle") <=> (wpc[w] = "settle")
      BY <1>3
    <2> QED
      BY <1>1, <1>4, <1>6, <2>1 DEF Holding
  <1>13. LimitsExact'
    BY <1>1, <1>12, HoldingJobs, LimitsAdd DEF QueueInv
  <1> QED
    BY <1>7, <1>8, <1>9, <1>10, <1>11, <1>13 DEF QueueInv

LEMMA Cancels == ASSUME QueueInv, NEW j \in Jobs, Cancel(j) PROVE QueueInv'
  <1>1. /\ cancel' = cancel \cup {j} /\ j \notin running /\ ~Ready(j)
        /\ UNCHANGED <<status, running, owned, ran, failed, queueVars, workerVars, callerVars>>
    BY DEF Cancel
  <1> USE DEF queueVars, workerVars, callerVars
  <1>2. TypeOK' /\ WorkersHold' /\ QueuedOnce'
    BY <1>1 DEF QueueInv, TypeOK, WorkersHold, QueuedOnce
  <1>3. Stages'
    BY <1>1 DEF QueueInv, Stages
  <1>4. Outcomes'
    BY <1>1 DEF QueueInv, Outcomes, Ready
  <1>5. Holding' = Holding
    BY <1>1 DEF Holding
  <1>6. LimitsExact'
    BY <1>1, <1>5, LimitsKept DEF QueueInv
  <1> QED
    BY <1>2, <1>3, <1>4, <1>6 DEF QueueInv

-----------------------------------------------------------------------------
(* The workers                                                              *)

\* The other workers have other jobs.
LEMMA OwnJob ==
  ASSUME QueueInv, NEW w \in Workers, wpc[w] \in InFlight
  PROVE  /\ wjob[w] \in Jobs
         /\ \A v \in Workers : v # w => wjob[v] # wjob[w]
  BY QueueAssumption DEF QueueInv, TypeOK, WorkersHold

LEMMA Takes == ASSUME QueueInv, NEW w \in Workers, Take(w) PROVE QueueInv'
  <1>1. /\ wpc[w] = "top"
        /\ UNCHANGED <<outstanding, bytes, epoch, stopping, taskVars, callerVars>>
    BY DEF Take
  <1>2. CASE /\ jobs # <<>> /\ wpc' = [wpc EXCEPT ![w] = "taken"]
             /\ wjob' = [wjob EXCEPT ![w] = Head(jobs)] /\ jobs' = Tail(jobs)
    <2> DEFINE j == Head(jobs)
    <2>1. /\ Len(jobs) \in Nat /\ DOMAIN jobs = 1 .. Len(jobs) /\ 1 \in DOMAIN jobs
          /\ j = jobs[1] /\ j \in Jobs
          /\ jobs' \in Seq(Jobs) /\ DOMAIN jobs' = 1 .. Len(jobs) - 1
          /\ \A i \in 1 .. Len(jobs) - 1 : jobs'[i] = jobs[i + 1]
      BY <1>2 DEF QueueInv, TypeOK
    <2>2. status[j] = "Pending" /\ \A v \in Workers : wjob[v] # j
      BY <2>1 DEF QueueInv, QueuedOnce
    <2> HIDE DEF j
    <2>3. /\ \A v \in Workers : wpc'[v] = IF v = w THEN "taken" ELSE wpc[v]
          /\ \A v \in Workers : wjob'[v] = IF v = w THEN j ELSE wjob[v]
      BY <1>2 DEF QueueInv, TypeOK, j
    <2>4. TypeOK'
      BY <1>1, <1>2, <2>1 DEF QueueInv, TypeOK, WorkerPcs, taskVars, callerVars, j
    <2>5. WorkersHold'
      <3>1. j # NoJob
        BY <2>1, QueueAssumption
      <3>2. \A v \in Workers : wjob'[v] # NoJob <=> wpc'[v] \in InFlight
        BY <2>3, <3>1 DEF QueueInv, WorkersHold, InFlight, Unsettled
      <3>3. \A u, v \in Workers : wjob'[u] # NoJob /\ wjob'[u] = wjob'[v] => u = v
        BY <2>2, <2>3 DEF QueueInv, WorkersHold
      <3> QED
        BY <3>2, <3>3 DEF WorkersHold
    <2>6. QueuedOnce'
      <3>1. \A i \in DOMAIN jobs' : i + 1 \in DOMAIN jobs /\ i + 1 # 1 /\ jobs'[i] = jobs[i + 1]
        BY <2>1
      <3>2. \A i \in DOMAIN jobs' : jobs'[i] # j
        BY <2>1, <3>1 DEF QueueInv, QueuedOnce
      <3>3. \A i, k \in DOMAIN jobs' : jobs'[i] = jobs'[k] => i = k
        BY <2>1, <3>1 DEF QueueInv, QueuedOnce
      <3>4. \A i \in DOMAIN jobs' : /\ status'[jobs'[i]] = "Pending"
                                  /\ \A v \in Workers : wjob'[v] # jobs'[i]
        BY <1>1, <2>3, <3>1, <3>2 DEF QueueInv, QueuedOnce, taskVars
      <3> QED
        BY <3>3, <3>4 DEF QueuedOnce
    <2>7. Stages'
      BY <1>1, <2>2, <2>3 DEF QueueInv, Stages, Unsettled, InFlight, taskVars
    <2>8. Outcomes'
      BY <1>1 DEF QueueInv, Outcomes, Ready, taskVars
    <2>9. Holding' = Holding
      BY <1>1, <2>3 DEF Holding, taskVars
    <2>10. LimitsExact'
      BY <1>1, <2>9, LimitsKept DEF QueueInv
    <2> QED
      BY <2>4, <2>5, <2>6, <2>7, <2>8, <2>10 DEF QueueInv
  <1>3. CASE UNCHANGED <<jobs, wjob>> /\ \E b \in {"exit", "asleep"} : wpc' = [wpc EXCEPT ![w] = b]
    <2>1. PICK b \in {"exit", "asleep"} : wpc' = [wpc EXCEPT ![w] = b]
      BY <1>3
    <2>2. \A v \in Workers : wpc'[v] = IF v = w THEN b ELSE wpc[v]
      BY <2>1 DEF QueueInv, TypeOK
    <2>3. TypeOK'
      BY <1>1, <1>3, <2>1 DEF QueueInv, TypeOK, WorkerPcs, taskVars, callerVars
    <2>4. WorkersHold' /\ QueuedOnce' /\ Stages'
      BY <1>1, <1>3, <2>2 DEF QueueInv, WorkersHold, QueuedOnce, Stages, Unsettled, InFlight, taskVars
    <2>5. Outcomes'
      BY <1>1 DEF QueueInv, Outcomes, Ready, taskVars
    <2>6. Holding' = Holding
      BY <1>1, <1>3, <2>2 DEF Holding, taskVars
    <2>7. LimitsExact'
      BY <1>1, <2>6, LimitsKept DEF QueueInv
    <2> QED
      BY <2>3, <2>4, <2>5, <2>7 DEF QueueInv
  <1> QED
    BY <1>2, <1>3 DEF Take

LEMMA Begins == ASSUME QueueInv, NEW w \in Workers, Begin(w) PROVE QueueInv'
  <1>1. /\ wpc[w] = "taken" /\ running' = running \cup {wjob[w]}
        /\ wpc' = [wpc EXCEPT ![w] = IF wjob[w] \in cancel THEN "clear" ELSE "work"]
        /\ UNCHANGED <<status, cancel, owned, ran, failed, queueVars, wjob, callerVars>>
    BY DEF Begin
  <1>2. wjob[w] \in Jobs /\ \A v \in Workers : v # w => wjob[v] # wjob[w]
    BY <1>1, OwnJob DEF InFlight, Unsettled
  <1>3. \A v \in Workers :
          wpc'[v] = IF v = w THEN (IF wjob[w] \in cancel THEN "clear" ELSE "work") ELSE wpc[v]
    BY <1>1 DEF QueueInv, TypeOK
  <1>4. TypeOK'
    BY <1>1, <1>2 DEF QueueInv, TypeOK, WorkerPcs, queueVars, callerVars
  <1>5. WorkersHold' /\ QueuedOnce'
    BY <1>1, <1>3 DEF QueueInv, WorkersHold, QueuedOnce, Unsettled, InFlight, queueVars
  <1>6. Stages'
    BY <1>1, <1>3 DEF QueueInv, Stages, Unsettled, InFlight
  <1>7. Outcomes'
    BY <1>1 DEF QueueInv, Outcomes, Ready
  <1>8. Holding' = Holding
    BY <1>1, <1>3 DEF Holding
  <1>9. LimitsExact'
    BY <1>1, <1>8, LimitsKept DEF QueueInv, queueVars
  <1> QED
    BY <1>4, <1>5, <1>6, <1>7, <1>9 DEF QueueInv

LEMMA Works == ASSUME QueueInv, NEW w \in Workers, Work(w) PROVE QueueInv'
  <1>1. /\ wpc[w] = "work" /\ ran' = ran \cup {wjob[w]}
        /\ failed' \subseteq failed \cup {wjob[w]}
        /\ wpc' = [wpc EXCEPT ![w] = "clear"]
        /\ UNCHANGED <<status, running, cancel, owned, queueVars, wjob, callerVars>>
    BY DEF Work
  <1>2. wjob[w] \in Jobs /\ \A v \in Workers : v # w => wjob[v] # wjob[w]
    BY <1>1, OwnJob DEF InFlight, Unsettled
  <1>3. \A v \in Workers : wpc'[v] = IF v = w THEN "clear" ELSE wpc[v]
    BY <1>1 DEF QueueInv, TypeOK
  <1>4. wjob[w] \in running /\ wjob[w] \notin cancel
    BY <1>1 DEF QueueInv, Stages, Unsettled, InFlight
  <1>5. TypeOK'
    BY <1>1, <1>2 DEF QueueInv, TypeOK, WorkerPcs, queueVars, callerVars
  <1>6. WorkersHold' /\ QueuedOnce'
    BY <1>1, <1>3 DEF QueueInv, WorkersHold, QueuedOnce, Unsettled, InFlight, queueVars
  <1>7. Stages'
    BY <1>1, <1>3 DEF QueueInv, Stages, Unsettled, InFlight
  <1>8. Outcomes'
    BY <1>1, <1>4 DEF QueueInv, Outcomes, Ready
  <1>9. Holding' = Holding
    BY <1>1, <1>3 DEF Holding
  <1>10. LimitsExact'
    BY <1>1, <1>9, LimitsKept DEF QueueInv, queueVars
  <1> QED
    BY <1>5, <1>6, <1>7, <1>8, <1>10 DEF QueueInv

LEMMA Clears == ASSUME QueueInv, NEW w \in Workers, Clear(w) PROVE QueueInv'
  <1>1. /\ wpc[w] = "clear" /\ owned' = owned \ {wjob[w]}
        /\ wpc' = [wpc EXCEPT ![w] = "account"]
        /\ UNCHANGED <<status, running, cancel, ran, failed, queueVars, wjob, callerVars>>
    BY DEF Clear
  <1>2. \A v \in Workers : wpc'[v] = IF v = w THEN "account" ELSE wpc[v]
    BY <1>1 DEF QueueInv, TypeOK
  <1>3. TypeOK'
    BY <1>1 DEF QueueInv, TypeOK, WorkerPcs, queueVars, callerVars
  <1>4. WorkersHold' /\ QueuedOnce'
    BY <1>1, <1>2 DEF QueueInv, WorkersHold, QueuedOnce, Unsettled, InFlight, queueVars
  <1>5. Stages'
    BY <1>1, <1>2 DEF QueueInv, Stages, Unsettled, InFlight
  <1>6. Outcomes'
    BY <1>1 DEF QueueInv, Outcomes, Ready
  <1>7. Holding' = Holding
    BY <1>1, <1>2 DEF Holding
  <1>8. LimitsExact'
    BY <1>1, <1>7, LimitsKept DEF QueueInv, queueVars
  <1> QED
    BY <1>3, <1>4, <1>5, <1>6, <1>8 DEF QueueInv

LEMMA Accounts == ASSUME QueueInv, NEW w \in Workers, Account(w) PROVE QueueInv'
  <1> DEFINE j == wjob[w]
  <1>1. /\ wpc[w] = "account" /\ wpc' = [wpc EXCEPT ![w] = "settle"]
        /\ outstanding' = outstanding - 1 /\ bytes' = bytes - JobBytes[j]
        /\ UNCHANGED <<jobs, epoch, stopping, taskVars, wjob, callerVars>>
    BY DEF Account
  <1>2. j \in Jobs /\ \A v \in Workers : v # w => wjob[v] # j
    BY <1>1, OwnJob DEF InFlight, Unsettled
  <1> HIDE DEF j
  <1>3. \A v \in Workers : wpc'[v] = IF v = w THEN "settle" ELSE wpc[v]
    BY <1>1 DEF QueueInv, TypeOK
  <1>4. status[j] = "Pending"
    BY <1>1 DEF QueueInv, Stages, Unsettled, InFlight, j
  <1>5. j \in Holding
    BY <1>1, <1>2, <1>4 DEF Holding, j
  <1>6. Holding' = Holding \ {j}
    BY <1>1, <1>2, <1>3 DEF Holding, taskVars, j
  <1>7. LimitsExact' /\ outstanding' \in Nat /\ bytes' \in Nat
    BY <1>1, <1>5, <1>6, HoldingJobs, LimitsDrop DEF QueueInv
  <1>8. TypeOK'
    <2>1. outstanding' \in 0 .. MaxJobs /\ bytes' \in 0 .. MaxPinned
      <3>1. JobBytes[j] \in Nat
        BY <1>2, QueueAssumption
      <3> QED
        BY <1>1, <1>7, <3>1, QueueAssumption DEF QueueInv, TypeOK
    <2> QED
      BY <1>1, <2>1 DEF QueueInv, TypeOK, WorkerPcs, taskVars, callerVars
  <1>9. WorkersHold' /\ QueuedOnce'
    BY <1>1, <1>3 DEF QueueInv, WorkersHold, QueuedOnce, Unsettled, InFlight, taskVars
  <1>10. Stages'
    BY <1>1, <1>3 DEF QueueInv, Stages, Unsettled, InFlight, taskVars
  <1>11. Outcomes'
    BY <1>1 DEF QueueInv, Outcomes, Ready, taskVars
  <1> QED
    BY <1>7, <1>8, <1>9, <1>10, <1>11 DEF QueueInv

LEMMA Settles == ASSUME QueueInv, NEW w \in Workers, Settle(w) PROVE QueueInv'
  <1> DEFINE j == wjob[w]
             s == IF j \notin ran THEN "Cancelled" ELSE IF j \in failed THEN "Failed" ELSE "Complete"
  <1>1. /\ wpc[w] = "settle" /\ wpc' = [wpc EXCEPT ![w] = "notify"]
        /\ status' = [status EXCEPT ![j] = s]
        /\ UNCHANGED <<running, cancel, owned, ran, failed, queueVars, wjob, callerVars>>
    BY DEF Settle
  <1>2. j \in Jobs /\ \A v \in Workers : v # w => wjob[v] # j
    BY <1>1, OwnJob DEF InFlight, Unsettled
  <1>3. /\ s \in {"Complete", "Failed", "Cancelled"} /\ (j \in cancel => s = "Cancelled")
        /\ j \notin owned
    BY <1>1 DEF QueueInv, Outcomes, Stages, Unsettled, InFlight
  <1> HIDE DEF j, s
  <1>4. /\ \A v \in Workers : wpc'[v] = IF v = w THEN "notify" ELSE wpc[v]
        /\ \A i \in Jobs : status'[i] = IF i = j THEN s ELSE status[i]
    BY <1>1 DEF QueueInv, TypeOK
  <1>5. TypeOK'
    BY <1>1, <1>3 DEF QueueInv, TypeOK, WorkerPcs, queueVars, callerVars
  <1>6. WorkersHold'
    BY <1>1, <1>4 DEF QueueInv, WorkersHold, Unsettled, InFlight
  <1>7. QueuedOnce'
    <2>1. \A i \in DOMAIN jobs : jobs[i] \in Jobs /\ jobs[i] # j
      BY DEF QueueInv, TypeOK, QueuedOnce, j
    <2> QED
      BY <1>1, <1>4, <2>1 DEF QueueInv, QueuedOnce, queueVars
  <1>8. Stages'
    <2>1. \A v \in Workers : wpc[v] \in InFlight => wjob[v] \in Jobs
      BY OwnJob
    <2> QED
      BY <1>1, <1>2, <1>3, <1>4, <2>1 DEF QueueInv, Stages, Unsettled, InFlight, j
  <1>9. Outcomes'
    BY <1>1, <1>3, <1>4 DEF QueueInv, Outcomes, Ready, TypeOK
  <1>10. Holding' = Holding
    BY <1>1, <1>2, <1>3, <1>4 DEF Holding, j
  <1>11. LimitsExact'
    BY <1>1, <1>10, LimitsKept DEF QueueInv, queueVars
  <1> QED
    BY <1>5, <1>6, <1>7, <1>8, <1>9, <1>11 DEF QueueInv

\* Notify, Epoch and Completed, when the outcome is known.
LEMMA Finishes ==
  ASSUME QueueInv, NEW w \in Workers, Notify(w) \/ Epoch(w) \/ Completed(w)
  PROVE  QueueInv'
  <1>1. /\ wpc[w] \in {"notify", "epoch", "completed"}
        /\ UNCHANGED <<taskVars, jobs, outstanding, bytes, stopping>> /\ epoch' \in Nat
    BY DEF Notify, Epoch, Completed, QueueInv, TypeOK, queueVars
  <1>2. \/ UNCHANGED wjob /\ \E b \in {"epoch", "completed"} : wpc' = [wpc EXCEPT ![w] = b]
        \/ wjob' = [wjob EXCEPT ![w] = NoJob] /\ wpc' = [wpc EXCEPT ![w] = "top"]
    BY DEF Notify, Epoch, Completed
  <1>3. /\ cpc' \in [Callers -> {"free", "waiting", "sampled", "looked", "epoch"}]
        /\ cjob' \in [Callers -> Jobs \cup {NoJob}] /\ seen' \in [Callers -> Nat]
    <2>1. UNCHANGED callerVars \/ \E back \in SUBSET Callers : Return(back)
      BY DEF Notify, Epoch, Completed
    <2> QED
      BY <2>1, ReturnTypes DEF QueueInv, TypeOK, callerVars
  <1>4. PICK b \in {"epoch", "completed", "top"} :
          /\ \A v \in Workers : wpc'[v] = IF v = w THEN b ELSE wpc[v]
          /\ \A v \in Workers : wjob'[v] = IF v = w /\ b = "top" THEN NoJob ELSE wjob[v]
    BY <1>2 DEF QueueInv, TypeOK
  <1>5. TypeOK'
    <2>1. wpc' \in [Workers -> WorkerPcs] /\ wjob' \in [Workers -> Jobs \cup {NoJob}]
      BY <1>2 DEF QueueInv, TypeOK, WorkerPcs
    <2> QED
      BY <1>1, <1>3, <2>1 DEF QueueInv, TypeOK, taskVars
  <1>6. WorkersHold'
    BY <1>1, <1>4 DEF QueueInv, WorkersHold, Unsettled, InFlight
  <1>7. QueuedOnce'
    <2>1. \A i \in DOMAIN jobs : jobs[i] # NoJob
      BY QueueAssumption DEF QueueInv, TypeOK
    <2> QED
      BY <1>1, <1>4, <2>1 DEF QueueInv, QueuedOnce, taskVars
  <1>8. Stages'
    BY <1>1, <1>4 DEF QueueInv, Stages, Unsettled, InFlight, taskVars
  <1>9. Outcomes'
    BY <1>1 DEF QueueInv, Outcomes, Ready, taskVars
  <1>10. Holding' = Holding
    BY <1>1, <1>4 DEF Holding, taskVars
  <1>11. LimitsExact'
    BY <1>1, <1>10, LimitsKept DEF QueueInv
  <1> QED
    BY <1>5, <1>6, <1>7, <1>8, <1>9, <1>11 DEF QueueInv

LEMMA Stops == ASSUME QueueInv, Stop PROVE QueueInv'
  <1>1. /\ wpc' = [w \in Workers |-> IF wpc[w] = "asleep" THEN "top" ELSE wpc[w]]
        /\ stopping' = TRUE
        /\ UNCHANGED <<jobs, outstanding, bytes, epoch, taskVars, wjob, callerVars>>
    BY DEF Stop
  <1>2. TypeOK'
    BY <1>1 DEF QueueInv, TypeOK, WorkerPcs, taskVars, callerVars
  <1>3. WorkersHold' /\ QueuedOnce' /\ Stages'
    BY <1>1 DEF QueueInv, WorkersHold, QueuedOnce, Stages, Unsettled, InFlight, taskVars
  <1>4. Outcomes'
    BY <1>1 DEF QueueInv, Outcomes, Ready, taskVars
  <1>5. Holding' = Holding
    BY <1>1 DEF Holding, taskVars
  <1>6. LimitsExact'
    BY <1>1, <1>5, LimitsKept DEF QueueInv
  <1> QED
    BY <1>2, <1>3, <1>4, <1>6 DEF QueueInv

LEMMA QueueSteps == QueueInv /\ [Next]_vars => QueueInv'
  <1> SUFFICES ASSUME QueueInv, [Next]_vars PROVE QueueInv'
    OBVIOUS
  <1>1. ASSUME NEW w \in Workers, Run(w) PROVE QueueInv'
    BY <1>1, Takes, Begins, Works, Clears, Accounts, Settles, Finishes DEF Run
  <1>2. ASSUME NEW c \in Callers, NEW j \in Jobs, Wait(c, j) \/ Sample(c, j) PROVE QueueInv'
    <2>1. /\ cpc \in [Callers -> {"free", "waiting", "sampled", "looked", "epoch"}]
          /\ cjob \in [Callers -> Jobs \cup {NoJob}] /\ seen \in [Callers -> Nat]
          /\ epoch \in Nat /\ stopping \in BOOLEAN
      BY DEF QueueInv, TypeOK
    <2>2. /\ cpc' = [cpc EXCEPT ![c] = "waiting"] \/ cpc' = [cpc EXCEPT ![c] = "sampled"]
          /\ cjob' = [cjob EXCEPT ![c] = j]
          /\ seen' = seen \/ seen' = [seen EXCEPT ![c] = epoch]
      BY <1>2 DEF Wait, Sample
    <2>3. /\ cpc' \in [Callers -> {"free", "waiting", "sampled", "looked", "epoch"}]
          /\ cjob' \in [Callers -> Jobs \cup {NoJob}] /\ seen' \in [Callers -> Nat]
      BY <2>1, <2>2
    <2>4. UNCHANGED <<taskVars, queueVars, workerVars>>
      BY <1>2 DEF Wait, Sample
    <2>5. /\ UNCHANGED <<taskVars, workerVars, jobs, outstanding, bytes>>
          /\ epoch' \in Nat /\ stopping' \in BOOLEAN
      BY <2>1, <2>4 DEF queueVars
    <2> QED
      BY <2>3, <2>5, CallersMove
  <1>3. ASSUME NEW c \in Callers, Look(c) \/ WaitEpoch(c) PROVE QueueInv'
    <2>1. Return({c}) \/ (\E p \in {"looked", "epoch"} : cpc' = [cpc EXCEPT ![c] = p]
                                                     /\ UNCHANGED <<cjob, seen>>)
      BY <1>3 DEF Look, WaitEpoch
    <2>2. /\ cpc' \in [Callers -> {"free", "waiting", "sampled", "looked", "epoch"}]
          /\ cjob' \in [Callers -> Jobs \cup {NoJob}] /\ seen' \in [Callers -> Nat]
      BY <2>1, ReturnTypes DEF QueueInv, TypeOK
    <2> QED
      BY <1>3, <2>2, CallersMove DEF Look, WaitEpoch, queueVars, QueueInv, TypeOK
  <1>4. CASE UNCHANGED vars
    BY <1>4, CallersMove DEF vars, queueVars, callerVars, QueueInv, TypeOK
  <1> QED
    BY <1>1, <1>2, <1>3, <1>4, Submits, Cancels, Stops DEF Next, Call

\* Whoever sees a final status of a ticket (spill_io.cpp, Impl::run) finds the
\* leases of its job released and its slot and bytes given back, and a cancel()
\* that answered true is final, for any number of jobs, workers and callers.
THEOREM OutcomesAreExact == Spec => []OutcomeExact
  BY QueueStarts, QueueSteps, OutcomesFollow, PTL DEF Spec

===============================================================================
