--------------------------- MODULE Programs_proofs ---------------------------
(***************************************************************************)
(* Proofs about the programs that stand alone, for any number of workers,  *)
(* jobs, tasks, threads, boxes and places: the pool runs every job once,   *)
(* the pipeline is a FIFO, the search skips no solution, the list is a     *)
(* stack, a pinned value stays where it is.  Each program has an invariant *)
(* of its own, and a step of MCPrograms is one of the program that runs,   *)
(* which leaves the others alone.                                          *)
(***************************************************************************)
EXTENDS MCPrograms, SequenceLemmas, FiniteSetTheorems

\* Every step of MCPrograms is one of each program, or leaves it where it is.
LEMMA StepOfEach ==
    ASSUME [ProgramsNext]_allVars
    PROVE  /\ [Pool!Next]_poolVars
           /\ [Pipes!Next]_pipelineVars
           /\ [Pow!Next]_powVars
           /\ [Pins!Next]_pinVars
           /\ [List!Next]_listVars
BY DEF ProgramsNext, allVars, poolVars, pipelineVars, powVars, pinVars, listVars

-----------------------------------------------------------------------------
(* The thread pool *)

LEMMA PoolSizes == Size \in Nat /\ MaxJobs \in Nat
BY ProgramsAssumption

\* What ties the end of the workers to the end of the channel: a worker stops
\* only after the sender is gone and the queue is empty, and the owner has
\* joined stopped workers only.
Closing ==
    /\ sender <=> owner = "submitting"
    /\ \A w \in Pool!Workers : pc[w] = "stopped" => ~sender /\ jobs = <<>>
    /\ \A w \in 1..joined : pc[w] = "stopped"
    /\ owner = "dropped" => joined = Size

\* Only jobs that were taken from the channel are run or have ended, a job that
\* has panicked has cost a worker, and a pool without workers takes no job.
Bounded ==
    /\ Len(jobs) <= submitted
    /\ done \cup failed \subseteq 1..Pool!Taken
    /\ \A w \in Pool!Workers : job[w] \in 0..Pool!Taken
    /\ failed # {} => \E w \in Pool!Workers : pc[w] = "panicked"
    /\ Size = 0 => submitted = 0

\* The inductive invariant.
PoolInv == Pool!TypeOK /\ Pool!LockDiscipline /\ Pool!ExactlyOnce /\ Closing /\ Bounded

LEMMA InitPool == Pool!Init => PoolInv
  <1> SUFFICES ASSUME Pool!Init PROVE PoolInv
    OBVIOUS
  <1> USE PoolSizes
  <1>1. Pool!TypeOK
    BY DEF Pool!Init, Pool!TypeOK, Pool!Workers, Pool!NoWorker, Pool!NoJob, Pool!WorkerPcs, Pool!OwnerPcs
  <1>2. Pool!LockDiscipline
    BY DEF Pool!Init, Pool!LockDiscipline, Pool!Workers, Pool!NoWorker
  <1>3. Pool!ExactlyOnce
    BY DEF Pool!Init, Pool!ExactlyOnce, Pool!Taken, Pool!Workers, Pool!NoJob
  <1>4. Closing
    BY DEF Pool!Init, Closing, Pool!Workers
  <1>5. Bounded
    BY DEF Pool!Init, Bounded, Pool!Taken, Pool!NoJob
  <1>6. QED
    BY <1>1, <1>2, <1>3, <1>4, <1>5 DEF PoolInv

\* The steps of the owner

LEMMA ExecuteInv == PoolInv /\ Pool!Execute => PoolInv'
  <1> SUFFICES ASSUME PoolInv, Pool!Execute PROVE PoolInv'
    OBVIOUS
  <1> USE PoolSizes
  <1> USE DEF Pool!Execute, Pool!workerVars, Pool!outcomeVars
  <1>1. /\ Len(jobs') = Len(jobs) + 1
        /\ \A i \in 1..Len(jobs) : jobs'[i] = jobs[i]
        /\ jobs'[Len(jobs) + 1] = submitted + 1
        /\ jobs' \in Seq(1..MaxJobs)
    BY DEF PoolInv, Pool!TypeOK
  <1>2. Pool!Taken' = Pool!Taken
    BY <1>1 DEF PoolInv, Pool!TypeOK, Pool!Taken
  <1>3. Pool!TypeOK'
    BY <1>1 DEF PoolInv, Pool!TypeOK
  <1>4. Pool!LockDiscipline'
    BY DEF PoolInv, Pool!LockDiscipline
  <1>5. Pool!ExactlyOnce'
    <2>1. \A i \in 1..Len(jobs') : jobs'[i] = Pool!Taken' + i
      BY <1>1, <1>2 DEF PoolInv, Pool!TypeOK, Pool!ExactlyOnce, Pool!Taken
    <2>2. \A j \in 1..submitted' :
             j <= Pool!Taken' <=> (j \in done' \/ j \in failed' \/ \E w \in Pool!Workers : job'[w] = j)
      BY <1>1, <1>2 DEF PoolInv, Pool!TypeOK, Pool!ExactlyOnce, Bounded, Pool!Taken
    <2>3. QED
      BY <2>1, <2>2 DEF PoolInv, Pool!ExactlyOnce
  <1>6. Closing'
    BY DEF PoolInv, Pool!TypeOK, Closing, Pool!ReceiverGone, Pool!Ended
  <1>7. Bounded'
    BY <1>1, <1>2 DEF PoolInv, Pool!TypeOK, Bounded, Pool!ReceiverGone, Pool!Workers
  <1>8. QED
    BY <1>3, <1>4, <1>5, <1>6, <1>7 DEF PoolInv

LEMMA OwnerEndsInv == PoolInv /\ (Pool!ExecutePanics \/ Pool!Drops) => PoolInv'
  <1> SUFFICES ASSUME PoolInv, Pool!ExecutePanics \/ Pool!Drops PROVE PoolInv'
    OBVIOUS
  <1> USE PoolSizes
  <1> USE DEF Pool!Drops, Pool!Joining, Pool!ExecutePanics, Pool!DropSender, Pool!Join, Pool!JoinPanics, Pool!Dropped
  <1>1. UNCHANGED <<jobs, Pool!workerVars, Pool!outcomeVars, submitted>>
    OBVIOUS
  <1>2. Pool!TypeOK'
    <2>1. sender' \in BOOLEAN
      BY DEF PoolInv, Pool!TypeOK
    <2>2. owner' \in Pool!OwnerPcs /\ joined' \in 0..Size
      BY DEF PoolInv, Pool!TypeOK, Pool!OwnerPcs
    <2>3. QED
      BY <1>1, <2>1, <2>2 DEF PoolInv, Pool!TypeOK, Pool!workerVars, Pool!outcomeVars
  <1>3. Pool!LockDiscipline' /\ Pool!ExactlyOnce' /\ Bounded'
    BY <1>1 DEF PoolInv, Pool!LockDiscipline, Pool!ExactlyOnce, Bounded, Pool!Taken, Pool!workerVars, Pool!outcomeVars
  <1>4. Closing'
    <2>1. sender' <=> owner' = "submitting"
      BY DEF PoolInv, Closing
    <2>2. \A w \in Pool!Workers : pc'[w] = "stopped" => ~sender' /\ jobs' = <<>>
      BY <1>1, <2>1 DEF PoolInv, Closing, Pool!workerVars
    <2>3. \A w \in 1..joined' : pc'[w] = "stopped"
      BY <1>1 DEF PoolInv, Pool!TypeOK, Closing, Pool!workerVars
    <2>4. owner' = "dropped" => joined' = Size
      BY DEF PoolInv, Closing
    <2>5. QED
      BY <2>1, <2>2, <2>3, <2>4 DEF Closing
  <1>5. QED
    BY <1>2, <1>3, <1>4 DEF PoolInv

\* The steps of a worker

LEMMA LockInv == \A w \in Pool!Workers : PoolInv /\ Pool!Lock(w) => PoolInv'
  <1> SUFFICES ASSUME NEW w \in Pool!Workers, PoolInv, Pool!Lock(w) PROVE PoolInv'
    OBVIOUS
  <1> USE PoolSizes
  <1> USE DEF Pool!Lock, Pool!outcomeVars, Pool!ownerVars
  <1>1. Pool!TypeOK'
    BY DEF PoolInv, Pool!TypeOK, Pool!WorkerPcs
  <1>2. Pool!LockDiscipline'
    BY DEF PoolInv, Pool!TypeOK, Pool!LockDiscipline, Pool!Workers, Pool!NoWorker
  <1>3. Pool!ExactlyOnce'
    BY DEF PoolInv, Pool!TypeOK, Pool!ExactlyOnce, Pool!Taken
  <1>4. Closing'
    <2>1. \A v \in Pool!Workers : pc'[v] = "stopped" <=> pc[v] = "stopped"
      BY DEF PoolInv, Pool!TypeOK
    <2>2. \A v \in 1..joined : pc'[v] = "stopped"
      BY <2>1 DEF PoolInv, Pool!TypeOK, Closing, Pool!Workers
    <2>3. QED
      BY <2>1, <2>2 DEF PoolInv, Closing
  <1>5. Bounded'
    BY DEF PoolInv, Pool!TypeOK, Bounded, Pool!Taken
  <1>6. QED
    BY <1>1, <1>2, <1>3, <1>4, <1>5 DEF PoolInv

LEMMA ReceiveInv == \A w \in Pool!Workers : PoolInv /\ Pool!Receive(w) => PoolInv'
  <1> SUFFICES ASSUME NEW w \in Pool!Workers, PoolInv, Pool!Receive(w) PROVE PoolInv'
    OBVIOUS
  <1> USE PoolSizes
  <1> USE DEF Pool!Receive, Pool!outcomeVars, Pool!ownerVars
  <1>1. /\ Len(jobs') = Len(jobs) - 1
        /\ \A i \in 1..Len(jobs') : jobs'[i] = jobs[i + 1]
        /\ jobs' \in Seq(1..MaxJobs)
        /\ Len(jobs) \in Nat \ {0}
    BY DEF PoolInv, Pool!TypeOK
  <1>2. Pool!Taken' = Pool!Taken + 1 /\ Pool!Taken \in Nat
    BY <1>1 DEF PoolInv, Pool!TypeOK, Pool!Taken, Bounded
  <1>3. Head(jobs) = Pool!Taken + 1 /\ Head(jobs) \in 1..MaxJobs
    BY <1>1 DEF PoolInv, Pool!TypeOK, Pool!ExactlyOnce
  <1>4. \A v \in Pool!Workers : job'[v] = IF v = w THEN Pool!Taken + 1 ELSE job[v]
    BY <1>3 DEF PoolInv, Pool!TypeOK
  <1>5. job[w] = Pool!NoJob
    BY DEF PoolInv, Pool!TypeOK, Pool!ExactlyOnce
  <1>6. Pool!TypeOK'
    BY <1>1, <1>3 DEF PoolInv, Pool!TypeOK, Pool!WorkerPcs
  <1>7. Pool!LockDiscipline'
    BY DEF PoolInv, Pool!TypeOK, Pool!LockDiscipline, Pool!Workers, Pool!NoWorker
  <1>8. Pool!ExactlyOnce'
    <2>1. \A i \in 1..Len(jobs') : jobs'[i] = Pool!Taken' + i
      BY <1>1, <1>2 DEF PoolInv, Pool!TypeOK, Pool!ExactlyOnce
    <2>2. ASSUME NEW j \in 1..submitted'
          PROVE  j <= Pool!Taken' <=> (j \in done' \/ j \in failed' \/ \E v \in Pool!Workers : job'[v] = j)
      BY <1>2, <1>4, <1>5, SMTT(30) DEF PoolInv, Pool!TypeOK, Pool!ExactlyOnce, Bounded, Pool!NoJob
    <2>3. Pool!Taken + 1 \notin done \cup failed /\ \A v \in Pool!Workers : job[v] # Pool!Taken + 1
      BY <1>2 DEF PoolInv, Bounded
    <2>4. ASSUME NEW v \in Pool!Workers
          PROVE  /\ job'[v] \notin done' \cup failed'
                 /\ pc'[v] = "run" <=> job'[v] # Pool!NoJob
                 /\ \A u \in Pool!Workers : job'[u] = job'[v] /\ job'[v] # Pool!NoJob => u = v
      BY <1>2, <1>4, <2>3 DEF PoolInv, Pool!TypeOK, Pool!ExactlyOnce, Pool!NoJob
    <2>5. QED
      BY <2>1, <2>2, <2>4 DEF PoolInv, Pool!ExactlyOnce
  <1>9. Closing'
    BY SMTT(30) DEF PoolInv, Pool!TypeOK, Closing, Pool!Workers
  <1>10. Bounded'
    <2>1. done' \cup failed' \subseteq 1..Pool!Taken' /\ Len(jobs') <= submitted'
      BY <1>1, <1>2 DEF PoolInv, Bounded, Pool!TypeOK
    <2>2. \A v \in Pool!Workers : job'[v] \in 0..Pool!Taken'
      BY <1>2, <1>4 DEF PoolInv, Bounded
    <2>3. failed' # {} => \E v \in Pool!Workers : pc'[v] = "panicked"
      BY DEF PoolInv, Bounded, Pool!TypeOK
    <2>4. QED
      BY <2>1, <2>2, <2>3 DEF PoolInv, Bounded
  <1>11. QED
    BY <1>6, <1>7, <1>8, <1>9, <1>10 DEF PoolInv

LEMMA StopInv == \A w \in Pool!Workers : PoolInv /\ Pool!Stop(w) => PoolInv'
  <1> SUFFICES ASSUME NEW w \in Pool!Workers, PoolInv, Pool!Stop(w) PROVE PoolInv'
    OBVIOUS
  <1> USE PoolSizes
  <1> USE DEF Pool!Stop, Pool!outcomeVars, Pool!ownerVars
  <1>1. Pool!TypeOK'
    BY DEF PoolInv, Pool!TypeOK, Pool!WorkerPcs
  <1>2. Pool!LockDiscipline'
    BY DEF PoolInv, Pool!TypeOK, Pool!LockDiscipline, Pool!Workers, Pool!NoWorker
  <1>3. Pool!ExactlyOnce'
    BY DEF PoolInv, Pool!TypeOK, Pool!ExactlyOnce, Pool!Taken
  <1>4. Closing'
    BY DEF PoolInv, Pool!TypeOK, Closing, Pool!Workers
  <1>5. Bounded'
    BY DEF PoolInv, Pool!TypeOK, Bounded, Pool!Taken
  <1>6. QED
    BY <1>1, <1>2, <1>3, <1>4, <1>5 DEF PoolInv

\* The job of w ends: it returns, or it panics
LEMMA JobEndsInv == \A w \in Pool!Workers : PoolInv /\ (Pool!Run(w) \/ Pool!RunPanics(w)) => PoolInv'
  <1> SUFFICES ASSUME NEW w \in Pool!Workers, PoolInv, Pool!Run(w) \/ Pool!RunPanics(w) PROVE PoolInv'
    OBVIOUS
  <1> USE PoolSizes
  <1> USE DEF Pool!Run, Pool!RunPanics, Pool!ownerVars
  <1>1. /\ UNCHANGED <<holder, jobs, sender, submitted, owner, joined>>
        /\ pc[w] = "run"
        /\ done' \cup failed' = done \cup failed \cup {job[w]}
        /\ done \subseteq done' /\ failed \subseteq failed'
        /\ job' = [job EXCEPT ![w] = Pool!NoJob]
    OBVIOUS
  <1>2. Pool!Taken' = Pool!Taken /\ Pool!Taken \in Nat
    BY <1>1 DEF PoolInv, Pool!TypeOK, Pool!Taken, Bounded
  <1>3. job[w] \in 1..Pool!Taken /\ job[w] \notin done \cup failed /\ job[w] # Pool!NoJob /\ Pool!Taken <= MaxJobs
    BY <1>1, <1>2 DEF PoolInv, Pool!TypeOK, Pool!Taken, Pool!ExactlyOnce, Bounded, Pool!NoJob
  <1>4. \A v \in Pool!Workers : job'[v] = IF v = w THEN Pool!NoJob ELSE job[v]
    BY <1>1 DEF PoolInv, Pool!TypeOK
  <1>5. Pool!TypeOK'
    BY <1>1, <1>2, <1>3, SMTT(30) DEF PoolInv, Pool!TypeOK, Pool!WorkerPcs, Pool!NoJob
  <1>6. Pool!LockDiscipline'
    BY <1>1 DEF PoolInv, Pool!TypeOK, Pool!LockDiscipline, Pool!Workers
  <1>7. Pool!ExactlyOnce'
    <2>1. \A i \in 1..Len(jobs') : jobs'[i] = Pool!Taken' + i
      BY <1>1, <1>2 DEF PoolInv, Pool!ExactlyOnce
    <2>2. ASSUME NEW j \in 1..submitted'
          PROVE  j <= Pool!Taken' <=> (j \in done' \/ j \in failed' \/ \E v \in Pool!Workers : job'[v] = j)
      <3>1. j <= Pool!Taken <=> (j \in done \cup failed \/ \E v \in Pool!Workers : job[v] = j)
        BY <1>1 DEF PoolInv, Pool!ExactlyOnce
      <3>2. (\E v \in Pool!Workers : job[v] = j) <=> (j = job[w] \/ \E v \in Pool!Workers : job'[v] = j)
        BY <1>4, <1>3, PoolSizes DEF Pool!NoJob, PoolInv, Pool!TypeOK
      <3>3. QED
        BY <3>1, <3>2, <1>1, <1>2
    <2>3. done' \cap failed' = {}
      BY <1>3 DEF PoolInv, Pool!ExactlyOnce
    <2>4. ASSUME NEW v \in Pool!Workers
          PROVE  /\ job'[v] \notin done' \cup failed'
                 /\ pc'[v] = "run" <=> job'[v] # Pool!NoJob
                 /\ \A u \in Pool!Workers : job'[u] = job'[v] /\ job'[v] # Pool!NoJob => u = v
      <3>1. job'[v] \notin done' \cup failed'
        BY <1>1, <1>3, <1>4 DEF PoolInv, Pool!ExactlyOnce, Pool!NoJob, Bounded
      <3>2. pc'[v] = "run" <=> job'[v] # Pool!NoJob
        BY <1>4 DEF PoolInv, Pool!TypeOK, Pool!ExactlyOnce
      <3>3. QED
        BY <3>1, <3>2, <1>4 DEF PoolInv, Pool!ExactlyOnce
    <2>5. QED
      BY <2>1, <2>2, <2>3, <2>4 DEF Pool!ExactlyOnce
  <1>8. Closing'
    <2>1. \A v \in Pool!Workers : pc'[v] = "stopped" <=> pc[v] = "stopped"
      BY DEF PoolInv, Pool!TypeOK
    <2>2. \A v \in 1..joined : pc'[v] = "stopped"
      BY <2>1 DEF PoolInv, Pool!TypeOK, Closing, Pool!Workers
    <2>3. QED
      BY <1>1, <2>1, <2>2 DEF PoolInv, Closing
  <1>9. Bounded'
    <2>1. failed' # {} => \E v \in Pool!Workers : pc'[v] = "panicked"
      BY DEF PoolInv, Bounded, Pool!TypeOK
    <2>2. QED
      BY <2>1, <1>1, <1>2, <1>3, <1>4 DEF PoolInv, Bounded, Pool!NoJob
  <1>10. QED
    BY <1>5, <1>6, <1>7, <1>8, <1>9 DEF PoolInv

LEMMA StepPool == PoolInv /\ [Pool!Next]_poolVars => PoolInv'
  <1> SUFFICES ASSUME PoolInv, [Pool!Next]_poolVars PROVE PoolInv'
    OBVIOUS
  <1>1. CASE Pool!Owner
    BY <1>1, ExecuteInv, OwnerEndsInv DEF Pool!Owner
  <1>2. ASSUME NEW w \in Pool!Workers, Pool!Worker(w) PROVE PoolInv'
    BY <1>2, LockInv, ReceiveInv, StopInv, JobEndsInv DEF Pool!Worker
  <1>3. CASE UNCHANGED poolVars
    <2> USE <1>3 DEF poolVars
    <2>1. Pool!TypeOK' /\ Pool!LockDiscipline'
      BY DEF PoolInv, Pool!TypeOK, Pool!LockDiscipline
    <2>2. Pool!ExactlyOnce' /\ Bounded'
      BY DEF PoolInv, Pool!ExactlyOnce, Bounded, Pool!Taken
    <2>3. Closing'
      BY DEF PoolInv, Closing
    <2> QED BY <2>1, <2>2, <2>3 DEF PoolInv
  <1>4. CASE Pool!Finished
    BY <1>3, <1>4 DEF Pool!Finished, poolVars, Pool!vars
  <1>5. QED
    BY <1>1, <1>2, <1>3, <1>4 DEF Pool!Next

THEOREM PoolInvariant == ProgramsSpec => []PoolInv
<1>1. ProgramsInit => PoolInv
    BY InitPool DEF ProgramsInit
<1>2. PoolInv /\ [ProgramsNext]_allVars => PoolInv'
    BY StepOfEach, StepPool
<1> QED BY <1>1, <1>2, PTL DEF ProgramsSpec

\* The state of the pool always has its type.
THEOREM PoolTypeCorrect == ProgramsSpec => []Pool!TypeOK
  <1>1. PoolInv => Pool!TypeOK
    BY DEF PoolInv
  <1>2. QED
    BY <1>1, PoolInvariant, PTL

\* The receiver is locked exactly while a worker waits in recv(), for any number
\* of workers: no job runs under the lock.
THEOREM JobsRunUnlocked == ProgramsSpec => []LockDiscipline
  <1>1. PoolInv => LockDiscipline
    BY DEF PoolInv, LockDiscipline
  <1>2. QED
    BY <1>1, PoolInvariant, PTL

\* No job is lost or run twice, for any number of workers and of jobs.
THEOREM JobsExactlyOnce == ProgramsSpec => []ExactlyOnce
  <1>1. PoolInv => ExactlyOnce
    BY DEF PoolInv, ExactlyOnce
  <1>2. QED
    BY <1>1, PoolInvariant, PTL

\* Once drop() has returned, every job that was submitted has returned.
THEOREM DropIsGraceful == ProgramsSpec => []DropCompletesJobs
  <1>1. PoolInv => DropCompletesJobs
    <2> SUFFICES ASSUME PoolInv, owner = "dropped" PROVE done = 1..submitted
      BY DEF DropCompletesJobs, Pool!DropCompletesJobs
    <2> USE PoolSizes
    <2>1. \A w \in Pool!Workers : pc[w] = "stopped" /\ job[w] = Pool!NoJob
      BY DEF PoolInv, Closing, Pool!ExactlyOnce, Pool!Workers
    <2>2. failed = {}
      BY <2>1 DEF PoolInv, Bounded
    <2>3. Pool!Taken = submitted
      <3>1. CASE Size = 0
        BY <3>1 DEF PoolInv, Bounded, Pool!TypeOK, Pool!Taken
      <3>2. CASE Size # 0
        BY <3>2, <2>1, SMTT(30) DEF PoolInv, Closing, Pool!TypeOK, Pool!Taken, Pool!Workers
      <3>3. QED
        BY <3>1, <3>2
    <2>4. ASSUME NEW j \in 1..submitted PROVE j \in done
      BY <2>1, <2>2, <2>3 DEF PoolInv, Pool!ExactlyOnce, Pool!TypeOK, Pool!NoJob
    <2>5. QED
      BY <2>3, <2>4 DEF PoolInv, Bounded
  <1>2. QED
    BY <1>1, PoolInvariant, PTL

-----------------------------------------------------------------------------
(* Pins *)

PinType == /\ val \in [Places -> [type : {"none", "SelfReferential", "SelfReferentialPin"},
                              pointer : Places \cup {"null", "nowhere"}]]
           /\ wrapper \in [Places -> {"none", "MyPin", "MyPinCorrect"}]
           /\ sound \in [Places -> BOOLEAN]
           /\ promise \in BOOLEAN

\* A wrapper borrows a place with a value: around an empty place it would let a
\* new value be put behind it.
WrapsValue == \A p \in Places : wrapper[p] # "none" => Pins!Holds(p)

PinInv == PinType /\ WrapsValue /\ PointsToSelf

LEMMA InitPin == Pins!Init => PinInv
BY DEF Pins!Init, PinInv, PinType, WrapsValue, PointsToSelf, Pins!PointsToSelf, Pins!NoValue,
       Pins!Value, Pins!Holds

LEMMA StepPin ==
    ASSUME PinInv, [Pins!Next]_pinVars
    PROVE  PinInv'
<1> USE DEF PinInv, PinType, WrapsValue, PointsToSelf, Pins!PointsToSelf, Pins!Holds, Pins!Unpin,
            Pins!NoValue, Pins!Value, Pins!Mutable
<1>1. ASSUME NEW p \in Places, Pins!New(p)
      PROVE  PinInv'
  BY <1>1 DEF Pins!New
<1>2. ASSUME NEW p \in Places, Pins!NewPin(p)
      PROVE  PinInv'
  BY <1>2 DEF Pins!NewPin
<1>3. ASSUME NEW p \in Places, Pins!init(p)
      PROVE  PinInv'
  BY <1>3 DEF Pins!init
<1>4. ASSUME NEW p \in Places, Pins!Unwrap(p)
      PROVE  PinInv'
  BY <1>4 DEF Pins!Unwrap
<1>5. ASSUME NEW p \in Places, NEW kind \in {"MyPin", "MyPinCorrect"}, Pins!Wrap(p, kind)
      PROVE  PinInv'
  BY <1>5 DEF Pins!Wrap
<1>6. ASSUME NEW p \in Places, NEW q \in Places, Pins!Move(p, q)
      PROVE  PinInv'
  BY <1>6 DEF Pins!Move
<1>7. ASSUME NEW p \in Places, NEW q \in Places, Pins!Swap(p, q)
      PROVE  PinInv'
  BY <1>7 DEF Pins!Swap
<1>8. ASSUME NEW p \in Places, NEW q \in Places, Pins!BreakPromise(p, q)
      PROVE  PinInv'
  BY <1>8 DEF Pins!BreakPromise
<1>9. CASE UNCHANGED pinVars
  BY <1>9 DEF pinVars
<1>10. QED
  BY <1>1, <1>2, <1>3, <1>4, <1>5, <1>6, <1>7, <1>8, <1>9 DEF Pins!Next

\* What is behind MyPinCorrect, is not Unpin and pointed to itself goes on doing
\* so, for any set of places: deref_mut is the only safe way to it, and is not
\* there.
THEOREM PinnedStays == ProgramsSpec => []PointsToSelf
<1>1. ProgramsInit => PinInv
  BY InitPin DEF ProgramsInit
<1>2. PinInv /\ [ProgramsNext]_allVars => PinInv'
  BY StepOfEach, StepPin
<1>3. PinInv => PointsToSelf
  BY DEF PinInv
<1>4. QED
  BY <1>1, <1>2, <1>3, PTL DEF ProgramsSpec

-----------------------------------------------------------------------------
(* Sequences laid end to end, as the stages of the pipeline and the        *)
(* channels between them are                                               *)

\* The first element of a sequence, and the others.
LEMMA HeadAndTail ==
    ASSUME NEW S, NEW q \in Streams(S), q # <<>>
    PROVE  /\ Head(q) \in S /\ Tail(q) \in Streams(S) /\ <<Head(q)>> \in Streams(S)
           /\ Cat(<<Head(q)>>, Tail(q)) = q
BY DEF Cat, Streams

\* To append is to add a sequence of one.
LEMMA AppendIsCat ==
    ASSUME NEW S, NEW q \in Streams(S), NEW e \in S
    PROVE  Append(q, e) \in Streams(S) /\ <<e>> \in Streams(S) /\ Append(q, e) = Cat(q, <<e>>)
BY DEF Cat, Streams

LEMMA HeadOfCat ==
    ASSUME NEW S, NEW h \in S, NEW q \in Streams(S)
    PROVE  Cat(<<h>>, q) # <<>> /\ Head(Cat(<<h>>, q)) = h /\ Tail(Cat(<<h>>, q)) = q
<1> DEFINE c == <<h>> \o q
<1>1. q \in Seq(S) /\ <<h>> \in Seq(S) /\ Len(<<h>>) = 1 /\ <<h>>[1] = h
    BY DEF Streams
<1>2. /\ c \in Seq(S) /\ Len(c) = 1 + Len(q) /\ c[1] = h
      /\ \A i \in 1..Len(q) : c[1 + i] = q[i]
    <2>1. /\ c \in Seq(S) /\ Len(c) = Len(<<h>>) + Len(q)
          /\ \A i \in 1..Len(<<h>>) : c[i] = <<h>>[i]
          /\ \A i \in 1..Len(q) : c[Len(<<h>>) + i] = q[i]
        BY <1>1, ConcatAt
    <2> QED BY <1>1, <2>1
<1> HIDE DEF c
<1>3. Len(q) \in Nat /\ c # <<>> /\ Head(c) = h
    BY <1>1, <1>2
<1>4. /\ Tail(c) \in Seq(S) /\ Len(Tail(c)) = Len(q)
      /\ \A i \in 1..Len(q) : Tail(c)[i] = q[i]
    BY <1>2, <1>3
<1>5. Tail(c) = q
    BY <1>1, <1>4, SeqEqual
<1> QED BY <1>3, <1>5 DEF c, Cat

\* A stage takes the head of its channel: the line of tasks stays as it was.
LEMMA TakeKeeps ==
    ASSUME NEW S, NEW a \in Streams(S), NEW q \in Streams(S), q # <<>>
    PROVE  Cat(Cat(a, <<>>), q) = Cat(Cat(a, <<Head(q)>>), Tail(q))
<1>1. /\ <<Head(q)>> \in Streams(S) /\ Tail(q) \in Streams(S)
      /\ Cat(<<Head(q)>>, Tail(q)) = q
    BY HeadAndTail
<1>2. Cat(Cat(a, <<Head(q)>>), Tail(q)) = Cat(a, Cat(<<Head(q)>>, Tail(q)))
    BY <1>1, CatAssoc
<1>3. Cat(a, <<>>) = a
    BY CatEmpty
<1> QED BY <1>1, <1>2, <1>3

\* A stage passes its task on to the next channel: so it does here.
LEMMA PassKeeps ==
    ASSUME NEW S, NEW a \in Streams(S), NEW q \in Streams(S), NEW e \in S
    PROVE  Cat(Cat(a, q), <<e>>) = Cat(Cat(a, Append(q, e)), <<>>)
<1>1. <<e>> \in Streams(S) /\ Append(q, e) = Cat(q, <<e>>)
    BY AppendIsCat
<1>2. Cat(Cat(a, q), <<e>>) = Cat(a, Cat(q, <<e>>)) /\ Cat(q, <<e>>) \in Streams(S)
    BY <1>1, CatAssoc
<1>3. Cat(a, Cat(q, <<e>>)) \in Streams(S)
    BY <1>2, CatLen
<1>4. Cat(Cat(a, Cat(q, <<e>>)), <<>>) = Cat(a, Cat(q, <<e>>))
    BY <1>3, CatEmpty
<1> QED BY <1>1, <1>2, <1>4

-----------------------------------------------------------------------------
(* The pipeline *)

\* A task is not the number that means none
Job == Nat \ {0}

\* Three hands and three channels, the one tasks come out of first in front
Line(a, b, c, d, e, f) == Cat(Cat(Cat(Cat(Cat(a, b), c), d), e), f)

\* The type of each part of the pipeline
Parts ==
    /\ chan \in [Pipes!Stages -> Streams(Job)]
    /\ hand \in [Pipes!Stages -> Nat]
    /\ result \in Streams(Job)

\* Tasks have the numbers in which they were sent: what is inside comes after
\* what has passed.
PipeInv == Parts /\ sent \in Nat /\ sent = Len(result) + Len(Pipes!Inside)

LEMMA LineType ==
    ASSUME NEW S, NEW a \in Streams(S), NEW b \in Streams(S), NEW c \in Streams(S),
           NEW d \in Streams(S), NEW e \in Streams(S), NEW f \in Streams(S)
    PROVE  /\ Cat(a, b) \in Streams(S) /\ Cat(Cat(a, b), c) \in Streams(S)
           /\ Cat(Cat(Cat(a, b), c), d) \in Streams(S)
           /\ Cat(Cat(Cat(Cat(a, b), c), d), e) \in Streams(S)
           /\ Line(a, b, c, d, e, f) \in Streams(S)
<1>1. Cat(a, b) \in Streams(S)
    BY CatLen
<1>2. Cat(Cat(a, b), c) \in Streams(S)
    BY <1>1, CatLen
<1>3. Cat(Cat(Cat(a, b), c), d) \in Streams(S)
    BY <1>2, CatLen
<1>4. Cat(Cat(Cat(Cat(a, b), c), d), e) \in Streams(S)
    BY <1>3, CatLen
<1>5. Line(a, b, c, d, e, f) \in Streams(S)
    BY <1>4, CatLen DEF Line
<1> QED BY <1>1, <1>2, <1>3, <1>4, <1>5

LEMMA ThreeType ==
    ASSUME NEW S, NEW a \in Streams(S), NEW b \in Streams(S), NEW c \in Streams(S)
    PROVE  Cat(Cat(a, b), c) \in Streams(S)
<1>1. Cat(a, b) \in Streams(S)
    BY CatLen
<1> QED BY <1>1, CatLen

\* What comes out of a line that starts with a task in hand is that task.
LEMMA LineHead ==
    ASSUME NEW S, NEW h \in S, NEW b \in Streams(S), NEW c \in Streams(S),
           NEW d \in Streams(S), NEW e \in Streams(S), NEW f \in Streams(S)
    PROVE  Line(<<h>>, b, c, d, e, f) = Cat(<<h>>, Line(<<>>, b, c, d, e, f))
<1>0. <<h>> \in Streams(S)
    BY DEF Streams
<1>1. Cat(b, c) \in Streams(S) /\ Cat(Cat(<<h>>, b), c) = Cat(<<h>>, Cat(b, c))
    <2>1. Cat(b, c) \in Streams(S)
        BY CatLen
    <2>2. Cat(Cat(<<h>>, b), c) = Cat(<<h>>, Cat(b, c))
        BY <1>0, CatAssoc
    <2> QED BY <2>1, <2>2
<1>2. /\ Cat(Cat(b, c), d) \in Streams(S)
      /\ Cat(Cat(<<h>>, Cat(b, c)), d) = Cat(<<h>>, Cat(Cat(b, c), d))
    BY <1>0, <1>1, CatAssoc, CatLen
<1>3. /\ Cat(Cat(Cat(b, c), d), e) \in Streams(S)
      /\ Cat(Cat(<<h>>, Cat(Cat(b, c), d)), e) = Cat(<<h>>, Cat(Cat(Cat(b, c), d), e))
    BY <1>0, <1>2, CatAssoc, CatLen
<1>4. Cat(Cat(<<h>>, Cat(Cat(Cat(b, c), d), e)), f) = Cat(<<h>>, Cat(Cat(Cat(Cat(b, c), d), e), f))
    BY <1>0, <1>3, CatAssoc
<1>5. Cat(<<>>, b) = b
    BY CatEmpty
<1> QED BY <1>1, <1>2, <1>3, <1>4, <1>5 DEF Line

\* The tasks inside are such a line.
LEMMA InsideIsLine ==
    Pipes!Inside = Line(Pipes!InHand(3), chan[3], Pipes!InHand(2), chan[2], Pipes!InHand(1), chan[1])
BY DEF Pipes!Inside, Line, Cat

LEMMA PartsTyped ==
    ASSUME Parts
    PROVE  /\ \A i \in 1..3 : Pipes!InHand(i) \in Streams(Job) /\ chan[i] \in Streams(Job)
           /\ Pipes!Inside \in Streams(Job)
<1>1. \A i \in 1..3 : chan[i] \in Streams(Job) /\ hand[i] \in Nat
    BY DEF Parts, Pipes!Stages
<1>2. ASSUME NEW i \in 1..3
      PROVE  Pipes!InHand(i) \in Streams(Job)
    <2>1. hand[i] # Pipes!EmptyHand => hand[i] \in Job
        BY <1>1 DEF Pipes!EmptyHand, Job
    <2> QED BY <2>1 DEF Pipes!InHand, Streams
<1>3. Pipes!Inside \in Streams(Job)
    <2> DEFINE a == Pipes!InHand(3)
               b == chan[3]
               c == Pipes!InHand(2)
               d == chan[2]
               e == Pipes!InHand(1)
               f == chan[1]
    <2>1. /\ a \in Streams(Job) /\ b \in Streams(Job) /\ c \in Streams(Job)
          /\ d \in Streams(Job) /\ e \in Streams(Job) /\ f \in Streams(Job)
        BY <1>1, <1>2
    <2>2. Pipes!Inside = Line(a, b, c, d, e, f)
        BY InsideIsLine
    <2> HIDE DEF a, b, c, d, e, f
    <2> QED BY <2>1, <2>2, LineType
<1> QED BY <1>1, <1>2, <1>3

LEMMA InitPipes == Pipes!Init => PipeInv /\ Pipes!F!Init
<1> SUFFICES ASSUME Pipes!Init PROVE PipeInv /\ Pipes!F!Init
    OBVIOUS
<1>1. /\ \A i \in 1..3 : chan[i] = <<>> /\ Pipes!InHand(i) = <<>>
      /\ result = <<>> /\ sent = 0
    BY DEF Pipes!Init, Pipes!InHand, Pipes!Stages
<1>2. Pipes!Inside = <<>>
    BY <1>1 DEF Pipes!Inside
<1>3. Parts
    BY DEF Pipes!Init, Parts, Pipes!Stages, Pipes!EmptyHand, Streams
<1> QED BY <1>1, <1>2, <1>3 DEF PipeInv, Pipes!F!Init

\* What Pass and Take leave inside the pipeline.
LEMMA LinesEqual ==
    ASSUME Line(Pipes!InHand(3), chan[3], Pipes!InHand(2), chan[2], Pipes!InHand(1), chan[1])'
         = Line(Pipes!InHand(3), chan[3], Pipes!InHand(2), chan[2], Pipes!InHand(1), chan[1])
    PROVE  Pipes!Inside' = Pipes!Inside
BY DEF Pipes!Inside, Line, Cat

\* A task is taken from a channel: nothing moves for who looks from outside.
LEMMA TakeStep ==
    ASSUME PipeInv, NEW i \in Pipes!Stages, Pipes!Take(i)
    PROVE  Parts' /\ Pipes!Inside' = Pipes!Inside
<1>1. /\ \A k \in 1..3 : Pipes!InHand(k) \in Streams(Job) /\ chan[k] \in Streams(Job)
      /\ chan \in [1..3 -> Streams(Job)] /\ hand \in [1..3 -> Nat] /\ i \in 1..3
      /\ Pipes!InHand(i) = <<>> /\ chan[i] # <<>>
    BY PartsTyped DEF PipeInv, Parts, Pipes!Stages, Pipes!Take, Pipes!Runs, Pipes!InHand
<1>2. /\ Head(chan[i]) \in Job /\ Tail(chan[i]) \in Streams(Job)
      /\ <<Head(chan[i])>> \in Streams(Job)
    BY <1>1, HeadAndTail
<1>3. /\ hand' = [hand EXCEPT ![i] = Head(chan[i])]
      /\ chan' = [chan EXCEPT ![i] = Tail(chan[i])]
      /\ result' = result
    BY DEF Pipes!Take
<1>4. Parts'
    BY <1>1, <1>2, <1>3 DEF Parts, PipeInv, Pipes!Stages, Job
<1>5. /\ Pipes!InHand(i)' = <<Head(chan[i])>> /\ chan'[i] = Tail(chan[i])
      /\ \A k \in 1..3 \ {i} : Pipes!InHand(k)' = Pipes!InHand(k) /\ chan'[k] = chan[k]
    BY <1>1, <1>2, <1>3 DEF Pipes!InHand, Pipes!EmptyHand, Job
<1>6. \A a \in Streams(Job) :
          Cat(Cat(a, Pipes!InHand(i)), chan[i]) = Cat(Cat(a, Pipes!InHand(i)'), chan'[i])
    BY <1>1, <1>5, TakeKeeps
<1>7. Line(Pipes!InHand(3), chan[3], Pipes!InHand(2), chan[2], Pipes!InHand(1), chan[1])'
    = Line(Pipes!InHand(3), chan[3], Pipes!InHand(2), chan[2], Pipes!InHand(1), chan[1])
    <2>1. CASE i = 3
        <3>1. Cat(Pipes!InHand(3), chan[3]) = chan[3]
            BY <1>1, <2>1, CatEmpty
        <3>2. Cat(Pipes!InHand(3)', chan'[3]) = chan[3]
            BY <1>1, <1>5, <2>1, HeadAndTail
        <3> QED BY <1>5, <2>1, <3>1, <3>2 DEF Line
    <2>2. CASE i = 2
        <3>1. Cat(Pipes!InHand(3), chan[3]) \in Streams(Job)
            BY <1>1, CatLen
        <3>2. Cat(Cat(Cat(Pipes!InHand(3), chan[3]), Pipes!InHand(2)), chan[2])
            = Cat(Cat(Cat(Pipes!InHand(3), chan[3]), Pipes!InHand(2)'), chan'[2])
            BY <1>6, <2>2, <3>1
        <3> QED BY <1>5, <2>2, <3>2 DEF Line
    <2>3. CASE i = 1
        <3>0. Cat(Cat(Pipes!InHand(3), chan[3]), Pipes!InHand(2)) \in Streams(Job)
            BY <1>1, ThreeType
        <3>1. Cat(Cat(Cat(Pipes!InHand(3), chan[3]), Pipes!InHand(2)), chan[2]) \in Streams(Job)
            BY <1>1, <3>0, CatLen
        <3>2. Line(Pipes!InHand(3), chan[3], Pipes!InHand(2), chan[2], Pipes!InHand(1), chan[1])
            = Line(Pipes!InHand(3), chan[3], Pipes!InHand(2), chan[2], Pipes!InHand(1)', chan'[1])
            BY <1>6, <2>3, <3>1 DEF Line
        <3> QED BY <1>5, <2>3, <3>2
    <2> QED BY <1>1, <2>1, <2>2, <2>3
<1> QED BY <1>4, <1>7, LinesEqual DEF PipeInv

\* A stage but the last passes its task on: nor does anything here.
LEMMA PassStep ==
    ASSUME PipeInv, NEW i \in {1, 2}, Pipes!Pass(i)
    PROVE  Parts' /\ Pipes!Inside' = Pipes!Inside /\ result' = result
<1>1. /\ \A k \in 1..3 : Pipes!InHand(k) \in Streams(Job) /\ chan[k] \in Streams(Job)
      /\ chan \in [1..3 -> Streams(Job)] /\ hand \in [1..3 -> Nat]
    BY PartsTyped DEF PipeInv, Parts, Pipes!Stages
<1>2. /\ hand[i] # 0 /\ hand' = [hand EXCEPT ![i] = 0]
      /\ chan' = [chan EXCEPT ![i + 1] = Append(chan[i + 1], hand[i])]
      /\ result' = result
    BY DEF Pipes!Pass, Pipes!EmptyHand
<1>3. hand[i] \in Job /\ Append(chan[i + 1], hand[i]) \in Streams(Job)
    <2>1. hand[i] \in Job /\ chan[i + 1] \in Streams(Job)
        BY <1>1, <1>2 DEF Job
    <2> QED BY <2>1, AppendIsCat
<1>4. Parts'
    BY <1>1, <1>2, <1>3 DEF Parts, PipeInv, Pipes!Stages
<1>5. /\ Pipes!InHand(i) = <<hand[i]>> /\ Pipes!InHand(i)' = <<>>
      /\ chan'[i + 1] = Append(chan[i + 1], hand[i])
      /\ \A k \in 1..3 \ {i} : Pipes!InHand(k)' = Pipes!InHand(k)
      /\ \A k \in 1..3 \ {i + 1} : chan'[k] = chan[k]
    BY <1>1, <1>2 DEF Pipes!InHand, Pipes!EmptyHand
<1>6. \A a \in Streams(Job) :
          Cat(Cat(a, chan[i + 1]), Pipes!InHand(i)) = Cat(Cat(a, chan'[i + 1]), Pipes!InHand(i)')
    BY <1>1, <1>3, <1>5, PassKeeps
<1>7. Line(Pipes!InHand(3), chan[3], Pipes!InHand(2), chan[2], Pipes!InHand(1), chan[1])'
    = Line(Pipes!InHand(3), chan[3], Pipes!InHand(2), chan[2], Pipes!InHand(1), chan[1])
    <2>1. CASE i = 2
        <3>1. Cat(Cat(Pipes!InHand(3), chan[3]), Pipes!InHand(2))
            = Cat(Cat(Pipes!InHand(3), chan'[3]), Pipes!InHand(2)')
            BY <1>1, <1>6, <2>1
        <3> QED BY <1>5, <2>1, <3>1 DEF Line
    <2>2. CASE i = 1
        <3>1. Cat(Cat(Pipes!InHand(3), chan[3]), Pipes!InHand(2)) \in Streams(Job)
            BY <1>1, ThreeType
        <3>2. Cat(Cat(Cat(Cat(Pipes!InHand(3), chan[3]), Pipes!InHand(2)), chan[2]), Pipes!InHand(1))
            = Cat(Cat(Cat(Cat(Pipes!InHand(3), chan[3]), Pipes!InHand(2)), chan'[2]), Pipes!InHand(1)')
            BY <1>6, <2>2, <3>1
        <3> QED BY <1>5, <2>2, <3>2 DEF Line
    <2> QED BY <2>1, <2>2
<1> QED BY <1>2, <1>4, <1>7, LinesEqual DEF PipeInv

\* The last stage gives its task out, the first of those inside.
LEMMA GiveStep ==
    ASSUME PipeInv, Pipes!Pass(3)
    PROVE  /\ Parts' /\ Pipes!Inside # <<>>
           /\ result' = Append(result, Head(Pipes!Inside)) /\ Pipes!Inside' = Tail(Pipes!Inside)
<1> DEFINE h == hand[3]
           b == chan[3]
           c == Pipes!InHand(2)
           d == chan[2]
           e == Pipes!InHand(1)
           f == chan[1]
           rest == Line(<<>>, b, c, d, e, f)
<1>1. /\ \A k \in 1..3 : Pipes!InHand(k) \in Streams(Job) /\ chan[k] \in Streams(Job)
      /\ chan \in [1..3 -> Streams(Job)] /\ hand \in [1..3 -> Nat] /\ result \in Streams(Job)
    BY PartsTyped DEF PipeInv, Parts, Pipes!Stages
<1>2. hand[3] # 0 /\ hand' = [hand EXCEPT ![3] = 0] /\ result' = Append(result, hand[3]) /\ chan' = chan
    BY DEF Pipes!Pass, Pipes!EmptyHand
<1>3. hand[3] \in Job
    BY <1>1, <1>2 DEF Job
<1>4. Parts'
    <2>1. result' \in Streams(Job)
        BY <1>1, <1>2, <1>3, AppendIsCat
    <2> QED BY <1>1, <1>2, <2>1 DEF Parts, Pipes!Stages
<1>5. /\ Pipes!InHand(3) = <<h>> /\ Pipes!InHand(3)' = <<>>
      /\ Pipes!InHand(2)' = c /\ Pipes!InHand(1)' = e
    BY <1>1, <1>2 DEF Pipes!InHand, Pipes!EmptyHand
<1>6. /\ b \in Streams(Job) /\ c \in Streams(Job) /\ d \in Streams(Job)
      /\ e \in Streams(Job) /\ f \in Streams(Job) /\ h \in Job
    BY <1>1, <1>3
<1>7. Pipes!Inside = Line(<<h>>, b, c, d, e, f)
    BY <1>5 DEF Pipes!Inside, Line, Cat
<1>8. Pipes!Inside' = rest
    BY <1>2, <1>5 DEF Pipes!Inside, Line, Cat
<1>9. Line(<<h>>, b, c, d, e, f) = Cat(<<h>>, rest) /\ rest \in Streams(Job)
    <2> HIDE DEF b, c, d, e, f, h
    <2>1. <<>> \in Streams(Job)
        BY DEF Streams
    <2>2. rest \in Streams(Job)
        BY <1>6, <2>1, LineType
    <2> QED BY <1>6, <2>2, LineHead
<1> HIDE DEF rest, h
<1>10. Cat(<<h>>, rest) # <<>> /\ Head(Cat(<<h>>, rest)) = h /\ Tail(Cat(<<h>>, rest)) = rest
    BY <1>6, <1>9, HeadOfCat
<1> QED BY <1>2, <1>4, <1>7, <1>8, <1>9, <1>10 DEF h

\* A task that is sent goes in at the other end.
LEMMA SendStep ==
    ASSUME PipeInv, Pipes!Send
    PROVE  Parts' /\ Pipes!Inside' = Append(Pipes!Inside, sent + 1) /\ result' = result
<1>1. /\ \A k \in 1..3 : Pipes!InHand(k) \in Streams(Job) /\ chan[k] \in Streams(Job)
      /\ chan \in [1..3 -> Streams(Job)] /\ hand \in [1..3 -> Nat] /\ sent + 1 \in Job
    BY PartsTyped DEF PipeInv, Parts, Pipes!Stages, Job
<1>2. /\ chan' = [chan EXCEPT ![1] = Append(chan[1], sent + 1)]
      /\ hand' = hand /\ result' = result
    BY DEF Pipes!Send
<1>3. /\ Append(chan[1], sent + 1) \in Streams(Job) /\ <<sent + 1>> \in Streams(Job)
      /\ Append(chan[1], sent + 1) = Cat(chan[1], <<sent + 1>>)
    BY <1>1, AppendIsCat
<1>4. Parts'
    BY <1>1, <1>2, <1>3 DEF Parts, PipeInv, Pipes!Stages
<1> DEFINE front == Cat(Cat(Cat(Cat(Pipes!InHand(3), chan[3]), Pipes!InHand(2)), chan[2]), Pipes!InHand(1))
<1>5. front \in Streams(Job) /\ chan[1] \in Streams(Job)
    <2>1. Cat(Cat(Pipes!InHand(3), chan[3]), Pipes!InHand(2)) \in Streams(Job)
        BY <1>1, ThreeType
    <2>2. Cat(Cat(Cat(Pipes!InHand(3), chan[3]), Pipes!InHand(2)), chan[2]) \in Streams(Job)
        BY <1>1, <2>1, CatLen
    <2> QED BY <1>1, <2>2, CatLen
<1>6. Pipes!Inside = Cat(front, chan[1])
    BY DEF Pipes!Inside, Cat
<1>7. Pipes!Inside' = Cat(front, Append(chan[1], sent + 1))
    <2>1. /\ chan'[1] = Append(chan[1], sent + 1) /\ chan'[2] = chan[2] /\ chan'[3] = chan[3]
          /\ Pipes!InHand(1)' = Pipes!InHand(1)
          /\ Pipes!InHand(2)' = Pipes!InHand(2)
          /\ Pipes!InHand(3)' = Pipes!InHand(3)
        BY <1>1, <1>2 DEF Pipes!InHand
    <2> QED BY <2>1 DEF Pipes!Inside, Cat
<1> HIDE DEF front
<1>8. Cat(front, Cat(chan[1], <<sent + 1>>)) = Cat(Cat(front, chan[1]), <<sent + 1>>)
    BY <1>3, <1>5, CatAssoc
<1>9. Cat(front, chan[1]) \in Streams(Job)
    BY <1>5, CatLen
<1>10. Append(Cat(front, chan[1]), sent + 1) = Cat(Cat(front, chan[1]), <<sent + 1>>)
    BY <1>1, <1>9, AppendIsCat
<1> QED BY <1>2, <1>3, <1>4, <1>6, <1>7, <1>8, <1>10

\* Every step of the pipeline is one of a FIFO, or none.
LEMMA StepPipes ==
    ASSUME PipeInv, [Pipes!Next]_pipelineVars
    PROVE  PipeInv' /\ [Pipes!F!Next]_<<Pipes!Inside, result>>
<1>0. /\ Pipes!Inside \in Streams(Job) /\ result \in Streams(Job)
      /\ sent \in Nat /\ sent = Len(result) + Len(Pipes!Inside) /\ Parts
    BY PartsTyped DEF PipeInv, Parts
<1>1. CASE Pipes!Send
    <2>1. Parts' /\ Pipes!Inside' = Append(Pipes!Inside, sent + 1) /\ result' = result
        BY <1>1, SendStep
    <2>2. sent' = sent + 1
        BY <1>1 DEF Pipes!Send
    <2>3. Len(Append(Pipes!Inside, sent + 1)) = Len(Pipes!Inside) + 1 /\ Len(Pipes!Inside) \in Nat
          /\ Len(result) \in Nat
        BY <1>0 DEF Streams
    <2>4. PipeInv'
        BY <1>0, <2>1, <2>2, <2>3 DEF PipeInv
    <2>5. Pipes!F!Put
        BY <1>0, <2>1, <2>3 DEF Pipes!F!Put
    <2> QED BY <2>4, <2>5 DEF Pipes!F!Next
<1>2. CASE Pipes!Pass(3)
    <2>1. /\ Parts' /\ Pipes!Inside # <<>>
          /\ result' = Append(result, Head(Pipes!Inside)) /\ Pipes!Inside' = Tail(Pipes!Inside)
        BY <1>2, GiveStep
    <2>2. sent' = sent
        BY <1>2 DEF Pipes!Pass
    <2>3. /\ Len(Append(result, Head(Pipes!Inside))) = Len(result) + 1
          /\ Len(Tail(Pipes!Inside)) = Len(Pipes!Inside) - 1
          /\ Len(Pipes!Inside) \in Nat /\ Len(result) \in Nat
        BY <1>0, <2>1 DEF Streams
    <2>4. PipeInv'
        BY <1>0, <2>1, <2>2, <2>3 DEF PipeInv
    <2>5. Pipes!F!Get
        BY <2>1 DEF Pipes!F!Get
    <2> QED BY <2>4, <2>5 DEF Pipes!F!Next
<1>3. ASSUME NEW i \in {1, 2}, Pipes!Pass(i)
      PROVE  PipeInv' /\ [Pipes!F!Next]_<<Pipes!Inside, result>>
    <2>1. Parts' /\ Pipes!Inside' = Pipes!Inside /\ result' = result /\ sent' = sent
        BY <1>3, PassStep DEF Pipes!Pass
    <2> QED BY <1>0, <2>1 DEF PipeInv
<1>4. ASSUME NEW i \in Pipes!Stages, Pipes!Take(i)
      PROVE  PipeInv' /\ [Pipes!F!Next]_<<Pipes!Inside, result>>
    <2>1. Parts' /\ Pipes!Inside' = Pipes!Inside /\ result' = result /\ sent' = sent
        BY <1>4, TakeStep DEF Pipes!Take
    <2> QED BY <1>0, <2>1 DEF PipeInv
<1>5. CASE UNCHANGED <<sent, chan, hand, result>>
    <2>1. Parts' /\ Pipes!Inside' = Pipes!Inside
        BY <1>0, <1>5 DEF Parts, Pipes!Inside, Pipes!InHand
    <2> QED BY <1>0, <1>5, <2>1 DEF PipeInv
<1>6. CASE Pipes!DropTx \/ Pipes!End \/ \E i \in Pipes!Stages : Pipes!StageEnds(i)
    BY <1>5, <1>6 DEF Pipes!DropTx, Pipes!End, Pipes!StageEnds
<1>7. CASE UNCHANGED pipelineVars
    BY <1>5, <1>7 DEF pipelineVars
<1>8. ASSUME NEW i \in Pipes!Stages, Pipes!Pass(i)
      PROVE  PipeInv' /\ [Pipes!F!Next]_<<Pipes!Inside, result>>
    <2>1. i = 3 \/ i \in {1, 2}
        BY DEF Pipes!Stages
    <2> QED BY <1>2, <1>3, <1>8, <2>1
<1> QED BY <1>1, <1>4, <1>6, <1>7, <1>8 DEF Pipes!Next, Pipes!Test, Pipes!Stage

\* The three stages with their channels implement a FIFO, for any number of
\* tasks: no task overtakes another, is lost between two stages or is worked on
\* twice.
THEOREM StagesKeepOrder == ProgramsSpec => PipelineIsFifo
<1>1. ProgramsInit => PipeInv /\ Pipes!F!Init
  BY InitPipes DEF ProgramsInit
<1>2. PipeInv /\ [ProgramsNext]_allVars => PipeInv' /\ [Pipes!F!Next]_<<Pipes!Inside, result>>
  BY StepOfEach, StepPipes
<1>3. QED
  BY <1>1, <1>2, PTL DEF ProgramsSpec, PipelineIsFifo, Pipes!PipelineIsFifo, Pipes!F!Spec

-----------------------------------------------------------------------------
(* The proof of work *)

\* The first number of a residue class.
LEMMA ResidueOfSmall ==
    ASSUME NEW T \in Nat \ {0}, NEW a \in 0..(T - 1)
    PROVE  a % T = a
<1>1. T * (a \div T) + (a % T) = T * 0 + a /\ a \div T \in Int /\ a % T \in 0..(T - 1)
    BY Division
<1> QED BY <1>1, DivisionUnique

\* The number a thread tries next is in the same class.
LEMMA ResidueOfNext ==
    ASSUME NEW T \in Nat \ {0}, NEW a \in Nat
    PROVE  (a + T) % T = a % T
<1> DEFINE b == a + T
           q == a \div T
           r == b \div T
           x == a % T
           y == b % T
<1>1. q \in Int /\ x \in 0..(T - 1) /\ a = T * q + x
    BY Division
<1>2. b \in Int /\ b = a + T
    OBVIOUS
<1> HIDE DEF b
<1>3. r \in Int /\ y \in 0..(T - 1) /\ b = T * r + y
    BY <1>2, Division
<1> HIDE DEF q, r, x, y
<1>4. T * (q + 1) + x = T * r + y /\ q + 1 \in Int
    BY <1>1, <1>2, <1>3
<1>5. x = y
    BY <1>1, <1>3, <1>4, DivisionUnique
<1> QED BY <1>5 DEF x, y, b

\* And the class has no number between the two.
LEMMA NextOfResidue ==
    ASSUME NEW T \in Nat \ {0}, NEW a \in Nat, NEW b \in Nat, a % T = b % T, a < b
    PROVE  a + T <= b
<1> DEFINE q == a \div T
           r == b \div T
           x == a % T
<1>1. q \in Int /\ x \in 0..(T - 1) /\ a = T * q + x
    BY Division
<1>2. r \in Int /\ b = T * r + x
    BY Division
<1> HIDE DEF q, r, x
<1>3. q < r
    BY <1>1, <1>2
<1>4. T * q + T <= T * r
    BY <1>1, <1>2, <1>3
<1> QED BY <1>1, <1>2, <1>4

PowType ==
    /\ solutions \subseteq Nat
    /\ num \in [Pow!Finders -> Nat]
    /\ finder \in [Pow!Finders -> {"looking", "sending", "returned", "panicked"}]
    /\ finded_solution \in BOOLEAN
    /\ channel \in Seq(Nat)
    /\ main \in {"waiting", "printing", "returning", "exited"}
    /\ printed \in Seq(Nat)

\* A thread is in its class and has passed over no solution.
Searching ==
    \A t \in Pow!Finders :
        /\ num[t] % Threads = t
        /\ finder[t] = "sending" => num[t] \in solutions
        /\ \A k \in solutions : k < num[t] => k % Threads # t

\* What a thread has sent it stands at, and it has returned: it sends no more.
Given == {n \in solutions : /\ n % Threads \in Pow!Finders
                            /\ finder[n % Threads] = "returned"
                            /\ num[n % Threads] = n}

Sent ==
    /\ \A i \in 1..Len(printed) : printed[i] \in Given
    /\ \A i \in 1..Len(channel) : channel[i] \in Given
    /\ \A i, j \in 1..Len(channel) : channel[i] = channel[j] => i = j
    /\ \A i \in 1..Len(printed), j \in 1..Len(channel) : printed[i] # channel[j]

\* main has received one number, unless it waits for it.
Printed == IF main = "waiting" THEN printed = <<>> ELSE Len(printed) = 1

Stopped ==
    /\ \A t \in Pow!Finders : finder[t] = "panicked" => printed # <<>>
    /\ finded_solution => \/ \E t \in Pow!Finders : finder[t] = "sending"
                          \/ channel # <<>>
                          \/ printed # <<>>

PowInv == PowType /\ Searching /\ Sent /\ Printed /\ Stopped

LEMMA InitPow == Pow!Init => PowInv
<1> SUFFICES ASSUME Pow!Init PROVE PowInv
    OBVIOUS
<1> USE ProgramsAssumption
<1>1. Pow!Finders = 0..(Threads - 1) /\ Pow!Finders \subseteq Nat
    BY DEF Pow!Finders
<1>2. PowType
    <2>1. solutions \subseteq Nat
        BY DEF Pow!Init
    <2>2. num \in [Pow!Finders -> Nat]
        BY <1>1 DEF Pow!Init
    <2>3. finder \in [Pow!Finders -> {"looking", "sending", "returned", "panicked"}]
        BY DEF Pow!Init
    <2>4. channel \in Seq(Nat) /\ printed \in Seq(Nat)
        BY DEF Pow!Init
    <2> QED BY <2>1, <2>2, <2>3, <2>4 DEF Pow!Init, PowType
<1>3. Searching
    <2> SUFFICES ASSUME NEW t \in Pow!Finders
                 PROVE  t % Threads = t /\ \A k \in solutions : k < t => k % Threads # t
        BY <1>1 DEF Searching, Pow!Init
    <2>1. t % Threads = t
        BY <1>1, ResidueOfSmall
    <2>2. ASSUME NEW k \in solutions, k < t
          PROVE  k % Threads # t
        <3>1. k \in 0..(Threads - 1) /\ k # t
            BY <1>1, <1>2, <2>2 DEF PowType
        <3> QED BY <3>1, ResidueOfSmall
    <2> QED BY <2>1, <2>2
<1>4. Sent /\ Printed /\ Stopped
    BY DEF Pow!Init, Sent, Printed, Stopped
<1> QED BY <1>2, <1>3, <1>4 DEF PowInv

\* The search goes on to the next number of the class, or to a solution.
LEMMA SearchStep ==
    ASSUME PowInv, NEW t \in Pow!Finders, Pow!TryNext(t)
    PROVE  PowInv'
<1> USE ProgramsAssumption DEF PowInv
<1>1. /\ num' = [num EXCEPT ![t] = num[t] + Threads] /\ num[t] \in Nat /\ num[t] \notin solutions
      /\ finder[t] = "looking" /\ num[t] % Threads = t
      /\ UNCHANGED <<solutions, finder, finded_solution, channel, main, printed>>
    BY DEF Pow!TryNext, Pow!Alive, PowType, Searching
<1>2. PowType'
    BY <1>1 DEF PowType
<1>3. Searching'
    <2>1. (num[t] + Threads) % Threads = t
        BY <1>1, ResidueOfNext
    <2>2. ASSUME NEW k \in solutions, k < num[t] + Threads
          PROVE  k % Threads # t
        <3>1. k \in Nat /\ k # num[t]
            BY <1>1 DEF PowType
        <3>2. CASE k < num[t]
            BY <3>2 DEF Searching
        <3>3. CASE num[t] < k
            BY <1>1, <2>2, <3>1, <3>3, NextOfResidue
        <3> QED BY <1>1, <3>1, <3>2, <3>3
    <2>3. num'[t] = num[t] + Threads /\ \A u \in Pow!Finders \ {t} : num'[u] = num[u]
        BY <1>1 DEF PowType
    <2> QED BY <1>1, <2>1, <2>2, <2>3 DEF Searching
<1>4. Sent'
    <2>1. ASSUME NEW n \in Given
          PROVE  n \in Given'
        BY <1>1, <2>1 DEF Given, PowType
    <2> QED BY <1>1, <2>1 DEF Sent
<1>5. Printed' /\ Stopped'
    BY <1>1 DEF Printed, Stopped
<1> QED BY <1>2, <1>3, <1>4, <1>5

LEMMA FoundStep ==
    ASSUME PowInv, NEW t \in Pow!Finders, Pow!Found(t)
    PROVE  PowInv'
<1> USE DEF PowInv
<1>1. /\ finder[t] = "looking" /\ finder' = [finder EXCEPT ![t] = "sending"]
      /\ num[t] \in solutions /\ finded_solution' = TRUE
      /\ UNCHANGED <<solutions, num, channel, main, printed>>
    BY DEF Pow!Found, Pow!Alive
<1>2. finder'[t] = "sending" /\ \A u \in Pow!Finders \ {t} : finder'[u] = finder[u]
    BY <1>1 DEF PowType
<1>3. PowType' /\ Searching'
    BY <1>1, <1>2 DEF PowType, Searching
<1>4. Sent'
    <2>1. ASSUME NEW n \in Given
          PROVE  n \in Given'
        BY <1>1, <1>2, <2>1 DEF Given
    <2> QED BY <1>1, <2>1 DEF Sent
<1>5. Printed' /\ Stopped'
    BY <1>1, <1>2 DEF Printed, Stopped
<1> QED BY <1>3, <1>4, <1>5

LEMMA StopStep ==
    ASSUME PowInv, NEW t \in Pow!Finders, Pow!Stop(t)
    PROVE  PowInv'
<1> USE DEF PowInv
<1>1. /\ finder[t] = "looking" /\ finder' = [finder EXCEPT ![t] = "returned"]
      /\ UNCHANGED <<solutions, num, finded_solution, channel, main, printed>>
    BY DEF Pow!Stop, Pow!Alive
<1>2. finder'[t] = "returned" /\ \A u \in Pow!Finders \ {t} : finder'[u] = finder[u]
    BY <1>1 DEF PowType
<1>3. PowType' /\ Searching'
    BY <1>1, <1>2 DEF PowType, Searching
<1>4. Sent'
    <2>1. ASSUME NEW n \in Given
          PROVE  n \in Given'
        BY <1>1, <1>2, <2>1 DEF Given
    <2> QED BY <1>1, <2>1 DEF Sent
<1>5. Printed' /\ Stopped'
    BY <1>1, <1>2 DEF Printed, Stopped
<1> QED BY <1>3, <1>4, <1>5

\* A number is sent by a thread that has sent none before.
LEMMA SendSolutionStep ==
    ASSUME PowInv, NEW t \in Pow!Finders, Pow!SendSolution(t)
    PROVE  PowInv'
<1> USE DEF PowInv
<1>1. /\ finder[t] = "sending" /\ finder' = [finder EXCEPT ![t] = "returned"]
      /\ channel' = Append(channel, num[t])
      /\ UNCHANGED <<solutions, num, finded_solution, main, printed>>
    BY DEF Pow!SendSolution, Pow!Alive
<1>2. finder'[t] = "returned" /\ \A u \in Pow!Finders \ {t} : finder'[u] = finder[u]
    BY <1>1 DEF PowType
<1>3. num[t] \in Nat /\ num[t] \in solutions /\ num[t] % Threads = t /\ num[t] \notin Given
    BY <1>1 DEF PowType, Searching, Given
<1>4. /\ Len(channel) \in Nat /\ Len(channel') = Len(channel) + 1 /\ channel' \in Seq(Nat)
      /\ channel'[Len(channel) + 1] = num[t]
      /\ \A i \in 1..Len(channel) : channel'[i] = channel[i]
    BY <1>1, <1>3 DEF PowType
<1>5. PowType' /\ Searching'
    BY <1>1, <1>2, <1>4 DEF PowType, Searching
<1>6. Sent'
    <2>1. num[t] \in Given'
        BY <1>1, <1>2, <1>3 DEF Given
    <2>2. ASSUME NEW n \in Given
          PROVE  n \in Given' /\ n # num[t]
        BY <1>1, <1>2, <1>3, <2>2 DEF Given
    <2>3. \A i \in 1..Len(printed) : printed[i] \in Given' /\ printed[i] # num[t]
        BY <2>2 DEF Sent
    <2>4. \A i \in 1..Len(channel) : channel[i] \in Given' /\ channel[i] # num[t]
        BY <2>2 DEF Sent
    <2>5. \A i \in 1..Len(channel') : channel'[i] \in Given'
        BY <1>4, <2>1, <2>4
    <2>6. \A i, j \in 1..Len(channel') : channel'[i] = channel'[j] => i = j
        BY <1>4, <2>4 DEF Sent
    <2>7. \A i \in 1..Len(printed), j \in 1..Len(channel') : printed[i] # channel'[j]
        BY <1>4, <2>3 DEF Sent
    <2> QED BY <1>1, <2>3, <2>5, <2>6, <2>7 DEF Sent
<1>7. channel' # <<>>
    BY <1>4
<1>8. Printed' /\ Stopped'
    BY <1>1, <1>2, <1>7 DEF Printed, Stopped
<1> QED BY <1>5, <1>6, <1>8

LEMMA SendPanicsStep ==
    ASSUME PowInv, NEW t \in Pow!Finders, Pow!SendPanics(t)
    PROVE  PowInv'
<1> USE DEF PowInv
<1>1. /\ finder[t] = "sending" /\ finder' = [finder EXCEPT ![t] = "panicked"]
      /\ main # "waiting"
      /\ UNCHANGED <<solutions, num, finded_solution, channel, main, printed>>
    BY DEF Pow!SendPanics, Pow!Alive, Pow!ReceiverDropped
<1>2. finder'[t] = "panicked" /\ \A u \in Pow!Finders \ {t} : finder'[u] = finder[u]
    BY <1>1 DEF PowType
<1>3. PowType' /\ Searching'
    BY <1>1, <1>2 DEF PowType, Searching
<1>4. Sent'
    <2>1. ASSUME NEW n \in Given
          PROVE  n \in Given'
        BY <1>1, <1>2, <2>1 DEF Given
    <2> QED BY <1>1, <2>1 DEF Sent
<1>5. printed # <<>>
    BY <1>1 DEF Printed
<1>6. Printed' /\ Stopped'
    BY <1>1, <1>2, <1>5 DEF Printed, Stopped
<1> QED BY <1>3, <1>4, <1>6

LEMMA ReceiveStep ==
    ASSUME PowInv, Pow!Receive
    PROVE  PowInv'
<1> USE DEF PowInv
<1>1. /\ channel # <<>> /\ channel' = Tail(channel) /\ printed' = <<Head(channel)>>
      /\ main = "waiting" /\ main' = "printing"
      /\ UNCHANGED <<solutions, num, finder, finded_solution>>
    BY DEF Pow!Receive
<1>2. /\ Len(channel) \in Nat \ {0} /\ Len(channel') = Len(channel) - 1 /\ channel' \in Seq(Nat)
      /\ \A i \in 1..Len(channel') : i + 1 \in 1..Len(channel) /\ channel'[i] = channel[i + 1]
    BY <1>1 DEF PowType
<1>3. Len(printed') = 1 /\ printed'[1] = channel[1] /\ printed' \in Seq(Nat)
    BY <1>1 DEF PowType
<1>4. PowType' /\ Searching'
    BY <1>1, <1>2, <1>3 DEF PowType, Searching
<1>5. Sent'
    <2>1. ASSUME NEW n \in Given
          PROVE  n \in Given'
        BY <1>1, <2>1 DEF Given
    <2>2. \A i \in 1..Len(channel) : channel[i] \in Given'
        BY <2>1 DEF Sent
    <2>3. \A i \in 1..Len(channel') : channel'[i] \in Given'
        BY <1>2, <2>2
    <2>4. \A i \in 1..Len(printed') : printed'[i] \in Given'
        BY <1>2, <1>3, <2>2
    <2>5. ASSUME NEW i \in 1..Len(channel'), NEW j \in 1..Len(channel'), channel'[i] = channel'[j]
          PROVE  i = j
        <3>1. i + 1 \in 1..Len(channel) /\ j + 1 \in 1..Len(channel) /\ channel[i + 1] = channel[j + 1]
            BY <1>2, <2>5
        <3>2. i + 1 = j + 1
            BY <3>1 DEF Sent
        <3> QED BY <1>2, <3>2
    <2>6. ASSUME NEW i \in 1..Len(printed'), NEW j \in 1..Len(channel')
          PROVE  printed'[i] # channel'[j]
        <3>1. i = 1 /\ j + 1 # 1 /\ 1 \in 1..Len(channel) /\ j + 1 \in 1..Len(channel)
            BY <1>2, <1>3
        <3>2. channel[1] # channel[j + 1]
            BY <3>1 DEF Sent
        <3> QED BY <1>2, <1>3, <3>1, <3>2
    <2> QED BY <2>3, <2>4, <2>5, <2>6 DEF Sent
<1>6. printed' # <<>>
    BY <1>1
<1>7. Printed' /\ Stopped'
    BY <1>1, <1>3, <1>6 DEF Printed, Stopped
<1> QED BY <1>4, <1>5, <1>7

LEMMA StepPow ==
    ASSUME PowInv, [Pow!Next]_powVars
    PROVE  PowInv'
<1>1. CASE Pow!Receive
    BY <1>1, ReceiveStep
<1>2. CASE Pow!Leave
    <2>1. /\ main # "waiting" /\ main' \in {"returning", "exited"}
          /\ UNCHANGED <<solutions, num, finder, finded_solution, channel, printed>>
        BY <1>2 DEF Pow!Leave
    <2> QED BY <2>1 DEF PowInv, PowType, Searching, Sent, Given, Printed, Stopped
<1>3. ASSUME NEW t \in Pow!Finders, Pow!Find(t)
      PROVE  PowInv'
    BY <1>3, StopStep, SearchStep, FoundStep, SendSolutionStep, SendPanicsStep DEF Pow!Find
<1>4. CASE UNCHANGED powVars
    BY <1>4 DEF powVars, PowInv, PowType, Searching, Sent, Given, Printed, Stopped
<1> QED BY <1>1, <1>2, <1>3, <1>4 DEF Pow!Next

\* What PowSound says of the numbers on their way, in parts.
LEMMA PowInvIsSound == PowInv => PowSound
<1> SUFFICES ASSUME PowInv PROVE PowSound
    OBVIOUS
<1> USE DEF PowInv
<1>1. ASSUME NEW i \in DOMAIN printed
      PROVE  /\ printed[i] \in solutions
             /\ \A k \in solutions : k < printed[i] => k % Threads # printed[i] % Threads
    <2>1. i \in 1..Len(printed)
        BY <1>1 DEF PowType
    <2>2. printed[i] \in Given
        BY <2>1 DEF Sent
    <2> QED BY <2>2 DEF Given, Searching
<1>2. (\E t \in Pow!Finders : finder[t] = "panicked") => printed # <<>>
    BY DEF Stopped
<1>3. ASSUME NEW i \in DOMAIN (printed \o channel), NEW j \in DOMAIN (printed \o channel),
             (printed \o channel)[i] = (printed \o channel)[j]
      PROVE  i = j
    <2> DEFINE p == Len(printed)
               c == Len(channel)
    <2>1. /\ DOMAIN (printed \o channel) = 1..(p + c) /\ p \in {0, 1} /\ c \in Nat
          /\ \A n \in 1..p : (printed \o channel)[n] = printed[n]
          /\ \A n \in 1..c : (printed \o channel)[p + n] = channel[n]
        <3>1. p \in {0, 1} /\ c \in Nat
            BY DEF PowType, Printed
        <3>2. printed \in Seq(Nat) /\ channel \in Seq(Nat)
            BY DEF PowType
        <3>3. /\ printed \o channel \in Seq(Nat) /\ Len(printed \o channel) = p + c
              /\ \A n \in 1..p : (printed \o channel)[n] = printed[n]
              /\ \A n \in 1..c : (printed \o channel)[p + n] = channel[n]
            BY <3>2, ConcatAt
        <3>4. DOMAIN (printed \o channel) = 1..Len(printed \o channel)
            BY <3>3
        <3> QED BY <3>1, <3>3, <3>4
    <2>2. ASSUME NEW n \in 1..(p + c)
          PROVE  n \in 1..p \/ (n - p \in 1..c /\ n = p + (n - p))
        BY <2>1
    <2>3. \A n \in 1..p, m \in 1..p : n = m
        <3> HIDE DEF p
        <3> QED BY <2>1
    <2>4. \A n \in 1..p, m \in 1..c : (printed \o channel)[n] # (printed \o channel)[p + m]
        BY <2>1 DEF Sent
    <2>5. \A n, m \in 1..c : (printed \o channel)[p + n] = (printed \o channel)[p + m] => n = m
        BY <2>1 DEF Sent
    <2> HIDE DEF p, c
    <2>6. i \in 1..(p + c) /\ j \in 1..(p + c)
        BY <1>3, <2>1
    <2>7. CASE i \in 1..p /\ j \in 1..p
        BY <2>3, <2>7
    <2>8. CASE i \in 1..p /\ j - p \in 1..c /\ j = p + (j - p)
        BY <1>3, <2>4, <2>8
    <2>9. CASE j \in 1..p /\ i - p \in 1..c /\ i = p + (i - p)
        BY <1>3, <2>4, <2>9
    <2>10. CASE i - p \in 1..c /\ i = p + (i - p) /\ j - p \in 1..c /\ j = p + (j - p)
        <3>1. i - p = j - p
            BY <1>3, <2>5, <2>10
        <3> QED BY <2>10, <3>1
    <2> QED BY <2>2, <2>6, <2>7, <2>8, <2>9, <2>10
<1>4. finded_solution => \/ \E t \in Pow!Finders : finder[t] = "sending"
                         \/ channel # <<>>
                         \/ printed # <<>>
    BY DEF Stopped
<1> QED BY <1>1, <1>2, <1>3, <1>4 DEF PowSound, Pow!PowSound

\* What is printed is the first solution of its residue class, a number is sent
\* once, a thread panics only when main has printed, and a thread that stops
\* leaves a solution on its way: for any number of threads, whatever the
\* solutions.
THEOREM SearchIsSound == ProgramsSpec => []PowSound
<1>1. ProgramsInit => PowInv
  BY InitPow DEF ProgramsInit
<1>2. PowInv /\ [ProgramsNext]_allVars => PowInv'
  BY StepOfEach, StepPow
<1>3. QED
  BY <1>1, <1>2, PowInvIsSound, PTL DEF ProgramsSpec

-----------------------------------------------------------------------------
(* The list *)

\* The boxes of s are those of h, each once, and the links lead from b through
\* them to None.
Way(s, h, b) ==
    /\ IsFiniteSet(DOMAIN h)
    /\ s \in Seq(DOMAIN h)
    /\ Len(s) = Cardinality(DOMAIN h)
    /\ \A x \in DOMAIN h : \E i \in 1..Len(s) : s[i] = x
    /\ \A i, j \in 1..Len(s) : s[i] = s[j] => i = j
    /\ b = List!After(s, 0)
    /\ \A i \in 1..Len(s) : h[s[i]].next = List!After(s, i)

Elems(s, h) == [i \in 1..Len(s) |-> h[s[i]].elem]

LEMMA SameCardinality == \A S : List!Cardinality(S) = Cardinality(S)
BY Zenon DEF List!Cardinality, Cardinality

LEMMA WayIsChain ==
    ASSUME NEW s, NEW h, NEW b, Way(s, h, b)
    PROVE  s \in List!Chains(h, b) /\ DOMAIN s = 1..Len(s) /\ Len(s) \in Nat
<1>1. DOMAIN s = 1..Len(s) /\ Len(s) \in Nat /\ s = [i \in 1..Len(s) |-> s[i]]
      /\ \A i \in 1..Len(s) : s[i] \in DOMAIN h
    BY DEF Way
<1>2. s \in [1..Cardinality(DOMAIN h) -> DOMAIN h]
    BY <1>1 DEF Way
<1>3. List!Reached(s) = DOMAIN h
    <2>1. \A x \in DOMAIN h : \E i \in DOMAIN s : s[i] = x
        BY <1>1 DEF Way
    <2>2. \A i \in DOMAIN s : s[i] \in DOMAIN h
        BY <1>1
    <2> QED BY <2>1, <2>2 DEF List!Reached
<1> QED BY <1>1, <1>2, <1>3, SameCardinality DEF Way, List!Chains

\* A chain is unique: one box determines the next.
LEMMA OneChain ==
    ASSUME NEW h, NEW b, IsFiniteSet(DOMAIN h),
           NEW s \in List!Chains(h, b), NEW t \in List!Chains(h, b)
    PROVE  s = t
<1> DEFINE n == Cardinality(DOMAIN h)
<1>1. n \in Nat
    BY FS_CardinalityType
<1> HIDE DEF n
<1>2. /\ s \in [1..n -> DOMAIN h] /\ t \in [1..n -> DOMAIN h]
      /\ DOMAIN s = 1..n /\ DOMAIN t = 1..n
      /\ b = List!After(s, 0) /\ b = List!After(t, 0)
      /\ \A i \in 1..n : h[s[i]].next = List!After(s, i)
      /\ \A i \in 1..n : h[t[i]].next = List!After(t, i)
    BY SameCardinality DEF List!Chains, n
<1>3. Len(s) = n /\ Len(t) = n
    <2>1. s = [i \in 1..n |-> s[i]] /\ \A i \in 1..n : s[i] \in DOMAIN h
        BY <1>2
    <2>2. t = [i \in 1..n |-> t[i]] /\ \A i \in 1..n : t[i] \in DOMAIN h
        BY <1>2
    <2>3. Len(s) = n
        BY <1>1, <2>1, FunctionIsSequence
    <2>4. Len(t) = n
        BY <1>1, <2>2, FunctionIsSequence
    <2> QED BY <2>3, <2>4
<1> DEFINE T == {i \in Nat : i \in 1..n => s[i] = t[i]}
<1>4. \A i \in T : i + 1 \in T
    <2>1. SUFFICES ASSUME NEW i \in Nat, i \in 1..n => s[i] = t[i], i + 1 \in 1..n
                   PROVE  s[i + 1] = t[i + 1]
        OBVIOUS
    <2>2. i < n /\ s[i + 1] = List!After(s, i) /\ t[i + 1] = List!After(t, i)
        BY <1>1, <1>3, <2>1 DEF List!After
    <2>3. CASE i = 0
        BY <1>2, <2>2, <2>3
    <2>4. CASE i \in 1..n
        BY <1>2, <2>1, <2>2, <2>4
    <2> QED BY <1>1, <2>1, <2>3, <2>4
<1>5. T = Nat
    <2>1. T \in SUBSET Nat /\ 0 \in T
        BY <1>1
    <2> HIDE DEF T
    <2> QED BY <1>4, <2>1, SetInduction
<1>6. \A i \in 1..n : s[i] = t[i]
    BY <1>1, <1>5
<1> HIDE DEF T
<1>7. s = [i \in 1..n |-> s[i]] /\ t = [i \in 1..n |-> t[i]]
    BY <1>2
<1>8. [i \in 1..n |-> s[i]] = [i \in 1..n |-> t[i]]
    BY <1>6
<1> QED BY <1>7, <1>8

\* So it is the one that is chosen.
LEMMA TheChain ==
    ASSUME NEW s, NEW h, NEW b, Way(s, h, b)
    PROVE  List!Chains(h, b) # {} /\ (CHOOSE t \in List!Chains(h, b) : TRUE) = s
<1>1. s \in List!Chains(h, b) /\ IsFiniteSet(DOMAIN h)
    BY WayIsChain DEF Way
<1>2. (CHOOSE t \in List!Chains(h, b) : TRUE) \in List!Chains(h, b)
    BY <1>1
<1> QED BY <1>1, <1>2, OneChain

LEMMA NoWay == Way(<<>>, <<>>, 0)
<1>1. DOMAIN <<>> = {} /\ <<>> \in Seq({}) /\ Len(<<>>) = 0
    OBVIOUS
<1>2. IsFiniteSet({}) /\ Cardinality({}) = 0
    BY FS_EmptySet
<1> QED BY <1>1, <1>2 DEF Way, List!After, List!None

\* push puts a box in front of the first.
LEMMA WayPush ==
    ASSUME NEW s, NEW h, NEW b, NEW c, NEW v, NEW g, Way(s, h, b), c \notin DOMAIN h,
           g = [a \in DOMAIN h \cup {c} |-> IF a = c THEN [elem |-> v, next |-> b] ELSE h[a]]
    PROVE  Way(<<c>> \o s, g, c)
<1> DEFINE D == DOMAIN h \cup {c}
           t == <<c>> \o s
           n == Len(s)
<1>1. /\ s \in Seq(D) /\ n \in Nat /\ \A i \in 1..n : s[i] \in DOMAIN h
      /\ <<c>> \in Seq(D) /\ Len(<<c>>) = 1 /\ <<c>>[1] = c
    BY DEF Way
<1>2. /\ t \in Seq(D) /\ Len(t) = n + 1 /\ t[1] = c
      /\ \A i \in 1..n : t[i + 1] = s[i]
    <2>1. /\ t \in Seq(D) /\ Len(t) = Len(<<c>>) + Len(s)
          /\ \A i \in 1..Len(<<c>>) : t[i] = <<c>>[i]
          /\ \A i \in 1..Len(s) : t[Len(<<c>>) + i] = s[i]
        BY <1>1, ConcatAt
    <2> QED BY <1>1, <2>1
<1>3. /\ IsFiniteSet(D) /\ Cardinality(D) = n + 1
    BY FS_AddElement DEF Way
<1>4. /\ DOMAIN g = D /\ g[c].next = b
      /\ \A a \in DOMAIN h : g[a] = h[a] /\ a # c
    OBVIOUS
<1> HIDE DEF D, t
<1>5. \A i \in 1..(n + 1) : t[i] = IF i = 1 THEN c ELSE s[i - 1]
    <2>1. ASSUME NEW i \in 1..(n + 1), i # 1 PROVE t[i] = s[i - 1]
        <3>1. i - 1 \in 1..n /\ (i - 1) + 1 = i
            BY <1>1, <2>1
        <3> QED BY <1>2, <3>1
    <2> QED BY <1>2, <2>1
<1>6. \A x \in D : \E i \in 1..(n + 1) : t[i] = x
    <2>1. ASSUME NEW x \in DOMAIN h PROVE \E i \in 1..(n + 1) : t[i] = x
        <3>1. PICK j \in 1..n : s[j] = x
            BY DEF Way
        <3>2. j + 1 \in 1..(n + 1) /\ t[j + 1] = x
            BY <1>1, <1>2, <3>1
        <3> QED BY <3>2
    <2>2. 1 \in 1..(n + 1) /\ t[1] = c
        BY <1>1, <1>2
    <2> QED BY <2>1, <2>2 DEF D
<1>7. \A i, j \in 1..(n + 1) : t[i] = t[j] => i = j
    <2>1. ASSUME NEW i \in 1..(n + 1), i # 1
          PROVE  i - 1 \in 1..n /\ t[i] = s[i - 1] /\ t[i] # c
        <3>1. i - 1 \in 1..n
            BY <1>1, <2>1
        <3> QED BY <1>1, <1>4, <1>5, <2>1, <3>1
    <2>2. ASSUME NEW i \in 1..(n + 1), NEW j \in 1..(n + 1), i # 1, j # 1, t[i] = t[j]
          PROVE  i = j
        <3>1. /\ i - 1 \in 1..n /\ t[i] = s[i - 1]
              /\ j - 1 \in 1..n /\ t[j] = s[j - 1]
            BY <2>1, <2>2
        <3>2. i - 1 = j - 1
            BY <2>2, <3>1 DEF Way
        <3> QED BY <3>2
    <2> QED BY <1>2, <2>1, <2>2
<1>8. c = List!After(t, 0)
    BY <1>1, <1>2 DEF List!After
<1>9. ASSUME NEW i \in 1..(n + 1) PROVE g[t[i]].next = List!After(t, i)
    <2>1. List!After(t, i) = List!After(s, i - 1)
        <3>1. CASE i < n + 1
            <4>1. i \in 1..n /\ i - 1 < n /\ (i - 1) + 1 = i
                BY <1>1, <3>1
            <4> QED BY <1>2, <4>1 DEF List!After
        <3>2. CASE i = n + 1
            BY <1>1, <1>2, <3>2 DEF List!After
        <3> QED BY <1>1, <3>1, <3>2
    <2>2. CASE i = 1
        <3>1. g[t[i]].next = b /\ i - 1 = 0
            BY <1>2, <1>4, <2>2
        <3> QED BY <2>1, <3>1 DEF Way
    <2>3. CASE i # 1
        <3>1. i - 1 \in 1..n
            BY <1>1, <2>3
        <3>2. t[i] = s[i - 1] /\ g[t[i]] = h[s[i - 1]]
            BY <1>1, <1>4, <1>5, <2>3, <3>1
        <3> QED BY <2>1, <3>1, <3>2 DEF Way
    <2> QED BY <2>2, <2>3
<1>10. Way(t, g, c)
    BY <1>2, <1>3, <1>4, <1>6, <1>7, <1>8, <1>9 DEF Way
<1> QED BY <1>10 DEF t

\* pop and drop take the first box away.
LEMMA WayPop ==
    ASSUME NEW s, NEW h, NEW b, Way(s, h, b), b # 0
    PROVE  /\ s # <<>> /\ Len(s) \in Nat \ {0} /\ b = s[1] /\ b \in DOMAIN h
           /\ Way(Tail(s), [a \in DOMAIN h \ {b} |-> h[a]], h[b].next)
<1> DEFINE D == DOMAIN h \ {b}
           g == [a \in D |-> h[a]]
           t == Tail(s)
           n == Len(s)
<1>1. /\ s \in Seq(DOMAIN h) /\ n \in Nat /\ \A i \in 1..n : s[i] \in DOMAIN h
    BY DEF Way
<1>2. n > 0 /\ b = s[1] /\ b \in DOMAIN h /\ s # <<>>
    <2>1. n > 0 /\ b = s[1]
        BY <1>1 DEF Way, List!After, List!None
    <2> QED BY <1>1, <2>1
<1>3. \A i \in 2..n : s[i] \in D
    <2>1. ASSUME NEW i \in 2..n PROVE s[i] # b /\ s[i] \in DOMAIN h
        <3>1. i \in 1..n /\ 1 \in 1..n /\ i # 1
            BY <1>1, <1>2
        <3> QED BY <1>1, <1>2, <3>1 DEF Way
    <2> QED BY <2>1
<1>4. /\ t \in Seq(DOMAIN h) /\ Len(t) = n - 1
      /\ \A i \in 1..(n - 1) : t[i] = s[i + 1]
    BY <1>1, <1>2
<1>5. t \in Seq(D)
    <2>1. t = [i \in 1..(n - 1) |-> t[i]]
        <3>1. t \in [1..Len(t) -> DOMAIN h]
            <4> HIDE DEF t
            <4> QED BY <1>4
        <3> HIDE DEF t, n
        <3> QED BY <1>4, <3>1
    <2>2. ASSUME NEW i \in 1..(n - 1) PROVE t[i] \in D
        <3>1. i + 1 \in 2..n
            BY <1>1
        <3> QED BY <1>3, <1>4, <3>1
    <2>3. n - 1 \in Nat
        BY <1>1, <1>2
    <2> HIDE DEF t, D, n
    <2> QED BY <2>1, <2>2, <2>3, FunctionIsSequence
<1>6. IsFiniteSet(D) /\ Cardinality(D) = n - 1
    BY <1>2, FS_RemoveElement DEF Way
<1>7. DOMAIN g = D /\ \A a \in D : g[a] = h[a]
    OBVIOUS
<1> HIDE DEF D, g, t
<1>8. ASSUME NEW x \in D PROVE \E i \in 1..(n - 1) : t[i] = x
    <2>1. PICK j \in 1..n : s[j] = x
        BY DEF Way, D
    <2>2. j # 1
        BY <1>2, <2>1 DEF D
    <2>3. j - 1 \in 1..(n - 1) /\ (j - 1) + 1 = j
        BY <1>1, <2>2
    <2>4. t[j - 1] = x
        BY <1>4, <2>1, <2>3
    <2> QED BY <2>3, <2>4
<1>9. ASSUME NEW i \in 1..(n - 1), NEW j \in 1..(n - 1), t[i] = t[j] PROVE i = j
    <2>1. i + 1 \in 1..n /\ j + 1 \in 1..n /\ s[i + 1] = s[j + 1]
        BY <1>1, <1>4, <1>9
    <2>2. i + 1 = j + 1
        BY <2>1 DEF Way
    <2> QED BY <2>2
<1>10. ASSUME NEW i \in 0..(n - 1) PROVE List!After(t, i) = List!After(s, i + 1)
    <2>1. CASE i < n - 1
        <3>1. i + 1 \in 1..(n - 1) /\ i + 1 < n
            BY <1>1, <2>1
        <3> QED BY <1>4, <2>1, <3>1 DEF List!After
    <2>2. CASE i = n - 1
        BY <1>1, <1>4, <2>2 DEF List!After
    <2> QED BY <1>1, <2>1, <2>2
<1>11. h[b].next = List!After(t, 0)
    <2>1. h[s[1]].next = List!After(s, 1) /\ 0 \in 0..(n - 1) /\ 0 + 1 = 1
        BY <1>1, <1>2 DEF Way
    <2> QED BY <1>2, <1>10, <2>1
<1>12. ASSUME NEW i \in 1..(n - 1) PROVE g[t[i]].next = List!After(t, i)
    <2>1. i \in 0..(n - 1) /\ i + 1 \in 1..n /\ i + 1 \in 2..n
        BY <1>1
    <2>2. t[i] = s[i + 1] /\ g[t[i]] = h[s[i + 1]]
        BY <1>3, <1>4, <1>7, <2>1
    <2>3. h[s[i + 1]].next = List!After(s, i + 1)
        BY <2>1 DEF Way
    <2> QED BY <1>10, <2>1, <2>2, <2>3
<1>13. Way(t, g, h[b].next)
    BY <1>4, <1>5, <1>6, <1>7, <1>8, <1>9, <1>11, <1>12 DEF Way
<1> QED BY <1>1, <1>2, <1>13 DEF D, g, t

\* A write to an element leaves the way as it was.
LEMMA WayWrite ==
    ASSUME NEW s, NEW h, NEW b, NEW g, Way(s, h, b), DOMAIN g = DOMAIN h,
           \A a \in DOMAIN h : g[a].next = h[a].next
    PROVE  Way(s, g, b)
<1>1. \A i \in 1..Len(s) : s[i] \in DOMAIN h
    BY DEF Way
<1> QED BY <1>1 DEF Way

\* A box is behind one place only, and None at the end.
LEMMA OnePlace ==
    ASSUME NEW s, NEW h, NEW b, Way(s, h, b), 0 \notin DOMAIN h,
           NEW n \in 0..Len(s), NEW m \in 0..Len(s), List!After(s, n) = List!After(s, m)
    PROVE  n = m
<1>1. Len(s) \in Nat /\ \A i \in 1..Len(s) : s[i] \in DOMAIN h
    BY DEF Way
<1>2. \A i \in 0..Len(s) : i < Len(s) => /\ i + 1 \in 1..Len(s)
                                         /\ List!After(s, i) = s[i + 1]
                                         /\ List!After(s, i) # 0
    BY <1>1 DEF List!After
<1>3. List!After(s, Len(s)) = 0
    BY <1>1 DEF List!After, List!None
<1>4. CASE n = Len(s) \/ m = Len(s)
    BY <1>1, <1>2, <1>3, <1>4
<1>5. CASE n < Len(s) /\ m < Len(s)
    <2>1. n + 1 \in 1..Len(s) /\ m + 1 \in 1..Len(s) /\ s[n + 1] = s[m + 1]
        BY <1>2, <1>5
    <2>2. n + 1 = m + 1
        BY <2>1 DEF Way
    <2> QED BY <2>2
<1> QED BY <1>1, <1>4, <1>5

\* Where the list begins, and the box an iterator stands at
First == IF mode = "dropping" THEN cursor ELSE head

Iterating == mode \in {"iter", "iter_mut"}

ListType ==
    /\ heap \in [DOMAIN heap -> [elem : Values, next : Boxes \cup {0}]]
    /\ DOMAIN heap \subseteq Boxes
    /\ mode \in {"owned", "iter", "iter_mut", "dropping", "dropped"}
    /\ mode \in {"dropping", "dropped"} => head = 0
    /\ mode = "dropping" => answer = <<>>

At(s, n) == Iterating => cursor = List!After(s, n)

\* The boxes in use are one way from the first to None, and an iterator stands
\* on it.
Linked == \E s : Way(s, heap, First) /\ \E n \in 0..Len(s) : At(s, n)

ListInv == ListType /\ Linked

\* What the list shows of itself: the elements along the way, and how many
\* of them the iterator has given out.
LEMMA View ==
    ASSUME ListType, NEW s, Way(s, heap, First), NEW n \in 0..Len(s), At(s, n)
    PROVE  List!Items = Elems(s, heap) /\ List!Place = IF Iterating THEN n ELSE 0
<1>1. List!Owned = List!Chains(heap, First)
    BY DEF List!Owned, First
<1>2. List!Owned # {} /\ List!Chain = s /\ DOMAIN s = 1..Len(s)
    BY <1>1, TheChain, WayIsChain DEF List!Chain
<1>3. List!Items = Elems(s, heap)
    BY <1>2 DEF List!Items, Elems
<1>4. ASSUME Iterating PROVE List!Place = n
    <2>1. 0 \notin DOMAIN heap
        BY ProgramsAssumption DEF ListType
    <2>2. \A m \in 0..Len(s) : cursor = List!After(s, m) => m = n
        BY <1>4, <2>1, OnePlace DEF At
    <2>3. List!Place = CHOOSE m \in 0..Len(s) : cursor = List!After(s, m)
        BY <1>2, <1>4 DEF List!Place, Iterating
    <2> QED BY <1>4, <2>2, <2>3 DEF At
<1> QED BY <1>3, <1>4 DEF List!Place, Iterating

LEMMA NextView ==
    ASSUME ListType', NEW s, Way(s, heap', First'), NEW n \in 0..Len(s), At(s, n)'
    PROVE  List!Items' = Elems(s, heap') /\ List!Place' = IF Iterating' THEN n ELSE 0
<1>1. List!Owned' = List!Chains(heap', First')
    BY DEF List!Owned, First
<1>2. List!Owned' # {} /\ List!Chain' = s /\ DOMAIN s = 1..Len(s)
    BY <1>1, TheChain, WayIsChain DEF List!Chain
<1>3. List!Items' = Elems(s, heap')
    BY <1>2 DEF List!Items, Elems
<1>4. ASSUME Iterating' PROVE List!Place' = n
    <2>1. 0 \notin DOMAIN heap'
        BY ProgramsAssumption DEF ListType
    <2>2. \A m \in 0..Len(s) : cursor' = List!After(s, m) => m = n
        BY <1>4, <2>1, OnePlace DEF At
    <2>3. List!Place' = CHOOSE m \in 0..Len(s) : cursor' = List!After(s, m)
        BY <1>2, <1>4 DEF List!Place, Iterating
    <2> QED BY <1>4, <2>2, <2>3 DEF At
<1> QED BY <1>3, <1>4 DEF List!Place, Iterating

LEMMA InitList == List!Init => ListInv /\ List!S!Init
<1> SUFFICES ASSUME List!Init PROVE ListInv /\ List!S!Init
    OBVIOUS
<1>1. heap = <<>> /\ head = 0 /\ mode = "owned" /\ answer = <<>>
    BY DEF List!Init, List!None
<1>2. ListType
    <2>1. DOMAIN heap = {} /\ heap = [a \in {} |-> heap[a]]
        BY <1>1
    <2> QED BY <1>1, <2>1 DEF ListType
<1>3. Way(<<>>, heap, First) /\ Len(<<>>) = 0 /\ At(<<>>, 0)
    BY <1>1, NoWay DEF First, At, Iterating
<1>4. List!Items = Elems(<<>>, heap) /\ List!Place = 0
    <2>1. 0 \in 0..Len(<<>>)
        BY <1>3
    <2> QED BY <1>2, <1>3, <2>1, View
<1>5. Elems(<<>>, heap) = <<>>
    BY DEF Elems
<1> QED BY <1>1, <1>2, <1>3, <1>4, <1>5 DEF ListInv, Linked, List!S!Init

\* What a step of the list is to the stack, by the ways before and after it
LEMMA StepSeen ==
    ASSUME ListInv, ListType', NEW s, Way(s, heap, First), NEW n \in 0..Len(s), At(s, n),
           NEW t, Way(t, heap', First'), NEW m \in 0..Len(t), At(t, m)'
    PROVE  /\ ListInv'
           /\ List!Items = Elems(s, heap) /\ List!Place = (IF Iterating THEN n ELSE 0)
           /\ List!Items' = Elems(t, heap') /\ List!Place' = (IF Iterating' THEN m ELSE 0)
<1>1. ListInv'
    BY DEF ListInv, Linked
<1>2. List!Items = Elems(s, heap) /\ List!Place = IF Iterating THEN n ELSE 0
    BY View DEF ListInv
<1>3. List!Items' = Elems(t, heap') /\ List!Place' = IF Iterating' THEN m ELSE 0
    BY NextView
<1> QED BY <1>1, <1>2, <1>3

StackStep == ListInv' /\ [List!S!Next]_(List!S!stackVars)

LEMMA ElemsOf ==
    ASSUME NEW h, NEW s, NEW b, Way(s, h, b), h \in [DOMAIN h -> [elem : Values, next : Boxes \cup {0}]]
    PROVE  /\ Elems(s, h) \in Seq(Values) /\ Len(Elems(s, h)) = Len(s)
           /\ \A i \in 1..Len(s) : Elems(s, h)[i] = h[s[i]].elem /\ s[i] \in DOMAIN h
           /\ Len(s) \in Nat
<1>1. Len(s) \in Nat /\ \A i \in 1..Len(s) : s[i] \in DOMAIN h
    BY DEF Way
<1>2. ASSUME NEW i \in 1..Len(s) PROVE h[s[i]].elem \in Values
    BY <1>1, <1>2
<1> DEFINE e == Elems(s, h)
<1>3. e = [i \in 1..Len(s) |-> e[i]] /\ \A i \in 1..Len(s) : e[i] = h[s[i]].elem
    BY DEF Elems
<1> HIDE DEF e
<1>4. e \in Seq(Values) /\ Len(e) = Len(s)
    BY <1>1, <1>2, <1>3, FunctionIsSequence
<1> QED BY <1>1, <1>3, <1>4 DEF e

LEMMA ElemsAt ==
    ASSUME ListType, NEW s, NEW b, Way(s, heap, b)
    PROVE  /\ Elems(s, heap) \in Seq(Values) /\ Len(Elems(s, heap)) = Len(s)
           /\ \A i \in 1..Len(s) : Elems(s, heap)[i] = heap[s[i]].elem /\ s[i] \in DOMAIN heap
           /\ Len(s) \in Nat
BY ElemsOf DEF ListType

LEMMA NextElemsAt ==
    ASSUME ListType', NEW s, NEW b, Way(s, heap', b)
    PROVE  /\ Elems(s, heap') \in Seq(Values) /\ Len(Elems(s, heap')) = Len(s)
           /\ \A i \in 1..Len(s) : Elems(s, heap')[i] = heap'[s[i]].elem /\ s[i] \in DOMAIN heap'
           /\ Len(s) \in Nat
BY ElemsOf DEF ListType

\* What an operation returns is the top of the stack.
LEMMA TopOfElems ==
    ASSUME ListType, NEW s, NEW b, Way(s, heap, b)
    PROVE  List!ElemAt(b) = List!S!Top(Elems(s, heap))
<1>1. /\ Len(s) \in Nat /\ Elems(s, heap) \in Seq(Values) /\ Len(Elems(s, heap)) = Len(s)
      /\ \A i \in 1..Len(s) : Elems(s, heap)[i] = heap[s[i]].elem /\ s[i] \in DOMAIN heap
    BY ElemsAt
<1>2. CASE s = <<>>
    <2>1. b = 0 /\ Elems(s, heap) = <<>>
        BY <1>1, <1>2 DEF Way, List!After, List!None
    <2> QED BY <2>1 DEF List!ElemAt, List!None, List!S!Top
<1>3. CASE s # <<>>
    <2>1. Len(s) > 0 /\ 1 \in 1..Len(s)
        BY <1>1, <1>3 DEF Way
    <2>2. b = s[1] /\ b # 0
        BY <1>1, <2>1, ProgramsAssumption DEF Way, List!After, ListType
    <2>3. Elems(s, heap) # <<>> /\ Head(Elems(s, heap)) = heap[b].elem
        BY <1>1, <2>1, <2>2
    <2> QED BY <2>2, <2>3 DEF List!ElemAt, List!None, List!S!Top
<1> QED BY <1>2, <1>3

\* The operations that change no box return the top, or nothing.
LEMMA LookStep ==
    ASSUME ListInv,
           \/ List!peek
           \/ List!IterEnds
           \/ \E kind \in {"iter", "iter_mut"} : List!iter(kind)
           \/ List!Drop
    PROVE  StackStep
<1>1. PICK s : Way(s, heap, First) /\ \E n \in 0..Len(s) : At(s, n)
    BY DEF ListInv, Linked
<1>2. PICK n \in 0..Len(s) : At(s, n)
    BY <1>1
<1>3. heap' = heap /\ Len(s) \in Nat
    BY <1>1 DEF List!peek, List!IterEnds, List!iter, List!Drop, Way
<1>4. ListType' /\ First' = First
    BY DEF ListInv, ListType, First, List!peek, List!IterEnds, List!iter, List!Drop, List!None
<1>5. Way(s, heap', First')
    BY <1>1, <1>3, <1>4
<1>6. CASE List!peek
    <2>1. At(s, n)' /\ Iterating' = Iterating
        BY <1>2, <1>6 DEF List!peek, At, Iterating
    <2>2. /\ ListInv'
          /\ List!Items' = List!Items /\ List!Place' = List!Place /\ List!Items = Elems(s, heap)
        BY <1>1, <1>2, <1>3, <1>4, <1>5, <2>1, StepSeen
    <2>3. answer' = List!S!Top(List!Items)
        <3>1. First = head
            BY <1>6 DEF List!peek, First
        <3>2. List!ElemAt(head) = List!S!Top(Elems(s, heap))
            BY <1>1, <3>1, TopOfElems DEF ListInv
        <3> QED BY <1>6, <2>2, <3>2 DEF List!peek
    <2> QED BY <2>2, <2>3 DEF StackStep, List!S!Next, List!S!Peek
<1>7. CASE ~List!peek
    <2>1. At(s, 0)' /\ 0 \in 0..Len(s) /\ answer' = <<>>
        BY <1>1, <1>3, <1>7 DEF List!IterEnds, List!iter, List!Drop, At, Iterating, First, Way
    <2>2. /\ ListInv'
          /\ List!Items' = List!Items /\ List!Place' = 0
        BY <1>1, <1>2, <1>3, <1>4, <1>5, <2>1, StepSeen
    <2> QED BY <2>1, <2>2 DEF StackStep, List!S!Next, List!S!Iterate
<1> QED BY <1>6, <1>7

LEMMA PushStep ==
    ASSUME ListInv, NEW v \in Values, List!push(v)
    PROVE  StackStep
<1>1. PICK s : Way(s, heap, First) /\ \E n \in 0..Len(s) : At(s, n)
    BY DEF ListInv, Linked
<1>2. PICK n \in 0..Len(s) : At(s, n)
    BY <1>1
<1>3. PICK b \in Boxes \ DOMAIN heap :
         /\ heap' = [a \in DOMAIN heap \cup {b} |->
                        IF a = b THEN [elem |-> v, next |-> head] ELSE heap[a]]
         /\ head' = b
    BY DEF List!push
<1>4. mode = "owned" /\ mode' = mode /\ answer' = <<>> /\ First = head /\ First' = b
    BY <1>3 DEF List!push, First
<1>5. ListType'
    <2>1. head \in Boxes \cup {0}
        <3>1. Len(s) \in Nat /\ \A i \in 1..Len(s) : s[i] \in Boxes
            BY <1>1 DEF Way, ListInv, ListType
        <3>2. head = IF 0 < Len(s) THEN s[1] ELSE 0
            BY <1>1, <1>4 DEF Way, List!After, List!None
        <3> QED BY <3>1, <3>2
    <2>2. heap \in [DOMAIN heap -> [elem : Values, next : Boxes \cup {0}]] /\ DOMAIN heap \subseteq Boxes
        BY DEF ListInv, ListType
    <2>3. DOMAIN heap' = DOMAIN heap \cup {b}
        BY <1>3
    <2>4. heap' \in [DOMAIN heap' -> [elem : Values, next : Boxes \cup {0}]]
        BY <1>3, <2>1, <2>2, <2>3
    <2> QED BY <1>4, <2>2, <2>3, <2>4 DEF ListType
<1> DEFINE t == <<b>> \o s
<1>6. Way(t, heap', First')
    <2>1. Way(s, heap, head) /\ b \notin DOMAIN heap
        BY <1>1, <1>4
    <2>2. Way(<<b>> \o s, heap', b)
        BY <1>3, <2>1, WayPush
    <2> QED BY <1>4, <2>2
<1>7. At(t, 0)' /\ ~Iterating /\ ~Iterating'
    BY <1>4 DEF At, Iterating
<1>8. /\ Len(s) \in Nat /\ \A i \in 1..Len(s) : s[i] \in DOMAIN heap
      /\ Len(t) = Len(s) + 1 /\ t[1] = b /\ \A i \in 1..Len(s) : t[i + 1] = s[i]
    <2>1. s \in Seq(Boxes) /\ <<b>> \in Seq(Boxes) /\ Len(<<b>>) = 1 /\ <<b>>[1] = b
          /\ Len(s) \in Nat /\ \A i \in 1..Len(s) : s[i] \in DOMAIN heap
        BY <1>1 DEF Way, ListInv, ListType
    <2>2. /\ Len(t) = Len(<<b>>) + Len(s)
          /\ \A i \in 1..Len(<<b>>) : t[i] = <<b>>[i]
          /\ \A i \in 1..Len(s) : t[Len(<<b>>) + i] = s[i]
        BY <2>1, ConcatAt
    <2> QED BY <2>1, <2>2
<1> HIDE DEF t
<1>9. /\ ListInv'
      /\ List!Items = Elems(s, heap) /\ List!Items' = Elems(t, heap') /\ List!Place' = 0
    <2>1. 0 \in 0..Len(t)
        BY <1>8
    <2> QED BY <1>1, <1>2, <1>5, <1>6, <1>7, <2>1, StepSeen
<1>10. Elems(t, heap') = <<v>> \o Elems(s, heap)
    <2> DEFINE e == Elems(s, heap)
               f == Elems(t, heap')
               g == <<v>> \o e
    <2>1. /\ e \in Seq(Values) /\ Len(e) = Len(s)
          /\ \A i \in 1..Len(s) : e[i] = heap[s[i]].elem
        BY <1>1, ElemsAt DEF ListInv
    <2>2. /\ f \in Seq(Values) /\ Len(f) = Len(t)
          /\ \A i \in 1..Len(t) : f[i] = heap'[t[i]].elem
        BY <1>5, <1>6, NextElemsAt
    <2> HIDE DEF e, f, g
    <2>3. /\ g \in Seq(Values) /\ Len(g) = 1 + Len(s) /\ g[1] = v
          /\ \A i \in 1..Len(s) : g[1 + i] = e[i]
        <3>1. <<v>> \in Seq(Values) /\ Len(<<v>>) = 1 /\ <<v>>[1] = v
            OBVIOUS
        <3>2. /\ g \in Seq(Values)
              /\ Len(g) = Len(<<v>>) + Len(e)
              /\ \A i \in 1..Len(<<v>>) : g[i] = <<v>>[i]
              /\ \A i \in 1..Len(e) : g[Len(<<v>>) + i] = e[i]
            BY <2>1, <3>1, ConcatAt DEF g
        <3> QED BY <2>1, <3>1, <3>2
    <2>4. ASSUME NEW i \in 1..Len(f) PROVE f[i] = g[i]
        <3>1. CASE i = 1
            BY <1>3, <1>8, <2>2, <2>3, <3>1
        <3>2. CASE i # 1
            <4>1. i - 1 \in 1..Len(s) /\ (i - 1) + 1 = i /\ 1 + (i - 1) = i /\ i \in 1..Len(t)
                BY <1>8, <2>2, <3>2
            <4>2. t[i] = s[i - 1] /\ s[i - 1] \in DOMAIN heap /\ s[i - 1] # b
                BY <1>3, <1>8, <4>1
            <4>3. heap'[t[i]] = heap[s[i - 1]]
                BY <1>3, <4>2
            <4>4. f[i] = heap[s[i - 1]].elem /\ g[i] = heap[s[i - 1]].elem
                BY <2>1, <2>2, <2>3, <4>1, <4>3
            <4> QED BY <4>4
        <3> QED BY <3>1, <3>2
    <2>5. f = g
        <3>1. Len(f) = Len(g)
            BY <1>8, <2>2, <2>3
        <3> QED BY <2>2, <2>3, <2>4, <3>1, SeqEqual
    <2> QED BY <2>5 DEF e, f, g
<1> QED BY <1>4, <1>9, <1>10 DEF StackStep, List!S!Next, List!S!Push

\* The n-th box of the way gets the element v.
Rewritten(s, n, v) ==
    /\ Way(s, heap', First')
    /\ heap' \in [DOMAIN heap' -> [elem : Values, next : Boxes \cup {0}]]
    /\ DOMAIN heap' = DOMAIN heap
    /\ Elems(s, heap') = [Elems(s, heap) EXCEPT ![n] = v]

LEMMA Written ==
    ASSUME ListType, NEW s, Way(s, heap, First), NEW n \in 1..Len(s), NEW v \in Values,
           heap' = [heap EXCEPT ![s[n]].elem = v], First' = First
    PROVE  Rewritten(s, n, v)
<1>1. Len(s) \in Nat /\ \A i \in 1..Len(s) : s[i] \in DOMAIN heap
    BY DEF Way
<1>2. /\ DOMAIN heap' = DOMAIN heap
      /\ \A a \in DOMAIN heap : /\ heap'[a].next = heap[a].next
                               /\ heap'[a].elem = IF a = s[n] THEN v ELSE heap[a].elem
      /\ heap' \in [DOMAIN heap' -> [elem : Values, next : Boxes \cup {0}]]
    BY <1>1 DEF ListType
<1>3. Way(s, heap', First')
    BY <1>2, WayWrite
<1>4. ASSUME NEW i \in 1..Len(s)
      PROVE  heap'[s[i]].elem = IF i = n THEN v ELSE heap[s[i]].elem
    <2>1. s[i] = s[n] => i = n
        BY DEF Way
    <2> QED BY <1>1, <1>2, <2>1
<1>5. Elems(s, heap') = [i \in 1..Len(s) |-> IF i = n THEN v ELSE heap[s[i]].elem]
    BY <1>4 DEF Elems
<1>6. [Elems(s, heap) EXCEPT ![n] = v] = [i \in 1..Len(s) |-> IF i = n THEN v ELSE heap[s[i]].elem]
    BY DEF Elems
<1> QED BY <1>2, <1>3, <1>5, <1>6 DEF Rewritten

\* The first box freed, and the list that begins at the next
LEMMA Unlinked ==
    ASSUME ListType, NEW s, Way(s, heap, First), First # 0,
           heap' = List!Free(First), First' = heap[First].next
    PROVE  /\ Way(Tail(s), heap', First')
           /\ heap' \in [DOMAIN heap' -> [elem : Values, next : Boxes \cup {0}]]
           /\ DOMAIN heap' \subseteq DOMAIN heap
           /\ Elems(Tail(s), heap') = Tail(Elems(s, heap))
           /\ Elems(s, heap) # <<>>
           /\ 0 \in 0..Len(Tail(s))
<1> DEFINE t == Tail(s)
           e == Elems(s, heap)
           f == Elems(t, heap')
           n == Len(s)
<1>1. heap' = [a \in DOMAIN heap \ {First} |-> heap[a]]
    BY DEF List!Free
<1>2. /\ n \in Nat \ {0} /\ First = s[1] /\ First \in DOMAIN heap /\ s # <<>>
      /\ Way(t, heap', First')
    <2>1. /\ n \in Nat \ {0} /\ First = s[1] /\ First \in DOMAIN heap /\ s # <<>>
          /\ Way(t, [a \in DOMAIN heap \ {First} |-> heap[a]], heap[First].next)
        BY WayPop
    <2> QED BY <1>1, <2>1
<1>3. /\ DOMAIN heap' \subseteq DOMAIN heap
      /\ \A a \in DOMAIN heap' : heap'[a] = heap[a]
      /\ heap' \in [DOMAIN heap' -> [elem : Values, next : Boxes \cup {0}]]
    BY <1>1 DEF ListType
<1>4. /\ s \in Seq(DOMAIN heap) /\ Len(t) = n - 1
      /\ \A i \in 1..(n - 1) : t[i] = s[i + 1]
    <2>1. s \in Seq(DOMAIN heap)
        BY DEF Way
    <2> QED BY <1>2, <2>1
<1>5. /\ e \in Seq(Values) /\ Len(e) = n
      /\ \A i \in 1..n : e[i] = heap[s[i]].elem
    BY ElemsAt
<1>6. /\ f \in Seq(Values) /\ Len(f) = n - 1
      /\ \A i \in 1..(n - 1) : f[i] = heap'[t[i]].elem /\ t[i] \in DOMAIN heap'
    <2>1. /\ f \in Seq(Values) /\ Len(f) = Len(t)
          /\ \A i \in 1..Len(t) : f[i] = heap'[t[i]].elem /\ t[i] \in DOMAIN heap'
        <3> HIDE DEF t
        <3> QED BY <1>2, <1>3, ElemsOf
    <2> HIDE DEF t, f, n
    <2> QED BY <1>4, <2>1
<1> HIDE DEF t, e, f, n
<1>7. /\ e # <<>> /\ Tail(e) \in Seq(Values) /\ Len(Tail(e)) = n - 1
      /\ \A i \in 1..(n - 1) : Tail(e)[i] = e[i + 1]
    BY <1>2, <1>5
<1>8. ASSUME NEW i \in 1..Len(f) PROVE f[i] = Tail(e)[i]
    <2>1. i \in 1..(n - 1) /\ i + 1 \in 1..n
        BY <1>2, <1>6
    <2>2. f[i] = heap[s[i + 1]].elem
        BY <1>3, <1>4, <1>6, <2>1
    <2> QED BY <1>5, <1>7, <2>1, <2>2
<1>9. f = Tail(e)
    BY <1>6, <1>7, <1>8, SeqEqual
<1>10. 0 \in 0..Len(t)
    BY <1>2, <1>4
<1> QED BY <1>2, <1>3, <1>7, <1>9, <1>10 DEF t, e, f

LEMMA PopStep ==
    ASSUME ListInv, List!pop
    PROVE  StackStep
<1>1. PICK s : Way(s, heap, First) /\ \E n \in 0..Len(s) : At(s, n)
    BY DEF ListInv, Linked
<1>2. PICK n \in 0..Len(s) : At(s, n)
    BY <1>1
<1>3. /\ mode = "owned" /\ mode' = mode /\ First = head /\ First' = head'
      /\ ListType /\ ~Iterating /\ ~Iterating'
    BY DEF ListInv, List!pop, First, Iterating
<1>4. answer' = List!S!Top(Elems(s, heap))
    <2>1. List!ElemAt(head) = List!S!Top(Elems(s, heap))
        BY <1>1, <1>3, TopOfElems
    <2> QED BY <2>1 DEF List!pop
<1>5. CASE head = 0
    <2>1. heap' = heap /\ head' = 0
        BY <1>5 DEF List!pop, List!None
    <2>2. ListType' /\ Way(s, heap', First') /\ At(s, 0)' /\ 0 \in 0..Len(s)
        BY <1>1, <1>3, <1>5, <2>1 DEF ListType, At, Way
    <2>3. /\ ListInv'
          /\ List!Items = Elems(s, heap) /\ List!Items' = Elems(s, heap) /\ List!Place' = 0
        BY <1>1, <1>2, <1>3, <2>1, <2>2, StepSeen
    <2>4. Elems(s, heap) = <<>>
        <3>1. Len(s) \in Nat /\ \A i \in 1..Len(s) : s[i] # 0
            BY <1>1, <1>3, ProgramsAssumption DEF Way, ListType
        <3>2. 0 = IF 0 < Len(s) THEN s[1] ELSE 0
            BY <1>1, <1>3, <1>5 DEF Way, List!After, List!None
        <3>3. Len(s) = 0
            BY <3>1, <3>2
        <3>4. Elems(s, heap) \in Seq(Values) /\ Len(Elems(s, heap)) = 0
            BY <1>1, <1>3, <3>3, ElemsAt
        <3> QED BY <3>4
    <2> QED BY <1>4, <2>3, <2>4 DEF StackStep, List!S!Next, List!S!Pop
<1>6. CASE head # 0
    <2>1. heap' = List!Free(First) /\ First' = heap[First].next
        BY <1>3, <1>6 DEF List!pop, List!None
    <2>2. /\ Way(Tail(s), heap', First')
          /\ heap' \in [DOMAIN heap' -> [elem : Values, next : Boxes \cup {0}]]
          /\ DOMAIN heap' \subseteq DOMAIN heap
          /\ Elems(Tail(s), heap') = Tail(Elems(s, heap))
          /\ Elems(s, heap) # <<>>
          /\ 0 \in 0..Len(Tail(s))
        BY <1>1, <1>3, <1>6, <2>1, Unlinked
    <2>3. ListType' /\ At(Tail(s), 0)'
        BY <1>3, <2>2 DEF ListType, At
    <2>4. /\ ListInv'
          /\ List!Items = Elems(s, heap) /\ List!Items' = Tail(Elems(s, heap)) /\ List!Place' = 0
        BY <1>1, <1>2, <1>3, <2>2, <2>3, StepSeen
    <2> QED BY <1>4, <2>2, <2>4 DEF StackStep, List!S!Next, List!S!Pop
<1> QED BY <1>5, <1>6

LEMMA DropNodeStep ==
    ASSUME ListInv, List!DropNode
    PROVE  StackStep
<1>1. PICK s : Way(s, heap, First) /\ \E n \in 0..Len(s) : At(s, n)
    BY DEF ListInv, Linked
<1>2. PICK n \in 0..Len(s) : At(s, n)
    BY <1>1
<1>3. /\ mode = "dropping" /\ mode' = mode /\ First = cursor /\ First' = cursor'
      /\ ListType /\ ~Iterating /\ ~Iterating' /\ answer' = answer /\ answer = <<>>
    BY DEF ListInv, List!DropNode, First, Iterating, ListType
<1>4. heap' = List!Free(First) /\ First' = heap[First].next /\ First # 0
    BY <1>3 DEF List!DropNode, List!None
<1>5. /\ Way(Tail(s), heap', First')
      /\ heap' \in [DOMAIN heap' -> [elem : Values, next : Boxes \cup {0}]]
      /\ DOMAIN heap' \subseteq DOMAIN heap
      /\ Elems(Tail(s), heap') = Tail(Elems(s, heap))
      /\ Elems(s, heap) # <<>>
      /\ 0 \in 0..Len(Tail(s))
    BY <1>1, <1>3, <1>4, Unlinked
<1>6. ListType' /\ At(Tail(s), 0)'
    BY <1>3, <1>5 DEF ListType, At, List!DropNode
<1>7. /\ ListInv'
      /\ List!Items = Elems(s, heap) /\ List!Items' = Tail(Elems(s, heap)) /\ List!Place' = 0
    BY <1>1, <1>2, <1>3, <1>5, <1>6, StepSeen
<1> QED BY <1>3, <1>5, <1>7 DEF StackStep, List!S!Next, List!S!Drop

\* drop has freed every box: nothing changes but that it returns.
LEMMA DropEndsStep ==
    ASSUME ListInv, List!DropEnds
    PROVE  StackStep
<1>1. PICK s : Way(s, heap, First) /\ \E n \in 0..Len(s) : At(s, n)
    BY DEF ListInv, Linked
<1>2. PICK n \in 0..Len(s) : At(s, n)
    BY <1>1
<1>3. /\ First = 0 /\ First' = 0 /\ heap' = heap /\ answer' = answer
      /\ ~Iterating /\ ~Iterating' /\ ListType'
    BY DEF ListInv, ListType, List!DropEnds, First, Iterating, List!None
<1>4. Way(s, heap', First') /\ At(s, 0)' /\ 0 \in 0..Len(s)
    BY <1>1, <1>3 DEF At, Way
<1>5. /\ ListInv'
      /\ List!Items' = List!Items /\ List!Place' = List!Place
    BY <1>1, <1>2, <1>3, <1>4, StepSeen
<1> QED BY <1>3, <1>5 DEF StackStep, List!S!stackVars

LEMMA PokeStep ==
    ASSUME ListInv, NEW v \in Values, List!peek_mut(v)
    PROVE  StackStep
<1>1. PICK s : Way(s, heap, First) /\ \E n \in 0..Len(s) : At(s, n)
    BY DEF ListInv, Linked
<1>2. PICK n \in 0..Len(s) : At(s, n)
    BY <1>1
<1>3. /\ mode = "owned" /\ mode' = mode /\ First = head /\ First' = head /\ head # 0
      /\ ListType /\ ~Iterating /\ ~Iterating'
      /\ heap' = [heap EXCEPT ![head].elem = v]
    BY DEF ListInv, List!peek_mut, First, Iterating, List!None
<1>4. answer' = List!S!Top(Elems(s, heap))
    <2>1. List!ElemAt(head) = List!S!Top(Elems(s, heap))
        BY <1>1, <1>3, TopOfElems
    <2> QED BY <2>1 DEF List!peek_mut
<1>5. 1 \in 1..Len(s) /\ head = s[1] /\ Len(s) \in Nat \ {0}
    <2>1. Len(s) \in Nat \ {0} /\ head = s[1]
        BY <1>1, <1>3, WayPop
    <2> QED BY <2>1
<1>6. /\ Way(s, heap', First')
      /\ heap' \in [DOMAIN heap' -> [elem : Values, next : Boxes \cup {0}]]
      /\ DOMAIN heap' = DOMAIN heap
      /\ Elems(s, heap') = [Elems(s, heap) EXCEPT ![1] = v]
    <2>1. heap' = [heap EXCEPT ![s[1]].elem = v] /\ First' = First
        BY <1>3, <1>5
    <2>2. ListType /\ Way(s, heap, First) /\ 1 \in 1..Len(s)
        BY <1>1, <1>3, <1>5
    <2>3. Rewritten(s, 1, v)
        BY <2>1, <2>2, Written
    <2> QED BY <2>3 DEF Rewritten
<1>7. ListType' /\ At(s, 0)' /\ 0 \in 0..Len(s)
    BY <1>3, <1>5, <1>6 DEF ListType, At
<1>8. /\ ListInv'
      /\ List!Items = Elems(s, heap) /\ List!Items' = [Elems(s, heap) EXCEPT ![1] = v]
      /\ List!Place' = 0
    BY <1>1, <1>2, <1>3, <1>6, <1>7, StepSeen
<1>9. Elems(s, heap) # <<>>
    <2>1. Elems(s, heap) \in Seq(Values) /\ Len(Elems(s, heap)) # 0
        BY <1>1, <1>3, <1>5, ElemsAt
    <2> QED BY <2>1
<1> QED BY <1>4, <1>8, <1>9 DEF StackStep, List!S!Next, List!S!Poke

\* An iterator goes on by one box, or stays at the end.
LEMMA AdvanceStep ==
    ASSUME ListInv, NEW kind \in {"iter", "iter_mut"}, NEW v, List!Advance(kind, v),
           cursor # 0 => v \in Values
    PROVE  StackStep
<1>1. PICK s : Way(s, heap, First) /\ \E n \in 0..Len(s) : At(s, n)
    BY DEF ListInv, Linked
<1>2. PICK n \in 0..Len(s) : At(s, n)
    BY <1>1
<1>3. /\ mode = kind /\ mode' = mode /\ First = head /\ First' = head
      /\ ListType /\ Iterating /\ Iterating' /\ cursor = List!After(s, n)
    BY <1>2 DEF ListInv, List!Advance, First, Iterating, At
<1>4. /\ Len(s) \in Nat /\ \A i \in 1..Len(s) : s[i] \in DOMAIN heap /\ s[i] # 0
    BY <1>1, <1>3, ProgramsAssumption DEF Way, ListType
<1>5. CASE n = Len(s)
    <2>1. cursor = 0
        BY <1>3, <1>4, <1>5 DEF List!After, List!None
    <2>2. heap' = heap /\ cursor' = 0 /\ answer' = <<>>
        BY <2>1 DEF List!Advance, List!ElemAt, List!None
    <2>3. Way(s, heap', First') /\ At(s, n)' /\ ListType'
        BY <1>1, <1>2, <1>3, <2>1, <2>2 DEF At, ListType
    <2>4. /\ ListInv'
          /\ List!Items = Elems(s, heap) /\ List!Items' = List!Items
          /\ List!Place = n /\ List!Place' = n
        BY <1>1, <1>2, <1>3, <2>2, <2>3, StepSeen
    <2>5. Len(Elems(s, heap)) = n
        BY <1>1, <1>3, <1>5, ElemsAt
    <2> QED BY <2>2, <2>4, <2>5 DEF StackStep, List!S!Next, List!S!NextNone
<1>6. CASE n < Len(s)
    <2>1. n + 1 \in 1..Len(s) /\ n + 1 \in 0..Len(s) /\ n \in Nat
        BY <1>4, <1>6
    <2>2. cursor = s[n + 1] /\ cursor # 0
        BY <1>3, <1>4, <1>6, <2>1 DEF List!After
    <2>3. /\ heap' = [heap EXCEPT ![s[n + 1]].elem = v] /\ cursor' = heap[s[n + 1]].next
          /\ answer' = <<heap[s[n + 1]].elem>> /\ v \in Values
        BY <2>2 DEF List!Advance, List!ElemAt, List!None
    <2>4. /\ Way(s, heap', First')
          /\ heap' \in [DOMAIN heap' -> [elem : Values, next : Boxes \cup {0}]]
          /\ DOMAIN heap' = DOMAIN heap
          /\ Elems(s, heap') = [Elems(s, heap) EXCEPT ![n + 1] = v]
        <3>1. heap' = [heap EXCEPT ![s[n + 1]].elem = v] /\ First' = First
            BY <1>3, <2>3
        <3>2. ListType /\ Way(s, heap, First) /\ n + 1 \in 1..Len(s)
            BY <1>1, <1>3, <2>1
        <3>3. Rewritten(s, n + 1, v)
            BY <2>3, <3>1, <3>2, Written
        <3> QED BY <3>3 DEF Rewritten
    <2>5. At(s, n + 1)' /\ ListType'
        <3>1. cursor' = List!After(s, n + 1)
            BY <1>1, <2>1, <2>3 DEF Way
        <3> QED BY <1>3, <2>4, <3>1 DEF At, ListType
    <2>6. /\ ListInv'
          /\ List!Items = Elems(s, heap) /\ List!Items' = [Elems(s, heap) EXCEPT ![n + 1] = v]
          /\ List!Place = n /\ List!Place' = n + 1
        BY <1>1, <1>2, <1>3, <2>1, <2>4, <2>5, StepSeen
    <2>7. Len(Elems(s, heap)) = Len(s) /\ Elems(s, heap)[n + 1] = heap[s[n + 1]].elem
        BY <1>1, <1>3, <2>1, ElemsAt
    <2> QED BY <1>6, <2>3, <2>6, <2>7 DEF StackStep, List!S!Next, List!S!Next1
<1> QED BY <1>4, <1>5, <1>6

LEMMA StepList ==
    ASSUME ListInv, [List!Next]_listVars
    PROVE  StackStep
<1>1. CASE UNCHANGED listVars
    <2>1. ListInv' /\ List!Items' = List!Items /\ List!Place' = List!Place /\ answer' = answer
        BY <1>1 DEF listVars, ListInv, ListType, Linked, First, At, Iterating, List!Items,
                    List!Place, List!Owned, List!Chain
    <2> QED BY <2>1 DEF StackStep, List!S!stackVars
<1>2. ASSUME NEW v \in Values, List!push(v) PROVE StackStep
    BY <1>2, PushStep
<1>3. ASSUME NEW v \in Values, List!peek_mut(v) PROVE StackStep
    BY <1>3, PokeStep
<1>4. ASSUME NEW v \in Values, List!IterMutNext(v) PROVE StackStep
    BY <1>4, AdvanceStep DEF List!IterMutNext
<1>5. CASE List!IterNext
    <2>1. cursor # 0 => heap[cursor].elem \in Values
        <3>1. PICK s : Way(s, heap, First) /\ \E n \in 0..Len(s) : At(s, n)
            BY DEF ListInv, Linked
        <3>2. PICK n \in 0..Len(s) : At(s, n)
            BY <3>1
        <3>3. cursor = List!After(s, n)
            BY <1>5, <3>2 DEF List!IterNext, List!Advance, At, Iterating
        <3>4. Len(s) \in Nat /\ \A i \in 1..Len(s) : s[i] \in DOMAIN heap
            BY <3>1 DEF Way
        <3>5. cursor # 0 => cursor \in DOMAIN heap
            BY <3>2, <3>3, <3>4 DEF List!After, List!None
        <3> QED BY <3>5 DEF ListInv, ListType
    <2> QED BY <1>5, <2>1, AdvanceStep DEF List!IterNext
<1>6. CASE List!pop
    BY <1>6, PopStep
<1>7. CASE List!peek \/ List!IterEnds \/ (\E kind \in {"iter", "iter_mut"} : List!iter(kind)) \/ List!Drop
    BY <1>7, LookStep
<1>8. CASE List!DropNode
    BY <1>8, DropNodeStep
<1>9. CASE List!DropEnds
    BY <1>9, DropEndsStep
<1> QED BY <1>1, <1>2, <1>3, <1>4, <1>5, <1>6, <1>7, <1>8, <1>9 DEF List!Next

\* The list with its boxes, its links and its own drop implements a stack with
\* iterators, for any addresses and values: no box is lost, used after it was
\* freed or freed twice, and an iterator writes to the item it gives and to no
\* other.
THEOREM BoxesMakeAStack == ProgramsSpec => ListIsStack
<1>1. ProgramsInit => ListInv /\ List!S!Init
    BY InitList DEF ProgramsInit
<1>2. ListInv /\ [ProgramsNext]_allVars => StackStep
    BY StepOfEach, StepList
<1>3. StackStep => ListInv' /\ [List!S!Next]_(List!S!stackVars)
    BY DEF StackStep
<1> QED BY <1>1, <1>2, <1>3, PTL DEF ProgramsSpec, ListIsStack, List!ListIsStack, List!S!Spec
=============================================================================
