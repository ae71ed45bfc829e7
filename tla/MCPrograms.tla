----------------------------- MODULE MCPrograms -----------------------------
(***************************************************************************)
(* The programs of the repository that stand alone, for TLC: one of them   *)
(* is chosen in the initial state and runs, the others stay where they     *)
(* begin.  The functions and the executor come with this module, the       *)
(* others as instances.                                                    *)
(***************************************************************************)
EXTENDS Inputs, AsyncExecutor

CONSTANTS Size, MaxJobs,    \* see Threadpool
          MaxTasks,         \* see Pipeline
          Threads, MaxNum,  \* see ProofOfWork
          Values, Boxes,    \* see LinkedList
          Places            \* see Pinned

ASSUME ProgramsAssumption ==
    /\ Size \in Nat /\ MaxJobs \in Nat
    /\ Threads \in Nat \ {0}
    /\ MaxNum \in Nat
    /\ Boxes \subseteq Nat \ {0}

\* For the executor: a task that joins two sleeps and then awaits a third, one
\* that awaits a single sleep, as main() does, and one that awaits nothing
MCAwaits == [join |-> <<{"a", "b"}, {"c"}>>, single |-> <<{"d"}>>, none |-> <<>>]

VARIABLES
    program,                                             \* the one that runs
    sender, jobs, holder, pc, job, submitted, done, failed, owner, joined, \* Threadpool
    test, sent, chan, hand, stages, result,              \* Pipeline
    solutions, num, finder, finded_solution, channel, main, printed, \* ProofOfWork
    heap, head, mode, cursor, answer,                    \* LinkedList
    val, wrapper, sound, promise                         \* Pinned

Pool == INSTANCE Threadpool WITH queue <- jobs
Pipes == INSTANCE Pipeline WITH stage <- stages
Pow == INSTANCE ProofOfWork
List == INSTANCE LinkedList WITH result <- answer
Pins == INSTANCE Pinned

poolVars == <<sender, jobs, holder, pc, job, submitted, done, failed, owner, joined>>
pipelineVars == <<test, sent, chan, hand, stages, result>>
powVars == <<solutions, num, finder, finded_solution, channel, main, printed>>
listVars == <<heap, head, mode, cursor, answer>>
pinVars == <<val, wrapper, sound, promise>>

allVars == <<program, algorithmVars, vars, poolVars, pipelineVars, powVars, listVars, pinVars>>

ProgramsInit ==
    /\ program \in {"algorithms", "executor", "pool", "pipeline", "pow", "list", "pins"}
    /\ AlgorithmsInit
    /\ Init
    /\ Pool!Init
    /\ Pipes!Init
    /\ Pow!Init
    /\ program # "pow" => solutions = {}
    /\ List!Init
    /\ Pins!Init

\* The program has come to its end; the bound ends a search without solution
Over == \/ test = "ended"
        \/ main = "exited"
        \/ program = "pow" /\ solutions = {} /\ \A t \in Pow!Finders : num[t] > MaxNum
        \/ mode = "dropped"

ProgramsNext ==
    \/ Over /\ UNCHANGED allVars
    \/ /\ program = "algorithms"
       /\ AlgorithmsNext
       /\ UNCHANGED <<program, vars, poolVars, pipelineVars, powVars, listVars, pinVars>>
    \/ /\ program = "executor"
       /\ Next
       /\ UNCHANGED <<program, algorithmVars, poolVars, pipelineVars, powVars, listVars, pinVars>>
    \/ /\ program = "pool"
       /\ Pool!Next
       /\ UNCHANGED <<program, algorithmVars, vars, pipelineVars, powVars, listVars, pinVars>>
    \/ /\ program = "pipeline"
       /\ Pipes!Next
       /\ UNCHANGED <<program, algorithmVars, vars, poolVars, powVars, listVars, pinVars>>
    \/ /\ program = "pow"
       /\ Pow!Next
       /\ UNCHANGED <<program, algorithmVars, vars, poolVars, pipelineVars, listVars, pinVars>>
    \/ /\ program = "list"
       /\ List!Next
       /\ UNCHANGED <<program, algorithmVars, vars, poolVars, pipelineVars, powVars, pinVars>>
    \/ /\ program = "pins"
       /\ Pins!Next
       /\ UNCHANGED <<program, algorithmVars, vars, poolVars, pipelineVars, powVars, listVars>>

\* The program that runs has the fairness of its module; the others stand still
ProgramsFairness ==
    /\ WF_vars(program = "executor" /\ Run)
    /\ \A s \in Sleeps : WF_vars(program = "executor" /\ Thread(s))
    /\ WF_poolVars(program = "pool" /\ Pool!Joining)
    /\ \A w \in Pool!Workers : WF_poolVars(program = "pool" /\ Pool!Worker(w))
    /\ \A i \in Pipes!Stages : WF_pipelineVars(program = "pipeline" /\ Pipes!Stage(i))
    /\ WF_powVars(program = "pow" /\ (Pow!Receive \/ Pow!Leave))
    /\ \A t \in Pow!Finders : WF_powVars(program = "pow" /\ Pow!Find(t))

ProgramsSpec == ProgramsInit /\ [][ProgramsNext]_allVars /\ ProgramsFairness

-----------------------------------------------------------------------------
(* The properties of the instances, under their names *)

LockDiscipline == Pool!LockDiscipline

ExactlyOnce == Pool!ExactlyOnce

DropCompletesJobs == Pool!DropCompletesJobs

DropReturns == Pool!DropReturns

JobsRun == Pool!JobsRun

PowSound == Pow!PowSound

PointsToSelf == Pins!PointsToSelf

ListIsStack == List!ListIsStack

PipelineIsFifo == Pipes!PipelineIsFifo

PipelineDrains == Pipes!PipelineDrains

PowReports == Pow!PowReports
=============================================================================
