------------------------------ MODULE Pipeline ------------------------------
(***************************************************************************)
(* design-pattern/src/pipeline.rs: three stages, each a thread that takes  *)
(* tasks from one channel and passes them on to the next.  Nobody joins    *)
(* the threads: the test drops its sender, sleeps for a second and ends,   *)
(* and with it the process.  Channel i leads to stage i.                   *)
(***************************************************************************)
EXTENDS Naturals, Sequences

CONSTANT MaxTasks  \* bound: tasks sent, 8 in the code

Stages == 1..3

EmptyHand == 0

VARIABLES
    test,   \* "sending", "sleeping" when tx_a is dropped, "ended"
    sent,   \* how many tasks were sent
    chan,   \* the three channels
    hand,   \* the task a stage works on
    stage,  \* "running", "ended" when it has dropped its sender and receiver
    result  \* history: the tasks stage C has finished

pipelineVars == <<test, sent, chan, hand, stage, result>>

Init == /\ test = "sending"
        /\ sent = 0
        /\ chan = [i \in Stages |-> <<>>]
        /\ hand = [i \in Stages |-> EmptyHand]
        /\ stage = [i \in Stages |-> "running"]
        /\ result = <<>>

Send == /\ test = "sending"
        /\ sent < MaxTasks
        /\ sent' = sent + 1
        /\ chan' = [chan EXCEPT ![1] = Append(@, sent + 1)]
        /\ UNCHANGED <<test, hand, stage, result>>

DropTx == /\ test = "sending"
          /\ test' = "sleeping"
          /\ UNCHANGED <<sent, chan, hand, stage, result>>

\* The second is over, wherever the stages are
End == /\ test = "sleeping"
       /\ test' = "ended"
       /\ UNCHANGED <<sent, chan, hand, stage, result>>

-----------------------------------------------------------------------------
Runs(i) == test # "ended" /\ stage[i] = "running" /\ hand[i] = EmptyHand

Take(i) == /\ Runs(i)
           /\ chan[i] # <<>>
           /\ hand' = [hand EXCEPT ![i] = Head(chan[i])]
           /\ chan' = [chan EXCEPT ![i] = Tail(@)]
           /\ UNCHANGED <<test, sent, stage, result>>

\* Mutant: stage B takes its tasks and leaves their sending to threads
PassAhead(i) ==
    /\ test # "ended"
    /\ hand[i] # EmptyHand
    /\ IF i = 3
       THEN result' = Append(result, hand[i]) /\ chan' = chan
       ELSE chan' = [chan EXCEPT ![i + 1] = <<hand[i]>> \o @] /\ result' = result
    /\ hand' = [hand EXCEPT ![i] = EmptyHand]
    /\ UNCHANGED <<test, sent, stage>>

\* The next stage has its receiver for as long as this one has its sender, so
\* send does not fail
Pass(i) ==
    /\ test # "ended"
    /\ hand[i] # EmptyHand
    /\ IF i = 3
       THEN result' = Append(result, hand[i]) /\ chan' = chan
       ELSE chan' = [chan EXCEPT ![i + 1] = Append(@, hand[i])] /\ result' = result
    /\ hand' = [hand EXCEPT ![i] = EmptyHand]
    /\ UNCHANGED <<test, sent, stage>>

\* The sender of channel i is dropped
Closed(i) == IF i = 1 THEN test # "sending" ELSE stage[i - 1] = "ended"

\* Mutant: a stage ends once the one before it has, with tasks in its channel
StageEndsEarly(i) ==
    /\ Runs(i)
    /\ Closed(i)
    /\ stage' = [stage EXCEPT ![i] = "ended"]
    /\ UNCHANGED <<test, sent, chan, hand, result>>

\* for task in input ends: the channel is empty and its sender dropped
StageEnds(i) ==
    /\ Runs(i)
    /\ chan[i] = <<>>
    /\ Closed(i)
    /\ stage' = [stage EXCEPT ![i] = "ended"]
    /\ UNCHANGED <<test, sent, chan, hand, result>>

Stage(i) == Take(i) \/ Pass(i) \/ StageEnds(i)

Test == Send \/ DropTx \/ End

Next == Test \/ \E i \in Stages : Stage(i)

\* The threads are scheduled.  Nothing says how long the test sleeps.
Fairness == \A i \in Stages : WF_pipelineVars(Stage(i))

-----------------------------------------------------------------------------
(* Properties *)

InHand(i) == IF hand[i] = EmptyHand THEN <<>> ELSE <<hand[i]>>

\* The tasks in the pipeline, the one that comes out first in front
Inside == InHand(3) \o chan[3] \o InHand(2) \o chan[2] \o InHand(1) \o chan[1]

F == INSTANCE Fifo WITH inside <- Inside, passed <- result

\* The three threads with their channels are a FIFO: no task overtakes another,
\* is lost between two stages or is worked on twice.
PipelineIsFifo == F!Spec

\* Once the sender is dropped the stages end one after the other, and every
\* task has passed through all three; unless the test ends before, which joins
\* no thread.
PipelineDrains ==
    test = "sleeping" ~>
        \/ test = "ended"
        \/ Len(result) = sent /\ \A i \in Stages : stage[i] = "ended"
=============================================================================
