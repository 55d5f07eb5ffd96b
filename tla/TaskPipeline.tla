---------------------------- MODULE TaskPipeline ----------------------------
(***************************************************************************)
(* The two queues as ParallelTransactionExecutor uses them: a task of the  *)
(* execute queue hands a task of its own to the build queue as soon as it  *)
(* is started, and goes on when that one has been run.                     *)
(***************************************************************************)
EXTENDS ParallelQueue

VARIABLES buildQueue, building,  \* SerialQueue
          built                  \* started tasks that are past their build

pipelineVars == <<vars, buildQueue, building, built>>

Build == INSTANCE SerialQueue WITH queue <- buildQueue, running <- building

PipelineInit == Init /\ Build!Init /\ built = {}

(* execute() for the tasks of ts in one stretch.                           *)
ExecuteAll(ts) ==
  /\ RunTasks(ts)
  /\ Build!RunTasks(StartedNow(ts))
  /\ UNCHANGED built

BuildEnds(t) ==
  /\ Build!Finish(t)
  /\ built' = built \cup {t}
  /\ UNCHANGED vars

(* The rest of a task has settled; the next one, if any, runs up to its    *)
(* push onto the build queue within the callback.                          *)
Ends(t) ==
  /\ t \in built
  /\ built' = built \ {t}
  /\ Finish(t)
  /\ Build!RunTasks(IF queue = <<>> THEN <<>> ELSE <<Head(queue)>>)

PipelineNext == \/ \E ts \in Blocks : ExecuteAll(ts)
                \/ \E t \in Tasks : BuildEnds(t) \/ Ends(t)

PipelineSpec ==
  /\ PipelineInit /\ [][PipelineNext]_pipelineVars
  /\ \A t \in Tasks : WF_pipelineVars(BuildEnds(t)) /\ WF_pipelineVars(Ends(t))

-----------------------------------------------------------------------------
(* The build queue runs exactly its head, whatever order the execute queue *)
(* starts its tasks in: the shift of a finally callback (queue.ts:12)      *)
(* always removes its own task and never somebody else's.                  *)
OnlyHeadBuilds == Build!TypeOK /\ Build!OnlyHeadRuns

(* The build queue implements the abstract pool with a single slot.        *)
BuildPoolSpec == Build!PoolSpec

(* Every task handed over is started, gets through the build queue and     *)
(* ends: no slot and no turn is lost on the way.                           *)
HandedOverEnds ==
  \A t \in Tasks : t \in running \cup ToSet(queue) ~> t \notin running \cup ToSet(queue)
=============================================================================
