----------------------------- MODULE GstMonitor -----------------------------
(***************************************************************************)
(* wfb/gst.py: a daemon thread that keeps a video pipeline running, found  *)
(* and killed by the name of its program.  Commands are started and not    *)
(* waited for, so a kill works some time after it was asked for.           *)
(***************************************************************************)
EXTENDS Integers

CONSTANTS MaxKills  \* BOUND: kill commands under way at the same time

VARIABLES m_pc,       \* of the thread
          pipelines,  \* pipelines that run
          kills,      \* kill commands that were started and have not worked yet
          finishing,  \* kill_monitor of after_execute was called
          late,       \* history: a pipeline was started after that
          unkilled    \* history: that call could not start its command

vars == <<m_pc, pipelines, kills, finishing, late, unkilled>>

Init == /\ m_pc = "kill" /\ pipelines = 0 /\ kills = 0
        /\ finishing = FALSE /\ late = FALSE /\ unkilled = FALSE

\* run_cmd(self.cmd)
StartPipeline == pipelines' = pipelines + 1 /\ late' = finishing

kill_monitor == kills < MaxKills /\ kills' = kills + 1

\* run: kill, start, then check twice a second.
Kill  == /\ m_pc = "kill" /\ m_pc' = "start"
         /\ kill_monitor
         /\ UNCHANGED <<pipelines, finishing, late, unkilled>>
Start == /\ m_pc = "start" /\ m_pc' = "check"
         /\ StartPipeline
         /\ UNCHANGED <<kills, finishing, unkilled>>

\* Popen raises in one of the two: they are outside the try, the thread is over.
StartupRaises == /\ m_pc \in {"kill", "start"} /\ m_pc' = "raised"
                 /\ UNCHANGED <<pipelines, kills, finishing, late, unkilled>>

\* Mutant: the pipeline is started anew in every turn.
Bug_Check == /\ m_pc = "check" /\ m_pc' = "restart"
             /\ UNCHANGED <<pipelines, kills, finishing, late, unkilled>>

Check == /\ m_pc = "check"
         /\ m_pc' = IF pipelines = 0 THEN "restart" ELSE "sleep"
         /\ UNCHANGED <<pipelines, kills, finishing, late, unkilled>>

Restart == /\ m_pc = "restart" /\ m_pc' = "sleep"
           /\ StartPipeline
           /\ UNCHANGED <<kills, finishing, unkilled>>

\* Mutant: an exception ends the thread.
Bug_Raises == /\ m_pc \in {"check", "restart"} /\ m_pc' = "dead"
              /\ UNCHANGED <<pipelines, kills, finishing, late, unkilled>>

\* check_output or Popen raises: the turn is given up, the loop goes on.
Raises == /\ m_pc \in {"check", "restart"} /\ m_pc' = "sleep"
          /\ UNCHANGED <<pipelines, kills, finishing, late, unkilled>>

Wake == /\ m_pc = "sleep" /\ m_pc' = "check"
        /\ UNCHANGED <<pipelines, kills, finishing, late, unkilled>>

\* A kill command works on all it finds then.
KillWorks == /\ kills > 0 /\ kills' = kills - 1 /\ pipelines' = 0
             /\ UNCHANGED <<m_pc, finishing, late, unkilled>>

PipelineDies == /\ pipelines > 0 /\ pipelines' = pipelines - 1
                /\ UNCHANGED <<m_pc, kills, finishing, late, unkilled>>

Next == \/ Kill \/ Start \/ StartupRaises
        \/ Check \/ Restart \/ Raises \/ Wake
        \/ KillWorks \/ PipelineDies

\* Mutant: the tool ends without a kill.
Bug_AfterExecute == /\ finishing' = TRUE
                    /\ UNCHANGED <<m_pc, pipelines, kills, late, unkilled>>

\* after_execute, in the main thread, where Popen may raise too: nothing is killed then.
after_execute == /\ \/ kill_monitor /\ UNCHANGED unkilled
                    \/ unkilled' = TRUE /\ UNCHANGED kills
                 /\ finishing' = TRUE
                 /\ UNCHANGED <<m_pc, pipelines, late>>

\* A daemon thread dies with the program.
ProgramEnds   == m_pc' = "dead" /\ UNCHANGED <<pipelines, kills, finishing, late, unkilled>>
ProgramStarts == /\ m_pc' = "kill" /\ finishing' = FALSE /\ late' = FALSE /\ unkilled' = FALSE
                 /\ UNCHANGED <<pipelines, kills>>
-----------------------------------------------------------------------------
\* Two pipelines never share the camera or the port for good: if a second one
\* runs beside one of an earlier start, a kill is under way that ends both.
OnePipeline == pipelines > 1 => kills > 0

\* A pipeline outlives the tool only if the thread started it after the last kill was
\* asked for, that kill has still to work, or it could not be started.
NoPipelineLeft == (m_pc = "dead" /\ kills = 0 /\ pipelines > 0) => late \/ unkilled

\* A pipeline that died or was killed returns as long as the tool runs, also after turns
\* of the loop that failed - unless the thread never came to its loop.
Returns == (pipelines = 0) ~> (pipelines > 0 \/ finishing \/ m_pc = "raised")
=============================================================================
