----------------------------- MODULE Supervisor -----------------------------
(***************************************************************************)
(* The broadcast tool with its monitor thread: the thread starts before    *)
(* the reactor does, and dies with the program after one last kill.        *)
(***************************************************************************)
EXTENDS Integers, Sequences

CONSTANTS Wlans, MaxStarts, MaxKills

VARIABLES pc, step, command, child, stale, wlan, todo, starts, quit_failed, escaped,
          m_pc, pipelines, kills, finishing, late, unkilled

Tool == INSTANCE WfbTool
Gst  == INSTANCE GstMonitor

ASSUME ConstantsOK == Tool!ToolAssumption /\ MaxKills \in Nat

tool_vars == <<pc, step, command, child, stale, wlan, todo, starts, quit_failed, escaped>>
gst_vars  == <<m_pc, pipelines, kills, finishing, late, unkilled>>
vars      == <<tool_vars, gst_vars>>

Init == Tool!Init /\ Gst!Init

ToolStep    == Tool!Next /\ UNCHANGED gst_vars
MonitorStep == Gst!Next /\ UNCHANGED tool_vars

\* after_execute asks for the kill; the interpreter ends later.
AfterExecute == /\ pc = "after" /\ ~finishing
                /\ Gst!after_execute
                /\ UNCHANGED tool_vars
Exit    == finishing /\ Tool!Exit /\ Gst!ProgramEnds
Restart == Tool!Restart /\ Gst!ProgramStarts

Next == ToolStep \/ MonitorStep \/ AfterExecute \/ Exit \/ Restart

\* The two threads run, and kill commands that were started work in the end.  A command in
\* the monitor's loop may fail, but not every time; its first two may fail, and that is the
\* end of it.  Nothing is assumed of children, pipelines and users.
Spec == /\ Init /\ [][Next]_vars
        /\ WF_vars(Tool!Main /\ UNCHANGED gst_vars)
        /\ WF_vars(AfterExecute) /\ WF_vars(Exit)
        /\ WF_vars(Gst!Kill /\ UNCHANGED tool_vars) /\ WF_vars(Gst!Start /\ UNCHANGED tool_vars)
        /\ WF_vars(Gst!Wake /\ UNCHANGED tool_vars)
        /\ SF_vars(Gst!Check /\ UNCHANGED tool_vars)
        /\ SF_vars(Gst!Restart /\ UNCHANGED tool_vars)
        /\ WF_vars(Gst!KillWorks /\ UNCHANGED tool_vars)
-----------------------------------------------------------------------------
NoOrphan       == Tool!NoOrphan
WlansBack      == Tool!WlansBack
ChildOnMonitor == Tool!ChildOnMonitor
Ends           == Tool!Ends
OnePipeline    == Gst!OnePipeline
NoPipelineLeft == Gst!NoPipelineLeft
Returns        == Gst!Returns
=============================================================================
