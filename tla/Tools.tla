------------------------------- MODULE Tools -------------------------------
(***************************************************************************)
(* The compiled tools one after the other on the same files: fracker       *)
(* writes an hdf file for a run, turbo-pump merges what is there.          *)
(***************************************************************************)
EXTENDS Fracker

CONSTANTS Merges, MaxMerges

\* A merge names its inputs, its output and its block size.
ASSUME MergesAssumption ==
    /\ Merges # {}
    /\ \A m \in Merges : m.i \in Seq(Range(m.i)) /\ m.o \in Paths /\ m.b \in Nat

VARIABLES tp_pc, merge, next, merges

TP == INSTANCE TurboPump

toolVars == <<vars, tp_pc, merge, next, merges>>

ToolsInit == Init /\ TP!TpInit

FrackerStep == /\ tp_pc \in TP!TpEnded
               /\ Next
               /\ UNCHANGED <<tp_pc, merge, next, merges>>
PumpStep == /\ pc \in Ended
            /\ TP!TpNext
            /\ UNCHANGED <<pc, job, locals, loop, jobs>>

ToolsNext == FrackerStep \/ PumpStep

ToolsSpec == ToolsInit /\ [][ToolsNext]_toolVars
-----------------------------------------------------------------------------
(***************************************************************************)
(* A merged file, of what the fracker and turbo-pump left there: the rows  *)
(* of the inputs in order, and all of them when the program says so.       *)
(***************************************************************************)
MergedFile == [][TP!MergedInOrder' /\ TP!CompleteOnSuccess]_(TP!tp_vars)
=============================================================================
