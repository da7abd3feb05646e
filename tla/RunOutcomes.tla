---------------------------- MODULE RunOutcomes ----------------------------
(***************************************************************************)
(* What full_daq.py promises of the runs of a procedure, without queues,   *)
(* events, threads and processes: a run is measured once, and its raw file *)
(* is either made into an hdf file of the same data and stays, or is given *)
(* up, though a part of an hdf file may be left; the program says it is    *)
(* over when that has been decided for every run it has measured, which    *)
(* are all of them unless the acquisition failed.                          *)
(***************************************************************************)
EXTENDS Naturals

CONSTANTS
    Runs,        \* the runs of the procedure, numbered from 0
    Config,      \* what a run can be measured with
    RunConfig,   \* what each is to be measured with
    InOrder,     \* whether the runs come to the acquisition in their order
    NoFile,
    Partial      \* what an attempt that failed left of an hdf file

VARIABLES
    measured,    \* the runs that were measured
    raw,         \* the raw files of these
    hdf,         \* the hdf files
    acquisition, \* "going on", "complete" or "failed"
    over         \* whether main stops waiting

vars == <<measured, raw, hdf, acquisition, over>>

Init ==
    /\ measured = {}
    /\ raw = [r \in Runs |-> NoFile]
    /\ hdf = [r \in Runs |-> NoFile]
    /\ acquisition = "going on"
    /\ over = FALSE

Stored(r) == hdf[r] \notin {NoFile, Partial}
Pending == {r \in measured : raw[r] # NoFile /\ ~Stored(r)}

\* Only the difference to the run before is sent to the hardware, so a run
\* has its configuration if the runs before it have been measured.
Measure(r) ==
    /\ acquisition = "going on"
    /\ r \notin measured
    /\ measured' = measured \cup {r}
    /\ \E c \in Config : raw' = [raw EXCEPT ![r] = c]
    /\ InOrder => /\ \A q \in Runs : q < r => q \in measured
                  /\ raw'[r] = RunConfig[r]
    /\ UNCHANGED <<hdf, acquisition, over>>

AcquisitionEnds ==
    /\ acquisition = "going on"
    /\ \/ acquisition' = "complete" /\ measured = Runs
       \/ acquisition' = "failed"
    /\ UNCHANGED <<measured, raw, hdf, over>>

\* The hdf file has the data of the raw file and a configuration.
Store(r) ==
    /\ r \in Pending
    /\ hdf[r] = NoFile
    /\ \E c \in Config : hdf' = [hdf EXCEPT ![r] = <<raw[r], c>>]
    /\ UNCHANGED <<measured, raw, acquisition, over>>

\* A run whose hdf file was begun and not finished can only be given up.
LeavePart(r) ==
    /\ r \in Pending
    /\ hdf' = [hdf EXCEPT ![r] = Partial]
    /\ UNCHANGED <<measured, raw, acquisition, over>>

GiveUp(rs) ==
    /\ rs \subseteq Pending
    /\ raw' = [r \in Runs |-> IF r \in rs THEN NoFile ELSE raw[r]]
    /\ UNCHANGED <<measured, hdf, acquisition, over>>

End ==
    /\ acquisition # "going on"
    /\ Pending = {}
    /\ over' = TRUE
    /\ UNCHANGED <<measured, raw, hdf, acquisition>>

Next ==
    \/ \E r \in Runs : Measure(r) \/ Store(r) \/ LeavePart(r)
    \/ \E rs \in SUBSET Runs : GiveUp(rs)
    \/ AcquisitionEnds
    \/ End

Spec == Init /\ [][Next]_vars

\* A whole hdf file has the data that is in the raw file, that of its run's
\* configuration where the runs come in their order.  In the end a run has its
\* raw file if, and only if, its hdf file is whole, and a complete acquisition
\* has left no run out.
Decided ==
    /\ \A r \in Runs : Stored(r) =>
          /\ hdf[r][1] = raw[r]
          /\ InOrder => raw[r] = RunConfig[r]
    /\ over => /\ \A r \in Runs : Stored(r) <=> raw[r] # NoFile
               /\ acquisition = "complete" => measured = Runs
=============================================================================
