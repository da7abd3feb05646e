------------------------------ MODULE FullDaq ------------------------------
(***************************************************************************)
(* datenraffinerie/full_daq.py: the whole program.  main starts the three  *)
(* threads of RunPipeline and the two of PostProcessing, gives each its    *)
(* queues and events, and waits for fracking_done.  The queue the          *)
(* acquisition fills is the one the unpack thread reads, its daq_done is   *)
(* the unpack thread's data_taking_done, and the raw and configuration     *)
(* files are the same files.                                               *)
(*                                                                         *)
(* The unpack thread empties the queue and removes files, so the program's *)
(* own variables forget what has been acquired: handed and taken remember  *)
(* it.                                                                     *)
(***************************************************************************)
EXTENDS Integers, Sequences, FiniteSets

CONSTANTS RunCount, Params, Values, InitConfig, RunConfig, Workers, NoConfig,
          Partial, max_parallel_unpackers, max_parallel_frackers, keep_root, Installed

\* What the two halves assume.
Config == [Params -> Values]
ASSUME RunCountAssumption == RunCount \in Nat \ {0}
ASSUME ConfigAssumption == /\ InitConfig \in Config
                           /\ RunConfig \in [0 .. RunCount - 1 -> Config]
                           /\ NoConfig \notin Config \cup (Config \X Config)
                           /\ Partial \notin Config \cup (Config \X Config)
                           /\ Partial # NoConfig
ASSUME WorkersAssumption == IsFiniteSet(Workers) /\ Workers # {}
ASSUME TasksAssumption == /\ max_parallel_unpackers \in Nat \ {0}
                          /\ max_parallel_frackers \in Nat \ {0}
ASSUME OptionAssumption == /\ keep_root \in BOOLEAN
                           /\ Installed \subseteq {"unpack", "fracker"}

VARIABLES next_patch, patch_queue, patch_gen_done, gen_pc, listed,
          current_config, chunks, worker, full_config, run_queue,
          full_conf_gen_done, daq_pc, run, device, raw_data, acquired_data,
          daq_done, stop,
          unpack_pc, unpacking, root_data, root_data_queue, unpacking_done,
          frack_pc, fracking, hdf, fracking_done,
          \* history
          handed,       \* every run put in acquired_data, in order
          taken         \* what was written to each run's raw file

Acquisition == INSTANCE RunPipeline
    WITH program <- "datenraffinerie", Programs <- {"datenraffinerie"},
         Kept <- {}

Processing == INSTANCE PostProcessing
    WITH program <- "datenraffinerie", Programs <- {"datenraffinerie"},
         RawFiles <- {}, ConfigFiles <- {},
         Content <- Config,
         unread <- <<>>,
         raw_data_queue <- acquired_data,
         data_taking_done <- daq_done

Runs == Acquisition!Runs

acquisitionVars == <<next_patch, patch_queue, patch_gen_done, gen_pc, listed,
                     current_config, chunks, worker, run_queue,
                     full_conf_gen_done, daq_pc, run, device, stop>>
processingVars == <<unpack_pc, unpacking, root_data, root_data_queue,
                    unpacking_done, frack_pc, fracking, hdf, fracking_done>>
sharedVars == <<full_config, raw_data, acquired_data, daq_done>>
historyVars == <<handed, taken>>
vars == <<acquisitionVars, processingVars, sharedVars, historyVars>>

Init ==
    /\ Acquisition!Init /\ Processing!StagesInit
    /\ handed = <<>>
    /\ taken = [r \in Runs |-> NoConfig]

\* Only the acquisition puts a run in its queue or writes a raw file.
Remember ==
    /\ handed' = IF acquired_data' = acquired_data THEN handed
                 ELSE Append(handed, run)
    /\ taken' = IF raw_data' = raw_data THEN taken
                ELSE [taken EXCEPT ![run] = raw_data'[run]]

Acquire == Acquisition!Next /\ Remember /\ UNCHANGED processingVars
Process == Processing!PostNext /\ UNCHANGED <<acquisitionVars, historyVars>>

Next == Acquire \/ Process

Spec == Init /\ [][Next]_vars

\* The threads of both halves are scheduled.
Acquires(A) == A /\ Remember /\ UNCHANGED processingVars
Processes(A) == A /\ UNCHANGED <<acquisitionVars, historyVars>>
FairSpec ==
    /\ Spec
    /\ WF_vars(Acquires(Acquisition!PatchThread))
    /\ WF_vars(Acquires(Acquisition!GenThread))
    /\ \A w \in Workers : WF_vars(Acquires(Acquisition!Worker(w)))
    /\ WF_vars(Acquires(Acquisition!DaqThread))
    /\ WF_vars(Processes(Processing!UnpackThread))
    /\ WF_vars(Processes(Processing!FrackThread))
    /\ \A i \in 1..max_parallel_unpackers :
          WF_vars(Processes(Processing!Unpacker(i)))
    /\ \A i \in 1..max_parallel_frackers :
          WF_vars(Processes(Processing!Fracker(i)))

-----------------------------------------------------------------------------
(***************************************************************************)
(* What each half makes of the program.  To the acquisition the queue and  *)
(* the raw files are those it has filled.  To the postprocessing a run's   *)
(* files exist from the moment the run is handed over.                     *)
(***************************************************************************)
AcquisitionView == INSTANCE RunPipeline
    WITH program <- "datenraffinerie", Programs <- {"datenraffinerie"},
         Kept <- {},
         acquired_data <- handed,
         raw_data <- taken

HandedRuns == {handed[i] : i \in DOMAIN handed}
OfHanded(files) == [r \in Runs |-> IF r \in HandedRuns THEN files[r] ELSE NoConfig]

ProcessingView == INSTANCE PostProcessing
    WITH program <- "datenraffinerie", Programs <- {"datenraffinerie"},
         RawFiles <- {}, ConfigFiles <- {},
         Content <- Config,
         unread <- <<>>,
         raw_data_queue <- acquired_data,
         data_taking_done <- daq_done,
         raw_data <- OfHanded(raw_data),
         full_config <- OfHanded(full_config)

\* How far the acquisition is, and what becomes of the runs, seen from outside.
acquisition == CASE daq_pc = "done" -> "complete"
                 [] daq_pc \in {"failed", "dead"} -> "failed"
                 [] OTHER -> "going on"

Outcomes == INSTANCE RunOutcomes
    WITH NoFile <- NoConfig,
         InOrder <- Cardinality(Workers) = 1,
         measured <- HandedRuns,
         raw <- OfHanded(raw_data),
         over <- fracking_done

-----------------------------------------------------------------------------
(***************************************************************************)
(* Properties.                                                             *)
(***************************************************************************)
\* Every queue, file and list of processes of the two halves has its type,
\* and no stage runs more processes than it may.
TypeOK == Acquisition!TypeOK /\ Processing!TypeOK

\* The whole program implements the specification of either half: neither
\* the files and the queue they share nor the pace of one half let the other do
\* what it would not do alone.
HalvesImplemented == AcquisitionView!Spec /\ ProcessingView!Spec

\* The program does with the runs what RunOutcomes promises: a run is measured
\* once and its data stored once or given up, in the end every run is decided, and
\* with one process in the pool the data is that of its configuration.
RunsAreDecided == Outcomes!Spec

\* The whole hdf file of a run holds data taken with that run's configuration,
\* whichever thread is ahead.
DataOfItsRun ==
    \A r \in Runs : Processing!Whole(hdf[r]) => hdf[r][1] = RunConfig[r]

\* A run that is acquired is unpacked and fracked, or given up, whatever
\* becomes of the runs after it: also when the acquisition fails or hangs.
AcquiredRunsAreProcessed ==
    \A r \in Runs :
        (\E i \in DOMAIN acquired_data : acquired_data[i] = r)
            ~> (Processing!Whole(hdf[r]) \/ raw_data[r] = NoConfig)
=============================================================================
