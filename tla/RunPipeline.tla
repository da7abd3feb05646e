---------------------------- MODULE RunPipeline ----------------------------
(***************************************************************************)
(* The threads that take the runs of a procedure to the DAQ system.        *)
(*                                                                         *)
(* full_daq.py starts a thread that writes the patch of every run          *)
(* (gen_configurations.pipelined_generate_patches), a thread that hands    *)
(* the patches to a process pool which writes the full configurations      *)
(* (pipelined_generate_full_run_config), and the acquisition thread        *)
(* (acquire_data.pipelined_acquire_data).  acquire-data reads the patches  *)
(* from disk in its main thread instead (acquire_data.pipelined_main).     *)
(* The threads talk through queues, and an event says that a queue's       *)
(* producer is done.  The progress queues carry nothing else than counts   *)
(* for progress bars and are left out.                                     *)
(*                                                                         *)
(* A patch is the difference of its run's configuration to that of the run *)
(* before (generate_configurations with diff=True), so a run is measured   *)
(* as intended only in the state its predecessors left.  It stays as it    *)
(* was yielded: this is so when no run brings a new dict, see              *)
(* YieldedAsWritten of ConfigGeneration.                                   *)
(***************************************************************************)
EXTENDS Integers, Sequences, FiniteSets

CONSTANTS
    RunCount,     \* number of runs
    Params,       \* parameters the procedure scans
    Values,       \* what they are set to
    InitConfig,   \* the configuration the session is initialised with
    RunConfig,    \* the configuration each run is to be measured with
    Workers,      \* processes of the pool (--full_conf_generators)
    Programs,     \* the programs considered
    Kept,         \* runs whose raw file --keep finds in the directory
    NoConfig

Runs == 0 .. RunCount - 1
Config == [Params -> Values]

ASSUME RunCountAssumption == RunCount \in Nat \ {0}
ASSUME ConfigAssumption == /\ InitConfig \in Config
                           /\ RunConfig \in [Runs -> Config]
                           /\ NoConfig \notin Config
ASSUME WorkersAssumption == IsFiniteSet(Workers) /\ Workers # {}
ASSUME ProgramAssumption == Programs \subseteq {"datenraffinerie", "acquire-data"}
ASSUME KeptAssumption == Kept \subseteq Runs

VARIABLES
    program,             \* which program runs
    \* the patches
    next_patch,          \* first run whose patch is not yet passed on
    patch_queue,         \* patch_gen_out_full_gen_in
    patch_gen_done,
    \* the full configurations
    gen_pc,
    listed,              \* what the pool has drawn from the generator
    current_config,      \* the one dictionary the generator updates
    chunks,              \* tasks of the pool no worker has taken
    worker,              \* what each worker has left of its task
    full_config,         \* the full configuration files
    run_queue,           \* full_gen_out_daq_in
    full_conf_gen_done,
    \* the acquisition
    daq_pc,
    run,                 \* the run in the acquisition's hands
    device,              \* configuration of the session at the coordinator
    raw_data,            \* raw files: the configuration they were taken with
    acquired_data,       \* the queue the acquired runs are put in
    daq_done,
    stop

patchVars == <<next_patch, patch_queue, patch_gen_done>>
genVars   == <<gen_pc, listed, current_config, chunks, worker, full_config>>
queueVars == <<run_queue, full_conf_gen_done>>
daqVars   == <<daq_pc, run, device, raw_data, acquired_data, daq_done>>
vars == <<patchVars, genVars, queueVars, daqVars, stop, program>>

-----------------------------------------------------------------------------
FromDisk == program = "acquire-data"

Before(r) == IF r = 0 THEN InitConfig ELSE RunConfig[r - 1]
Patch(r) == {p \in Params : RunConfig[r][p] # Before(r)[p]}

\* Overlay run r's patch on configuration c.
Update(c, r) == [p \in Params |-> IF p \in Patch(r) THEN RunConfig[r][p]
                                  ELSE c[p]]

Init ==
    /\ program \in Programs
    /\ next_patch = 0
    /\ patch_queue = <<>>
    /\ patch_gen_done = FALSE
    /\ gen_pc = IF FromDisk THEN "none" ELSE "check"
    /\ listed = <<>>
    /\ current_config = InitConfig
    /\ chunks = <<>>
    /\ worker = [w \in Workers |-> <<>>]
    /\ full_config = [r \in Runs |-> NoConfig]
    /\ run_queue = <<>>
    /\ full_conf_gen_done = FALSE
    /\ daq_pc = "connect"
    /\ run = 0
    /\ device = InitConfig
    /\ raw_data = [r \in Runs |-> IF r \in Kept THEN RunConfig[r] ELSE NoConfig]
    /\ acquired_data = <<>>
    /\ daq_done = FALSE
    /\ stop = FALSE

-----------------------------------------------------------------------------
(* pipelined_generate_patches                                              *)

PutPatch ==
    /\ ~FromDisk
    /\ next_patch < RunCount
    /\ patch_queue' = Append(patch_queue, next_patch)
    /\ next_patch' = next_patch + 1
    /\ UNCHANGED <<patch_gen_done, genVars, queueVars, daqVars, stop, program>>

PatchesDone ==
    /\ ~FromDisk
    /\ next_patch = RunCount
    /\ ~patch_gen_done
    /\ patch_gen_done' = TRUE
    /\ UNCHANGED <<next_patch, patch_queue, genVars, queueVars, daqVars,
                   stop, program>>

-----------------------------------------------------------------------------
(* pipelined_generate_full_run_config: Pool.starmap draws the whole list   *)
(* from full_config_param_generator before the first task is given out,    *)
(* and cuts it in chunks of len / (4 * processes) items, rounded up.       *)

ChunkSize(n) == (n + 4 * Cardinality(Workers) - 1) \div (4 * Cardinality(Workers))
ChunksOf(s) ==
    LET size == ChunkSize(Len(s))
        count == IF s = <<>> THEN 0 ELSE (Len(s) + size - 1) \div size
    IN [i \in 1..count |->
          SubSeq(s, (i - 1) * size + 1,
                 IF i * size < Len(s) THEN i * size ELSE Len(s))]

GenCheck ==
    /\ gen_pc = "check"
    /\ IF ~patch_gen_done \/ patch_queue # <<>>
       THEN gen_pc' = "get" /\ UNCHANGED chunks
       ELSE gen_pc' = "pool" /\ chunks' = ChunksOf(listed)
    /\ UNCHANGED <<patchVars, listed, current_config, worker, full_config,
                   queueVars, daqVars, stop, program>>

\* get() waits for an item.
GenGet ==
    /\ gen_pc = "get"
    /\ patch_queue # <<>>
    /\ listed' = Append(listed, Head(patch_queue))
    /\ current_config' = Update(current_config, Head(patch_queue))
    /\ patch_queue' = Tail(patch_queue)
    /\ gen_pc' = "check"
    /\ UNCHANGED <<next_patch, patch_gen_done, chunks, worker, full_config,
                   queueVars, daqVars, stop, program>>

TakeChunk(w) ==
    /\ gen_pc = "pool"
    /\ worker[w] = <<>>
    /\ chunks # <<>>
    /\ worker' = [worker EXCEPT ![w] = Head(chunks)]
    /\ chunks' = Tail(chunks)
    /\ UNCHANGED <<patchVars, gen_pc, listed, current_config, full_config,
                   queueVars, daqVars, stop, program>>

\* Mutant: the item is put twice.
PutConfigTwice(w) ==
    /\ worker[w] # <<>>
    /\ LET r == Head(worker[w]) IN
         /\ full_config' = [full_config EXCEPT ![r] = current_config]
         /\ run_queue' = run_queue \o <<r, r>>
    /\ worker' = [worker EXCEPT ![w] = Tail(worker[w])]
    /\ UNCHANGED <<patchVars, gen_pc, listed, current_config, chunks,
                   full_conf_gen_done, daqVars, stop, program>>

\* write_out_full_config.  Every item of the list refers to the dictionary
\* the generator has by then updated with the last patch.
WriteOutFullConfig(w) ==
    /\ worker[w] # <<>>
    /\ LET r == Head(worker[w]) IN
         /\ full_config' = [full_config EXCEPT ![r] = current_config]
         /\ run_queue' = Append(run_queue, r)
    /\ worker' = [worker EXCEPT ![w] = Tail(worker[w])]
    /\ UNCHANGED <<patchVars, gen_pc, listed, current_config, chunks,
                   full_conf_gen_done, daqVars, stop, program>>

\* Mutant: the pool is not waited for.
PoolDoneEarly ==
    /\ gen_pc = "pool"
    /\ chunks = <<>>
    /\ gen_pc' = "done"
    /\ full_conf_gen_done' = TRUE
    /\ UNCHANGED <<patchVars, listed, current_config, chunks, worker,
                   full_config, run_queue, daqVars, stop, program>>

PoolDone ==
    /\ gen_pc = "pool"
    /\ chunks = <<>>
    /\ \A w \in Workers : worker[w] = <<>>
    /\ gen_pc' = "done"
    /\ full_conf_gen_done' = TRUE
    /\ UNCHANGED <<patchVars, listed, current_config, chunks, worker,
                   full_config, run_queue, daqVars, stop, program>>

-----------------------------------------------------------------------------
(* pipelined_main of acquire-data: one patch file per turn of the loop     *)
(* that ends with the acquisition or a KeyboardInterrupt.                  *)

Reading == FromDisk /\ ~daq_done /\ ~stop

ReadPatch ==
    /\ Reading
    /\ next_patch < RunCount
    /\ run_queue' = Append(run_queue, next_patch)
    /\ next_patch' = next_patch + 1
    /\ UNCHANGED <<patch_queue, patch_gen_done, genVars, full_conf_gen_done,
                   daqVars, stop, program>>

AllPatchesRead ==
    /\ Reading
    /\ next_patch = RunCount
    /\ ~full_conf_gen_done
    /\ full_conf_gen_done' = TRUE
    /\ UNCHANGED <<patchVars, genVars, run_queue, daqVars, stop, program>>

KeyboardInterrupt ==
    /\ Reading
    /\ stop' = TRUE
    /\ UNCHANGED <<patchVars, genVars, queueVars, daqVars, program>>

-----------------------------------------------------------------------------
(* pipelined_acquire_data                                                  *)

\* DAQCoordClient(...) and initialize; what either raises ends the thread.
Connect ==
    /\ daq_pc = "connect"
    /\ daq_pc' \in {"check", "dead"}
    /\ UNCHANGED <<patchVars, genVars, queueVars, run, device, raw_data,
                   acquired_data, daq_done, stop, program>>

\* Mutant: the queue is not looked at.
DaqCheckEvent ==
    /\ daq_pc = "check"
    /\ IF ~full_conf_gen_done /\ ~stop
       THEN daq_pc' = "get" /\ UNCHANGED daq_done
       ELSE daq_pc' = "done" /\ daq_done' = TRUE
    /\ UNCHANGED <<patchVars, genVars, queueVars, run, device, raw_data,
                   acquired_data, stop, program>>

DaqCheck ==
    /\ daq_pc = "check"
    /\ IF (~full_conf_gen_done \/ run_queue # <<>>) /\ ~stop
       THEN daq_pc' = "get" /\ UNCHANGED daq_done
       ELSE daq_pc' = "done" /\ daq_done' = TRUE
    /\ UNCHANGED <<patchVars, genVars, queueVars, run, device, raw_data,
                   acquired_data, stop, program>>

\* get() waits for an item.
DaqGet ==
    /\ daq_pc = "get"
    /\ run_queue # <<>>
    /\ run' = Head(run_queue)
    /\ run_queue' = Tail(run_queue)
    /\ daq_pc' = "measure"
    /\ UNCHANGED <<patchVars, genVars, full_conf_gen_done, device, raw_data,
                   acquired_data, daq_done, stop, program>>

\* Mutant: the patch does not reach the target.
MeasureUnconfigured ==
    /\ daq_pc = "measure"
    /\ run \notin Kept
    /\ raw_data' = [raw_data EXCEPT ![run] = device]
    /\ acquired_data' = Append(acquired_data, run)
    /\ daq_pc' = "check"
    /\ UNCHANGED <<patchVars, genVars, queueVars, run, device, daq_done,
                   stop, program>>

Measure ==
    /\ daq_pc = "measure"
    /\ run \notin Kept
    /\ device' = Update(device, run)
    /\ raw_data' = [raw_data EXCEPT ![run] = device']
    /\ acquired_data' = Append(acquired_data, run)
    /\ daq_pc' = "check"
    /\ UNCHANGED <<patchVars, genVars, queueVars, run, daq_done, stop,
                   program>>

\* The coordinator answers the measure or, with the data written, the full
\* readback with an error: the acquisition gives up.
MeasureFails ==
    /\ daq_pc = "measure"
    /\ run \notin Kept
    /\ device' \in {device, Update(device, run)}
    /\ raw_data' \in {raw_data,
                      [raw_data EXCEPT ![run] = Update(device, run)]}
    /\ raw_data' # raw_data => device' = Update(device, run)
    /\ daq_pc' = "failed"
    /\ daq_done' = TRUE
    /\ UNCHANGED <<patchVars, genVars, queueVars, run, acquired_data, stop,
                   program>>

\* --keep and the raw file is there: nothing is sent to the coordinator.
Skip ==
    /\ daq_pc = "measure"
    /\ run \in Kept
    /\ acquired_data' = Append(acquired_data, run)
    /\ daq_pc' = "check"
    /\ UNCHANGED <<patchVars, genVars, queueVars, run, device, raw_data,
                   daq_done, stop, program>>

-----------------------------------------------------------------------------
PatchThread == PutPatch \/ PatchesDone
GenThread == GenCheck \/ GenGet \/ PoolDone
Worker(w) == TakeChunk(w) \/ WriteOutFullConfig(w)
MainThread == ReadPatch \/ AllPatchesRead
DaqThread == Connect \/ DaqCheck \/ DaqGet \/ Measure \/ MeasureFails \/ Skip

Next ==
    \/ PatchThread
    \/ GenThread
    \/ \E w \in Workers : Worker(w)
    \/ MainThread
    \/ KeyboardInterrupt
    \/ DaqThread

Spec == Init /\ [][Next]_vars

\* Every thread and process is scheduled, and the coordinator answers.
Fairness ==
    /\ WF_vars(PatchThread)
    /\ WF_vars(GenThread)
    /\ \A w \in Workers : WF_vars(Worker(w))
    /\ WF_vars(MainThread)
    /\ WF_vars(DaqThread)
FairSpec == Spec /\ Fairness

-----------------------------------------------------------------------------
(***************************************************************************)
(* Properties.                                                             *)
(***************************************************************************)
\* Every variable keeps the type the code gives it.
TypeOK ==
    /\ program \in Programs
    /\ next_patch \in 0..RunCount
    /\ patch_queue \in Seq(Runs)
    /\ patch_gen_done \in BOOLEAN
    /\ gen_pc \in {"none", "check", "get", "pool", "done"}
    /\ listed \in Seq(Runs)
    /\ current_config \in Config
    /\ chunks \in Seq(Seq(Runs))
    /\ worker \in [Workers -> Seq(Runs)]
    /\ full_config \in [Runs -> Config \cup {NoConfig}]
    /\ run_queue \in Seq(Runs)
    /\ full_conf_gen_done \in BOOLEAN
    /\ daq_pc \in {"connect", "check", "get", "measure", "done", "failed",
                   "dead"}
    /\ run \in Runs
    /\ device \in Config
    /\ raw_data \in [Runs -> Config \cup {NoConfig}]
    /\ acquired_data \in Seq(Runs)
    /\ daq_done \in BOOLEAN
    /\ stop \in BOOLEAN

\* As long as the runs come in their order and none is skipped, each is
\* measured with its configuration, although only differences are sent.
InOrder(n) == \A i \in 1..n : /\ acquired_data[i] = i - 1
                              /\ i - 1 \notin Kept
MeasuredAsConfiguredInOrder ==
    \A n \in 1..Len(acquired_data) :
        InOrder(n) => raw_data[n - 1] = RunConfig[n - 1]

\* Each run is passed on at most once, and only with the files the
\* postprocessing reads: its raw data and, unless they are the work of an
\* earlier program, its full configuration.
AcquiredOnceWithFiles ==
    /\ \A i, j \in 1..Len(acquired_data) :
          acquired_data[i] = acquired_data[j] => i = j
    /\ \A i \in 1..Len(acquired_data) :
          /\ raw_data[acquired_data[i]] # NoConfig
          /\ FromDisk \/ full_config[acquired_data[i]] # NoConfig

\* An acquisition that ends by itself has acquired every run.
NoRunIsSkipped ==
    daq_pc = "done" /\ ~stop => Len(acquired_data) = RunCount

\* Once the pool has finished, or the patch files are read, every run is
\* acquired, unless the acquisition failed or was stopped.
ConfiguredRunsAreAcquired ==
    full_conf_gen_done ~>
        \/ Len(acquired_data) = RunCount
        \/ daq_pc \in {"dead", "failed"}
        \/ stop
=============================================================================
