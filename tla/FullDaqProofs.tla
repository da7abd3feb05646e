--------------------------- MODULE FullDaqProofs ---------------------------
(***************************************************************************)
(* Proofs about FullDaq: for any number of runs, any configurations, pool  *)
(* and numbers of processes, the program implements both of its halves, so *)
(* that what RunPipelineProofs and PostProcessingProofs prove of them      *)
(* holds of it.                                                            *)
(***************************************************************************)
EXTENDS FullDaq, SequenceLemmas

\* The views of FullDaq, with what is proved about them.
Rec == INSTANCE RunPipelineProofs
    WITH program <- "datenraffinerie", Programs <- {"datenraffinerie"},
         Kept <- {},
         acquired_data <- handed,
         raw_data <- taken

Srv == INSTANCE PostProcessingProofs
    WITH program <- "datenraffinerie", Programs <- {"datenraffinerie"},
         RawFiles <- {}, ConfigFiles <- {},
         Content <- Config,
         unread <- <<>>,
         raw_data_queue <- acquired_data,
         data_taking_done <- daq_done,
         raw_data <- OfHanded(raw_data),
         full_config <- OfHanded(full_config)

-----------------------------------------------------------------------------
(* Names.                                                                  *)

\* Every half means the same by a run, a configuration and an overlay.
LEMMA SameNames ==
    /\ Runs = 0 .. RunCount - 1 /\ Acquisition!Runs = Runs /\ Rec!Runs = Runs
    /\ Processing!Runs = Runs /\ Srv!Runs = Runs
    /\ Acquisition!Config = Config /\ Rec!Config = Config
    /\ \A c, r : Rec!Update(c, r) = Acquisition!Update(c, r)
    /\ ~Acquisition!FromDisk /\ ~Rec!FromDisk
    /\ ~Processing!FromDisk /\ ~Srv!FromDisk
    /\ \A file : /\ Processing!Whole(file) <=> file \notin {NoConfig, Partial}
                 /\ Srv!Whole(file) <=> file \notin {NoConfig, Partial}
  <1>1. \A c, r : Rec!Update(c, r) = Acquisition!Update(c, r)
    BY DEF Rec!Update, Acquisition!Update, Rec!Patch, Acquisition!Patch,
           Rec!Before, Acquisition!Before
  <1>2. \A file : /\ Processing!Whole(file) <=> file \notin {NoConfig, Partial}
                  /\ Srv!Whole(file) <=> file \notin {NoConfig, Partial}
    BY DEF Processing!Whole, Srv!Whole
  <1>3. QED
    BY <1>1, <1>2 DEF Runs, Acquisition!Runs, Rec!Runs, Processing!Runs, Srv!Runs,
           Config, Acquisition!Config, Rec!Config, Acquisition!FromDisk,
           Rec!FromDisk, Processing!FromDisk, Srv!FromDisk

\* What the halves assume of their constants follows from what FullDaq does.
LEMMA RecAssumptions ==
    /\ Rec!RunCountAssumption /\ Rec!ConfigAssumption
    /\ Rec!WorkersAssumption /\ Rec!ProgramAssumption /\ Rec!KeptAssumption
  <1>1. Rec!RunCountAssumption
    BY RunCountAssumption DEF Rec!RunCountAssumption
  <1>2. Rec!WorkersAssumption
    BY WorkersAssumption, Zenon DEF Rec!WorkersAssumption, IsFiniteSet, Rec!IsFiniteSet
  <1>3. Rec!ConfigAssumption
    BY SameNames, ConfigAssumption DEF Rec!ConfigAssumption
  <1>4. Rec!ProgramAssumption /\ Rec!KeptAssumption
    BY DEF Rec!ProgramAssumption, Rec!KeptAssumption
  <1>5. QED
    BY <1>1, <1>2, <1>3, <1>4

\* So for the postprocessing.
LEMMA SrvAssumptions ==
    Srv!RunsAssumption /\ Srv!TasksAssumption /\ Srv!OptionAssumption
  <1>1. Srv!RunsAssumption /\ Srv!TasksAssumption
    BY RunCountAssumption, ConfigAssumption, TasksAssumption
       DEF Srv!RunsAssumption, Srv!TasksAssumption
  <1>2. Srv!OptionAssumption
    BY OptionAssumption DEF Srv!OptionAssumption
  <1>3. QED
    BY <1>1, <1>2

\* Every half cuts the list of the pool in the same chunks.
LEMMA SameChunks == \A s : Rec!ChunksOf(s) = Acquisition!ChunksOf(s)
  <1>1. \A n : Rec!ChunkSize(n) = Acquisition!ChunkSize(n)
    BY Zenon DEF Rec!ChunkSize, Acquisition!ChunkSize, Rec!Cardinality,
                 Acquisition!Cardinality
  <1>2. QED
    BY <1>1 DEF Rec!ChunksOf, Acquisition!ChunksOf

-----------------------------------------------------------------------------
(* The acquisition.                                                        *)

\* The steps of the acquisition that write a raw file or pass on a run.
Measures == Acquisition!Measure \/ Acquisition!MeasureFails \/ Acquisition!Skip

\* The others leave the files and the queue the halves share alone, ...
LEMMA QuietStep ==
    ASSUME Acquisition!Next, ~Measures
    PROVE  UNCHANGED <<raw_data, acquired_data>>
  BY DEF Acquisition!Next, Measures, Acquisition!PatchThread,
         Acquisition!PutPatch, Acquisition!PatchesDone, Acquisition!GenThread,
         Acquisition!GenCheck, Acquisition!GenGet, Acquisition!PoolDone,
         Acquisition!Worker, Acquisition!TakeChunk,
         Acquisition!WriteOutFullConfig, Acquisition!MainThread,
         Acquisition!ReadPatch, Acquisition!AllPatchesRead,
         Acquisition!KeyboardInterrupt, Acquisition!DaqThread,
         Acquisition!Connect, Acquisition!DaqCheck, Acquisition!DaqGet,
         Acquisition!daqVars

\* ... and are steps of the acquisition's own specification.
LEMMA QuietRecord ==
    ASSUME Acquisition!Next, ~Measures, UNCHANGED <<handed, taken>>
    PROVE  Rec!Next
  <1> USE DEF Acquisition!vars, Acquisition!patchVars, Acquisition!genVars,
              Acquisition!queueVars, Acquisition!daqVars,
              Rec!vars, Rec!patchVars, Rec!genVars, Rec!queueVars, Rec!daqVars
  <1>1. CASE Acquisition!PatchThread
    BY <1>1, SameNames DEF Acquisition!PatchThread, Acquisition!PutPatch,
         Acquisition!PatchesDone, Rec!Next, Rec!PatchThread, Rec!PutPatch,
         Rec!PatchesDone
  <1>2. CASE Acquisition!GenCheck
    BY <1>2, SameChunks DEF Acquisition!GenCheck, Rec!Next, Rec!GenThread,
         Rec!GenCheck
  <1>3. CASE Acquisition!GenGet
    BY <1>3, SameNames DEF Acquisition!GenGet, Rec!Next, Rec!GenThread,
         Rec!GenGet
  <1>4. CASE Acquisition!PoolDone
    BY <1>4 DEF Acquisition!PoolDone, Rec!Next, Rec!GenThread, Rec!PoolDone
  <1>5. ASSUME NEW w \in Workers, Acquisition!Worker(w)
        PROVE  Rec!Next
    <2>1. Rec!Worker(w)
      BY <1>5 DEF Acquisition!Worker, Acquisition!TakeChunk,
           Acquisition!WriteOutFullConfig, Rec!Worker, Rec!TakeChunk,
           Rec!WriteOutFullConfig
    <2>2. QED
      BY <2>1 DEF Rec!Next
  <1>6. ~Acquisition!MainThread /\ ~Acquisition!KeyboardInterrupt
    BY SameNames DEF Acquisition!MainThread, Acquisition!ReadPatch,
         Acquisition!AllPatchesRead, Acquisition!KeyboardInterrupt,
         Acquisition!Reading
  <1>7. CASE Acquisition!Connect \/ Acquisition!DaqCheck \/ Acquisition!DaqGet
    BY <1>7 DEF Acquisition!Connect, Acquisition!DaqCheck,
         Acquisition!DaqGet, Rec!Next, Rec!DaqThread, Rec!Connect,
         Rec!DaqCheck, Rec!DaqGet
  <1>8. QED
    BY <1>1, <1>2, <1>3, <1>4, <1>5, <1>6, <1>7
       DEF Acquisition!Next, Measures, Acquisition!GenThread,
           Acquisition!DaqThread

-----------------------------------------------------------------------------
(* The invariant.                                                          *)

\* A raw file is what was written to it, and only a run that was handed over,
\* or the one the acquisition failed with, has been written.  The acquisition is
\* over when its event is set.  A whole root file holds what was written to the
\* raw file of its run, and so does a whole hdf file.
LinkInv ==
    /\ raw_data \in [Runs -> Config \cup {NoConfig}]
    /\ \A r \in Runs : raw_data[r] # NoConfig => raw_data[r] = taken[r]
    /\ \A r \in Runs : taken[r] # NoConfig =>
          r \in HandedRuns \/ (daq_pc = "failed" /\ r = run)
    /\ daq_done => daq_pc \in {"done", "failed"}
    /\ \A r \in Runs : root_data[r] \notin {NoConfig, Partial} =>
          root_data[r] = taken[r]
    /\ \A r \in Runs : hdf[r] \notin {NoConfig, Partial} => hdf[r][1] = taken[r]

\* The invariants of both halves and what links them.
FullInv == Rec!PipelineInv /\ Srv!PostInv /\ LinkInv

\* The types that follow, and where the run in the acquisition's hands is not.
LEMMA FullTypes ==
    ASSUME FullInv
    PROVE  /\ handed \in Seq(Runs) /\ acquired_data \in Seq(Runs)
           /\ HandedRuns \subseteq Runs /\ HandedRuns = Rec!Elems(handed)
           /\ run \in Runs /\ device \in Config
           /\ \A r \in Runs : Acquisition!Update(device, r) \in Config
           /\ taken \in [Runs -> Config \cup {NoConfig}]
           /\ raw_data \in [Runs -> Config \cup {NoConfig}]
           /\ full_config \in [Runs -> Config \cup {NoConfig}]
           /\ \A c \in Config : c # NoConfig
  <1>1. Rec!TypeOK /\ Srv!TypeOK
    BY DEF FullInv, Rec!PipelineInv, Rec!FlowInv, Srv!PostInv
  <1>2. /\ handed \in Seq(Runs) /\ acquired_data \in Seq(Runs)
        /\ run \in Runs /\ device \in Config
        /\ taken \in [Runs -> Config \cup {NoConfig}]
        /\ full_config \in [Runs -> Config \cup {NoConfig}]
    BY <1>1, SameNames DEF Rec!TypeOK, Srv!TypeOK
  <1>3. HandedRuns = Rec!Elems(handed)
    BY <1>2, LenProperties DEF HandedRuns, Rec!Elems
  <1>4. HandedRuns \subseteq Runs
    BY <1>2, LenProperties DEF HandedRuns
  <1>5. \A r \in Runs : Acquisition!Update(device, r) \in Config
    <2>1. \A r \in Runs : Rec!Update(device, r) \in Config
      BY <1>2, SameNames, RecAssumptions, Rec!ConfigTypes
    <2>2. QED
      BY <2>1, SameNames
  <1>6. \A c \in Config : c # NoConfig
    BY ConfigAssumption
  <1>7. QED
    BY <1>2, <1>3, <1>4, <1>5, <1>6 DEF FullInv, LinkInv

-----------------------------------------------------------------------------
(* A step of the acquisition, as the acquisition sees it.                  *)

\* The run that is measured was not handed over before, has no raw file and
\* has its full configuration.
LEMMA RunInHand ==
    ASSUME FullInv, Measures
    PROVE  /\ Acquisition!Measure \/ Acquisition!MeasureFails
           /\ daq_pc = "measure" /\ ~daq_done
           /\ run \notin HandedRuns
           /\ raw_data[run] = NoConfig /\ taken[run] = NoConfig
           /\ full_config[run] \in Config
  <1>1. Acquisition!Measure \/ Acquisition!MeasureFails
    BY DEF Measures, Acquisition!Skip
  <1>2. daq_pc = "measure"
    BY <1>1 DEF Acquisition!Measure, Acquisition!MeasureFails
  <1>3. ~daq_done
    BY <1>2 DEF FullInv, LinkInv
  <1>4. Rec!InHand = {run}
    BY <1>2 DEF Rec!InHand
  <1>5. run \in Runs /\ run \notin HandedRuns
    BY <1>4, FullTypes DEF FullInv, Rec!PipelineInv, Rec!FlowInv, Rec!PlacesInv
  <1>6. taken[run] = NoConfig
    BY <1>2, <1>5 DEF FullInv, LinkInv
  <1>7. raw_data[run] = NoConfig
    BY <1>5, <1>6 DEF FullInv, LinkInv
  <1>8. full_config[run] # NoConfig
    BY <1>4, SameNames
       DEF FullInv, Rec!PipelineInv, Rec!FlowInv, Rec!FilesInv, Rec!Passed
  <1>9. full_config[run] \in Config
    BY <1>5, <1>8, FullTypes
  <1>10. QED
    BY <1>1, <1>2, <1>3, <1>5, <1>6, <1>7, <1>9

\* What is remembered of a measurement that goes through.
LEMMA MeasureRecord ==
    ASSUME FullInv, Acquisition!Measure, Remember
    PROVE  /\ device' = Acquisition!Update(device, run)
           /\ raw_data' = [raw_data EXCEPT ![run] = device']
           /\ taken' = [taken EXCEPT ![run] = device']
           /\ acquired_data' = Append(acquired_data, run)
           /\ handed' = Append(handed, run)
           /\ device' \in Config
  <1>1. /\ device' = Acquisition!Update(device, run)
        /\ raw_data' = [raw_data EXCEPT ![run] = device']
        /\ acquired_data' = Append(acquired_data, run)
    BY DEF Acquisition!Measure
  <1>2. device' \in Config /\ device' # NoConfig
    BY <1>1, FullTypes
  <1>3. raw_data'[run] = device' /\ raw_data' # raw_data
    BY <1>1, <1>2, FullTypes, RunInHand DEF Measures
  <1>4. taken' = [taken EXCEPT ![run] = device']
    BY <1>3 DEF Remember
  <1>5. acquired_data' # acquired_data
    <2>1. Len(acquired_data') = Len(acquired_data) + 1 /\ Len(acquired_data) \in Nat
      BY <1>1, FullTypes, AppendProperties, LenProperties
    <2>2. QED
      BY <2>1
  <1>6. handed' = Append(handed, run)
    BY <1>5 DEF Remember
  <1>7. QED
    BY <1>1, <1>2, <1>4, <1>6

\* What is remembered of one that fails.
LEMMA FailRecord ==
    ASSUME FullInv, Acquisition!MeasureFails, Remember
    PROVE  /\ UNCHANGED <<acquired_data, handed>>
           /\ \/ /\ raw_data' = raw_data /\ taken' = taken
                 /\ device' \in {device, Acquisition!Update(device, run)}
              \/ /\ device' = Acquisition!Update(device, run)
                 /\ raw_data' = [raw_data EXCEPT ![run] = device']
                 /\ taken' = [taken EXCEPT ![run] = device']
           /\ device' \in Config
  <1>1. UNCHANGED <<acquired_data, handed>>
    BY DEF Acquisition!MeasureFails, Remember
  <1>2. /\ device' \in {device, Acquisition!Update(device, run)}
        /\ \/ raw_data' = raw_data
           \/ raw_data' = [raw_data EXCEPT ![run] = Acquisition!Update(device, run)]
        /\ raw_data' # raw_data => device' = Acquisition!Update(device, run)
    BY DEF Acquisition!MeasureFails
  <1>3. device' \in Config
    BY <1>2, FullTypes
  <1>4. CASE raw_data' = raw_data
    BY <1>1, <1>2, <1>3, <1>4 DEF Remember
  <1>5. CASE raw_data' # raw_data
    <2>1. /\ device' = Acquisition!Update(device, run)
          /\ raw_data' = [raw_data EXCEPT ![run] = device']
      BY <1>2, <1>5
    <2>2. raw_data'[run] = device'
      BY <2>1, FullTypes
    <2>3. taken' = [taken EXCEPT ![run] = device']
      BY <1>5, <2>2 DEF Remember
    <2>4. QED
      BY <1>1, <1>3, <2>1, <2>3
  <1>6. QED
    BY <1>4, <1>5

\* Every step of the acquisition is one of its own specification.
LEMMA AcquireRecord ==
    ASSUME FullInv, Acquire
    PROVE  Rec!Next
  <1> USE DEF Acquisition!patchVars, Acquisition!genVars,
              Acquisition!queueVars, Acquisition!daqVars,
              Rec!patchVars, Rec!genVars, Rec!queueVars, Rec!daqVars
  <1>1. Acquisition!Next /\ Remember
    BY DEF Acquire
  <1>2. CASE ~Measures
    <2>1. UNCHANGED <<handed, taken>>
      BY <1>1, <1>2, QuietStep DEF Remember
    <2>2. QED
      BY <1>1, <1>2, <2>1, QuietRecord
  <1>3. CASE Acquisition!Measure
    <2>1. /\ device' = Rec!Update(device, run)
          /\ taken' = [taken EXCEPT ![run] = device']
          /\ handed' = Append(handed, run)
      BY <1>1, <1>3, MeasureRecord, SameNames
    <2>2. Rec!Measure
      BY <1>3, <2>1 DEF Acquisition!Measure, Rec!Measure
    <2>3. QED
      BY <2>2 DEF Rec!Next, Rec!DaqThread
  <1>4. CASE Acquisition!MeasureFails
    <2>1. /\ device' \in {device, Rec!Update(device, run)}
          /\ taken' \in {taken, [taken EXCEPT ![run] = Rec!Update(device, run)]}
          /\ taken' # taken => device' = Rec!Update(device, run)
          /\ handed' = handed
      BY <1>1, <1>4, FailRecord, SameNames
    <2>2. Rec!MeasureFails
      BY <1>4, <2>1 DEF Acquisition!MeasureFails, Rec!MeasureFails
    <2>3. QED
      BY <2>2 DEF Rec!Next, Rec!DaqThread
  <1>5. QED
    BY <1>2, <1>3, <1>4, RunInHand DEF Measures

-----------------------------------------------------------------------------
(* The same step, as the postprocessing sees it.                           *)

\* The runs handed over after a step of the acquisition.
LEMMA HandedMore ==
    ASSUME FullInv
    PROVE  /\ handed' = handed => HandedRuns' = HandedRuns
           /\ handed' = Append(handed, run) => HandedRuns' = HandedRuns \cup {run}
  <1>1. handed \in Seq(Runs) /\ run \in Runs
    BY FullTypes
  <1>2. ASSUME handed' = Append(handed, run)
        PROVE  HandedRuns' = HandedRuns \cup {run}
    <2>1. Append(handed, run) \in Seq(Runs)
      BY <1>1, AppendElems
    <2>2. \A s \in Seq(Runs) : DOMAIN s = 1..Len(s)
      BY LenProperties
    <2>3. HandedRuns' = Elems(Append(handed, run)) /\ HandedRuns = Elems(handed)
      BY <1>1, <1>2, <2>1, <2>2 DEF HandedRuns, Elems
    <2>4. QED
      BY <1>1, <2>3, AppendElems
  <1>3. QED
    BY <1>2 DEF HandedRuns

\* A full configuration is written for a run that was not handed over.
LEMMA QuietServe ==
    ASSUME FullInv, Acquisition!Next, ~Measures, handed' = handed
    PROVE  /\ UNCHANGED <<raw_data, acquired_data>>
           /\ OfHanded(raw_data)' = OfHanded(raw_data)
           /\ OfHanded(full_config)' = OfHanded(full_config)
           /\ daq_done' = daq_done \/ (~daq_done /\ daq_done' = TRUE)
  <1> USE DEF Acquisition!patchVars, Acquisition!genVars,
              Acquisition!queueVars, Acquisition!daqVars
  <1>1. UNCHANGED <<raw_data, acquired_data>> /\ HandedRuns' = HandedRuns
    BY QuietStep, HandedMore
  <1>2. OfHanded(raw_data)' = OfHanded(raw_data)
    BY <1>1 DEF OfHanded, Runs, Acquisition!Runs
  <1>3. CASE UNCHANGED <<full_config, daq_done>>
    BY <1>1, <1>2, <1>3 DEF OfHanded, Runs, Acquisition!Runs
  <1>4. CASE Acquisition!DaqCheck
    <2>1. UNCHANGED full_config /\ (daq_done' = daq_done \/ daq_done' = TRUE)
      BY <1>4 DEF Acquisition!DaqCheck
    <2>2. ~daq_done
      BY <1>4 DEF Acquisition!DaqCheck, FullInv, LinkInv
    <2>3. QED
      BY <1>1, <1>2, <2>1, <2>2 DEF OfHanded, Runs, Acquisition!Runs
  <1>5. ASSUME NEW w \in Workers, Acquisition!WriteOutFullConfig(w)
        PROVE  UNCHANGED daq_done /\ OfHanded(full_config)' = OfHanded(full_config)
    <2> DEFINE q == Head(worker[w])
    <2>1. /\ full_config' = [full_config EXCEPT ![q] = current_config]
          /\ UNCHANGED daq_done /\ worker[w] # <<>>
      BY <1>5 DEF Acquisition!WriteOutFullConfig
    <2>2. worker[w] \in Seq(Runs)
      BY SameNames DEF FullInv, Rec!PipelineInv, Rec!FlowInv, Rec!TypeOK
    <2>3. q \in Runs /\ q \in Rec!Elems(worker[w])
      BY <2>1, <2>2, HeadTailElems DEF Elems, Rec!Elems
    <2>4. q \in Rec!InWorkers
      BY <2>3, SameNames DEF Rec!InWorkers
    <2>5. q \notin HandedRuns
      <3>1. q \notin Rec!Passed
        BY <2>4 DEF FullInv, Rec!PipelineInv, Rec!FlowInv, Rec!PlacesInv
      <3>2. QED
        BY <3>1, FullTypes DEF Rec!Passed
    <2> HIDE DEF q
    <2>6. \A r \in Runs : r # q => full_config'[r] = full_config[r]
      BY <2>1, FullTypes
    <2>7. QED
      BY <1>1, <2>1, <2>5, <2>6 DEF OfHanded, Runs, Acquisition!Runs
  <1>6. QED
    BY <1>1, <1>2, <1>3, <1>4, <1>5
       DEF Acquisition!Next, Measures, Acquisition!PatchThread,
         Acquisition!PutPatch, Acquisition!PatchesDone, Acquisition!GenThread,
         Acquisition!GenCheck, Acquisition!GenGet, Acquisition!PoolDone,
         Acquisition!Worker, Acquisition!TakeChunk, Acquisition!MainThread,
         Acquisition!ReadPatch, Acquisition!AllPatchesRead,
         Acquisition!KeyboardInterrupt, Acquisition!DaqThread,
         Acquisition!Connect, Acquisition!DaqGet

\* Every step of the acquisition passes on a run, ends the acquisition or is
\* none to the postprocessing.
LEMMA AcquireServe ==
    ASSUME FullInv, Acquire
    PROVE  Srv!Next \/ UNCHANGED Srv!vars
  <1> USE DEF Acquisition!patchVars, Acquisition!genVars,
              Acquisition!queueVars, Acquisition!daqVars, processingVars,
              Srv!vars, Srv!inputVars, Srv!unpackVars, Srv!frackVars
  <1>1. Acquisition!Next /\ Remember /\ UNCHANGED processingVars
    BY DEF Acquire
  <1>2. CASE ~Measures
    <2>1. handed' = handed
      BY <1>1, <1>2, QuietStep DEF Remember
    <2>2. /\ UNCHANGED acquired_data
          /\ OfHanded(raw_data)' = OfHanded(raw_data)
          /\ OfHanded(full_config)' = OfHanded(full_config)
          /\ daq_done' = daq_done \/ (~daq_done /\ daq_done' = TRUE)
      BY <1>1, <1>2, <2>1, QuietServe
    <2>3. CASE daq_done' = daq_done
      BY <1>1, <2>2, <2>3
    <2>4. CASE ~daq_done /\ daq_done' = TRUE
      <3>1. Srv!AcquisitionEnds
        BY <1>1, <2>2, <2>4, SameNames DEF Srv!AcquisitionEnds
      <3>2. QED
        BY <3>1 DEF Srv!Next, Srv!Feed
    <2>5. QED
      BY <2>2, <2>3, <2>4
  <1>3. CASE Acquisition!Measure
    <2>1. /\ run \in Runs /\ run \notin HandedRuns /\ ~daq_done
          /\ full_config[run] \in Config /\ device' \in Config
          /\ HandedRuns' = HandedRuns \cup {run}
          /\ acquired_data' = Append(acquired_data, run)
      BY <1>1, <1>3, FullTypes, RunInHand, MeasureRecord, HandedMore DEF Measures
    <2>2. UNCHANGED <<full_config, daq_done>>
      BY <1>3 DEF Acquisition!Measure
    <2>3. \A r \in Runs : raw_data'[r] = IF r = run THEN device' ELSE raw_data[r]
      BY <1>1, <1>3, FullTypes, MeasureRecord
    <2>4. OfHanded(raw_data)' = [OfHanded(raw_data) EXCEPT ![run] = device']
      BY <2>1, <2>3 DEF OfHanded, Runs, Acquisition!Runs
    <2>5. OfHanded(full_config)' = [OfHanded(full_config) EXCEPT ![run] = full_config[run]]
      BY <2>1, <2>2 DEF OfHanded, Runs, Acquisition!Runs
    <2>6. OfHanded(full_config)[run] = NoConfig
      BY <2>1 DEF OfHanded
    <2>7. Srv!Acquire(run)
      BY <1>1, <2>1, <2>2, <2>4, <2>5, <2>6, SameNames DEF Srv!Acquire
    <2>8. QED
      BY <2>1, <2>7, SameNames DEF Srv!Next, Srv!Feed
  <1>4. CASE Acquisition!MeasureFails
    <2>1. /\ run \notin HandedRuns /\ ~daq_done /\ HandedRuns' = HandedRuns
          /\ UNCHANGED acquired_data
          /\ \A r \in Runs : r # run => raw_data'[r] = raw_data[r]
      BY <1>1, <1>4, FullTypes, RunInHand, FailRecord, HandedMore DEF Measures
    <2>2. UNCHANGED full_config /\ daq_done' = TRUE
      BY <1>4 DEF Acquisition!MeasureFails
    <2>3. OfHanded(raw_data)' = OfHanded(raw_data)
      BY <2>1 DEF OfHanded, Runs, Acquisition!Runs
    <2>4. OfHanded(full_config)' = OfHanded(full_config)
      BY <2>1, <2>2 DEF OfHanded, Runs, Acquisition!Runs
    <2>5. Srv!AcquisitionEnds
      BY <1>1, <2>1, <2>2, <2>3, <2>4, SameNames DEF Srv!AcquisitionEnds
    <2>6. QED
      BY <2>5 DEF Srv!Next, Srv!Feed
  <1>5. QED
    BY <1>2, <1>3, <1>4, RunInHand DEF Measures

-----------------------------------------------------------------------------
(* A step of the postprocessing.                                           *)

\* Both views of the postprocessing mean the same by a list of tasks.
LEMMA SameTasks ==
    /\ \A t : Srv!Failed(t) = Processing!Failed(t)
    /\ \A t : Srv!Exited(t) = Processing!Exited(t)
    /\ \A t : Srv!Succeeded(t) = Processing!Succeeded(t)
    /\ \A t : Srv!Running(t) = Processing!Running(t)
    /\ \A r : Srv!Task(r) = Processing!Task(r)
    /\ \A files, rs : Srv!Removed(files, rs) = Processing!Removed(files, rs)
    /\ \A r : Srv!ConfigOf(r) = r /\ Processing!ConfigOf(r) = r
  <1>1. \A rs : Srv!Sorted(rs) = Processing!Sorted(rs)
    <2>1. \A rs : Srv!Cardinality(rs) = Processing!Cardinality(rs)
      BY Zenon DEF Srv!Cardinality, Processing!Cardinality
    <2>2. \A r, rs : Srv!Rank(r, rs) = Processing!Rank(r, rs)
      BY <2>1 DEF Srv!Rank, Processing!Rank
    <2>3. QED
      BY <2>1, <2>2 DEF Srv!Sorted, Processing!Sorted
  <1>2. \A t, code : Srv!At(t, code) = Processing!At(t, code)
    BY DEF Srv!At, Processing!At
  <1>3. /\ \A t : Srv!Failed(t) = Processing!Failed(t)
        /\ \A t : Srv!Exited(t) = Processing!Exited(t)
    BY <1>2 DEF Srv!Failed, Processing!Failed, Srv!Exited, Processing!Exited
  <1>4. \A t : Srv!Succeeded(t) = Processing!Succeeded(t)
    BY <1>1, <1>2 DEF Srv!Succeeded, Processing!Succeeded
  <1>5. \A t : Srv!Running(t) = Processing!Running(t)
    BY <1>1, <1>2 DEF Srv!Running, Processing!Running
  <1>6. \A r : Srv!Task(r) = Processing!Task(r)
    BY DEF Srv!Task, Processing!Task
  <1>7. \A files, rs : Srv!Removed(files, rs) = Processing!Removed(files, rs)
    BY SameNames DEF Srv!Removed, Processing!Removed
  <1>8. \A r : Srv!ConfigOf(r) = r /\ Processing!ConfigOf(r) = r
    BY SameNames DEF Srv!ConfigOf, Processing!ConfigOf
  <1>9. QED
    BY <1>3, <1>4, <1>5, <1>6, <1>7, <1>8

\* Only runs that were handed over are unpacked and fracked, or have a root
\* or an hdf file while they are.
LEMMA ServedRuns ==
    ASSUME FullInv
    PROVE  /\ Srv!TypeOK /\ Srv!StagesInv /\ Srv!EventInv
           /\ Srv!Present \subseteq HandedRuns
           /\ \A i \in DOMAIN unpacking : unpacking[i].run \in HandedRuns
           /\ \A i \in DOMAIN fracking : fracking[i].run \in HandedRuns
           /\ HandedRuns \subseteq Runs
  <1>1. Srv!TypeOK /\ Srv!StagesInv /\ Srv!EventInv
    BY SameNames DEF FullInv, Srv!PostInv
  <1>2. Srv!Present \subseteq HandedRuns
    BY SameNames DEF Srv!Present, OfHanded
  <1>3. Srv!Somewhere \subseteq HandedRuns
    BY <1>1, <1>2 DEF Srv!StagesInv, Srv!PlacesInv
  <1>4. /\ \A i \in DOMAIN unpacking : unpacking[i].run \in HandedRuns
        /\ \A i \in DOMAIN fracking : fracking[i].run \in HandedRuns
    BY <1>3 DEF Srv!Somewhere, Srv!AtUnpacker, Srv!AtFracker, Srv!RunsOf
  <1>5. QED
    BY <1>1, <1>2, <1>4, FullTypes

\* Every step of the postprocessing is one of its own specification.
LEMMA ProcessServe ==
    ASSUME FullInv, Process
    PROVE  Srv!PostNext /\ HandedRuns' = HandedRuns
  <1> USE DEF Processing!inputVars, Processing!unpackVars, Processing!frackVars,
              Srv!inputVars, Srv!unpackVars, Srv!frackVars
  <1>1. Processing!PostNext /\ HandedRuns' = HandedRuns
    BY DEF Process, historyVars, HandedRuns
  <1> SUFFICES Srv!PostNext
    BY <1>1
  <1>2. /\ full_config' = full_config => OfHanded(full_config)' = OfHanded(full_config)
        /\ raw_data' = raw_data => OfHanded(raw_data)' = OfHanded(raw_data)
    BY <1>1 DEF OfHanded, Runs, Acquisition!Runs
  <1>3. ASSUME NEW rs, raw_data' = Processing!Removed(raw_data, rs)
        PROVE  OfHanded(raw_data)' = Srv!Removed(OfHanded(raw_data), rs)
    BY <1>1, <1>3, SameNames
       DEF OfHanded, Processing!Removed, Srv!Removed, Runs, Acquisition!Runs
  <1>4. CASE Processing!UnpackLoop
    BY <1>2, <1>4 DEF Processing!UnpackLoop, Srv!UnpackLoop, Srv!PostNext,
                      Srv!UnpackThread
  <1>5. CASE Processing!UnpackGet
    BY <1>2, <1>5, SameNames, SameTasks
       DEF Processing!UnpackGet, Srv!UnpackGet, Srv!PostNext, Srv!UnpackThread
  <1>6. CASE Processing!UnpackPoll
    <2>1. OfHanded(raw_data)' = Srv!Removed(OfHanded(raw_data), Srv!Failed(unpacking))
      BY <1>3, <1>6, SameTasks DEF Processing!UnpackPoll
    <2>2. QED
      BY <1>2, <1>6, <2>1, SameTasks
         DEF Processing!UnpackPoll, Srv!UnpackPoll, Srv!PostNext,
             Srv!UnpackThread
  <1>7. ASSUME NEW i \in DOMAIN unpacking, Processing!Unpacker(i)
        PROVE  Srv!PostNext
    <2>1. OfHanded(raw_data)[unpacking[i].run] = raw_data[unpacking[i].run]
      BY ServedRuns DEF OfHanded
    <2>2. Srv!Unpacker(i)
      BY <1>2, <1>7, <2>1 DEF Processing!Unpacker, Processing!UnpackerExits,
                              Srv!Unpacker, Srv!UnpackerExits
    <2>3. QED
      BY <2>2 DEF Srv!PostNext
  <1>8. CASE Processing!FrackLoop
    BY <1>2, <1>8 DEF Processing!FrackLoop, Srv!FrackLoop, Srv!PostNext,
                      Srv!FrackThread
  <1>9. CASE Processing!FrackGet
    BY <1>2, <1>9, SameTasks
       DEF Processing!FrackGet, Srv!FrackGet, Srv!PostNext, Srv!FrackThread
  <1>10. CASE Processing!FrackPoll
    <2>1. OfHanded(raw_data)' = Srv!Removed(OfHanded(raw_data), Srv!Failed(fracking))
      BY <1>3, <1>10, SameTasks DEF Processing!FrackPoll
    <2>2. QED
      BY <1>2, <1>10, <2>1, SameTasks
         DEF Processing!FrackPoll, Srv!FrackPoll, Srv!PostNext,
             Srv!FrackThread
  <1>11. ASSUME NEW i \in DOMAIN fracking, Processing!Fracker(i)
         PROVE  Srv!PostNext
    <2>1. OfHanded(full_config)[fracking[i].run] = full_config[fracking[i].run]
      BY ServedRuns DEF OfHanded
    <2>2. Srv!Fracker(i)
      BY <1>2, <1>11, <2>1, SameTasks
         DEF Processing!Fracker, Processing!FrackerExits, Srv!Fracker,
             Srv!FrackerExits
    <2>3. QED
      BY <2>2 DEF Srv!PostNext
  <1>12. QED
    BY <1>1, <1>4, <1>5, <1>6, <1>7, <1>8, <1>9, <1>10, <1>11
       DEF Processing!PostNext, Processing!UnpackThread, Processing!FrackThread

\* It is no step of the acquisition.
LEMMA ProcessRecord ==
    ASSUME Process
    PROVE  UNCHANGED Rec!vars
  <1>1. UNCHANGED <<acquisitionVars, historyVars>> /\ Processing!PostNext
    BY DEF Process
  <1>2. UNCHANGED <<full_config, daq_done>>
    BY <1>1 DEF Processing!PostNext, Processing!UnpackThread,
         Processing!FrackThread, Processing!UnpackLoop, Processing!UnpackGet,
         Processing!UnpackPoll, Processing!Unpacker, Processing!UnpackerExits,
         Processing!FrackLoop, Processing!FrackGet, Processing!FrackPoll,
         Processing!Fracker, Processing!FrackerExits, Processing!inputVars
  <1>3. QED
    BY <1>1, <1>2 DEF acquisitionVars, historyVars, Rec!vars, Rec!patchVars,
         Rec!genVars, Rec!queueVars, Rec!daqVars

-----------------------------------------------------------------------------
(* The files the halves share.                                             *)

\* Initially there are none.
LEMMA LinkInit == Init => LinkInv
  <1> SUFFICES ASSUME Init PROVE LinkInv
    OBVIOUS
  <1>1. /\ \A r \in Runs : raw_data[r] = NoConfig /\ taken[r] = NoConfig
        /\ raw_data \in [Runs -> Config \cup {NoConfig}]
        /\ daq_done = FALSE
    BY SameNames DEF Init, Acquisition!Init
  <1>2. /\ \A r \in Runs : root_data[r] = NoConfig
        /\ \A r \in Runs : hdf[r] = NoConfig
    BY SameNames DEF Init, Processing!StagesInit, Processing!NoFiles
  <1>3. QED
    BY <1>1, <1>2 DEF LinkInv

\* What the acquisition does between its measurements.
LEMMA QuietLink ==
    ASSUME Acquisition!Next, ~Measures
    PROVE  \/ UNCHANGED <<daq_pc, run, daq_done>>
           \/ /\ daq_pc \in {"connect", "check", "get"}
              /\ daq_done' => daq_done \/ daq_pc' = "done"
  <1> USE DEF Acquisition!daqVars
  <1>1. CASE Acquisition!Connect \/ Acquisition!DaqCheck \/ Acquisition!DaqGet
    BY <1>1 DEF Acquisition!Connect, Acquisition!DaqCheck, Acquisition!DaqGet
  <1>2. CASE ~(Acquisition!Connect \/ Acquisition!DaqCheck \/ Acquisition!DaqGet)
    BY <1>2
       DEF Acquisition!Next, Measures, Acquisition!PatchThread,
         Acquisition!PutPatch, Acquisition!PatchesDone, Acquisition!GenThread,
         Acquisition!GenCheck, Acquisition!GenGet, Acquisition!PoolDone,
         Acquisition!Worker, Acquisition!TakeChunk,
         Acquisition!WriteOutFullConfig, Acquisition!MainThread,
         Acquisition!ReadPatch, Acquisition!AllPatchesRead,
         Acquisition!KeyboardInterrupt, Acquisition!DaqThread
  <1>3. QED
    BY <1>1, <1>2

\* A run that was not handed over has neither root nor hdf file.
LEMMA NothingWritten ==
    ASSUME FullInv, NEW r \in Runs, r \notin HandedRuns
    PROVE  root_data[r] = NoConfig /\ hdf[r] = NoConfig
  <1>1. OfHanded(full_config)[r] = NoConfig
    BY DEF OfHanded
  <1>2. Srv!FilesInv /\ r \in Srv!Runs
    BY ServedRuns, SameNames DEF Srv!StagesInv
  <1>3. QED
    BY <1>1, <1>2 DEF Srv!FilesInv, Srv!Unfracked

\* A raw file is written once, before its run is handed over.
LEMMA AcquireLink ==
    ASSUME FullInv, Acquire
    PROVE  LinkInv'
  <1>1. /\ Acquisition!Next /\ Remember /\ UNCHANGED processingVars
        /\ UNCHANGED <<root_data, hdf>>
    BY DEF Acquire, processingVars
  <1>2. LinkInv
    BY DEF FullInv
  <1> USE SameNames DEF Runs, Acquisition!Runs
  <1>3. CASE ~Measures
    <2>1. UNCHANGED <<raw_data, acquired_data>>
      BY <1>1, <1>3, QuietStep
    <2>2. UNCHANGED <<raw_data, handed, taken>> /\ HandedRuns' = HandedRuns
      BY <1>1, <2>1 DEF Remember, HandedRuns
    <2>3. /\ \A r \in Runs : taken'[r] # NoConfig =>
                r \in HandedRuns' \/ (daq_pc' = "failed" /\ r = run')
          /\ daq_done' => daq_pc' \in {"done", "failed"}
      BY <1>1, <1>2, <1>3, <2>2, QuietLink DEF LinkInv
    <2>4. QED
      BY <1>1, <1>2, <2>2, <2>3 DEF LinkInv
  <1>4. ASSUME Acquisition!Measure \/ Acquisition!MeasureFails
        PROVE  /\ run' = run /\ run \in Runs /\ daq_pc # "failed"
               /\ root_data[run] = NoConfig /\ hdf[run] = NoConfig
               /\ raw_data \in [Runs -> Config \cup {NoConfig}]
               /\ taken \in [Runs -> Config \cup {NoConfig}]
               /\ raw_data[run] = NoConfig
    BY <1>4, FullTypes, RunInHand, NothingWritten
       DEF Measures, Acquisition!Measure, Acquisition!MeasureFails
  <1>5. ASSUME Acquisition!Measure \/ Acquisition!MeasureFails,
               raw_data' = [raw_data EXCEPT ![run] = device'],
               taken' = [taken EXCEPT ![run] = device'],
               device' \in Config,
               daq_done' => daq_pc' \in {"done", "failed"},
               HandedRuns \subseteq HandedRuns',
               run \in HandedRuns' \/ daq_pc' = "failed"
        PROVE  LinkInv'
    <2>1. /\ raw_data' \in [Runs -> Config \cup {NoConfig}]
          /\ raw_data'[run] = device' /\ taken'[run] = device'
          /\ \A r \in Runs : r # run => /\ raw_data'[r] = raw_data[r]
                                        /\ taken'[r] = taken[r]
      BY <1>4, <1>5
    <2>2. \A r \in Runs : raw_data'[r] # NoConfig => raw_data'[r] = taken'[r]
      BY <1>2, <2>1 DEF LinkInv
    <2>3. \A r \in Runs : taken'[r] # NoConfig =>
                r \in HandedRuns' \/ (daq_pc' = "failed" /\ r = run')
      BY <1>2, <1>4, <1>5, <2>1 DEF LinkInv
    <2>4. /\ \A r \in Runs : root_data'[r] \notin {NoConfig, Partial} =>
                root_data'[r] = taken'[r]
          /\ \A r \in Runs : hdf'[r] \notin {NoConfig, Partial} =>
                hdf'[r][1] = taken'[r]
      BY <1>1, <1>2, <1>4, <1>5, <2>1 DEF LinkInv
    <2>5. QED
      BY <1>5, <2>1, <2>2, <2>3, <2>4 DEF LinkInv
  <1>6. CASE Acquisition!Measure
    <2>1. HandedRuns' = HandedRuns \cup {run}
      BY <1>1, <1>6, MeasureRecord, HandedMore
    <2>2. daq_done' = daq_done /\ ~daq_done
      BY <1>6, RunInHand DEF Measures, Acquisition!Measure
    <2>3. QED
      BY <1>1, <1>5, <1>6, <2>1, <2>2, MeasureRecord
  <1>7. CASE Acquisition!MeasureFails
    <2>1. HandedRuns' = HandedRuns /\ daq_pc' = "failed"
      BY <1>1, <1>7, FailRecord, HandedMore DEF Acquisition!MeasureFails
    <2>2. CASE raw_data' = raw_data /\ taken' = taken
      BY <1>1, <1>2, <1>4, <1>7, <2>1, <2>2 DEF LinkInv
    <2>3. QED
      BY <1>1, <1>5, <1>7, <2>1, <2>2, FailRecord
  <1>8. QED
    BY <1>3, <1>6, <1>7, RunInHand DEF Measures

\* The postprocessing copies what the raw file holds, and removes files.
LEMMA ProcessLink ==
    ASSUME FullInv, Process
    PROVE  LinkInv'
  <1> USE DEF Processing!inputVars, Processing!unpackVars, Processing!frackVars
  <1> USE SameNames DEF Runs, Acquisition!Runs
  <1>1. /\ Processing!PostNext /\ HandedRuns' = HandedRuns
        /\ UNCHANGED <<taken, daq_pc, run>>
    BY DEF Process, historyVars, acquisitionVars, HandedRuns
  <1>2. UNCHANGED daq_done
    BY ProcessRecord DEF Rec!vars, Rec!daqVars
  <1>3. LinkInv /\ raw_data \in [Runs -> Config \cup {NoConfig}]
    BY DEF FullInv, LinkInv
  <1>4. /\ root_data \in [Runs -> Config \cup {NoConfig, Partial}]
        /\ hdf \in [Runs -> (Config \X Config) \cup {NoConfig, Partial}]
    BY ServedRuns DEF Srv!TypeOK
  <1>5. \/ raw_data' = raw_data
        \/ \E rs : raw_data' = Processing!Removed(raw_data, rs)
    BY <1>1 DEF Processing!PostNext, Processing!UnpackThread,
         Processing!FrackThread, Processing!UnpackLoop, Processing!UnpackGet,
         Processing!UnpackPoll, Processing!Unpacker, Processing!UnpackerExits,
         Processing!FrackLoop, Processing!FrackGet, Processing!FrackPoll,
         Processing!Fracker, Processing!FrackerExits
  <1>6. \/ root_data' = root_data
        \/ \E rs : root_data' = Processing!Removed(root_data, rs)
        \/ \E i \in DOMAIN unpacking : \E file \in {raw_data[unpacking[i].run], Partial} :
              root_data' = [root_data EXCEPT ![unpacking[i].run] = file]
    BY <1>1 DEF Processing!PostNext, Processing!UnpackThread,
         Processing!FrackThread, Processing!UnpackLoop, Processing!UnpackGet,
         Processing!UnpackPoll, Processing!Unpacker, Processing!UnpackerExits,
         Processing!FrackLoop, Processing!FrackGet, Processing!FrackPoll,
         Processing!Fracker, Processing!FrackerExits
  <1>7. \/ hdf' = hdf
        \/ \E i \in DOMAIN fracking : \E config :
              \E file \in {<<root_data[fracking[i].run], config>>, Partial} :
                 hdf' = [hdf EXCEPT ![fracking[i].run] = file]
    BY <1>1 DEF Processing!PostNext, Processing!UnpackThread,
         Processing!FrackThread, Processing!UnpackLoop, Processing!UnpackGet,
         Processing!UnpackPoll, Processing!Unpacker, Processing!UnpackerExits,
         Processing!FrackLoop, Processing!FrackGet, Processing!FrackPoll,
         Processing!Fracker, Processing!FrackerExits
  <1>8. /\ raw_data' \in [Runs -> Config \cup {NoConfig}]
        /\ \A r \in Runs : raw_data'[r] # NoConfig => raw_data'[r] = taken'[r]
    BY <1>1, <1>3, <1>5 DEF LinkInv, Processing!Removed
  <1>9. \A r \in Runs : root_data'[r] \notin {NoConfig, Partial} =>
           root_data'[r] = taken'[r]
    <2>1. CASE root_data' = root_data
      BY <1>1, <1>3, <2>1 DEF LinkInv
    <2>2. ASSUME NEW rs, root_data' = Processing!Removed(root_data, rs)
          PROVE  \A r \in Runs : root_data'[r] \notin {NoConfig, Partial} =>
                    root_data'[r] = taken'[r]
      BY <1>1, <1>3, <2>2 DEF LinkInv, Processing!Removed
    <2>3. ASSUME NEW i \in DOMAIN unpacking,
                 NEW file \in {raw_data[unpacking[i].run], Partial},
                 root_data' = [root_data EXCEPT ![unpacking[i].run] = file]
          PROVE  \A r \in Runs : root_data'[r] \notin {NoConfig, Partial} =>
                    root_data'[r] = taken'[r]
      <3>1. unpacking[i].run \in Runs
        BY ServedRuns
      <3>2. QED
        BY <1>1, <1>3, <1>4, <2>3, <3>1 DEF LinkInv
    <2>4. QED
      BY <1>6, <2>1, <2>2, <2>3
  <1>10. \A r \in Runs : hdf'[r] \notin {NoConfig, Partial} => hdf'[r][1] = taken'[r]
    <2>1. CASE hdf' = hdf
      BY <1>1, <1>3, <2>1 DEF LinkInv
    <2>2. ASSUME NEW i \in DOMAIN fracking, NEW config,
                 NEW file \in {<<root_data[fracking[i].run], config>>, Partial},
                 hdf' = [hdf EXCEPT ![fracking[i].run] = file]
          PROVE  \A r \in Runs : hdf'[r] \notin {NoConfig, Partial} =>
                    hdf'[r][1] = taken'[r]
      <3>1. fracking[i].run \in Runs
        BY ServedRuns
      <3>2. root_data[fracking[i].run] \notin {NoConfig, Partial}
        BY ServedRuns, SameNames
           DEF Srv!StagesInv, Srv!FilesInv, Srv!AtFracker, Srv!RunsOf
      <3>3. root_data[fracking[i].run] = taken[fracking[i].run]
        BY <1>3, <3>1, <3>2 DEF LinkInv
      <3>4. file # Partial => file[1] = taken[fracking[i].run]
        BY <3>3
      <3>5. QED
        BY <1>1, <1>3, <1>4, <2>2, <3>1, <3>4 DEF LinkInv
    <2>3. QED
      BY <1>7, <2>1, <2>2
  <1>11. QED
    BY <1>1, <1>2, <1>3, <1>8, <1>9, <1>10 DEF LinkInv

-----------------------------------------------------------------------------
(* The invariant holds.                                                    *)

\* The program starts as both halves do.
LEMMA InitHalves == Init => Rec!Init /\ Srv!Init
  <1> SUFFICES ASSUME Init PROVE Rec!Init /\ Srv!Init
    OBVIOUS
  <1>1. /\ Acquisition!Init /\ Processing!StagesInit
        /\ handed = <<>> /\ taken = [r \in Runs |-> NoConfig]
    BY DEF Init
  <1>2. Rec!Init
    <2>1. taken = [r \in Rec!Runs |-> IF r \in {} THEN RunConfig[r] ELSE NoConfig]
      BY <1>1, SameNames
    <2>2. QED
      BY <1>1, <2>1, SameNames DEF Acquisition!Init, Rec!Init
  <1>3. HandedRuns = {}
    BY <1>1, EmptySeq DEF HandedRuns
  <1>4. \A files : OfHanded(files) = [r \in Runs |-> NoConfig]
    BY <1>3 DEF OfHanded
  <1>5. [r \in Runs |-> NoConfig] \in Srv!OnDisk({})
    BY SameNames DEF Srv!OnDisk
  <1>6. Srv!StagesInit
    BY <1>1, SameNames DEF Processing!StagesInit, Srv!StagesInit,
                           Processing!NoFiles, Srv!NoFiles
  <1>7. acquired_data = <<>> /\ daq_done = FALSE
    BY <1>1 DEF Acquisition!Init
  <1>8. OfHanded(full_config) \in UNION {Srv!OnDisk(rs) : rs \in {{}}}
    BY <1>4, <1>5
  <1>9. Srv!Init
    BY <1>4, <1>5, <1>6, <1>7, <1>8, SameNames DEF Srv!Init
  <1>10. QED
    BY <1>2, <1>9

\* Every step is one of each half or none of it.
LEMMA NextHalves ==
    ASSUME FullInv, [Next]_vars
    PROVE  /\ [Rec!Next]_(Rec!vars)
           /\ [Srv!Next]_(Srv!vars)
           /\ LinkInv'
  <1>1. CASE Acquire
    BY <1>1, AcquireRecord, AcquireServe, AcquireLink
  <1>2. CASE Process
    BY <1>2, ProcessRecord, ProcessServe, ProcessLink DEF Srv!Next
  <1>3. CASE UNCHANGED vars
    <2>1. UNCHANGED Rec!vars
      BY <1>3 DEF vars, acquisitionVars, sharedVars, historyVars, Rec!vars,
                  Rec!patchVars, Rec!genVars, Rec!queueVars, Rec!daqVars
    <2>2. UNCHANGED HandedRuns
      BY <1>3 DEF vars, historyVars, HandedRuns
    <2>3. UNCHANGED <<OfHanded(raw_data), OfHanded(full_config)>>
      BY <1>3, <2>2 DEF vars, sharedVars, OfHanded, Runs, Acquisition!Runs
    <2>4. UNCHANGED Srv!vars
      BY <1>3, <2>3 DEF vars, processingVars, sharedVars, Srv!vars,
                        Srv!inputVars, Srv!unpackVars, Srv!frackVars
    <2>5. LinkInv'
      BY <1>3, <2>2 DEF vars, acquisitionVars, processingVars, sharedVars,
                        historyVars, FullInv, LinkInv, Runs, Acquisition!Runs
    <2>6. QED
      BY <2>1, <2>4, <2>5
  <1>4. QED
    BY <1>1, <1>2, <1>3 DEF Next

\* The invariants of the halves are those of the program.
LEMMA FullInvariant == Spec => []FullInv
  <1>1. Init => FullInv
    <2> SUFFICES ASSUME Init PROVE FullInv
      OBVIOUS
    <2>1. Rec!Init /\ Srv!Init /\ LinkInv
      BY InitHalves, LinkInit
    <2>2. Rec!PipelineInv
      BY <2>1, RecAssumptions, Rec!FlowInit DEF Rec!PipelineInv
    <2>3. Srv!PostInv
      BY <2>1, SrvAssumptions, Srv!PostInit
    <2>4. QED
      BY <2>1, <2>2, <2>3 DEF FullInv
  <1>2. FullInv /\ [Next]_vars => FullInv'
    <2> SUFFICES ASSUME FullInv, [Next]_vars PROVE FullInv'
      OBVIOUS
    <2>1. [Rec!Next]_(Rec!vars) /\ [Srv!Next]_(Srv!vars) /\ LinkInv'
      BY NextHalves
    <2>2. Rec!FlowInv /\ Rec!RawInv /\ Srv!PostInv
      BY DEF FullInv, Rec!PipelineInv
    <2>3. Rec!FlowInv' /\ Rec!RawInv'
      BY <2>1, <2>2, RecAssumptions, Rec!FlowStep, Rec!RawStep
    <2>4. Srv!PostInv'
      BY <2>1, <2>2, SrvAssumptions, Srv!PostStep
    <2>5. QED
      BY <2>1, <2>3, <2>4 DEF FullInv, Rec!PipelineInv
  <1>3. QED
    BY <1>1, <1>2, PTL DEF Spec

-----------------------------------------------------------------------------
(* Theorems.                                                               *)

\* The views of FullDaq and those used here are instances of the same modules
\* with the same substitutions.
LEMMA SameViews == /\ Rec!Spec => AcquisitionView!Spec
                   /\ Srv!Spec => ProcessingView!Spec
  <1>1. Rec!Spec => AcquisitionView!Spec
    \* Expanded, both sides are the same formula.
    <2>1. Rec!Init => AcquisitionView!Init
      BY DEF Rec!Init, AcquisitionView!Init, Rec!FromDisk,
           AcquisitionView!FromDisk, Rec!Runs, AcquisitionView!Runs
    <2>2. [Rec!Next]_(Rec!vars) => [AcquisitionView!Next]_(AcquisitionView!vars)
      BY DEF Rec!Next, Rec!PatchThread, Rec!PutPatch, Rec!PatchesDone,
               Rec!GenThread, Rec!GenCheck, Rec!GenGet,
               Rec!PoolDone, Rec!Worker, Rec!TakeChunk,
               Rec!WriteOutFullConfig, Rec!MainThread,
               Rec!ReadPatch, Rec!AllPatchesRead,
               Rec!KeyboardInterrupt, Rec!Reading, Rec!FromDisk,
               Rec!DaqThread, Rec!Connect, Rec!DaqCheck,
               Rec!DaqGet, Rec!Measure, Rec!MeasureFails,
               Rec!Skip, Rec!Update, Rec!Patch, Rec!Before,
               Rec!ChunksOf, Rec!ChunkSize, Rec!Cardinality,
               Rec!vars, Rec!patchVars, Rec!genVars,
               Rec!queueVars, Rec!daqVars, AcquisitionView!Next,
               AcquisitionView!PatchThread,
               AcquisitionView!PutPatch,
               AcquisitionView!PatchesDone,
               AcquisitionView!GenThread,
               AcquisitionView!GenCheck, AcquisitionView!GenGet,
               AcquisitionView!PoolDone, AcquisitionView!Worker,
               AcquisitionView!TakeChunk,
               AcquisitionView!WriteOutFullConfig,
               AcquisitionView!MainThread,
               AcquisitionView!ReadPatch,
               AcquisitionView!AllPatchesRead,
               AcquisitionView!KeyboardInterrupt,
               AcquisitionView!Reading,
               AcquisitionView!FromDisk,
               AcquisitionView!DaqThread,
               AcquisitionView!Connect,
               AcquisitionView!DaqCheck, AcquisitionView!DaqGet,
               AcquisitionView!Measure,
               AcquisitionView!MeasureFails,
               AcquisitionView!Skip, AcquisitionView!Update,
               AcquisitionView!Patch, AcquisitionView!Before,
               AcquisitionView!ChunksOf,
               AcquisitionView!ChunkSize,
               AcquisitionView!Cardinality,
               AcquisitionView!vars, AcquisitionView!patchVars,
               AcquisitionView!genVars,
               AcquisitionView!queueVars,
               AcquisitionView!daqVars
    <2>3. QED
      BY <2>1, <2>2, PTL DEF Rec!Spec, AcquisitionView!Spec
  <1>2. Srv!Spec => ProcessingView!Spec
    <2>1. Srv!Init => ProcessingView!Init
      BY DEF Srv!Init, Srv!StagesInit, Srv!NoFiles, Srv!OnDisk, Srv!Sorted,
               Srv!Rank, Srv!FromDisk, Srv!Runs,
               Srv!Cardinality, ProcessingView!Init,
               ProcessingView!StagesInit,
               ProcessingView!NoFiles, ProcessingView!OnDisk,
               ProcessingView!Sorted, ProcessingView!Rank,
               ProcessingView!FromDisk, ProcessingView!Runs,
               ProcessingView!Cardinality
    <2>2. [Srv!Next]_(Srv!vars) => [ProcessingView!Next]_(ProcessingView!vars)
      BY DEF Srv!Next, Srv!Feed, Srv!Acquire, Srv!AcquisitionEnds, Srv!Main,
               Srv!PutRawFile, Srv!RawFilesPut,
               Srv!ConfigFileMissing, Srv!PostNext,
               Srv!UnpackThread, Srv!UnpackLoop, Srv!UnpackGet,
               Srv!UnpackPoll, Srv!Unpacker, Srv!UnpackerExits,
               Srv!FrackThread, Srv!FrackLoop, Srv!FrackGet,
               Srv!FrackPoll, Srv!Fracker, Srv!FrackerExits,
               Srv!Task, Srv!Sorted, Srv!Rank, Srv!At,
               Srv!Failed, Srv!Exited, Srv!Succeeded,
               Srv!Running, Srv!Removed, Srv!ConfigOf,
               Srv!FromDisk, Srv!Runs, Srv!Cardinality,
               Srv!vars, Srv!inputVars, Srv!unpackVars,
               Srv!frackVars, ProcessingView!Next,
               ProcessingView!Feed, ProcessingView!Acquire,
               ProcessingView!AcquisitionEnds,
               ProcessingView!Main, ProcessingView!PutRawFile,
               ProcessingView!RawFilesPut,
               ProcessingView!ConfigFileMissing,
               ProcessingView!PostNext,
               ProcessingView!UnpackThread,
               ProcessingView!UnpackLoop,
               ProcessingView!UnpackGet,
               ProcessingView!UnpackPoll,
               ProcessingView!Unpacker,
               ProcessingView!UnpackerExits,
               ProcessingView!FrackThread,
               ProcessingView!FrackLoop,
               ProcessingView!FrackGet,
               ProcessingView!FrackPoll, ProcessingView!Fracker,
               ProcessingView!FrackerExits, ProcessingView!Task,
               ProcessingView!Sorted, ProcessingView!Rank,
               ProcessingView!At, ProcessingView!Failed,
               ProcessingView!Exited, ProcessingView!Succeeded,
               ProcessingView!Running, ProcessingView!Removed,
               ProcessingView!ConfigOf, ProcessingView!FromDisk,
               ProcessingView!Runs, ProcessingView!Cardinality,
               ProcessingView!vars, ProcessingView!inputVars,
               ProcessingView!unpackVars,
               ProcessingView!frackVars
    <2>3. QED
      BY <2>1, <2>2, PTL DEF Srv!Spec, ProcessingView!Spec
  <1>3. QED
    BY <1>1, <1>2

\* The program implements the specification of the acquisition and that of
\* the postprocessing, however the threads of both take turns and although one
\* empties the queue the other fills and removes the files it writes.
THEOREM ImplementsHalves == Spec => HalvesImplemented
  <1>1. Init => Rec!Init /\ Srv!Init
    BY InitHalves
  <1>2. FullInv /\ [Next]_vars => [Rec!Next]_(Rec!vars) /\ [Srv!Next]_(Srv!vars)
    BY NextHalves
  <1>3. Spec => Rec!Spec /\ Srv!Spec
    BY <1>1, <1>2, FullInvariant, PTL DEF Spec, Rec!Spec, Srv!Spec
  <1>4. QED
    BY <1>3, SameViews DEF HalvesImplemented

\* Every queue, file and list of processes keeps its type, and no stage runs
\* more processes than it may, whatever the acquisition does meanwhile.
THEOREM TypesAreKept == Spec => []TypeOK
  <1>1. FullInv => TypeOK
    <2> SUFFICES ASSUME FullInv PROVE TypeOK
      OBVIOUS
    <2>1. /\ raw_data \in [Runs -> Config \cup {NoConfig}]
          /\ full_config \in [Runs -> Config \cup {NoConfig}]
          /\ acquired_data \in Seq(Runs)
      BY FullTypes
    <2>2. Rec!TypeOK /\ Srv!TypeOK
      BY ServedRuns DEF FullInv, Rec!PipelineInv, Rec!FlowInv
    <2>3. Acquisition!TypeOK
      BY <2>1, <2>2, SameNames DEF Rec!TypeOK, Acquisition!TypeOK
    <2>4. Processing!TypeOK
      BY <2>1, <2>2, SameNames DEF Srv!TypeOK, Processing!TypeOK,
                                   Srv!TaskType, Processing!TaskType
    <2>5. QED
      BY <2>3, <2>4 DEF TypeOK
  <1>2. QED
    BY <1>1, FullInvariant, PTL

\* With one process in the pool, what the acquisition keeps of the order.
OrderKept == Cardinality(Workers) = 1 => Rec!OrderInv

\* It is an invariant.
LEMMA OrderInvariant == Spec => []OrderKept
  <1>1. Rec!OneProcess <=> Cardinality(Workers) = 1
    <2>1. Rec!Cardinality(Workers) = Cardinality(Workers)
      BY Zenon DEF Rec!Cardinality, Cardinality
    <2>2. QED
      BY <2>1, SameNames DEF Rec!OneProcess
  <1>2. Init => OrderKept
    BY <1>1, InitHalves, RecAssumptions, Rec!OrderInit DEF OrderKept
  <1>3. FullInv /\ OrderKept /\ [Next]_vars => OrderKept'
    <2> SUFFICES ASSUME FullInv, Cardinality(Workers) = 1, Rec!OrderInv, [Next]_vars
                 PROVE  Rec!OrderInv'
      BY DEF OrderKept
    <2>1. [Rec!Next]_(Rec!vars)
      BY NextHalves
    <2>2. Rec!FlowInv
      BY DEF FullInv, Rec!PipelineInv
    <2>3. QED
      BY <1>1, <2>1, <2>2, RecAssumptions, Rec!OrderStep
  <1>4. QED
    BY <1>2, <1>3, FullInvariant, PTL DEF Spec

\* The runs that have a whole hdf file were handed over.
LEMMA StoredRuns ==
    ASSUME FullInv, NEW r \in Runs, Srv!Whole(hdf[r])
    PROVE  /\ r \in Srv!Finished \cup Srv!AtFracker
           /\ r \in HandedRuns /\ r \in Srv!Present
  <1>1. r \in Srv!Finished \cup Srv!AtFracker
    BY SameNames DEF Srv!Finished, Srv!Fracked, Srv!AtFracker
  <1>2. r \in Srv!Present
    BY <1>1, ServedRuns DEF Srv!StagesInv, Srv!PlacesInv, Srv!Somewhere
  <1>3. QED
    BY <1>1, <1>2, ServedRuns

\* With one process in the pool the whole hdf file of a run holds data taken with
\* that run's configuration, whichever thread is ahead.
THEOREM DataIsOfItsRun ==
    ASSUME Cardinality(Workers) = 1
    PROVE  Spec => []DataOfItsRun
  <1>1. FullInv /\ OrderKept => DataOfItsRun
    <2> SUFFICES ASSUME FullInv, OrderKept, NEW r \in Runs, Srv!Whole(hdf[r])
                 PROVE  hdf[r][1] = RunConfig[r]
      BY SameNames DEF DataOfItsRun
    <2>1. r \in HandedRuns
      BY StoredRuns
    <2>2. hdf[r][1] = taken[r]
      BY SameNames DEF FullInv, LinkInv
    <2>3. taken[r] = RunConfig[r]
      BY <2>1, FullTypes, RecAssumptions, Rec!OrderedRunsAsConfigured
         DEF FullInv, OrderKept
    <2>4. QED
      BY <2>2, <2>3
  <1>2. QED
    BY <1>1, FullInvariant, OrderInvariant, PTL

-----------------------------------------------------------------------------
(***************************************************************************)
(* The outcomes of the runs.                                               *)
(***************************************************************************)

\* An acquisition that ended by itself has handed over every run, and with one
\* process in the pool they are the first ones and have their configuration.
OutcomeInv ==
    /\ FullInv
    /\ daq_pc = "done" => HandedRuns = Runs
    /\ Cardinality(Workers) = 1 =>
          /\ HandedRuns = 0 .. Len(handed) - 1
          /\ \A r \in HandedRuns : taken[r] = RunConfig[r]

\* It is an invariant.
LEMMA OutcomeInvariant == Spec => []OutcomeInv
  <1>1. FullInv /\ OrderKept => OutcomeInv
    <2> SUFFICES ASSUME FullInv, OrderKept
                 PROVE  OutcomeInv
      OBVIOUS
    <2>1. handed \in Seq(Runs) /\ HandedRuns = Rec!Elems(handed)
      BY FullTypes
    <2>2. ASSUME daq_pc = "done"
          PROVE  HandedRuns = Runs
      <3>1. Rec!PipelineInv /\ ~stop
        BY SameNames DEF FullInv, Rec!PipelineInv, Rec!FlowInv, Rec!StopInv
      <3>2. Rec!Elems(handed) = Rec!Runs
        BY <2>2, <3>1, RecAssumptions, Rec!AllAcquired
      <3>3. QED
        BY <2>1, <3>2, SameNames
    <2>3. ASSUME Cardinality(Workers) = 1
          PROVE  /\ HandedRuns = 0 .. Len(handed) - 1
                 /\ \A r \in HandedRuns : taken[r] = RunConfig[r]
      <3>1. Rec!PipelineInv /\ Rec!OrderInv
        BY <2>3 DEF FullInv, OrderKept
      <3>2. \A r \in HandedRuns : taken[r] = RunConfig[r]
        BY <2>1, <3>1, RecAssumptions, Rec!OrderedRunsAsConfigured
      <3>3. Len(handed) \in Nat /\ DOMAIN handed = 1 .. Len(handed)
        BY <2>1, LenProperties
      <3>4. \A k \in 1 .. Len(handed) : handed[k] = k - 1
        BY <3>1, <3>3 DEF Rec!OrderInv, Rec!Consecutive
      <3>5. HandedRuns = {k - 1 : k \in 1 .. Len(handed)}
        BY <3>3, <3>4 DEF HandedRuns
      <3>6. {k - 1 : k \in 1 .. Len(handed)} = 0 .. Len(handed) - 1
        <4>1. ASSUME NEW q \in 0 .. Len(handed) - 1
              PROVE  q + 1 \in 1 .. Len(handed) /\ q = (q + 1) - 1
          BY <3>3
        <4>2. \A k \in 1 .. Len(handed) : k - 1 \in 0 .. Len(handed) - 1
          BY <3>3
        <4>3. QED
          BY <4>1, <4>2
      <3>7. QED
        BY <3>2, <3>5, <3>6
    <2>4. QED
      BY <2>2, <2>3 DEF OutcomeInv
  <1>2. QED
    BY <1>1, FullInvariant, OrderInvariant, PTL

\* A run handed over that has no whole hdf file yet is pending.
LEMMA PendingRuns ==
    ASSUME FullInv
    PROVE  Outcomes!Pending = {r \in Srv!Present : ~Srv!Whole(hdf[r])}
  <1>1. HandedRuns \subseteq Runs /\ Srv!Present \subseteq HandedRuns
    BY ServedRuns
  <1>2. QED
    BY <1>1, SameNames DEF Outcomes!Pending, Outcomes!Stored, Srv!Present, OfHanded

\* A step of the acquisition measures a run, ends the acquisition, or changes
\* nothing of the outcomes.
LEMMA AcquireOutcome ==
    ASSUME OutcomeInv, OutcomeInv', Acquire
    PROVE  [Outcomes!Next]_(Outcomes!vars)
  <1> USE DEF Acquisition!daqVars
  <1>1. /\ FullInv /\ Acquisition!Next /\ Remember /\ UNCHANGED <<hdf, fracking_done>>
    BY DEF OutcomeInv, Acquire, processingVars
  <1>2. HandedRuns \subseteq Runs
    BY <1>1, FullTypes
  <1>3. CASE ~Measures
    <2>1. handed' = handed
      BY <1>1, <1>3, QuietStep DEF Remember
    <2>2. HandedRuns' = HandedRuns /\ OfHanded(raw_data)' = OfHanded(raw_data)
      BY <1>1, <1>3, <2>1, HandedMore, QuietServe
    <2>3. CASE daq_pc' = daq_pc
      BY <1>1, <2>2, <2>3 DEF Outcomes!vars, acquisition
    <2>4. CASE daq_pc' # daq_pc
      <3>1. daq_pc \in {"connect", "check", "get"}
        BY <1>1, <1>3, <2>4, QuietLink
      <3>2. acquisition = "going on"
        BY <3>1 DEF acquisition
      <3>3. CASE acquisition' = "going on"
        BY <1>1, <2>2, <3>2, <3>3 DEF Outcomes!vars
      <3>4. CASE daq_pc' = "done"
        <4>1. HandedRuns' = Runs'
          BY <3>4 DEF OutcomeInv
        <4>2. HandedRuns = Runs
          BY <2>2, <4>1 DEF Runs, Acquisition!Runs
        <4>3. acquisition' = "complete"
          BY <3>4 DEF acquisition
        <4>4. Outcomes!AcquisitionEnds
          BY <1>1, <2>2, <3>2, <4>2, <4>3 DEF Outcomes!AcquisitionEnds
        <4>5. QED
          BY <4>4 DEF Outcomes!Next
      <3>5. CASE daq_pc' \in {"failed", "dead"}
        <4>1. acquisition' = "failed"
          BY <3>5 DEF acquisition
        <4>2. Outcomes!AcquisitionEnds
          BY <1>1, <2>2, <3>2, <4>1 DEF Outcomes!AcquisitionEnds
        <4>3. QED
          BY <4>2 DEF Outcomes!Next
      <3>6. QED
        BY <3>3, <3>4, <3>5 DEF acquisition
    <2>5. QED
      BY <2>3, <2>4
  <1>4. CASE Acquisition!Measure
    <2>1. /\ run \in Runs /\ run \notin HandedRuns /\ device' \in Config
          /\ HandedRuns' = HandedRuns \cup {run}
          /\ handed' = Append(handed, run) /\ handed \in Seq(Runs)
          /\ taken' = [taken EXCEPT ![run] = device']
          /\ taken \in [Runs -> Config \cup {NoConfig}]
      BY <1>1, <1>4, FullTypes, RunInHand, MeasureRecord, HandedMore DEF Measures
    <2>2. \A r \in Runs : raw_data'[r] = IF r = run THEN device' ELSE raw_data[r]
      BY <1>1, <1>4, FullTypes, MeasureRecord
    <2>3. OfHanded(raw_data)' = [OfHanded(raw_data) EXCEPT ![run] = device']
      BY <2>1, <2>2 DEF OfHanded, Runs, Acquisition!Runs
    <2>4. acquisition = "going on" /\ acquisition' = "going on"
      BY <1>4 DEF Acquisition!Measure, acquisition
    <2>5. ASSUME Cardinality(Workers) = 1
          PROVE  /\ \A q \in Runs : q < run => q \in HandedRuns
                 /\ device' = RunConfig[run]
      <3>1. HandedRuns = 0 .. Len(handed) - 1
        BY <2>5 DEF OutcomeInv
      <3>2. /\ HandedRuns' = 0 .. Len(handed') - 1
            /\ \A r \in HandedRuns' : taken'[r] = RunConfig[r]
        BY <2>5 DEF OutcomeInv
      <3>3. Len(handed) \in Nat /\ Len(handed') = Len(handed) + 1
        BY <2>1, LenProperties, AppendProperties
      <3>4. taken'[run] = RunConfig[run] /\ taken'[run] = device'
        BY <2>1, <3>2
      <3>5. run \in 0 .. Len(handed) /\ run \notin 0 .. Len(handed) - 1
        BY <2>1, <3>1, <3>2, <3>3
      <3>6. \A q \in Runs : q < run => q \in 0 .. Len(handed) - 1
        BY <3>3, <3>5, RunCountAssumption, SameNames
      <3>7. QED
        BY <3>1, <3>4, <3>6
    <2>6. OfHanded(raw_data)'[run] = device'
      BY <2>1, <2>3 DEF OfHanded
    <2>7. Outcomes!Measure(run)
      BY <1>1, <2>1, <2>3, <2>4, <2>5, <2>6 DEF Outcomes!Measure
    <2>8. QED
      BY <2>1, <2>7 DEF Outcomes!Next
  <1>5. CASE Acquisition!MeasureFails
    <2>1. /\ run \notin HandedRuns /\ HandedRuns' = HandedRuns
          /\ \A r \in Runs : r # run => raw_data'[r] = raw_data[r]
      BY <1>1, <1>5, FullTypes, RunInHand, FailRecord, HandedMore DEF Measures
    <2>2. OfHanded(raw_data)' = OfHanded(raw_data)
      BY <2>1 DEF OfHanded, Runs, Acquisition!Runs
    <2>3. acquisition = "going on" /\ acquisition' = "failed"
      BY <1>5 DEF Acquisition!MeasureFails, acquisition
    <2>4. Outcomes!AcquisitionEnds
      BY <1>1, <2>1, <2>2, <2>3 DEF Outcomes!AcquisitionEnds
    <2>5. QED
      BY <2>4 DEF Outcomes!Next
  <1>6. QED
    BY <1>1, <1>3, <1>4, <1>5, RunInHand DEF Measures

\* A list of tasks whose runs are pending is given up in a step that removes
\* the raw files of some of them.
LEMMA RunsGivenUp ==
    ASSUME FullInv, NEW rs, rs \subseteq Srv!Present, \A r \in rs : ~Srv!Whole(hdf[r]),
           HandedRuns' = HandedRuns,
           OfHanded(raw_data)' = Srv!Removed(OfHanded(raw_data), rs),
           UNCHANGED <<hdf, daq_pc, fracking_done>>
    PROVE  Outcomes!Next
  <1>1. rs \subseteq Outcomes!Pending /\ rs \in SUBSET Runs
    BY PendingRuns, ServedRuns
  <1>2. OfHanded(raw_data)' = [r \in Runs |-> IF r \in rs THEN NoConfig
                                               ELSE OfHanded(raw_data)[r]]
    BY SameNames DEF Srv!Removed
  <1>3. Outcomes!GiveUp(rs)
    BY <1>1, <1>2 DEF Outcomes!GiveUp, acquisition
  <1>4. QED
    BY <1>1, <1>3 DEF Outcomes!Next

\* A step of the postprocessing stores a run or a part of it, gives runs up, ends
\* the program, or changes nothing of the outcomes.
LEMMA ProcessOutcome ==
    ASSUME FullInv, Process
    PROVE  [Outcomes!Next]_(Outcomes!vars)
  <1> USE DEF Srv!inputVars, Srv!unpackVars, Srv!frackVars
  <1>1. Srv!PostNext /\ HandedRuns' = HandedRuns /\ UNCHANGED daq_pc
    BY ProcessServe DEF Process, acquisitionVars
  <1>2. /\ Srv!TypeOK /\ Srv!OnceInv /\ Srv!PlacesInv /\ Srv!FilesInv /\ Srv!EventInv
        /\ Srv!Present \subseteq HandedRuns /\ HandedRuns \subseteq Runs
    BY ServedRuns DEF Srv!StagesInv
  <1>3. acquisition' = acquisition
    BY <1>1 DEF acquisition
  <1>4. CASE UNCHANGED <<OfHanded(raw_data), hdf, fracking_done>>
    BY <1>1, <1>3, <1>4 DEF Outcomes!vars
  <1>5. CASE Srv!UnpackPoll
    <2>1. Srv!Failed(unpacking) \subseteq Srv!AtUnpacker
      BY DEF Srv!Failed, Srv!At, Srv!AtUnpacker, Srv!RunsOf
    <2>2. \A r \in Srv!AtUnpacker : r \in Srv!Present /\ ~Srv!Whole(hdf[r])
      BY <1>2, StoredRuns DEF Srv!PlacesInv, Srv!Somewhere
    <2>3. /\ OfHanded(raw_data)' = Srv!Removed(OfHanded(raw_data), Srv!Failed(unpacking))
          /\ UNCHANGED <<hdf, fracking_done>>
      BY <1>5 DEF Srv!UnpackPoll
    <2>4. QED
      BY <1>1, <2>1, <2>2, <2>3, RunsGivenUp
  <1>6. CASE Srv!FrackPoll
    <2>1. ASSUME NEW r \in Srv!Failed(fracking)
          PROVE  r \in Srv!Present /\ ~Srv!Whole(hdf[r])
      <3>1. PICK i \in DOMAIN fracking : r = fracking[i].run /\ fracking[i].returncode = "failed"
        BY <2>1 DEF Srv!Failed, Srv!At
      <3>2. ~Srv!Whole(hdf[fracking[i].run])
        BY <1>2, <3>1 DEF Srv!FilesInv
      <3>3. fracking[i].run \in Srv!AtFracker
        BY DEF Srv!AtFracker, Srv!RunsOf
      <3>4. QED
        BY <1>2, <3>1, <3>2, <3>3 DEF Srv!PlacesInv, Srv!Somewhere
    <2>2. /\ OfHanded(raw_data)' = Srv!Removed(OfHanded(raw_data), Srv!Failed(fracking))
          /\ UNCHANGED <<hdf, fracking_done>>
      BY <1>6 DEF Srv!FrackPoll
    <2>3. QED
      BY <1>1, <2>1, <2>2, RunsGivenUp
  <1>7. CASE Srv!FrackLoop /\ fracking_done' # fracking_done
    <2>1. /\ frack_pc = "loop" /\ unpacking_done /\ root_data_queue = <<>>
          /\ fracking = <<>> /\ fracking_done' = TRUE
          /\ UNCHANGED <<OfHanded(raw_data), hdf>>
      BY <1>7 DEF Srv!FrackLoop
    <2>2. /\ unpack_pc = "done" /\ daq_done
          /\ acquired_data = <<>> /\ unpacking = <<>>
      BY <1>2, <2>1 DEF Srv!EventInv
    <2>3. /\ Srv!Waiting = {} /\ Srv!AtUnpacker = {} /\ Srv!Unpacked = {}
          /\ Srv!AtFracker = {}
      BY <2>1, <2>2, EmptySeq DEF Srv!Waiting, Srv!AtUnpacker, Srv!Unpacked,
           Srv!AtFracker, Srv!RunsOf, Srv!Elems
    <2>4. Srv!Present \subseteq Srv!Finished
      BY <1>2, <2>1, <2>2, <2>3 DEF Srv!PlacesInv, Srv!Somewhere
    <2>5. \A r \in Srv!Present : Srv!Whole(hdf[r])
      BY <2>4 DEF Srv!Finished, Srv!Fracked
    <2>6. Outcomes!Pending = {}
      BY <2>5, PendingRuns
    <2>7. acquisition # "going on"
      BY <2>2 DEF FullInv, LinkInv, acquisition
    <2>8. Outcomes!End
      BY <1>1, <1>3, <2>1, <2>6, <2>7 DEF Outcomes!End
    <2>9. QED
      BY <2>8 DEF Outcomes!Next
  <1>8. ASSUME NEW i \in DOMAIN fracking, Srv!Fracker(i), hdf' # hdf
        PROVE  Outcomes!Next
    <2> DEFINE r == fracking[i].run
               c == OfHanded(full_config)[r]
    <2>1. /\ fracking[i].returncode = "none"
          /\ \/ hdf' = [hdf EXCEPT ![r] = <<root_data[r], c>>]
             \/ hdf' = [hdf EXCEPT ![r] = Partial]
          /\ UNCHANGED <<OfHanded(raw_data), fracking_done>>
      BY <1>8, SameTasks DEF Srv!Fracker, Srv!FrackerExits
    <2>2. r \in Srv!AtFracker
      BY DEF Srv!AtFracker, Srv!RunsOf
    <2>3. r \in Srv!Present /\ hdf[r] = NoConfig
      BY <1>2, <2>1, <2>2 DEF Srv!PlacesInv, Srv!Somewhere, Srv!FilesInv, Srv!Unfracked
    <2>4. r \in HandedRuns /\ r \in Runs /\ r \in Outcomes!Pending
      BY <1>2, <2>3, PendingRuns, SameNames
    <2>5. OfHanded(raw_data)[r] = raw_data[r] /\ c = full_config[r]
      BY <2>4 DEF OfHanded
    <2>6. raw_data[r] # NoConfig /\ root_data[r] \notin {NoConfig, Partial}
      BY <1>2, <2>2, <2>3, <2>5, SameNames DEF Srv!Present, Srv!FilesInv
    <2>7. root_data[r] = OfHanded(raw_data)[r]
      BY <2>4, <2>5, <2>6 DEF FullInv, LinkInv
    <2>8. c \in Config
      <3>1. c # NoConfig
        BY <1>2, <2>3, <2>4, SameNames DEF Srv!FilesInv, Srv!Present
      <3>2. QED
        BY <2>4, <2>5, <3>1, FullTypes
    <2> HIDE DEF r, c
    <2>9. CASE hdf' = [hdf EXCEPT ![r] = <<root_data[r], c>>]
      <3>1. Outcomes!Store(r)
        BY <1>1, <1>3, <2>1, <2>3, <2>4, <2>7, <2>8, <2>9 DEF Outcomes!Store
      <3>2. QED
        BY <2>4, <3>1 DEF Outcomes!Next
    <2>10. CASE hdf' = [hdf EXCEPT ![r] = Partial]
      <3>1. Outcomes!LeavePart(r)
        BY <1>1, <1>3, <2>1, <2>4, <2>10 DEF Outcomes!LeavePart
      <3>2. QED
        BY <2>4, <3>1 DEF Outcomes!Next
    <2>11. QED
      BY <2>1, <2>9, <2>10
  <1>9. \/ UNCHANGED <<OfHanded(raw_data), hdf, fracking_done>>
        \/ Srv!UnpackPoll \/ Srv!FrackPoll
        \/ Srv!FrackLoop /\ fracking_done' # fracking_done
        \/ \E i \in DOMAIN fracking : Srv!Fracker(i) /\ hdf' # hdf
    BY <1>1 DEF Srv!PostNext, Srv!UnpackThread, Srv!FrackThread, Srv!UnpackLoop,
         Srv!UnpackGet, Srv!Unpacker, Srv!UnpackerExits, Srv!FrackLoop,
         Srv!FrackGet, Srv!Fracker, Srv!FrackerExits
  <1>10. QED
    BY <1>4, <1>5, <1>6, <1>7, <1>8, <1>9

\* The program does with the runs of a procedure what RunOutcomes promises,
\* although no variable of it counts them: each is measured once, stored with
\* the data that was taken or given up, and decided when main stops waiting.
THEOREM ImplementsOutcomes == Spec => RunsAreDecided
  <1>1. Init => Outcomes!Init
    <2> SUFFICES ASSUME Init PROVE Outcomes!Init
      OBVIOUS
    <2>1. HandedRuns = {}
      BY EmptySeq DEF Init, HandedRuns
    <2>2. OfHanded(raw_data) = [r \in Runs |-> NoConfig]
      BY <2>1 DEF OfHanded
    <2>3. hdf = [r \in Runs |-> NoConfig] /\ fracking_done = FALSE
      BY SameNames DEF Init, Processing!StagesInit, Processing!NoFiles
    <2>4. acquisition = "going on"
      BY DEF Init, Acquisition!Init, acquisition
    <2>5. QED
      BY <2>1, <2>2, <2>3, <2>4 DEF Outcomes!Init
  <1>2. OutcomeInv /\ OutcomeInv' /\ [Next]_vars => [Outcomes!Next]_(Outcomes!vars)
    <2> SUFFICES ASSUME OutcomeInv, OutcomeInv', [Next]_vars
                 PROVE  [Outcomes!Next]_(Outcomes!vars)
      OBVIOUS
    <2>1. CASE Acquire
      BY <2>1, AcquireOutcome
    <2>2. CASE Process
      BY <2>2, ProcessOutcome DEF OutcomeInv
    <2>3. CASE UNCHANGED vars
      <3>1. UNCHANGED <<handed, raw_data, daq_pc, hdf, fracking_done>>
        BY <2>3 DEF vars, acquisitionVars, processingVars, sharedVars, historyVars
      <3>2. UNCHANGED <<HandedRuns, acquisition>>
        BY <3>1 DEF HandedRuns, acquisition
      <3>3. UNCHANGED OfHanded(raw_data)
        BY <3>1, <3>2 DEF OfHanded, Runs, Acquisition!Runs
      <3>4. QED
        BY <3>1, <3>2, <3>3 DEF Outcomes!vars
    <2>4. QED
      BY <2>1, <2>2, <2>3 DEF Next
  <1>3. QED
    BY <1>1, <1>2, OutcomeInvariant, PTL DEF Spec, RunsAreDecided, Outcomes!Spec

\* What RunOutcomes promises is enough: a whole hdf file has the data of its raw
\* file, which is there; in the end a run has a raw file if, and only if, its hdf
\* file is whole, and no run of a complete acquisition is left out.
THEOREM OutcomesAreDecided == Outcomes!Spec => []Outcomes!Decided
  <1> DEFINE Pair(r) == r \in Runs =>
          /\ OfHanded(raw_data)[r] # NoConfig => r \in HandedRuns
          /\ hdf[r] \notin {NoConfig, Partial} =>
                OfHanded(raw_data)[r] # NoConfig /\ hdf[r][1] = OfHanded(raw_data)[r]
          /\ Cardinality(Workers) = 1 /\ OfHanded(raw_data)[r] # NoConfig =>
                OfHanded(raw_data)[r] = RunConfig[r]
        Ended ==
          /\ HandedRuns \subseteq Runs
          /\ DOMAIN OfHanded(raw_data) = Runs /\ DOMAIN hdf = Runs
          /\ acquisition = "complete" => HandedRuns = Runs
          /\ fracking_done => acquisition # "going on" /\ Outcomes!Pending = {}
        Inv == Ended /\ \A r \in Runs : Pair(r)
  <1>1. Outcomes!Init => Inv
    BY DEF Outcomes!Init
  <1>2. Inv /\ [Outcomes!Next]_(Outcomes!vars) => Inv'
    <2> SUFFICES ASSUME Inv, [Outcomes!Next]_(Outcomes!vars)
                 PROVE  Inv'
      OBVIOUS
    <2>1. ASSUME NEW r \in Runs, Outcomes!Measure(r) PROVE Inv'
      <3>1. Ended'
        BY <2>1 DEF Outcomes!Measure
      <3>2. ASSUME NEW q \in Runs PROVE Pair(q)'
        <4>1. CASE q = r
          BY <2>1, <4>1 DEF Outcomes!Measure
        <4>2. CASE q # r
          BY <2>1, <4>2 DEF Outcomes!Measure
        <4>3. QED
          BY <4>1, <4>2
      <3>3. QED
        BY <3>1, <3>2
    <2>2. ASSUME NEW r \in Runs, Outcomes!Store(r) PROVE Inv'
      <3>1. Ended'
        BY <2>2 DEF Outcomes!Store, Outcomes!Pending, Outcomes!Stored
      <3>2. ASSUME NEW q \in Runs PROVE Pair(q)'
        <4>1. CASE q = r
          <5>1. /\ OfHanded(raw_data)[r] # NoConfig /\ UNCHANGED HandedRuns
                /\ r \in HandedRuns
                /\ OfHanded(raw_data)' = OfHanded(raw_data)
            BY <2>2 DEF Outcomes!Store, Outcomes!Pending, Outcomes!Stored
          <5>2. hdf'[r][1] = OfHanded(raw_data)[r]
            <6>1. PICK c \in Config :
                    hdf' = [hdf EXCEPT ![r] = <<OfHanded(raw_data)[r], c>>]
              BY <2>2 DEF Outcomes!Store
            <6>2. hdf'[r] = <<OfHanded(raw_data)[r], c>>
              BY <6>1
            <6>3. <<OfHanded(raw_data)[r], c>>[1] = OfHanded(raw_data)[r]
              OBVIOUS
            <6>4. hdf'[r][1] = <<OfHanded(raw_data)[r], c>>[1]
              BY <6>2
            <6>5. QED
              BY <6>3, <6>4
          <5>3. Cardinality(Workers) = 1 => OfHanded(raw_data)[r] = RunConfig[r]
            BY <5>1
          <5>4. QED
            BY <4>1, <5>1, <5>2, <5>3
        <4>2. CASE q # r
          BY <2>2, <4>2 DEF Outcomes!Store
        <4>3. QED
          BY <4>1, <4>2
      <3>3. QED
        BY <3>1, <3>2
    <2>3. ASSUME NEW rs \in SUBSET Runs, Outcomes!GiveUp(rs) PROVE Inv'
      <3>1. Ended'
        BY <2>3 DEF Outcomes!GiveUp, Outcomes!Pending, Outcomes!Stored
      <3>2. ASSUME NEW q \in Runs PROVE Pair(q)'
        <4>1. CASE q \in rs
          BY <2>3, <4>1 DEF Outcomes!GiveUp, Outcomes!Pending, Outcomes!Stored
        <4>2. CASE q \notin rs
          BY <2>3, <4>2 DEF Outcomes!GiveUp
        <4>3. QED
          BY <4>1, <4>2
      <3>3. QED
        BY <3>1, <3>2
    <2>4. ASSUME NEW r \in Runs, Outcomes!LeavePart(r) PROVE Inv'
      <3>1. Ended'
        BY <2>4 DEF Outcomes!LeavePart, Outcomes!Pending, Outcomes!Stored
      <3>2. ASSUME NEW q \in Runs PROVE Pair(q)'
        <4>1. CASE q = r
          BY <2>4, <4>1 DEF Outcomes!LeavePart, Outcomes!Pending, Outcomes!Stored
        <4>2. CASE q # r
          BY <2>4, <4>2 DEF Outcomes!LeavePart
        <4>3. QED
          BY <4>1, <4>2
      <3>3. QED
        BY <3>1, <3>2
    <2>5. CASE Outcomes!AcquisitionEnds
      BY <2>5 DEF Outcomes!AcquisitionEnds, Outcomes!Pending, Outcomes!Stored
    <2>6. CASE Outcomes!End
      BY <2>6 DEF Outcomes!End, Outcomes!Pending, Outcomes!Stored
    <2>7. CASE UNCHANGED Outcomes!vars
      BY <2>7 DEF Outcomes!vars, Outcomes!Pending, Outcomes!Stored
    <2>8. QED
      BY <2>1, <2>2, <2>3, <2>4, <2>5, <2>6, <2>7 DEF Outcomes!Next
  <1>3. Inv => Outcomes!Decided
    <2> SUFFICES ASSUME Inv PROVE Outcomes!Decided
      OBVIOUS
    <2>1. ASSUME NEW r \in Runs, Outcomes!Stored(r)
          PROVE  /\ hdf[r][1] = OfHanded(raw_data)[r]
                 /\ Cardinality(Workers) = 1 => OfHanded(raw_data)[r] = RunConfig[r]
      BY <2>1 DEF Outcomes!Stored
    <2>2. ASSUME NEW r \in Runs, fracking_done
          PROVE  Outcomes!Stored(r) <=> OfHanded(raw_data)[r] # NoConfig
      BY <2>2 DEF Outcomes!Stored, Outcomes!Pending
    <2>3. QED
      BY <2>1, <2>2 DEF Outcomes!Decided
  <1>4. QED
    BY <1>1, <1>2, <1>3, PTL DEF Outcomes!Spec

\* So it is in the program: whatever the threads and processes are at, what a
\* run has been decided to be, and that all are decided when main stops waiting.
THEOREM EveryRunEnds == Spec => []Outcomes!Decided
  <1>1. RunsAreDecided => Outcomes!Spec
    BY DEF RunsAreDecided
  <1>2. QED
    BY <1>1, ImplementsOutcomes, OutcomesAreDecided
=============================================================================
