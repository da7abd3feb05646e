# A formal model of the Datenraffinerie

TLA+ modules, TLC configurations and TLAPS proofs for the programs of this
repository that take data from an HGCROC test system: the DAQ coordinator, the
adapters that drive the DAQ programs, the multi-threaded pipeline of
`datenraffinerie`, `acquire-data` and `process-raw-data`, the generation of the
configurations it measures with, and the compiled tools `fracker` and
`turbo-pump` with the command line library they carry. Paths in this file are
relative to the repository; `daq_coordination.py` and the like are in
`datenraffinerie/`, `fracker.cc` and the like in `tools/`.

Run the checks inside `tla/`: `tlc -workers 2 -config CoordSafety.cfg
MCDaqCoordinator` and likewise for each run of `PROJECT.json`;
`tlapm SequenceLemmas.tla`, and the same for each `...Proofs` module, for the
proofs.

## 1. Inventory

| component | state it keeps | operations | talks to |
|---|---|---|---|
| DAQ coordinator (`daq_coordination.py`, `DAQCoordinator`) | `lock`, `initialized`, `run_counter`, the file `/tmp/measurement_data.raw`, stored files | acquire/release lock, initialize, configure, measure, read_target, reset_target, shutdown | clients over one ZMQ REP socket; slow control server; DAQSystem |
| coordinator client (`DAQCoordClient`) | its token, `zmq_transaction_running` | constructor (20 tries for the lock), initialize (+ two configures for the TDCs), measure, read_target, reset_target, destructor | the coordinator over a REQ socket |
| DAQ system (`control_adapter.py`) | `client_started`, the data folder, a copy of the server's configuration | initialize, configure, set up / tear down the data-taking context, take_data | daq-server and daq-client (external programs); files |
| configuration (`config_utilities.py`, `dict_utils.py`) | none / the generator's `current_state` | update_dict, diff_dict, scan patches | used by the two below |
| patch and full-configuration threads (`gen_configurations.py`) | two queues, two events, a process pool, one dictionary updated in place | write patch, write full configuration, hand the run on | acquisition |
| acquisition (`acquire_data.py`) | queue and event in, queue and event out, `stop` | connect, measure, read back, skip (`--keep`) | coordinator client, postprocessing |
| postprocessing (`postprocessing_queue.py`, `analysis_utilities.py`) | two queues, three events, two bounded lists of running processes, raw/root/hdf files | start, poll and clean up after unpackers and frackers | external unpacker, fracker |
| main programs (`full_daq.py`, `acquire_data.pipelined_main`, `postprocessing_queue.main`) | the queues and events | start the threads, wait for the last event | all of the above |
| fracker (`fracker.cc`, `hgcroc_caching.cc`, `root-tools.cc`, `yaml-tools.h`) | the cache of configuration values of each channel, a block buffer | overlay configurations, map channels to registers, merge data and configuration into blocks of rows | root, YAML and hdf files |
| turbo-pump and HDF tables (`turbo-pump.cc`, `hdf-utils.cc`) | the tables of a file, and its pandas frames: blocks of columns with two axes | create, write, extend and merge tables and frames | hdf files |
| command line of the tools (`include/CLI11.hpp`) | options with their results, apps with their subcommands, the words still to be read | define a parser, parse words, configuration files and the environment, convert, check what is required | the Python programs that start the tools (`analysis_utilities.py`) |

What is hard to test here: clients of one coordinator that interleave, die or
are refused; a coordinator that dies in a handler and comes back; caches of
configuration on three machines; a data file written by another program at any
time; five threads, a process pool and external processes that tell each other
through events that there is nothing more to come. `PROJECT.json` lists these
hazards at their lines, with the property that covers each.

What must hold, component by component:

* coordinator: a token is its client's; only the holder reaches the hardware; a
  session does not survive its lock; data answers the measurement it was taken
  for; requests are answered and locks come back.
* DAQ system: the server measures with what the run asked for; a run's data is
  that run's file; a measure ends if the programs do their part.
* patches and acquisition: every run is acquired once, with its files, in the
  state its configuration describes; nobody waits for an item that cannot come.
* postprocessing: a run is in one place; files live as long as somebody needs
  them; "done" means done, and is reached.
* configurations: the system has, run after run, what the procedure says,
  although only differences are sent and dictionaries are shared; what was
  yielded stays what it was.
* fracker and merger: every row once and in order, whatever the block size; a
  configuration value in a row is the one of that row's channel; success means
  that everything is in the file; rows that belong together stay together.
* command line: no word is lost; a program goes on only with what it declared,
  and what the Python programs write arrives as they mean it, or it is known
  when it does not.

## 2. Modules

| module | models | composed from |
|---|---|---|
| `DaqAccess` | the abstract promise: grant, drive, release | |
| `DaqCoordinator` | coordinator, its socket, its clients | refines `DaqAccess` |
| `DaqCoordinatorProofs` | theorems about `DaqCoordinator`: tokens, the lock, the refinement, answers and stored files | |
| `DaqSystem` | `DAQSystem` under the coordinator's handlers, with daq-server, daq-client and the file system | |
| `DaqSystemProofs` | theorems about `DaqSystem` | |
| `RunPipeline` | patch thread, pool, acquisition; `datenraffinerie` and `acquire-data` | |
| `PostProcessing` | unpack and frack threads; `datenraffinerie` and `process-raw-data` | |
| `Sorting` | the items of a sequence at a set of places, in their order | |
| `SequenceLemmas` | facts about queues without repetitions or with consecutive numbers, about cutting a list in chunks, and about induction over sets of numbers, for the proofs | `Sorting` |
| `RunPipelineProofs`, `PostProcessingProofs` | theorems about these two | `SequenceLemmas` |
| `RunOutcomes` | the abstract promise: a run is measured, then stored or given up | |
| `FullDaq` | the program `datenraffinerie` | `RunPipeline` and `PostProcessing` over shared queues, events and files; refines `RunOutcomes` |
| `FullDaqProofs` | theorems about `FullDaq` | `RunPipelineProofs` and `PostProcessingProofs` on its views, `SequenceLemmas` |
| `DictUtils` | overlay and difference of configurations in Python | the trees of `YamlTools` |
| `ConfigGeneration` | the generators of a procedure's configurations | `DictUtils` |
| `YamlTools` | overlay and difference of YAML nodes in the tools | |
| `HgcrocCache` | keys, columns and cached values of a channel | |
| `RootTools` | trees and columns of a root file, their types | |
| `HdfTables` | PyTables tables: types, writing, extending, merging | `RootTools` |
| `Fracker` | `main` of the fracker | `HgcrocCache`, `HdfTables`; the overlay is a constant |
| `TurboPump` | `main` of the merger | `HdfTables` |
| `Tools` | both programs on the files of one directory | `Fracker` and `TurboPump` |
| `ToolsProofs` | theorems about `Tools` | `SequenceLemmas` |
| `HdfFrame` | pandas frames in a file, written in blocks and appended | |
| `HdfFrameProofs` | theorems about `HdfFrame` | `SequenceLemmas` |
| `CliOption` | an option, and its results up to the value | |
| `CliSetup` | how a program builds its parser | `CliOption` |
| `CliConfig` | the items of a configuration file | |
| `CliParser` | the parse as a state machine | `CliSetup`, `CliConfig` |
| `ToolParsers` | the tools' parsers and the lines Python writes for them | `CliParser` |
| `MC...` | instances for TLC | |

### DaqCoordinator

The coordinator is single threaded: it receives one message, runs the handler
and only then receives the next, so each branch of `run` is one action:
`Acquire`, `DenyAccess`, `Release`, `Initialize`, `Configure`,
`MeasureRefused`, `MeasureDone`, `MeasureFailed`, `MeasureWarned`,
`ReadTarget`, `ResetTarget`, and `Undecodable` and `FatalMessage` for what does
not parse or ends the process. What the hardware answers is a choice among the
outcomes each call has: success, the `ValueError` the handler reports, and the
exception nobody catches. An uncaught exception is `Crash`: memory and received
requests are gone, files stay. `MeasureWarned` shows why that matters: a
`RuntimeWarning` (line 655) is answered with an error, the handler then goes on
to the data file (line 668), and the process ends there or at its second send
(line 683).

A token is the uuid string of line 439, modelled as the number of its issue;
`None` and the text `'None'` (line 158 writes `str(content)`) are two more
values. Each client is a program counter over the calls of `DAQCoordClient`;
its REQ socket holds at most one request and one reply. `Interrupt` is an
exception while the client waits (the destructor then drains the reply, line
273), `Kill` the end of the process. History variables record whom a token was
issued to, whose session is on the hardware and who reached it last.

### DaqSystem

Opens the box "the DAQ system" of the coordinator. `Initialize` performs a
prefix of the six steps of the initialize handler; `Measure`, `Configure`,
`StartClient`, `StartServer`, `Poll`, `Wait` and `Collect` are the handler of
measure down to `take_data`, cut where the daq-server or the daq-client can act
in between, with one step for each attempt to start a program. A configuration
of the server is its active menu and what is in its menus; `server_config` is the
adapter's copy, `device_config` what the server has. `ConfigureServer` updates the
copy and compares the run with the menu the run makes active, as
`control_adapter.py:137-165` does; the history variable `switched` says that a run
since the last write asked only for another menu. The programs are external: the
server ends its run or fails in it when it will (`ServerEndsRun`), or never; the
client writes a run it has pulled when it will (`WriteFile`), or never. A request
without an answer leaves the handler in `recv` (`Hang`). With `Pipelined` the
caller is `pipelined_acquire_data`: one initialize per lock, and a release after
the first error.

### RunPipeline

A configuration is a function from parameters to values; a run's patch is the
set of parameters in which it differs from the run before
(`run_config_generator`, `config_utilities.py:61-76`), and `Update` overlays it.
`RunConfig` is what the generator's `current_state` goes through. The pool is
modelled as `multiprocessing.Pool.starmap` works: the generator is drawn to its
end first, the items are cut in chunks of `len / (4 * processes)`, rounded up,
and each process puts the items of its chunk in turn. `GenCheck`/`GenGet` and
`DaqCheck`/`DaqGet` separate the look at event and queue from the blocking
`get()`. `acquire-data` replaces the first two threads by its main thread.

### PostProcessing

Each thread is a loop of three steps: the loop condition, the start of one
process when there is room, and the poll of all. The three parts of the loop
condition are evaluated in one step. That is what the code relies on and what
its order of evaluation allows: the event is read first and is set by the
producer after its last item, so a true event means that the queue read after it
is complete. A poll collects the places of the tasks that exited, as
`del_indices` does: `Running` is the list without them, `Succeeded` the runs
passed on, both in the order of the list. An unpacker or fracker ends at any
time, with success (and the file) or not. One that fails has created its file or
not (`fracker.cc:105` creates it before most of the ends with an error), and what
it has written of it, `Partial`, stays: the polls remove the raw file of a failed
process, and the root file after a fracker, but no root file of a failed unpacker
and no hdf file. `Whole` is a file a process has finished. What is in a file is a member of
`Content`: these threads copy names and never look into one, so `Acquire` writes
a raw and a configuration file with any content. `FullDaq` takes the
configurations for `Content`.

### FullDaq

Both modules instantiated over the same queue (`daq_out_unpack_in`), event
(`daq_done`) and files, one half moving at a time. As the postprocessing
empties the queue and removes files, two history variables remember what was
put in (`handed`) and written (`taken`), see `Remember`. With them the program
is looked at from either side. `AcquisitionView` is the acquisition whose queue
and files nobody takes away from. `ProcessingView` is the postprocessing for
which a run's files appear in the step that hands the run over (`OfHanded`), as
its `Acquire` says, although the configuration file was written long before.
`HalvesImplemented` says that the program refines both: what the modules of the
halves promise alone, they keep together.

`RunOutcomes` is what one sees of the program from outside, without queues,
events, threads and processes: a set of measured runs, their raw and hdf files,
and whether the acquisition and main are through. A step measures one run more,
stores a pending run (its hdf file gets the data of its raw file), leaves a part
of an hdf file, gives pending runs up (their raw files are removed), ends the acquisition, or lets main stop
waiting, which it may only when nothing is pending. `RunsAreDecided` says that
the program implements it: a run is measured when it is handed over (`HandedRuns`),
the raw files are those of these runs, and `acquisition` is read off the program
counter of the acquisition. The promise is to be kept also when an unpacker or
fracker fails, when a measurement does, and when the acquisition is stuck; with
one process in the pool it includes that a run is measured with its configuration.

### ConfigGeneration

A configuration is a tree (`YamlTools`): scalars, maps and sequences. What
matters in `config_utilities.py` is which dictionaries are the same object.
`current_state` is a shallow copy of the initial state, so the dictionaries below
its keys are the initial state's; `diff_dict` makes new dictionaries where both
sides have one and hands on its second argument's where the first has none; and
`update_dict(..., in_place=True)` writes into the dictionaries of its first
argument, and stores those of its second where a key is new or changes its type.
`heap` has the dictionaries under the name of the tree they were made for and
their path in it, `Writes` lists what an update in place writes, and `Tree` is what
a dump of an object shows. `generate_configurations` is the part before the first
yield, `YieldConfig` one turn of either generator together with the thread that
writes what was yielded to the run's file (`files`), and `TakeConfig` one turn of
the reader, `full_config_param_generator`, which updates its own configuration in
place with what was yielded. `Applied(n)` writes the files over the default, as
the hardware would, and is compared with a generation over values;
`YieldedAsWritten` compares the objects with the files later on, for procedures
with `KnownDicts`: all patches set parameters in dictionaries the initial
configuration has, that has those of the default, and none is in a list. That a
patch stays as it was yielded is what `RunPipeline` assumes of its patches.

### Fracker, TurboPump and Tools

`main` of `fracker.cc` is a program counter: read the YAML files, open the root
file, fix the columns, fill the cache, create the file, write block after block,
clean up; every `exit`, `return` and uncaught exception is an end of its own.
`HgcrocCache` takes the register map, the order in which the generated tables
list the blocks, and the `hw_` names as constants, so the tables that
`generate_roc_structs.py` writes are operators over them; `RegisterMapAssumption`
says what holds of the table of registers in the repository (blocks of a kind are
numbered from 0 and have the same parameters, the kinds of channel have theirs in
common, one block for each channel), and `ColumnsAssumption` that no register's
column has the name of a column of the data. The buffer is a
variable that keeps what an earlier block left in it. The overlay of the YAML
nodes is the constant `updated`, which `MCTools` takes from `YamlTools`; of it
`UpdatedAssumption` says what one level of `yaml-tools.h` does, for the nodes of
the trees the program reads, and TLC evaluates it with that overlay. Without a column the table type is invalid,
and `Cache` ends in what the code leaves undefined. `TurboPump` is the same
for the merger; `Tools` lets both work on the files of one directory.
ROOT, yaml-cpp and HDF5 appear as the values they hold, with the errors the code
meets: no file, no tree, a column that is there twice, a table of other columns.

### HdfFrame

The pandas layout of `hdf-utils.cc`, used by `test-hdf-utils.cc`. A frame is
blocks of columns of one type, each with its items and its rows, and the two
axes. `AddBlock`, `WriteToBlock`, `CreateMergeOutput` and `AppendFile` are the
functions of these names, with the places where they give up part way. Rows have
names, so a row of one block can be recognised in the other. The loops over the
blocks are recursive functions: the n-th value is the file after n blocks.

### The Cli modules

A parser is a record of apps and options under construction in `CliSetup`, and
the variable `p` of `CliParser`. One action takes one word with all that the
option it names gathers behind it; then come the passes in the code's order:
configuration files, environment, conversion of the options, help, requirements,
what is left over. `frames` is the stack of the recursive `_parse`, as a
subcommand is parsed before its parent's words go on. An exception is the name
of its class in `p.thrown`. Words are texts, since a parser is about texts:
prefixes, splits at `=` and `,`, and numbers (`Numbers` gives the integer of a
text). Left out are the printing of help, the writing of configuration files,
validators but `ExistingFile` and sets, transforms, case folding, windows style,
`trigger_on_parse`, deprecated and disabled-by-default apps, and callbacks of
apps. `ToolParsers` builds the parsers of the three programs, and the lines
`start_compiled_fracker` and `run_turbo_pump` start them with. The first is a list
of words for `Popen`. The second is one string for `os.system`, which the shell
splits: `WordsOfPath` has the paths with blanks and their parts, `SystemLine` is
what is left of a line of paths joined by blanks and split again. Quotes and the
other characters the shell knows are not modelled.

## 3. Runs

| run | instance | what it shows |
|---|---|---|
| `coord_safety` | 2 clients x 2 calls, 2 tries, 1 restart, 1 kill or interrupt, 1 foreign message | `TypeOK`, `TokenSoundness`, `OnlyHolderDrives`, `DataMatchesRequest`, `StoredInOrder` |
| `coord_session` | 2 clients x 2 calls, 1 restart, no kills, no foreign messages, fair | `SessionUndisturbed`, `AccessSpec` (refinement of `DaqAccess`), `LockIsReleased`, `RequestsAnswered` |
| `sys_sessions` | 2 menus, 2 contents, 3 initialisations, 4 runs, 2 attempts to start, 2 wait cycles, fair handler | `TypeOK`, `CoherentConfig`, `ClientRunsWithServer`, `DataIsOfThisRun`, `MeasureEnds` |
| `pipe_runs` | 9 runs, 2 pool processes, 1 kept run, both programs, fair | `AcquiredOnceWithFiles`, `NoRunIsSkipped`, `MeasuredAsConfiguredInOrder`, `ConfiguredRunsAreAcquired` |
| `post_stages` | 3 runs, 2 unpackers, 2 frackers, both programs, with all configuration files and with one missing, failing processes with and without a part of their file, fair | `RunInOnePlace`, `FilesOfTasks`, `DoneIsDone`, `ProcessingEnds` |
| `full_runs` | 3 runs, 1 pool process, 2 unpackers, 1 fracker, fair | `TypeOK`, `RunsAreDecided` (refinement of `RunOutcomes`), `DataOfItsRun`, `HalvesImplemented`, `AcquiredRunsAreProcessed` |
| `coord_two_holders` | 2 clients | violates `OneLockHolder` |
| `tools_files` | up to 2 fracker jobs and 1 merge, of 23 jobs and 10 merges | `FrackedFile`, `ConfigOfItsChannel`, `MergedFile` |
| `tools_last_block` | 1 fracker job | violates `EveryRowWritten` |
| `frame_files` | 3 files, 5 layouts, 2 rows a file, 4 after merging | `FrameOK`, `AxisIsIndex` |
| `config_runs` | all pairs of defaults and initial configurations of a small set, 7 scans, with and without calibration and difference | `GenerationAsSpecified`, `OverlaysAgree` |
| `command_line` | 12 parsers, lines of up to 4 parts, tasks without columns and with blanks in paths, files of up to 3 lines, fair | `TypeOK`, `WordsConserved`, `EndsAsDeclared`, `TaskArrives`, `NotOverridden`, `EveryParseEnds` |

Some properties are conjunctions of named parts, to be read one by one in the
module: `FrackedFile` (types, rows in order and never from an earlier block, all
rows on success), `FrameOK` (types, rows together, no block ahead of an earlier
one), `GenerationAsSpecified` (types, initial state, runs, what was yielded), `EndsAsDeclared`
(requirements, values, help, sections), `MergedFile` (rows in order, and
on success all of them with nothing passed over). `TypeOK` of `full_runs` has those of both halves.

**Bounds.** The code has no bound on clients, calls or restarts; `MaxCalls`,
`MaxRestarts`, `MaxKills`, `MaxForeign`, `MaxInits` and `MaxRuns` are bounds of
the model only. Two clients are enough for every interaction through the lock: a
third sees the coordinator as the second does. Two calls let a client
initialise and measure, a restart and a kill fall between any two steps.
`LockTries` is 20 in the code; two reach the retry and its end, and
`WaitCycles` (20) and `StartRetries` (50) likewise. Four runs and three
initialisations let a late file meet a later run and a later session, and a run
switch the menu before another writes to it. Nine runs with two processes give chunks of
two, so the last chunk is a short one and the queue is not in order; smaller
instances have chunks of one. Two tasks per stage with three runs reach a full
list with one waiting. The tools' instance has a chip of four channels
(`HalfChannels = 2`, 36 in the code) with every kind of block and a name that
occurs in several; block sizes below, at, above and dividing the number of
rows; two jobs before a merge make files that fit and files that do not.
`HdfFrame` has two blocks in a file, enough for one to be ahead of the other.
Names have 8 characters (`StringSize`, 50 in the code). In the command line
`Unlimited` is 64 (`2^29` in the code) and `size_t` wraps at `2^30` (`2^64`);
three or four parts on a line are an option, its values, a subcommand and what
follows, and two files are one behind another. Deadlock is not checked, as every
program ends or stops at its bounds.

**Fairness.** Weak fairness for the coordinator's loop and for each thread,
process and client: the operating system schedules them and nothing in the code
waits on a condition that is only sometimes true. It is not assumed that a
client drops its lock early, that a dead coordinator is restarted, that an
acquisition succeeds, or that a user interrupts. Nothing is assumed of the DAQ
programs either: not that a request is answered, nor that the daq-server ends its
run (`control_adapter.py:256` polls it without a limit), nor that the daq-client
writes its file. `MeasureEnds` is therefore what the coordinator's loop alone
gives: a measure ends, or some request is never answered (`"hung"`), or the server
stays in a run that does not end. Which of its three parts holds is not for the
coordinator to decide. `Unpacker` and `Fracker` are assumed to end: nothing in the code
limits how long they run. The parser of a command line is one thread: `CliParser`
has weak fairness of its next step, and a variable that changes with each step
makes a loop of the parser a cycle of states, so `EveryParseEnds` would see it.
`LockIsReleased` is about clients that are not killed,
as nothing in the code takes a dead client's lock away.

## 4. Where the code does not do what it says

The two violation runs, with the lines `PROJECT.json` quotes:

1. `daq_coordination.py:158` (`coord_two_holders`): a refused client gets the
   text `'None'` and goes on as if it had the lock. Its retries and the error of
   line 208 are never reached; its next command is denied, see below.
2. `fracker.cc:229` (`tools_last_block`): when the number of rows is a multiple
   of the block size, the last full block is written with length 0.
   `FrackedFile` says what is written otherwise.

Other disagreements met while modelling, in the models but without a run of
their own:

* `daq_coordination.py:503`: a failed second initialize leaves the first
  session usable on ROCs that were reset (`Initialize`).
* `gen_configurations.py:160`: with more than one pool process, runs are
  measured out of order, although patches are differences (`WriteOutFullConfig`).
* `gen_configurations.py:179`: every full configuration file is the last run's
  (`GenGet`, `WriteOutFullConfig`).
* `gen_configurations.py:178`: the generator can block in `get()` for ever
  (`GenCheck`, `GenGet`).
* `postprocessing_queue.py:338`: `process-raw-data` queues items that kill the
  unpack thread. With all files there a directory is not processed.
* `daq_coordination.py:461`: `'access denied'` has no serialized form, so a
  denied command ends the coordinator (`DenyAccess`).
* `daq_coordination.py:433`: a message that is no bson clears the lock and leaves
  the session initialised. With `MaxForeign = 1` `SessionUndisturbed` fails:
  the next client measures in a session that is not its own. If no message has
  been parsed before, line 430 names an unbound `daq_command` and the process
  ends instead.
* `daq_coordination.py:732`: `shutdown` calls `serialize` without its argument.
* `control_adapter.py:161`: the server adapter's copy is updated before the
  server has agreed. `CoherentConfig` holds because `pipelined_acquire_data`
  gives up its session at the first error; with `Pipelined = FALSE` it fails.
  So does `ClientRunsWithServer`, because of `client_started` (line 342).
* `control_adapter.py:162`: a run that only makes another menu active is compared
  with that menu of the copy, so there is no difference and nothing is sent ("did
  not change", line 171), while the copy has the new active menu: the server
  measures with the menu it had. `CoherentConfig` says what is left (`switched`).
* `acquire_data.py:56`: a run skipped by `--keep` leaves its patch unsent, so
  the runs after it are measured without it. `MeasuredAsConfiguredInOrder`
  says what is left: runs that come in order with none skipped are right.
* `acquire_data.py:53`: an interrupted `acquire-data` whose acquisition waits
  in `get()` does not end.
* `acquire_data.py:45`: a coordinator that cannot be had ends the acquisition
  thread without `daq_done`; `datenraffinerie` then runs for ever.
* `postprocessing_queue.py:328`: files are paired by position, so one missing raw
  file shifts all later runs to another run's configuration. The unpack thread
  dies before that can matter.
* `analysis_utilities.py:74`: without the compiled fracker the frack thread dies
  and main waits for ever (`Installed` without `"fracker"`).
* `pyproject.toml:38` names a function `generate_configurations`, the module has
  `generate_configuratons`.
* `config_utilities.py:59`: the initial state changes with the runs. When the
  patches of a scan do not all set the same parameters, a run keeps what an
  earlier one has set: `RunsAsSpecified` needs `SameLeaves`.
* `config_utilities.py:71`: a difference that has been yielded is changed by later
  runs where it brought a dictionary that was new: line 68 stores that very
  dictionary in `current_state` and updates it in place the next time. The file of
  the patch is written before that, but `full_daq.py`'s pool lists the whole
  generator before it starts, so the patches it hands on may hold the values of
  later runs. In the same way the initial difference (line 57), which
  `full_daq.py:243` hands to the acquisition, changes with the runs where the
  initial configuration has a dictionary the default lacks, and the reader's update
  (`gen_configurations.py:179`) writes into the generator's state. With
  `KnownDicts` nothing of this happens (`YieldedAsWritten`).
* `postprocessing_queue.py:91`, `:177`: a failed process leaves what it has written.
  An unpacker's root file stays also without `--root`, and a run that was given
  up may have an hdf file: `FilesOfTasks`, `RunInOnePlace` and `Decided` say so.
* `gen_configurations.py:290`: when the initial configuration equals the default,
  the difference is `None`, and updating a dictionary with it raises.
* `yaml-tools.h`: the difference the tools compute throws where a parameter that
  is a list or a dictionary is new; the Python one does not.
* `hgcroc_caching.cc`: a name of two kinds of blocks (`EN_REF_BG` of MasterTdc
  and Top) gives two values for one column, so the columns after it are
  shifted. `ConfigOfItsChannel` is about the other selections (`Plain`).
* `root-tools.h:200`: a short is stored in the column of a float.
* `hdf-utils.cc`: a column asked for twice loses its second member; a block size
  of 0 is divided by; `create_merge_output_file` takes the group "data" whatever
  it was given (line 907); and an `axis1` of blocks that are not written in turn
  is no index (`AxisIsIndex` fails with `Lockstep = FALSE`).
* `turbo-pump.cc`: an output that is also the first input is not written at all.
* `fracker.cc:41`: the default of `-f` is text for the help only, so without
  `-f` the program ends with "neither 'full' nor 'summary'"; `-o` is not
  required.
* `analysis_utilities.py:95`: with an empty list of columns, the default of
  `data_columns` (`config_validators.py:105`), `-s` takes `-p` and the compression
  for two columns, and the file has the compression 0 (`FrackerTask`).
* `analysis_utilities.py:109`: `run_turbo_pump` joins its paths to one line for the
  shell. A blank in the output's path ends the program with an error; one in an
  input's path splits it, and if its parts are files these are merged instead
  (`PumpTask`).
* `CLI11.hpp:5333`: the macro catches every parse error, so the tools' `catch`
  of a `ValidationError` is never reached. `-b -3` is a very large block size
  for turbo-pump, whose variable is a `size_t`, and an error for the fracker.
* `CLI11.hpp:7500` says that the maximum of subcommands cannot be exceeded; a
  subcommand in a group goes past its parent's `require_subcommand`.
* `CLI11.hpp`: with `validate_positionals` a subcommand whose required
  positional refuses a sibling's name can be looked at for ever. No tool does
  that.

## 5. Proofs

Every theorem is of the form `Spec => []P` (or `Spec =>` a refinement or an
action property), for every value of the constants that satisfies the named assumptions of the modules: any
number of clients, runs, pool processes, unpackers and frackers, any procedure,
any bound. A theorem with a further hypothesis is marked. The invariants below
were checked by TLC on the instances of section 3 before they were proved.

**DaqCoordinator** (`DaqCoordinatorProofs`)

* `TypeCorrect`: `TypeOK`. `TokensAreSound`: `TokenSoundness`. `HolderDrives`:
  `OnlyHolderDrives`.
* `AnswersMatch`: `DataMatchesRequest`. `RunsAreStoredInOrder`: `StoredInOrder`.
* `SessionsAreUndisturbed`, `CoordinatorImplementsAccess`: `SessionUndisturbed`
  and `AccessSpec`, with `MaxForeign = 0`. The hypothesis cannot be dropped: see
  `daq_coordination.py:433` above.

The inductive invariant is `CoordInv == TypeOK /\ TdcsLeft /\ TokenInv /\
HasToken`. `TypeOK` alone is not inductive, because a client in its TDC start
counts `tdcs` down: `TdcsLeft` says that there is one left. `TokenSoundness`
needs that the coordinator's own lock was issued (`TokenInv`). And only the
holder passes the token test because a client past its constructor, and every
request but "acquire lock", names a token that is not `None` (`HasToken`): the
test `self.lock != msg_lock` would let a `None` through while nobody has the
lock. For the session, `SessionInv` adds that the coordinator is initialised
exactly while the lock's holder has a session on the hardware. Rather than go
through all actions once more, the last two theorems classify what a handler can
do (`Grants`, `Drives`, `Ends`, `Ignores`, lemma `HandleEffect`) and map the
classes to the actions of `DaqAccess`. `AccessIsExclusive` shows that what is
promised there keeps sessions apart.

`AnswersMatch` rests on the lockstep of REQ and REP (`ExchangeInv`): between a
client and its socket there is one request or one reply at a time, and both
carry the call the client is in; an interrupted client drains what is left, a
killed one asks no more. `StoredInOrder` needs more than that (`FileInv`): a
session's files are counted by `run_counter` only as long as its lock is held,
a new lock is a token no stored file has, and the file all measurements pass
through may be left over, but not from the session in force.

**DaqSystem** (`DaqSystemProofs`)

* `TypesAreKept`: `TypeOK`.
* `ServerRunsAsAsked`, `ClientPulls`, `DataOfThisRun`: `CoherentConfig`,
  `ClientRunsWithServer`, `DataIsOfThisRun`, with `Pipelined`. Without it TLC
  finds them violated, see `control_adapter.py:161` and `342` above.

`SystemInv` has four parts beside the types and `MenuInv` (the active menu of a
copy is a menu once the coordinator is initialised). `SessionInv`: only an
initialised coordinator serves, and no session begins where one was left.
`CopyInv`: as long as the last answer was no error, the adapter's copies (the
contents of every menu, the active menu unless a run only switched it, the output
directory, the started client) are what they copy; an error breaks them and ends
the session. `FolderInv`: folders are numbered by the initialize that made
them, so a late file of an old session is in another folder. `DataInv`: between
two runs nothing is on its way to the folder in use, and while `take_data`
waits, what is there is this run's and there once.

**RunPipeline** (`RunPipelineProofs`)

* `TypesAreKept`, `PassedOnOnce`, `NoneIsSkipped`, `InOrderAsConfigured`:
  `TypeOK`, `AcquiredOnceWithFiles`, `NoRunIsSkipped`,
  `MeasuredAsConfiguredInOrder`.

`PipelineInv` follows the runs. `PatchInv`: patches come in the order of the
runs, with none between the list and the queue. `OnceInv` and `PlacesInv`: the
chunks, the workers, the queue, the acquisition's hands and the queue it fills
are disjoint, and together they are the runs expected; this needs that
`ChunksOf` cuts a list into parts that are disjoint and complete for every
length and number of processes (`ChunksPartition`, from the facts of
`SequenceLemmas` about division rounded up). `PoolInv` and `EndInv`: the event
of the pool is true only after its last item, and the acquisition ends only
after that. `TargetInv`: as long as all came in order, the target has the
configuration of the last run, so the next patch leads to the next
configuration (`PatchIsDifference`); this is what a run skipped or overtaken breaks.
`TypeOK` is part of the same induction, since the acquisition's run must be one
of the procedure.

* `OneProcessKeepsOrder`: with one process in the pool, or no pool
  (`acquire-data`), the runs are acquired in their order and, with no run kept,
  each is measured with its configuration. The hypothesis is what
  `gen_configurations.py:160` lacks: with two processes TLC reaches states in
  which a later run is acquired first.

`OrderInv` says that the acquired runs, the one in hand, those in the queue,
with the worker and in the chunks are consecutive numbers (`Consecutive`,
`Chained`); `ChunksChained` shows that cutting the list keeps them so.

**PostProcessing** (`PostProcessingProofs`)

* `TypesAreKept`: `TypeOK`. `DoneMeansDone`: `DoneIsDone`.
* `NoRunIsLost`: `RunInOnePlace`, with both programs installed.
  `FilesAreThere`: `FilesOfTasks`, with the fracker installed. A missing program
  kills the thread with the run it has just taken from its queue, so that run
  is nowhere and its root file stays; the rest of the invariant survives, which
  is why `DoneMeansDone` needs no hypothesis.

`PostInv` says where the runs are: `Waiting`, `AtUnpacker`, `Unpacked`,
`AtFracker` and `Finished` are disjoint, have no run twice and are together the
runs whose raw file is there (`OnceInv`, `PlacesInv`, `DeadInv`). `FilesInv`
ties files to return codes: the root file of a run at the unpacker is whole exactly
if that unpacker succeeded, the hdf file of a run at the fracker exactly if that
fracker did, and a run that has not reached its fracker has no hdf file, not
even a part of one. Without it a poll could pass on a run without its file, or a fracker
find an hdf file from before. `EventInv` orders the events. For
`process-raw-data` the invariant is that nothing is ever unpacked (`DiskInv`).
One lemma per action says how the places change (`UnpackPollMove` and its like);
they rest on what the polls do with a list of any length (`RunningList`,
`SucceededList`, from `SortedIsBijection`).

**FullDaq** (`FullDaqProofs`)

* `ImplementsHalves`: `HalvesImplemented`. `TypesAreKept`: `TypeOK`.
* `ImplementsOutcomes`: `RunsAreDecided`, for any pool. `OutcomesAreDecided`
  shows what the abstract specification is worth: a whole hdf file has the data of
  a raw file that is still there, in the end a run has its raw file if and only if
  its hdf file is whole, and no run is missing from a complete acquisition (`Decided`).
  `EveryRunEnds` puts the two together.
* `DataIsOfItsRun`: `DataOfItsRun`, with one process in the pool; with more it
  is violated, as the runs are measured out of order.

The invariants of the halves do not simply add up, because each half changes
what the other's speaks of. `FullInv` states them of the views, and
`LinkInv` ties the views to the files: a raw file is what was written to it or
is gone, nothing is written but for a run that is handed over or the one the
acquisition fails with, and whole root and hdf files hold what the raw file of
their run held. Each step is then a step of one half and, seen from the other, a step
of its environment or none (`AcquireRecord`, `AcquireServe`, `ProcessServe`),
so that the inductions of `RunPipelineProofs` and `PostProcessingProofs` are
used, not repeated. `RunInHand` is the heart of it: the run being measured was
never handed over, so the postprocessing has no process that reads or removes
the file it gets.

The mapping to `RunOutcomes` needs `OutcomeInv` on top of that: an acquisition
that ended by itself has handed over every run (`AllAcquired`), and with one
process in the pool those handed over are the first runs of the procedure and
have their configuration (`OrderKept`). `PendingRuns` is the link to the places
of the postprocessing: what the promise calls pending are the runs whose raw file
is there and that have no whole hdf file, so that when the last event is set and all
places are empty (`EventInv`) nothing is pending. Then `AcquireOutcome` and
`ProcessOutcome` go through the steps of either half. The work is in the steps
that the promise must not see: an unpacker that finishes, a run that moves from
one queue to the next, a root file that is removed.

**Tools** (`ToolsProofs`)

* `FrackedFileHolds`: `FrackedFile`, for every root file, list of columns and
  block size. `MergedFileHolds`: the action property `MergedFile`, for any
  number of inputs and every block size.
* `ConfigOfItsChannelHolds`: `ConfigOfItsChannel`, for every register map of the
  chip's shape, every tree, default and overlay, and every order in which the
  generated tables list the blocks.

`ToolsInv` adds three parts to `FrackedFile`. `FilesInv`: whatever both programs
leave at a path is a file whose tables have a type with members and a sequence of
rows. `FrackInv`, with `BlockInv`: while rows are read the buffer holds the rows
of the block up to `row`, and the table those of the blocks before it; the rows
behind `row` in the buffer are an earlier block's, so it matters that no more
than `write_row_count` of them is written. The division of the rows in blocks
(`BlockEnds`) decides which block is the last and how much of it is left, with
the full last block of `fracker.cc:229` as the exception the invariant names.
`PumpInv`: the inputs merged so far have columns, those of the output, and the
output holds their rows. That `merge_tables` with its blocks and its rest adds
exactly the rows of the input (`MergedTable`) and that flattening the inputs
grows by one input at a time (`FlattenedStepwise`) are inductions over a number:
`NatSetInduction` of `SequenceLemmas` takes a set where the library's theorem
takes an operator, and follows from the least element of its complement.
`TurboPump` is an instance in `Tools`, so its operators are equal to those of
`HdfTables` by lemmas of their own (`SameTables`, `SameMerge`, `PumpReads`).

`ConfigOfItsChannel` compares a cell of the table with the two YAML files, and
between them lie the overlay, the cache, its keys and the place of the column.
`ConfigInv` carries the files through the program: the default and the run's
configuration are those of the job until the cache is filled, and from then on
the cache is what `generate_hgcroc_config_cache` makes of the overlaid tree, for
the columns the table was formatted with. The rest is about operators. The cache
pushes the values of a key register by register and forgets which they were, so
a row is right only if each column adds exactly one value to each key.
`KindsOfBlock` shows that a column without a number in it comes from one kind of
block or from the three kinds of channel, `OneApplies` that of its registers one
and no other applies to a key of the chip, so that `RegistersOf` has, at the
place of each column, the register of that name that governs the key
(`RegistersOfKey`). `KeyOfChannel` shows that the key made of the half and the
channel of an event is one of these, and `HalfByNumber` that the half of a channel
of each kind is what `generate_cache_key` takes it to be. `OverlaidSetting` goes
down the two trees, one `Over` at a time, to the value of a register.
`RowsAreConfigured` puts these together with the rows of `FrackInv`. A register
the run's file names without a value (a YAML null) keeps its default:
`update_map` looks at the type and leaves it alone, and the property
says so.

**HdfFrame** (`HdfFrameProofs`)

* `FrameOKHolds`: `FrameOK`, and `AxisIsIndexHolds`: `AxisIsIndex`, for any files,
  numbers of blocks and rows, under the assumption `Lockstep` that the caller
  writes the blocks in turn, as the tests do. A caller that does not can write a
  later block ahead of the first, and `axis1` then has fill values
  (`AxisAfterWrite`), so without it both are false.

`FrameInv` says of every file that it is `Sound` (the types, no block ahead of an
earlier one, the axis an index of the first block), and of a file with no failed
append that it is `Whole`: rows are `Joined` across the blocks, and the rows a
later block still lacks are `Own`, that is, were written by the caller to this
file. `RowsTogether` alone is not inductive: without `Own` the rows that the
caller writes next to catch up could be others than those of the first block,
for instance after an append in the middle of a turn. That is why the actions
of a merge ask for files at rest. `append_file` reads the length of the axis once
and extends it for each block; that this is enough whichever block it throws at
(`AppendStep`) needs `Descending`, as does `create_merge_output_file`, which
reaches the end of the axis with its first block (`CopyStep`). Both loops are
inductions over the block with `NatSetInduction`, after the recursive functions
were shown to exist (`CopiedExists`, `AppendedExists`).

**Only model-checked.** The generation of configurations (`GenerationAsSpecified`,
`OverlaysAgree`) and the command line (`TypeOK`, `WordsConserved` and
`EndsAsDeclared` of `CliParser`, `TaskArrives`); all liveness properties (`LockIsReleased`, `RequestsAnswered`,
`MeasureEnds`, `ConfiguredRunsAreAcquired`, `ProcessingEnds`,
`AcquiredRunsAreProcessed`, `EveryParseEnds`), which are out of the prover's
reach, as are `ENABLED` and induction over trees. The overlay of trees and the
parser are recursive operators, so `YamlTools`, `DictUtils`, `ConfigGeneration`,
`CliSetup` and `CliParser` are for TLC alone.

## 6. What is not modelled

The slow control server and its client are external; so are daq-server,
daq-client, the unpacker and the queue and pool library, which appear as the
code uses them. Errors of the file system (a full disk, a missing directory),
the progress queues and bars, logging, and the command lines that only read
configurations are left out, and so is an interrupted `datenraffinerie`. The
output of external programs, which nobody reads, is not modelled: a program that
fills its pipe would never end. Of the tools' files, attributes, versions and
compression are left out, of a procedure the templates and the schemas that read
it from YAML, of the command line what section 2 names. The luigi workflow
(`scan.py`, `distillery.py` and others), the pure Python fracker, `read-rocs`,
`yaml-utils`, `show-hdf` and most experiments under `tools/` are listed in
`PROJECT.json` with the reasons.

## 7. Plan

Done: the coordinator with its abstract specification and its proofs, the DAQ
system, the pipeline, the postprocessing, the whole program, the generation of
configurations, the fracker and the merger, the frames, the command line; the
proofs of the coordinator, the DAQ system, the pipeline, the postprocessing, the
whole program, with its refinement of both halves and of what it promises of the
runs, of what the tools write, the configuration in the rows included, and of the
frames.

Left: theorems about the generation of configurations and the command line. They
need the overlay of trees and the parser as recursive functions instead of
operators, over sets of trees and lines with a bounded depth, as the prover has no
induction over them.
