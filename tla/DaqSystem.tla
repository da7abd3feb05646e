----------------------------- MODULE DaqSystem -----------------------------
(***************************************************************************)
(* datenraffinerie/control_adapter.py: the DAQSystem and its two           *)
(* DAQAdapters, which drive the external daq-server and daq-client         *)
(* programs, under the handlers of the DAQ coordinator that call them.     *)
(*                                                                         *)
(* The daq-client is started once, pulls the data of every run of the      *)
(* server and writes each run to a file of its output directory, on its    *)
(* own time; take_data waits for the file.  Each adapter keeps a copy of   *)
(* its program's configuration and, as configure is called with            *)
(* cache=True, sends only what differs from the copy.  A configuration of  *)
(* the server is its active menu and the contents of its menus.            *)
(*                                                                         *)
(* The adapters wait for answers without a limit: a program that never     *)
(* answers leaves the coordinator "hung".                                  *)
(***************************************************************************)
EXTENDS Integers, FiniteSets

CONSTANTS
    Menus,        \* names of the server's menus
    NoMenu,       \* no menu is named
    Contents,     \* contents of a menu
    NoContent,    \* nothing is said of a menu, or the menu is empty
    StartRetries, \* attempts of start to get a program running (50)
    WaitCycles,   \* wait_cycles of take_data (20 in the code)
    Pipelined,    \* the caller is pipelined_acquire_data: it initialises its
                  \* session once and gives up at the first error
    MaxInits,     \* bound: initialize commands
    MaxRuns       \* bound: measure commands

ASSUME NoneAssumption == NoMenu \notin Menus /\ NoContent \notin Contents
ASSUME BoundAssumption ==
    /\ StartRetries \in Nat \ {0}
    /\ WaitCycles \in Nat \ {0}
    /\ Pipelined \in BOOLEAN
    /\ MaxInits \in Nat
    /\ MaxRuns \in Nat

VARIABLES
    \* the coordinator
    pc,             \* where the handler of the current command is
    initialized,    \* DAQCoordinator.initialized
    reply,          \* what the last command was answered
    \* DAQSystem and its adapters
    client_started, \* DAQSystem.client_started
    folder,         \* DAQSystem.daq_data_folder, 0 before there is one
    server_config,  \* server.configuration: the adapter's copy
    retries,        \* attempts start has left
    wait_cycles,
    data_files,     \* the last listing of the data folder
    \* the daq-server and the daq-client
    device_config,  \* the configuration the server runs with
    server_state,   \* the server's status
    switched,       \* since the server was last written to, a run asked only
                    \* for another menu, with the contents the copy has
    client_running, \* the client pulls data
    outputDirectory,\* the folder the client writes to
    pulled,         \* runs the client has pulled and not yet written
    \* the file system
    folders,        \* data folders that exist
    files,          \* files in them
    \* the command in progress, and counters
    wanted,         \* menu its run asks for, and its contents
    run,            \* number of the measure command
    inits           \* initialize commands so far

coordVars  == <<pc, initialized, reply>>
systemVars == <<client_started, folder, server_config, retries, wait_cycles,
                data_files>>
serverVars == <<device_config, server_state, switched>>
clientVars == <<client_running, outputDirectory, pulled>>
fsVars     == <<folders, files>>
cmdVars    == <<wanted, run, inits>>
vars == <<coordVars, systemVars, serverVars, clientVars, fsVars, cmdVars>>

-----------------------------------------------------------------------------
Configuration == [active : Menus \cup {NoMenu},
                  menus : [Menus -> Contents \cup {NoContent}]]
NoConfig == [active |-> NoMenu, menus |-> [m \in Menus |-> NoContent]]

\* The contents of a session's initial configuration: they name an active menu
\* and say what is in it.
Initials == {v \in Configuration : /\ v.active \in Menus
                                   /\ v.menus[v.active] # NoContent}

File == [folder : Nat, run : Nat]
Reply(type, r) == [type |-> type, run |-> r]
NoReply == Reply("none", 0)
Error == Reply("error", 0)
In(d) == {f \in files : f.folder = d}

Init ==
    /\ pc = "idle"
    /\ initialized = FALSE
    /\ reply = NoReply
    /\ client_started = FALSE
    /\ folder = 0
    /\ server_config = NoConfig
    /\ retries = 0
    /\ wait_cycles = 0
    /\ data_files = {}
    /\ device_config = NoConfig
    /\ server_state = "configured"
    /\ switched = FALSE
    /\ client_running = FALSE
    /\ outputDirectory = 0
    /\ pulled = {}
    /\ folders = {}
    /\ files = {}
    /\ wanted = [menu |-> NoMenu, content |-> NoContent]
    /\ run = 0
    /\ inits = 0

\* pipelined_acquire_data drops its client, and with it the lock, at the
\* first error, and calls initialize only on a fresh lock.
MayInitialize == Pipelined => reply = NoReply
MayMeasure == Pipelined => reply.type \in {"ack", "data"}

\* How a handler ends that a program refuses something: with an error.
Fail == /\ pc' = "idle"
        /\ reply' = Error

\* A request that is never answered keeps the handler in recv.
Hang == /\ pc' = "hung"
        /\ reply' = NoReply

(***************************************************************************)
(* initialize: the ROCs are reset, client and server are initialised with  *)
(* configuration v, the data-taking context is set up (a new folder, the   *)
(* client's output directory, the server's menu) and the ROCs configured.  *)
(* Each of these steps can end the handler with what was done so far in    *)
(* place.                                                                  *)
(***************************************************************************)
InitSteps == <<"reset", "client", "server", "outdir", "menu", "target">>
Initialize(v) ==
    /\ pc = "idle"
    /\ MayInitialize
    /\ inits < MaxInits
    /\ inits' = inits + 1
    /\ \E done \in 0..6 :      \* how many of InitSteps succeed
         /\ IF done >= 2       \* an initialised client waits to be started
            THEN client_running' \in {FALSE, client_running}
            ELSE UNCHANGED client_running
         /\ server_config' = IF done >= 2 THEN v ELSE server_config
         /\ device_config' = IF done >= 3 THEN v ELSE device_config
         /\ server_state' = IF done >= 3 THEN "configured" ELSE server_state
         /\ switched' = IF done >= 3 THEN FALSE ELSE switched
         /\ folder' = IF done >= 3 THEN inits' ELSE folder
         /\ folders' = IF done >= 3 THEN folders \cup {inits'} ELSE folders
         /\ outputDirectory' = IF done >= 4 THEN inits' ELSE outputDirectory
         /\ IF done = 6
            THEN initialized' = TRUE /\ reply' = Reply("ack", 0) /\ pc' = pc
            ELSE UNCHANGED initialized /\ (Fail \/ Hang)
    /\ UNCHANGED <<client_started, retries, wait_cycles, data_files, pulled,
                   files, wanted, run>>

-----------------------------------------------------------------------------
(* measure.                                                                *)

\* A run names an active menu or leaves the one of the server's copy active,
\* and gives that menu contents or leaves those of the copy.
Measure(m, c) ==
    /\ pc = "idle"
    /\ initialized
    /\ MayMeasure
    /\ run < MaxRuns
    /\ run' = run + 1
    /\ LET active == IF m = NoMenu THEN server_config.active ELSE m
           menu == server_config.menus[active]
       IN  wanted' = [menu |-> active,
                      content |-> IF c = NoContent THEN menu ELSE c]
    /\ pc' = "configure"
    /\ UNCHANGED <<initialized, reply, systemVars, serverVars, clientVars,
                   fsVars, inits>>

\* Configuration v with the run's menu active and the run's contents in it.
WithWanted(v) ==
    [active |-> wanted.menu,
     menus |-> [v.menus EXCEPT ![wanted.menu] = wanted.content]]

\* Mutant: the server's answer is not looked at.
ConfigureServerUnchecked ==
    /\ server_config' = WithWanted(server_config)
    /\ device_config' \in {device_config, WithWanted(device_config)}
    /\ switched' = FALSE
    /\ pc' = "start client"
    /\ UNCHANGED reply

\* The server adapter updates its copy, and writes menu and contents when the
\* contents differ from those the copy had for that menu: a run that only
\* makes another menu active sends nothing.
ConfigureServer ==
    /\ server_config' = WithWanted(server_config)
    /\ IF wanted.content = server_config.menus[wanted.menu]
       THEN /\ switched' = (switched \/ wanted.menu # server_config.active)
            /\ pc' = "start client"
            /\ UNCHANGED <<device_config, reply>>
       ELSE \/ /\ device_config' = WithWanted(device_config)
               /\ switched' = FALSE
               /\ pc' = "start client"
               /\ UNCHANGED reply
            \/ /\ device_config' \in {device_config, WithWanted(device_config)}
               /\ Fail \/ Hang
               /\ UNCHANGED switched

\* The ROCs and the client are configured before the server, and can refuse;
\* a run that names an inactive menu raises the RuntimeWarning that ends the
\* coordinator.
Configure ==
    /\ pc = "configure"
    /\ \/ ConfigureServer
       \/ /\ Fail \/ Hang
          /\ UNCHANGED <<server_config, device_config, switched>>
       \/ /\ pc' = "crashed"
          /\ reply' = Error
          /\ UNCHANGED <<server_config, device_config, switched>>
    /\ retries' = IF pc' = "start client" THEN StartRetries ELSE 0
    /\ UNCHANGED <<initialized, client_started, folder, wait_cycles,
                   data_files, server_state, clientVars, fsVars, cmdVars>>

\* start, of either program, when this attempt does not get it running: it
\* was not ready before the first attempt, there is another attempt, there is
\* none, or no answer.
NotStarted(ready) ==
    \/ /\ ready
       /\ retries > 0
       /\ retries' = retries - 1
       /\ UNCHANGED <<pc, reply>>
    \/ /\ retries \in {0, StartRetries}
       /\ retries' = 0
       /\ Fail
    \/ /\ retries' = 0
       /\ Hang

\* take_data starts the client once: the client must be idle.
StartClient ==
    /\ pc = "start client"
    /\ \/ /\ client_started \/ (~client_running /\ retries > 0)
          /\ client_started' = TRUE
          /\ client_running' = IF client_started THEN client_running ELSE TRUE
          /\ pc' = "start server"
          /\ retries' = StartRetries
          /\ UNCHANGED reply
       \/ /\ ~client_started
          /\ NotStarted(~client_running)
          /\ UNCHANGED <<client_started, client_running>>
    /\ UNCHANGED <<initialized, folder, server_config, wait_cycles,
                   data_files, serverVars, outputDirectory, pulled, fsVars,
                   cmdVars>>

\* server.take_data starts the run; when it cannot, take_data stops the
\* client, which may refuse.
StartServer ==
    /\ pc = "start server"
    /\ \/ /\ server_state = "configured"
          /\ retries > 0
          /\ server_state' = "running"
          /\ pc' = "poll"
          /\ retries' = 0
          /\ UNCHANGED <<client_running, reply>>
       \/ /\ NotStarted(server_state = "configured")
          /\ IF pc' = pc THEN UNCHANGED client_running
                         ELSE client_running' \in {FALSE, client_running}
          /\ UNCHANGED server_state
    /\ UNCHANGED <<initialized, client_started, folder, server_config,
                   wait_cycles, data_files, device_config, switched,
                   outputDirectory, pulled, fsVars, cmdVars>>

\* The server ends its run, whose data goes to the client if that pulls, or
\* fails with part of the data sent or none.  One that never does stays
\* "running", and so does one that no longer answers in the run.
Pull == IF client_running
        THEN pulled \cup {[folder |-> outputDirectory, run |-> run]}
        ELSE pulled
ServerEndsRun ==
    /\ server_state = "running"
    /\ \/ server_state' = "configured" /\ pulled' = Pull
       \/ server_state' = "broken" /\ pulled' \in {pulled, Pull}
    /\ UNCHANGED <<coordVars, systemVars, device_config, switched,
                   client_running, outputDirectory, fsVars, cmdVars>>

\* server.take_data asks for the status until the server no longer runs; any
\* status but "configured" makes take_data stop the client, which may refuse.
Poll ==
    /\ pc = "poll"
    /\ \/ /\ server_state = "configured"
          /\ pc' = "wait"
          /\ wait_cycles' = WaitCycles
          /\ data_files' = In(folder)
          /\ UNCHANGED <<client_running, reply>>
       \/ /\ server_state = "broken"
          /\ client_running' \in {FALSE, client_running}
          /\ Fail \/ Hang
          /\ UNCHANGED <<wait_cycles, data_files>>
    /\ UNCHANGED <<initialized, client_started, folder, server_config,
                   retries, serverVars, outputDirectory, pulled, fsVars,
                   cmdVars>>

\* Mutants: the cycles left are not checked; they are not counted.
WaitUnchecked ==
    /\ pc = "wait"
    /\ data_files = {}
    /\ data_files' = In(folder)
    /\ wait_cycles' = wait_cycles - 1
    /\ UNCHANGED <<coordVars, client_started, folder, server_config, retries,
                   serverVars, clientVars, fsVars, cmdVars>>
WaitUncounted ==
    /\ pc = "wait"
    /\ wait_cycles > 0
    /\ data_files = {}
    /\ data_files' = In(folder)
    /\ UNCHANGED <<coordVars, client_started, folder, server_config, retries,
                   wait_cycles, serverVars, clientVars, fsVars, cmdVars>>

Wait ==
    /\ pc = "wait"
    /\ wait_cycles > 0
    /\ data_files = {}
    /\ data_files' = In(folder)
    /\ wait_cycles' = wait_cycles - 1
    /\ UNCHANGED <<coordVars, client_started, folder, server_config, retries,
                   serverVars, clientVars, fsVars, cmdVars>>

\* Mutant: the file is copied, not moved.
CollectCopy ==
    /\ pc = "wait"
    /\ wait_cycles = 0 \/ data_files # {}
    /\ IF Cardinality(data_files) = 1
       THEN \E f \in data_files : /\ reply' = Reply("data", f.run)
                                  /\ pc' = "idle"
       ELSE Fail
    /\ UNCHANGED <<initialized, systemVars, serverVars, clientVars, fsVars,
                   cmdVars>>

\* Exactly one file is this run's data; no file or more is an error, and what
\* is in the folder stays there.
Collect ==
    /\ pc = "wait"
    /\ wait_cycles = 0 \/ data_files # {}
    /\ IF Cardinality(data_files) = 1
       THEN \E f \in data_files : /\ reply' = Reply("data", f.run)
                                  /\ files' = files \ {f}
                                  /\ pc' = "idle"
       ELSE Fail /\ UNCHANGED files
    /\ UNCHANGED <<initialized, systemVars, serverVars, clientVars, folders,
                   cmdVars>>

\* The client writes a run it has pulled, unless the folder is gone.
WriteFile ==
    \E f \in pulled :
       /\ pulled' = pulled \ {f}
       /\ files' = IF f.folder \in folders THEN files \cup {f} ELSE files
       /\ UNCHANGED <<coordVars, systemVars, serverVars, client_running,
                      outputDirectory, folders, cmdVars>>

-----------------------------------------------------------------------------
\* Mutant: the teardown forgets that the client is stopped.
ReleaseStarted ==
    /\ pc = "idle"
    /\ reply # NoReply
    /\ reply' = NoReply
    /\ initialized' = FALSE
    /\ client_running' = FALSE
    /\ folders' = folders \ {folder}
    /\ files' = files \ In(folder)
    /\ UNCHANGED <<pc, systemVars, serverVars, outputDirectory, pulled,
                   cmdVars>>

(***************************************************************************)
(* release lock: tear_down_data_taking_context, when the coordinator is    *)
(* initialised.  A client that is not running may refuse to stop, and so   *)
(* may one that is; the ValueError ends the coordinator.                   *)
(***************************************************************************)
Release ==
    /\ pc = "idle"
    /\ reply # NoReply
    /\ reply' = NoReply
    /\ \/ /\ ~initialized
          /\ UNCHANGED <<pc, initialized, client_started, client_running,
                         fsVars>>
       \/ /\ initialized
          /\ initialized' = FALSE
          /\ client_started' = FALSE
          /\ client_running' = IF client_started THEN FALSE ELSE client_running
          /\ folders' = folders \ {folder}
          /\ files' = files \ In(folder)
          /\ UNCHANGED pc
       \/ /\ initialized
          /\ client_started
          /\ pc' \in {"crashed", "hung"}
          /\ UNCHANGED <<initialized, client_started, client_running, fsVars>>
    /\ UNCHANGED <<folder, server_config, retries, wait_cycles, data_files,
                   serverVars, outputDirectory, pulled, cmdVars>>

Handler ==
    \/ Configure
    \/ StartClient
    \/ StartServer
    \/ Poll
    \/ Wait
    \/ Collect

Next ==
    \/ \E v \in Initials : Initialize(v)
    \/ \E m \in Menus \cup {NoMenu}, c \in Contents \cup {NoContent} :
          Measure(m, c)
    \/ Handler
    \/ ServerEndsRun
    \/ WriteFile
    \/ Release

Spec == Init /\ [][Next]_vars

\* The coordinator's thread goes on.  Nothing is assumed of the programs: the
\* server need not end its run, the client need not write its file.
FairSpec == Spec /\ WF_vars(Handler)

-----------------------------------------------------------------------------
(***************************************************************************)
(* Properties.                                                             *)
(***************************************************************************)
\* Every variable keeps the type the code gives it.
TypeOK ==
    /\ pc \in {"idle", "configure", "start client", "start server", "poll",
               "wait", "crashed", "hung"}
    /\ initialized \in BOOLEAN
    /\ reply \in [type : {"none", "error", "ack", "data"}, run : Nat]
    /\ client_started \in BOOLEAN
    /\ folder \in Nat
    /\ server_config \in Configuration
    /\ retries \in 0..StartRetries
    /\ wait_cycles \in 0..WaitCycles
    /\ data_files \subseteq File
    /\ device_config \in Configuration
    /\ server_state \in {"configured", "running", "broken"}
    /\ switched \in BOOLEAN
    /\ client_running \in BOOLEAN
    /\ outputDirectory \in Nat
    /\ pulled \subseteq File
    /\ folders \subseteq Nat
    /\ files \subseteq File
    /\ wanted \in [menu : Menus \cup {NoMenu},
                   content : Contents \cup {NoContent}]
    /\ run \in Nat
    /\ inits \in Nat

Configured == pc \in {"start client", "start server", "poll", "wait"}
Measuring == Configured \/ pc = "configure"

\* While the server measures, the menu its run asked for has the contents the
\* run asked for, whether the adapter wrote them or trusted its copy; and that
\* menu is the active one, unless a run since the last write asked only for
\* another menu: such a run is never sent.
CoherentConfig ==
    Configured => /\ device_config.menus[wanted.menu] = wanted.content
                  /\ device_config.active = wanted.menu \/ switched

\* The server is started and takes data only while the client is there to pull
\* it: client_started never outlives the client.
ClientRunsWithServer == pc \in {"start server", "poll"} => client_running

\* The data a measure answers with is that run's, although the client writes
\* its file at any time, even after take_data has given up on it.
DataIsOfThisRun == pc = "idle" /\ reply.type = "data" => reply.run = run

\* Every measure command is answered, or ends the coordinator, unless a
\* program never answers a request or the server never ends the run.
MeasureEnds ==
    \/ Measuring ~> pc \in {"idle", "crashed"}
    \/ <>[](pc = "hung")
    \/ <>[](pc = "poll" /\ server_state = "running")
=============================================================================
