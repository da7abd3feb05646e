-------------------------- MODULE DaqSystemProofs --------------------------
(***************************************************************************)
(* Proofs about DaqSystem.  The types hold for every caller; the rest for  *)
(* the caller the program has, which initialises its session once and      *)
(* gives up at the first error (Pipelined), with any number of commands,   *)
(* configurations and wait cycles.                                         *)
(***************************************************************************)
EXTENDS DaqSystem, TLAPS

(***************************************************************************)
(* Types.                                                                  *)
(***************************************************************************)
\* The replies the code builds, and the file of a run, are well typed.
LEMMA ReplyTypes ==
    /\ \A type \in {"none", "error", "ack", "data"}, r \in Nat :
          Reply(type, r) \in [type : {"none", "error", "ack", "data"}, run : Nat]
    /\ NoReply \in [type : {"none", "error", "ack", "data"}, run : Nat]
    /\ Reply("ack", 0) \in [type : {"none", "error", "ack", "data"}, run : Nat]
    /\ Error \in [type : {"none", "error", "ack", "data"}, run : Nat]
    /\ \A d, r \in Nat : [folder |-> d, run |-> r] \in File
  BY DEF Reply, NoReply, Error, File

\* What a run asks for, applied to a configuration, gives a configuration.
LEMMA WantedTypes ==
    ASSUME TypeOK, NEW v \in Configuration
    PROVE  WithWanted(v) \in Configuration
  BY DEF TypeOK, Configuration, WithWanted

\* Once the coordinator is initialised its copy of the server's configuration
\* has an active menu, and a run is about a menu.
MenuInv ==
    /\ initialized => server_config.active \in Menus
    /\ Measuring => wanted.menu \in Menus

\* Types and menus, together inductive for every caller.
TypeInv == TypeOK /\ MenuInv

\* Initially every variable has its type.
LEMMA TypeInit == Init => TypeInv
  <1> SUFFICES ASSUME Init PROVE TypeInv
    OBVIOUS
  <1>1. wait_cycles \in 0..WaitCycles /\ retries \in 0..StartRetries
    BY BoundAssumption DEF Init
  <1>2. server_config \in Configuration /\ device_config \in Configuration
    BY DEF Init, NoConfig, Configuration
  <1>3. QED
    BY <1>1, <1>2, ReplyTypes
       DEF Init, TypeInv, TypeOK, MenuInv, Measuring, Configured

\* An initialize command keeps the types.
LEMMA InitializeTypes ==
    ASSUME TypeInv, NEW v \in Initials, Initialize(v)
    PROVE  TypeInv'
  <1>1. inits' \in Nat
    BY DEF Initialize, TypeInv, TypeOK
  <1>2. PICK done \in 0..6 :
           /\ client_running' \in {FALSE, client_running}
           /\ server_config' = IF done >= 2 THEN v ELSE server_config
           /\ device_config' \in {v, device_config}
           /\ server_state' \in {"configured", server_state}
           /\ switched' \in {FALSE, switched}
           /\ folder' \in {inits', folder}
           /\ folders' \in {folders \cup {inits'}, folders}
           /\ outputDirectory' \in {inits', outputDirectory}
           /\ initialized' = initialized \/ done = 6
           /\ initialized' \in {TRUE, initialized}
           /\ reply' \in {Reply("ack", 0), Error, NoReply}
           /\ pc' \in {"idle", "hung"}
    BY DEF Initialize, Fail, Hang
  <1>3. /\ initialized' \in BOOLEAN /\ client_running' \in BOOLEAN
        /\ switched' \in BOOLEAN
    BY <1>2 DEF TypeInv, TypeOK
  <1>4. v \in Configuration /\ v.active \in Menus
    BY DEF Initials
  <1>5. /\ server_config' \in Configuration
        /\ device_config' \in Configuration
        /\ server_state' \in {"configured", "running", "broken"}
        /\ folder' \in Nat /\ outputDirectory' \in Nat
        /\ folders' \subseteq Nat
    BY <1>1, <1>2, <1>4 DEF TypeInv, TypeOK
  <1>6. UNCHANGED <<client_started, retries, wait_cycles, data_files, pulled,
                    files, wanted, run>>
    BY DEF Initialize
  <1>7. reply' \in [type : {"none", "error", "ack", "data"}, run : Nat]
    BY <1>2, ReplyTypes
  <1>8. TypeOK'
    BY <1>1, <1>2, <1>3, <1>5, <1>6, <1>7 DEF TypeInv, TypeOK
  <1>9. MenuInv'
    <2>1. ~Measuring'
      BY <1>2 DEF Measuring, Configured
    <2>2. initialized' => server_config'.active \in Menus
      <3>1. CASE done = 6
        BY <1>2, <1>4, <3>1
      <3>2. CASE done # 6
        BY <1>2, <1>4, <3>2 DEF TypeInv, MenuInv
      <3>3. QED
        BY <3>1, <3>2
    <2>3. QED
      BY <2>1, <2>2 DEF MenuInv
  <1>10. QED
    BY <1>8, <1>9 DEF TypeInv

\* A measure command keeps the types: it is about a menu.
LEMMA MeasureTypes ==
    ASSUME TypeInv, NEW m \in Menus \cup {NoMenu},
           NEW c \in Contents \cup {NoContent}, Measure(m, c)
    PROVE  TypeInv'
  <1> DEFINE active == IF m = NoMenu THEN server_config.active ELSE m
             content == IF c = NoContent THEN server_config.menus[active]
                                         ELSE c
  <1>1. wanted' = [menu |-> active, content |-> content]
    BY DEF Measure
  <1>2. active \in Menus
    BY DEF Measure, TypeInv, MenuInv
  <1>3. content \in Contents \cup {NoContent}
    BY <1>2 DEF TypeInv, TypeOK, Configuration
  <1>4. /\ wanted' \in [menu : Menus \cup {NoMenu},
                        content : Contents \cup {NoContent}]
        /\ wanted'.menu \in Menus
    BY <1>1, <1>2, <1>3
  <1>5. run' \in Nat /\ pc' = "configure"
    BY DEF Measure, TypeInv, TypeOK
  <1>6. UNCHANGED <<initialized, reply, systemVars, serverVars, clientVars,
                    fsVars, inits>>
    BY DEF Measure
  <1>7. TypeOK'
    BY <1>4, <1>5, <1>6
       DEF TypeInv, TypeOK, systemVars, serverVars, clientVars, fsVars
  <1>8. MenuInv'
    BY <1>4, <1>6 DEF TypeInv, MenuInv, systemVars
  <1>9. QED
    BY <1>7, <1>8 DEF TypeInv

\* Configuring keeps the types.
LEMMA ConfigureTypes ==
    ASSUME TypeInv, Configure
    PROVE  TypeInv'
  <1>1. /\ server_config' \in {server_config, WithWanted(server_config)}
        /\ device_config' \in {device_config, WithWanted(device_config)}
        /\ pc' \in {"start client", "idle", "crashed", "hung"}
        /\ reply' \in {reply, Error, NoReply}
    BY DEF Configure, ConfigureServer, Fail, Hang
  <1>2. switched' \in BOOLEAN
    BY DEF Configure, ConfigureServer, TypeInv, TypeOK
  <1>3. retries' \in 0..StartRetries
    <2>1. retries' \in {0, StartRetries}
      BY DEF Configure
    <2>2. QED
      BY <2>1, BoundAssumption
  <1>4. /\ WithWanted(server_config) \in Configuration
        /\ WithWanted(device_config) \in Configuration
    BY WantedTypes DEF TypeInv, TypeOK
  <1>5. UNCHANGED <<initialized, client_started, folder, wait_cycles,
                    data_files, server_state, clientVars, fsVars, cmdVars>>
    BY DEF Configure
  <1>6. reply' \in [type : {"none", "error", "ack", "data"}, run : Nat]
    BY <1>1, ReplyTypes DEF TypeInv, TypeOK
  <1>7. TypeOK'
    <2>1. /\ server_config' \in Configuration
          /\ device_config' \in Configuration
      BY <1>1, <1>4 DEF TypeInv, TypeOK
    <2>2. /\ initialized' \in BOOLEAN
          /\ client_started' \in BOOLEAN
          /\ client_running' \in BOOLEAN
      BY <1>5 DEF TypeInv, TypeOK, clientVars
    <2>3. pc' \in {"idle", "configure", "start client", "start server",
                  "poll", "wait", "crashed", "hung"}
      BY <1>1
    <2>4. QED
      BY <1>2, <1>3, <1>5, <1>6, <2>1, <2>2, <2>3
         DEF TypeInv, TypeOK, clientVars, fsVars, cmdVars
  <1>8. pc = "configure" /\ wanted.menu \in Menus
    BY DEF Configure, TypeInv, MenuInv, Measuring
  <1>9. WithWanted(server_config).active = wanted.menu
    BY DEF WithWanted
  <1>10. MenuInv'
    BY <1>1, <1>5, <1>8, <1>9 DEF TypeInv, MenuInv, cmdVars
  <1>11. QED
    BY <1>7, <1>10 DEF TypeInv

\* An attempt to start a program leaves fewer attempts.
LEMMA NotStartedTypes ==
    ASSUME TypeInv, NEW ready, NotStarted(ready)
    PROVE  /\ retries' \in 0..StartRetries
           /\ \/ pc' = pc /\ reply' = reply
              \/ pc' = "idle" /\ reply' = Error
              \/ pc' = "hung" /\ reply' = NoReply
  <1>1. retries \in 0..StartRetries
    BY DEF TypeInv, TypeOK
  <1>2. CASE retries > 0 /\ retries' = retries - 1 /\ UNCHANGED <<pc, reply>>
    BY <1>1, <1>2, BoundAssumption
  <1>3. CASE retries' = 0 /\ (Fail \/ Hang)
    <2>1. 0 \in 0..StartRetries
      BY BoundAssumption
    <2>2. QED
      BY <1>3, <2>1 DEF Fail, Hang
  <1>4. QED
    BY <1>2, <1>3 DEF NotStarted

\* Starting the programs keeps the types.
LEMMA StartTypes ==
    ASSUME TypeInv, StartClient \/ StartServer
    PROVE  TypeInv'
  <1>1. /\ retries' \in 0..StartRetries
        /\ pc' \in {"start client", "start server", "poll", "idle", "hung"}
        /\ reply' \in {reply, Error, NoReply}
    <2> StartRetries \in 0..StartRetries /\ 0 \in 0..StartRetries
      BY BoundAssumption
    <2>1. CASE pc' = "start server" /\ retries' = StartRetries /\ reply' = reply
      BY <2>1
    <2>2. CASE pc' = "poll" /\ retries' = 0 /\ reply' = reply
      BY <2>2
    <2>3. CASE NotStarted(~client_running) /\ pc = "start client"
      <3>1. /\ retries' \in 0..StartRetries
            /\ \/ pc' = pc /\ reply' = reply
               \/ pc' = "idle" /\ reply' = Error
               \/ pc' = "hung" /\ reply' = NoReply
        BY <2>3, NotStartedTypes
      <3>2. QED
        BY <2>3, <3>1
    <2>4. CASE NotStarted(server_state = "configured") /\ pc = "start server"
      <3>1. /\ retries' \in 0..StartRetries
            /\ \/ pc' = pc /\ reply' = reply
               \/ pc' = "idle" /\ reply' = Error
               \/ pc' = "hung" /\ reply' = NoReply
        BY <2>4, NotStartedTypes
      <3>2. QED
        BY <2>4, <3>1
    <2>5. CASE StartClient
      BY <2>1, <2>3, <2>5 DEF StartClient
    <2>6. CASE StartServer
      BY <2>2, <2>4, <2>6 DEF StartServer
    <2>7. QED
      BY <2>5, <2>6
  <1>2. /\ client_started' \in BOOLEAN
        /\ client_running' \in BOOLEAN
        /\ server_state' \in {"configured", "running", "broken"}
    BY DEF StartClient, StartServer, serverVars, TypeInv, TypeOK
  <1>3. UNCHANGED <<initialized, folder, server_config, wait_cycles,
                    data_files, device_config, switched, outputDirectory,
                    pulled, fsVars, cmdVars>>
    BY DEF StartClient, StartServer, serverVars
  <1>4. reply' \in [type : {"none", "error", "ack", "data"}, run : Nat]
    BY <1>1, ReplyTypes DEF TypeInv, TypeOK
  <1>5. TypeOK'
    BY <1>1, <1>2, <1>3, <1>4 DEF TypeInv, TypeOK, fsVars, cmdVars
  <1>6. Measuring
    BY DEF StartClient, StartServer, Measuring, Configured
  <1>7. MenuInv'
    BY <1>3, <1>6 DEF TypeInv, MenuInv, cmdVars
  <1>8. QED
    BY <1>5, <1>7 DEF TypeInv

\* The run's data, once on its way, is a file.
LEMMA PullTypes ==
    ASSUME TypeOK
    PROVE  Pull \subseteq File
  <1>1. [folder |-> outputDirectory, run |-> run] \in File
    BY ReplyTypes DEF TypeOK
  <1>2. QED
    BY <1>1 DEF Pull, TypeOK

\* Taking data keeps the types.
LEMMA TakeDataTypes ==
    ASSUME TypeInv, ServerEndsRun \/ Poll \/ Wait
    PROVE  TypeInv'
  <1>1. wait_cycles' \in 0..WaitCycles
    <2>1. wait_cycles \in 0..WaitCycles
      BY DEF TypeInv, TypeOK
    <2>2. CASE Wait
      <3>1. wait_cycles > 0 /\ wait_cycles' = wait_cycles - 1
        BY <2>2 DEF Wait
      <3>2. QED
        BY <2>1, <3>1, BoundAssumption
    <2>3. CASE ServerEndsRun \/ Poll
      <3>1. wait_cycles' \in {wait_cycles, WaitCycles}
        BY <2>3 DEF ServerEndsRun, Poll, systemVars
      <3>2. QED
        BY <2>1, <3>1, BoundAssumption
    <2>4. QED
      BY <2>2, <2>3
  <1>2. /\ pulled' \in {pulled, Pull}
        /\ data_files' \in {data_files, In(folder)}
        /\ reply' \in {reply, Error, NoReply}
        /\ pc' \in {pc, "wait", "idle", "hung"}
        /\ server_state' \in {server_state, "configured", "broken"}
        /\ client_running' \in {FALSE, client_running}
    BY DEF ServerEndsRun, Poll, Wait, Fail, Hang, coordVars, systemVars,
       serverVars, clientVars
  <1>3. /\ In(folder) \subseteq File
        /\ Pull \subseteq File
    BY PullTypes DEF In, TypeInv, TypeOK
  <1>4. reply' \in [type : {"none", "error", "ack", "data"}, run : Nat]
    BY <1>2, ReplyTypes DEF TypeInv, TypeOK
  <1>5. UNCHANGED <<initialized, client_started, folder, server_config,
                    retries, device_config, switched, outputDirectory, fsVars,
                    cmdVars>>
    BY DEF ServerEndsRun, Poll, Wait, coordVars, systemVars, serverVars,
       clientVars
  <1>6. client_running' \in BOOLEAN
    BY <1>2 DEF TypeInv, TypeOK
  <1>7. TypeOK'
    <2>1. /\ data_files' \subseteq File
          /\ pulled' \subseteq File
          /\ server_state' \in {"configured", "running", "broken"}
          /\ pc' \in {"idle", "configure", "start client", "start server",
                      "poll", "wait", "crashed", "hung"}
      BY <1>2, <1>3 DEF TypeInv, TypeOK
    <2>2. QED
      BY <1>1, <1>4, <1>5, <1>6, <2>1 DEF TypeInv, TypeOK, fsVars, cmdVars
  <1>8. Measuring' => Measuring
    BY DEF ServerEndsRun, Poll, Wait, Fail, Hang, coordVars, Measuring,
       Configured
  <1>9. MenuInv'
    BY <1>5, <1>8 DEF TypeInv, MenuInv, cmdVars
  <1>10. QED
    BY <1>7, <1>9 DEF TypeInv

\* Collecting the run's file keeps the types.
LEMMA CollectTypes ==
    ASSUME TypeInv, Collect
    PROVE  TypeInv'
  <1>1. \/ \E f \in data_files : /\ reply' = Reply("data", f.run)
                                 /\ files' = files \ {f}
        \/ reply' = Error /\ files' = files
    BY DEF Collect, Fail
  <1>2. pc' = "idle"
    BY DEF Collect, Fail
  <1>3. \A f \in data_files : f.run \in Nat
    BY DEF TypeInv, TypeOK, File
  <1>4. reply' \in [type : {"none", "error", "ack", "data"}, run : Nat]
    <2>1. CASE reply' = Error
      BY <2>1, ReplyTypes
    <2>2. ASSUME NEW f \in data_files, reply' = Reply("data", f.run)
          PROVE  reply' \in [type : {"none", "error", "ack", "data"},
                             run : Nat]
      BY <1>3, <2>2, ReplyTypes
    <2>3. QED
      BY <1>1, <2>1, <2>2
  <1>5. files' \subseteq files
    BY <1>1
  <1>6. UNCHANGED <<initialized, systemVars, serverVars, clientVars, folders,
                    cmdVars>>
    BY DEF Collect
  <1>7. TypeOK'
    BY <1>2, <1>4, <1>5, <1>6
       DEF TypeInv, TypeOK, systemVars, serverVars, clientVars, cmdVars
  <1>8. MenuInv'
    BY <1>2, <1>6 DEF TypeInv, MenuInv, Measuring, Configured, systemVars
  <1>9. QED
    BY <1>7, <1>8 DEF TypeInv

\* Every step keeps the types.
LEMMA TypeStep == TypeInv /\ [Next]_vars => TypeInv'
  <1> SUFFICES ASSUME TypeInv, [Next]_vars
               PROVE  TypeInv'
    OBVIOUS
  <1>1. CASE WriteFile
    <2>1. TypeOK'
      <3>1. UNCHANGED <<pc, initialized, reply, client_started, folder,
                        server_config, retries, wait_cycles, data_files,
                        device_config, server_state, switched, client_running,
                        outputDirectory, folders, wanted, run, inits>>
        BY <1>1 DEF WriteFile, coordVars, systemVars, serverVars, cmdVars
      <3>2. pulled' \subseteq File /\ files' \subseteq File
        BY <1>1 DEF WriteFile, TypeInv, TypeOK
      <3>3. /\ initialized' \in BOOLEAN
            /\ client_started' \in BOOLEAN
            /\ client_running' \in BOOLEAN
            /\ switched' \in BOOLEAN
        BY <3>1 DEF TypeInv, TypeOK
      <3>4. QED
        BY <3>1, <3>2, <3>3 DEF TypeInv, TypeOK
    <2>2. MenuInv'
      <3>1. UNCHANGED <<pc, initialized, server_config, wanted>>
        BY <1>1 DEF WriteFile, coordVars, systemVars, cmdVars
      <3>2. QED
        BY <3>1 DEF TypeInv, MenuInv, Measuring, Configured
    <2>3. QED
      BY <2>1, <2>2 DEF TypeInv
  <1>2. CASE Release
    <2>1. TypeOK'
      <3>1. UNCHANGED <<folder, server_config, retries, wait_cycles,
                        data_files, device_config, server_state, switched,
                        outputDirectory, pulled, wanted, run, inits>>
        BY <1>2 DEF Release, serverVars, cmdVars
      <3>2. /\ initialized' \in BOOLEAN
            /\ client_started' \in BOOLEAN
            /\ client_running' \in BOOLEAN
            /\ switched' \in BOOLEAN
        BY <1>2, <3>1 DEF Release, TypeInv, TypeOK
      <3>3. /\ pc' \in {"idle", "crashed", "hung"}
            /\ reply' = NoReply
        BY <1>2 DEF Release
      <3>4. folders' \subseteq Nat /\ files' \subseteq File
        BY <1>2 DEF Release, TypeInv, TypeOK, fsVars
      <3>5. QED
        BY <3>1, <3>2, <3>3, <3>4, ReplyTypes DEF TypeInv, TypeOK
    <2>2. MenuInv'
      <3>1. UNCHANGED <<server_config, wanted>> /\ pc = "idle"
        BY <1>2 DEF Release, cmdVars
      <3>2. initialized' => initialized
        BY <1>2 DEF Release
      <3>3. pc' \in {pc, "crashed", "hung"}
        BY <1>2 DEF Release
      <3>4. QED
        BY <3>1, <3>2, <3>3 DEF TypeInv, MenuInv, Measuring, Configured
    <2>3. QED
      BY <2>1, <2>2 DEF TypeInv
  <1>3. CASE UNCHANGED vars
    <2>1. TypeOK'
      <3>1. UNCHANGED <<pc, initialized, reply, client_started, folder,
                        server_config, retries, wait_cycles, data_files,
                        device_config, server_state, switched, client_running,
                        outputDirectory, pulled, folders, files, wanted, run,
                        inits>>
        BY <1>3 DEF vars, coordVars, systemVars, serverVars, clientVars,
           fsVars, cmdVars
      <3>2. /\ initialized' \in BOOLEAN
            /\ client_started' \in BOOLEAN
            /\ client_running' \in BOOLEAN
            /\ switched' \in BOOLEAN
        BY <3>1 DEF TypeInv, TypeOK
      <3>3. QED
        BY <3>1, <3>2 DEF TypeInv, TypeOK
    <2>2. UNCHANGED <<pc, initialized, server_config, wanted>>
      BY <1>3 DEF vars, coordVars, systemVars, cmdVars
    <2>3. MenuInv'
      BY <2>2 DEF TypeInv, MenuInv, Measuring, Configured
    <2>4. QED
      BY <2>1, <2>3 DEF TypeInv
  <1>4. QED
    BY <1>1, <1>2, <1>3, InitializeTypes, MeasureTypes, ConfigureTypes,
       StartTypes, TakeDataTypes, CollectTypes DEF Next, Handler

\* Every variable keeps the type the code gives it, whoever calls.
THEOREM TypesAreKept == Spec => []TypeOK
  <1>1. TypeInv => TypeOK
    BY DEF TypeInv
  <1>2. QED
    BY <1>1, TypeInit, TypeStep, PTL DEF Spec

(***************************************************************************)
(* A session.  The coordinator is Serving while no command of the session  *)
(* has failed.                                                             *)
(***************************************************************************)
Serving == reply.type \in {"ack", "data"}

\* Only an initialised coordinator serves, measures or has a client started;
\* between two sessions it is not initialised.
SessionInv ==
    /\ Serving \/ client_started => initialized
    /\ Measuring => Serving
    /\ pc = "idle" /\ reply = NoReply => ~initialized

\* While it serves, the copies are what they copy: the client writes to the
\* coordinator's folder, the server has the menus of the adapter's copy, and
\* its active menu unless a switch of it was not sent, and a client that was
\* started runs.
CopyInv ==
    /\ Serving => /\ outputDirectory = folder
                  /\ device_config.menus = server_config.menus
                  /\ device_config.active = server_config.active \/ switched
                  /\ client_started => client_running
    /\ pc \in {"start server", "poll"} => client_started
    /\ server_state = "running" => pc = "poll"
    /\ CoherentConfig

\* Folders are numbered by the initialize that makes them, so those of
\* earlier sessions differ from the next one.
FolderInv ==
    /\ folder <= inits
    /\ outputDirectory <= inits
    /\ \A f \in pulled \cup files : f.folder <= inits

\* Until the server has ended the run nothing is on its way to the folder in
\* use, nor in it; from then on what is there is this run's, and there once.
DataInv ==
    /\ Serving /\ (pc \notin {"poll", "wait"} \/ server_state = "running") =>
          \A f \in pulled \cup files : f.folder # folder
    /\ pc \in {"poll", "wait"} =>
          /\ \A f \in pulled \cup files : f.folder = folder => f.run = run
          /\ \A f \in pulled \cap files : f.folder # folder
    /\ pc = "wait" => data_files \subseteq In(folder)
    /\ DataIsOfThisRun

\* What the runs of one session rest on.
SystemInv == TypeInv /\ SessionInv /\ CopyInv /\ FolderInv /\ DataInv

\* Which replies serve.
LEMMA ServingReplies ==
    /\ NoReply.type \notin {"ack", "data"}
    /\ Error.type \notin {"ack", "data"}
    /\ Reply("ack", 0).type = "ack" /\ Reply("ack", 0) # NoReply
    /\ Error # NoReply
    /\ \A r : /\ Reply("data", r).type = "data"
              /\ Reply("data", r).run = r
              /\ Reply("data", r) # NoReply
  BY DEF NoReply, Error, Reply

\* Two files of one folder and one run are one file.
LEMMA FileIdentity ==
    ASSUME NEW f \in File, NEW g \in File, f.folder = g.folder, f.run = g.run
    PROVE  f = g
  BY DEF File

\* Initially there is no session.
LEMMA SystemInit == Init => SystemInv
  BY TypeInit, ServingReplies
     DEF Init, SystemInv, SessionInv, CopyInv, FolderInv, DataInv, Serving,
         Measuring, Configured, CoherentConfig, DataIsOfThisRun

\* A session begins on a folder nothing was ever written to.
LEMMA InitializeStep ==
    ASSUME Pipelined, SystemInv, NEW v \in Initials, Initialize(v)
    PROVE  SystemInv'
  <1>1. reply = NoReply /\ ~initialized /\ ~client_started
    BY DEF Initialize, MayInitialize, SystemInv, SessionInv
  <1>2. /\ UNCHANGED <<client_started, pulled, files, wanted, run>>
        /\ pc = "idle"
        /\ inits' = inits + 1
    BY DEF Initialize
  <1>3. PICK done \in 0..6 :
           /\ server_config' = IF done >= 2 THEN v ELSE server_config
           /\ device_config' = IF done >= 3 THEN v ELSE device_config
           /\ server_state' = IF done >= 3 THEN "configured" ELSE server_state
           /\ folder' = IF done >= 3 THEN inits' ELSE folder
           /\ outputDirectory' = IF done >= 4 THEN inits' ELSE outputDirectory
           /\ IF done = 6
              THEN initialized' = TRUE /\ reply' = Reply("ack", 0) /\ pc' = pc
              ELSE UNCHANGED initialized /\ (Fail \/ Hang)
    BY DEF Initialize
  <1>4. TypeInv'
    BY TypeStep DEF SystemInv, Next
  <1>5. CASE done = 6
    <2>1. initialized' /\ reply' = Reply("ack", 0) /\ pc' = "idle"
      BY <1>2, <1>3, <1>5
    <2>2. /\ server_config' = v /\ device_config' = v
          /\ server_state' = "configured"
          /\ folder' = inits' /\ outputDirectory' = inits'
      BY <1>3, <1>5
    <2>3. SessionInv'
      BY <1>1, <1>2, <2>1, ServingReplies DEF SessionInv, Measuring, Configured
    <2>4. CopyInv'
      BY <1>1, <1>2, <2>1, <2>2 DEF CopyInv, CoherentConfig, Configured
    <2>5. FolderInv'
      BY <1>2, <2>2 DEF FolderInv, SystemInv, TypeInv, TypeOK, File
    <2>6. \A f \in pulled \cup files : f.folder # folder'
      BY <1>2, <2>2 DEF SystemInv, FolderInv, TypeInv, TypeOK, File
    <2>7. DataInv'
      BY <1>2, <2>1, <2>6, ServingReplies DEF DataInv, DataIsOfThisRun
    <2>8. QED
      BY <1>4, <2>3, <2>4, <2>5, <2>7 DEF SystemInv
  <1>6. CASE done # 6
    <2>1. /\ initialized' = initialized
          /\ \/ pc' = "idle" /\ reply' = Error
             \/ pc' = "hung" /\ reply' = NoReply
      BY <1>3, <1>6 DEF Fail, Hang
    <2>2. ~Serving' /\ pc' \notin {"poll", "wait"} /\ ~Measuring'
      BY <2>1, ServingReplies DEF Serving, Measuring, Configured
    <2>3. SessionInv'
      BY <1>1, <1>2, <2>1, <2>2, ServingReplies DEF SessionInv
    <2>4. server_state' # "running"
      BY <1>2, <1>3 DEF SystemInv, CopyInv
    <2>5. CopyInv'
      BY <2>2, <2>4 DEF CopyInv, CoherentConfig, Measuring, Configured
    <2>6. folder' \in {folder, inits'} /\ outputDirectory' \in {outputDirectory, inits'}
      BY <1>3
    <2>7. FolderInv'
      BY <1>2, <2>6 DEF FolderInv, SystemInv, TypeInv, TypeOK, File
    <2>8. DataInv'
      BY <2>1, <2>2, ServingReplies DEF DataInv, DataIsOfThisRun
    <2>9. QED
      BY <1>4, <2>3, <2>5, <2>7, <2>8 DEF SystemInv
  <1>7. QED
    BY <1>5, <1>6

\* A measure begins with nothing but its run's wishes.
LEMMA MeasureStep ==
    ASSUME Pipelined, SystemInv, NEW m \in Menus \cup {NoMenu},
           NEW c \in Contents \cup {NoContent}, Measure(m, c)
    PROVE  SystemInv'
  <1>1. Serving /\ initialized /\ pc = "idle" /\ pc' = "configure"
    BY DEF Measure, MayMeasure, Serving
  <1>2. UNCHANGED <<initialized, reply, client_started, folder, server_config,
                    device_config, server_state, switched, client_running,
                    outputDirectory, pulled, files, inits>>
    BY DEF Measure, systemVars, serverVars, clientVars, fsVars
  <1>3. TypeInv'
    BY TypeStep DEF SystemInv, Next
  <1>4. SessionInv'
    BY <1>1, <1>2 DEF SystemInv, SessionInv, Serving
  <1>5. CopyInv'
    BY <1>1, <1>2
       DEF SystemInv, CopyInv, Serving, CoherentConfig, Configured
  <1>6. FolderInv' /\ DataInv'
    BY <1>1, <1>2
       DEF SystemInv, FolderInv, DataInv, Serving, DataIsOfThisRun
  <1>7. QED
    BY <1>3, <1>4, <1>5, <1>6 DEF SystemInv

\* A handler that ends in an error, a crash or a recv without answer no longer
\* serves, and keeps what the invariant says of folders.
LEMMA EndedStep ==
    ASSUME SystemInv, TypeInv', Serving,
           ~Serving', reply' # NoReply \/ pc' # "idle",
           pc' \in {"idle", "crashed", "hung"}, server_state' # "running",
           UNCHANGED <<initialized, folder, outputDirectory, pulled, files,
                       inits>>
    PROVE  SystemInv'
  <1>1. SessionInv'
    BY DEF SystemInv, SessionInv, Measuring, Configured
  <1>2. CopyInv'
    BY DEF CopyInv, CoherentConfig, Configured
  <1>3. FolderInv'
    BY DEF SystemInv, FolderInv
  <1>4. DataInv'
    BY DEF DataInv, DataIsOfThisRun, Serving
  <1>5. QED
    BY <1>1, <1>2, <1>3, <1>4 DEF SystemInv

\* The server gets the run's menu, or has it by the copy; what is not sent is
\* a switch between menus both have.
LEMMA ConfigureStep ==
    ASSUME SystemInv, Configure
    PROVE  SystemInv'
  <1>1. UNCHANGED <<initialized, client_started, folder, server_state,
                    client_running, outputDirectory, pulled, files, wanted,
                    run, inits>>
    BY DEF Configure, clientVars, fsVars, cmdVars
  <1>2. pc = "configure" /\ Serving /\ initialized
    BY DEF Configure, SystemInv, SessionInv, Measuring
  <1>3. server_state # "running"
    BY <1>2 DEF SystemInv, CopyInv
  <1>4. TypeInv'
    BY TypeStep DEF SystemInv, Next, Handler
  <1>5. /\ wanted.menu \in Menus
        /\ DOMAIN device_config.menus = Menus
        /\ server_config.menus \in [Menus -> Contents \cup {NoContent}]
        /\ device_config.menus = server_config.menus
        /\ device_config.active = server_config.active \/ switched
    BY <1>2 DEF SystemInv, CopyInv, TypeInv, TypeOK, MenuInv, Measuring,
       Configuration
  <1>6. CASE pc' \in {"idle", "crashed", "hung"} /\ reply' \in {Error, NoReply}
    <2>1. pc' = "idle" => reply' # NoReply
      BY <1>2, ServingReplies DEF Configure, ConfigureServer, Fail, Hang
    <2>2. ~Serving'
      BY <1>6, ServingReplies DEF Serving
    <2>3. QED
      BY <1>1, <1>2, <1>3, <1>4, <1>6, <2>1, <2>2, EndedStep
  <1>7. ASSUME pc' = "start client", reply' = reply,
               device_config'.menus = server_config'.menus,
               device_config'.menus[wanted.menu] = wanted.content,
               device_config'.active = server_config'.active \/ switched',
               device_config'.active = wanted.menu \/ switched'
        PROVE  SystemInv'
    <2>1. SessionInv'
      BY <1>1, <1>2, <1>7 DEF SystemInv, SessionInv, Serving
    <2>2. CopyInv'
      BY <1>1, <1>2, <1>3, <1>7
         DEF SystemInv, CopyInv, Serving, CoherentConfig, Configured
    <2>3. FolderInv' /\ DataInv'
      BY <1>1, <1>2, <1>3, <1>7
         DEF SystemInv, FolderInv, DataInv, Serving, DataIsOfThisRun
    <2>4. QED
      BY <1>4, <2>1, <2>2, <2>3 DEF SystemInv
  <1>8. CASE /\ pc' = "start client" /\ reply' = reply
             /\ wanted.content = server_config.menus[wanted.menu]
             /\ server_config' = WithWanted(server_config)
             /\ device_config' = device_config
             /\ switched' = (switched \/ wanted.menu # server_config.active)
    <2>1. server_config'.menus = server_config.menus
      BY <1>5, <1>8 DEF WithWanted
    <2>2. server_config'.active = wanted.menu
      BY <1>8 DEF WithWanted
    <2>3. QED
      BY <1>5, <1>7, <1>8, <2>1, <2>2
  <1>9. CASE /\ pc' = "start client" /\ reply' = reply
             /\ server_config' = WithWanted(server_config)
             /\ device_config' = WithWanted(device_config)
    <2>1. device_config'.menus = server_config'.menus
      BY <1>5, <1>9 DEF WithWanted
    <2>2. /\ server_config'.active = wanted.menu
          /\ device_config'.active = wanted.menu
      BY <1>9 DEF WithWanted
    <2>3. device_config'.menus[wanted.menu] = wanted.content
      BY <1>5, <1>9 DEF WithWanted
    <2>4. QED
      BY <1>7, <1>9, <2>1, <2>2, <2>3
  <1>10. QED
    BY <1>6, <1>8, <1>9 DEF Configure, ConfigureServer, Fail, Hang

\* The client is started once a session.
LEMMA StartClientStep ==
    ASSUME SystemInv, StartClient
    PROVE  SystemInv'
  <1>1. UNCHANGED <<initialized, folder, server_config, device_config,
                    server_state, switched, outputDirectory, pulled, files,
                    wanted, run, inits>>
    BY DEF StartClient, serverVars, fsVars, cmdVars
  <1>2. pc = "start client" /\ Serving /\ initialized
    BY DEF StartClient, SystemInv, SessionInv, Measuring, Configured
  <1>3. server_state # "running"
    BY <1>2 DEF SystemInv, CopyInv
  <1>4. TypeInv'
    BY TypeStep DEF SystemInv, Next, Handler
  <1>5. CASE /\ pc' = "start server" /\ reply' = reply
             /\ client_started' = TRUE
             /\ client_running' = IF client_started THEN client_running
                                                    ELSE TRUE
    <2>1. client_started' /\ client_running'
      BY <1>2, <1>5 DEF SystemInv, CopyInv
    <2>2. SessionInv'
      BY <1>1, <1>2, <1>5 DEF SystemInv, SessionInv, Serving
    <2>3. CopyInv'
      BY <1>1, <1>2, <1>3, <1>5, <2>1
         DEF SystemInv, CopyInv, Serving, CoherentConfig, Configured
    <2>4. FolderInv' /\ DataInv'
      BY <1>1, <1>2, <1>3, <1>5
         DEF SystemInv, FolderInv, DataInv, Serving, DataIsOfThisRun
    <2>5. QED
      BY <1>4, <2>2, <2>3, <2>4 DEF SystemInv
  <1>6. CASE /\ pc' = pc /\ reply' = reply
             /\ UNCHANGED <<client_started, client_running>>
    <2>1. SessionInv' /\ CopyInv'
      BY <1>1, <1>2, <1>3, <1>6
         DEF SystemInv, SessionInv, CopyInv, Serving, Measuring,
             CoherentConfig, Configured
    <2>2. FolderInv' /\ DataInv'
      BY <1>1, <1>2, <1>3, <1>6
         DEF SystemInv, FolderInv, DataInv, Serving, DataIsOfThisRun
    <2>3. QED
      BY <1>4, <2>1, <2>2 DEF SystemInv
  <1>7. CASE \/ pc' = "idle" /\ reply' = Error
             \/ pc' = "hung" /\ reply' = NoReply
    <2>1. ~Serving' /\ (reply' # NoReply \/ pc' # "idle")
      BY <1>7, ServingReplies DEF Serving
    <2>2. QED
      BY <1>1, <1>2, <1>3, <1>4, <1>7, <2>1, EndedStep
  <1>8. QED
    BY <1>5, <1>6, <1>7 DEF StartClient, NotStarted, Fail, Hang

\* The server is started, tried again, or given up.
LEMMA StartServerStep ==
    ASSUME SystemInv, StartServer
    PROVE  SystemInv'
  <1>1. UNCHANGED <<initialized, client_started, folder, server_config,
                    device_config, switched, outputDirectory, pulled, files,
                    wanted, run, inits>>
    BY DEF StartServer, fsVars, cmdVars
  <1>2. pc = "start server" /\ Serving /\ initialized /\ client_started
    BY DEF StartServer, SystemInv, SessionInv, CopyInv, Measuring, Configured
  <1>3. server_state # "running"
    BY <1>2 DEF SystemInv, CopyInv
  <1>4. TypeInv'
    BY TypeStep DEF SystemInv, Next, Handler
  <1>5. \A f \in pulled \cup files : f.folder # folder
    BY <1>2 DEF SystemInv, DataInv
  <1>6. CASE /\ pc' \in {"poll", "start server"} /\ reply' = reply
             /\ server_state' = "running" => pc' = "poll"
             /\ UNCHANGED client_running
    <2>1. SessionInv'
      BY <1>1, <1>2, <1>6 DEF SystemInv, SessionInv, Serving
    <2>2. CopyInv'
      BY <1>1, <1>2, <1>6
         DEF SystemInv, CopyInv, Serving, CoherentConfig, Configured
    <2>3. FolderInv' /\ DataInv'
      BY <1>1, <1>2, <1>5, <1>6
         DEF SystemInv, FolderInv, DataInv, Serving, DataIsOfThisRun
    <2>4. QED
      BY <1>4, <2>1, <2>2, <2>3 DEF SystemInv
  <1>7. CASE /\ \/ pc' = "idle" /\ reply' = Error
                \/ pc' = "hung" /\ reply' = NoReply
             /\ UNCHANGED server_state
    <2>1. ~Serving' /\ (reply' # NoReply \/ pc' # "idle")
      BY <1>7, ServingReplies DEF Serving
    <2>2. QED
      BY <1>1, <1>2, <1>3, <1>4, <1>7, <2>1, EndedStep
  <1>8. QED
    BY <1>2, <1>3, <1>6, <1>7 DEF StartServer, NotStarted, Fail, Hang

\* The server's run sends one file on its way to the folder in use.
LEMMA ServerEndsRunStep ==
    ASSUME SystemInv, ServerEndsRun
    PROVE  SystemInv'
  <1>1. UNCHANGED <<pc, initialized, reply, client_started, folder,
                    server_config, device_config, switched, data_files,
                    client_running, outputDirectory, files, wanted, run,
                    inits>>
    BY DEF ServerEndsRun, coordVars, systemVars, fsVars, cmdVars
  <1>2. /\ pc = "poll" /\ Serving /\ server_state = "running"
        /\ client_running /\ outputDirectory = folder
    BY DEF ServerEndsRun, SystemInv, SessionInv, CopyInv, Measuring, Configured
  <1> DEFINE new == [folder |-> folder, run |-> run]
  <1>3. pulled' \in {pulled, pulled \cup {new}}
    BY <1>2 DEF ServerEndsRun, Pull
  <1>4. new.folder = folder /\ new.run = run
    OBVIOUS
  <1>5. server_state' # "running"
    BY DEF ServerEndsRun
  <1>6. TypeInv'
    BY TypeStep DEF SystemInv, Next
  <1>7. SessionInv' /\ CopyInv'
    BY <1>1, <1>2, <1>5
       DEF SystemInv, SessionInv, CopyInv, Serving, Measuring, Configured,
           CoherentConfig
  <1>8. FolderInv'
    BY <1>1, <1>3, <1>4 DEF SystemInv, FolderInv
  <1>9. \A f \in pulled \cup files : f.folder # folder
    BY <1>2 DEF SystemInv, DataInv
  <1>10. DataInv'
    BY <1>1, <1>2, <1>3, <1>4, <1>5, <1>9 DEF DataInv, DataIsOfThisRun
  <1>11. QED
    BY <1>6, <1>7, <1>8, <1>10 DEF SystemInv

\* The adapter sees that the run has ended.
LEMMA PollStep ==
    ASSUME SystemInv, Poll
    PROVE  SystemInv'
  <1>1. UNCHANGED <<initialized, client_started, folder, server_config,
                    device_config, server_state, switched, outputDirectory,
                    pulled, files, wanted, run, inits>>
    BY DEF Poll, serverVars, fsVars, cmdVars
  <1>2. /\ pc = "poll" /\ Serving /\ initialized
        /\ server_state # "running"
    BY DEF Poll, SystemInv, SessionInv, Measuring, Configured
  <1>3. TypeInv'
    BY TypeStep DEF SystemInv, Next, Handler
  <1>4. CASE /\ pc' = "wait" /\ UNCHANGED <<client_running, reply>>
             /\ data_files' = In(folder)
    <2>1. SessionInv' /\ CopyInv'
      BY <1>1, <1>2, <1>4
         DEF SystemInv, SessionInv, CopyInv, Serving, Measuring, Configured,
             CoherentConfig
    <2>2. FolderInv' /\ DataInv'
      BY <1>1, <1>2, <1>4
         DEF SystemInv, FolderInv, DataInv, In, DataIsOfThisRun
    <2>3. QED
      BY <1>3, <2>1, <2>2 DEF SystemInv
  <1>5. CASE \/ pc' = "idle" /\ reply' = Error
             \/ pc' = "hung" /\ reply' = NoReply
    <2>1. ~Serving' /\ (reply' # NoReply \/ pc' # "idle")
      BY <1>5, ServingReplies DEF Serving
    <2>2. QED
      BY <1>1, <1>2, <1>3, <1>5, <2>1, EndedStep
  <1>6. QED
    BY <1>4, <1>5 DEF Poll, Fail, Hang

\* Waiting only lists the folder again.
LEMMA WaitStep ==
    ASSUME SystemInv, Wait
    PROVE  SystemInv'
  <1>1. UNCHANGED <<pc, initialized, reply, client_started, folder,
                    server_config, device_config, server_state, switched,
                    client_running, outputDirectory, pulled, files, wanted,
                    run, inits>>
        /\ data_files' = In(folder)
    BY DEF Wait, coordVars, serverVars, clientVars, fsVars, cmdVars
  <1>2. TypeInv'
    BY TypeStep DEF SystemInv, Next, Handler
  <1>3. SessionInv' /\ CopyInv' /\ FolderInv'
    BY <1>1 DEF SystemInv, SessionInv, CopyInv, FolderInv, Serving,
       Measuring, Configured, CoherentConfig
  <1>4. DataInv'
    BY <1>1 DEF SystemInv, DataInv, Serving, In, DataIsOfThisRun
  <1>5. QED
    BY <1>2, <1>3, <1>4 DEF SystemInv

\* The one file found is this run's, and moving it leaves nothing of the
\* folder behind.
LEMMA CollectStep ==
    ASSUME SystemInv, Collect
    PROVE  SystemInv'
  <1>1. UNCHANGED <<initialized, client_started, folder, server_config,
                    device_config, server_state, switched, client_running,
                    outputDirectory, pulled, wanted, run, inits>>
    BY DEF Collect, systemVars, serverVars, clientVars, cmdVars
  <1>2. pc = "wait" /\ pc' = "idle" /\ Serving /\ initialized
    BY DEF Collect, Fail, SystemInv, SessionInv, Measuring, Configured
  <1>3. \/ \E f \in data_files : /\ reply' = Reply("data", f.run)
                                 /\ files' = files \ {f}
        \/ reply' = Error /\ files' = files
    BY DEF Collect, Fail
  <1>4. TypeInv'
    BY TypeStep DEF SystemInv, Next, Handler
  <1>5. SessionInv' /\ CopyInv' /\ FolderInv'
    BY <1>1, <1>2, <1>3, ServingReplies
       DEF SystemInv, SessionInv, CopyInv, FolderInv, Serving, Measuring,
           Configured, CoherentConfig
  <1>6. ASSUME NEW f \in data_files,
               reply' = Reply("data", f.run), files' = files \ {f}
        PROVE  DataInv'
    <2>1. f \in files /\ f.folder = folder /\ f.run = run
      BY <1>2 DEF SystemInv, DataInv, In
    <2>2. ASSUME NEW g \in pulled' \cup files', g.folder = folder
          PROVE  FALSE
      <3>1. g \in pulled \cup files /\ g.run = run
        BY <1>1, <1>2, <1>6, <2>2 DEF SystemInv, DataInv
      <3>2. g = f
        BY <2>1, <2>2, <3>1, FileIdentity DEF SystemInv, TypeInv, TypeOK
      <3>3. g \in pulled \cap files
        BY <1>1, <1>6, <2>1, <2>2, <3>2
      <3>4. QED
        BY <1>2, <2>2, <3>3 DEF SystemInv, DataInv
    <2>3. DataIsOfThisRun'
      BY <1>1, <1>6, <2>1, ServingReplies DEF DataIsOfThisRun
    <2>4. QED
      BY <1>1, <1>2, <2>2, <2>3 DEF DataInv
  <1>7. ASSUME reply' = Error
        PROVE  DataInv'
    BY <1>2, <1>7, ServingReplies DEF DataInv, Serving, DataIsOfThisRun
  <1>8. QED
    BY <1>3, <1>4, <1>5, <1>6, <1>7 DEF SystemInv

\* The client writes where its file was addressed to.
LEMMA WriteFileStep ==
    ASSUME SystemInv, WriteFile
    PROVE  SystemInv'
  <1>1. UNCHANGED <<pc, initialized, reply, client_started, folder,
                    server_config, data_files, device_config, server_state,
                    switched, client_running, outputDirectory, wanted, run,
                    inits>>
    BY DEF WriteFile, coordVars, systemVars, serverVars, cmdVars
  <1>2. PICK f \in pulled : /\ pulled' = pulled \ {f}
                            /\ files' \in {files, files \cup {f}}
    BY DEF WriteFile
  <1>3. TypeInv'
    BY TypeStep DEF SystemInv, Next
  <1>4. SessionInv' /\ CopyInv' /\ FolderInv'
    BY <1>1, <1>2 DEF SystemInv, SessionInv, CopyInv, FolderInv, Serving,
       Measuring, Configured, CoherentConfig
  <1>5. DataInv'
    BY <1>1, <1>2 DEF SystemInv, DataInv, Serving, In, DataIsOfThisRun
  <1>6. QED
    BY <1>3, <1>4, <1>5 DEF SystemInv

\* A release ends the session, or the coordinator.
LEMMA ReleaseStep ==
    ASSUME SystemInv, Release
    PROVE  SystemInv'
  <1>1. UNCHANGED <<folder, data_files, server_state, outputDirectory, pulled,
                    wanted, run, inits>>
        /\ pc = "idle" /\ reply' = NoReply /\ files' \subseteq files
    BY DEF Release, serverVars, fsVars, cmdVars
  <1>2. \/ pc' = "idle" /\ ~initialized' /\ ~client_started'
        \/ pc' \in {"crashed", "hung"} /\ initialized /\ initialized'
    <2>1. client_started => initialized
      BY DEF SystemInv, SessionInv
    <2>2. CASE ~initialized /\ UNCHANGED <<pc, initialized, client_started>>
      BY <1>1, <2>1, <2>2
    <2>3. CASE /\ initialized' = FALSE /\ client_started' = FALSE
               /\ UNCHANGED pc
      BY <1>1, <2>3
    <2>4. CASE /\ initialized /\ UNCHANGED initialized
               /\ pc' \in {"crashed", "hung"}
      BY <2>4
    <2>5. QED
      BY <2>2, <2>3, <2>4 DEF Release
  <1>3. TypeInv'
    BY TypeStep DEF SystemInv, Next
  <1>4. /\ ~Serving' /\ pc' \in {"idle", "crashed", "hung"}
        /\ server_state' # "running"
    BY <1>1, <1>2, ServingReplies DEF Serving, SystemInv, CopyInv
  <1>5. SessionInv' /\ CopyInv'
    <2>1. SessionInv'
      BY <1>2, <1>4 DEF SystemInv, SessionInv, Measuring, Configured
    <2>2. QED
      BY <1>4, <2>1 DEF CopyInv, Configured, CoherentConfig
  <1>6. FolderInv' /\ DataInv'
    BY <1>1, <1>4, ServingReplies
       DEF SystemInv, FolderInv, DataInv, DataIsOfThisRun
  <1>7. QED
    BY <1>3, <1>5, <1>6 DEF SystemInv

\* The invariant holds in every state the program's caller can reach.
LEMMA SystemInvariant ==
    ASSUME Pipelined
    PROVE  Spec => []SystemInv
  <1>1. ASSUME SystemInv, [Next]_vars
        PROVE  SystemInv'
    <2>1. CASE UNCHANGED vars
      <3>1. TypeInv'
        BY <1>1, TypeStep DEF SystemInv
      <3>2. UNCHANGED <<pc, initialized, reply, client_started, folder,
                        server_config, data_files, device_config,
                        server_state, switched, client_running,
                        outputDirectory, pulled, files, wanted, run, inits>>
        BY <2>1 DEF vars, coordVars, systemVars, serverVars, clientVars,
           fsVars, cmdVars
      <3>3. SessionInv' /\ CopyInv'
        BY <1>1, <3>2 DEF SystemInv, SessionInv, CopyInv, Serving, Measuring,
           Configured, CoherentConfig
      <3>4. FolderInv' /\ DataInv'
        BY <1>1, <3>2 DEF SystemInv, FolderInv, DataInv, Serving, In,
           DataIsOfThisRun
      <3>5. QED
        BY <3>1, <3>3, <3>4 DEF SystemInv
    <2>2. QED
      BY <1>1, <2>1, InitializeStep, MeasureStep, ConfigureStep,
         StartClientStep, StartServerStep, ServerEndsRunStep, PollStep,
         WaitStep, CollectStep, WriteFileStep, ReleaseStep DEF Next, Handler
  <1>2. QED
    BY <1>1, SystemInit, PTL DEF Spec

\* While it measures, the server has the run's contents in the run's menu,
\* and that menu is active unless a switch of the menu was not sent: trusting
\* the adapter's copy is sound for contents, as long as an error ends the
\* session.
THEOREM ServerRunsAsAsked ==
    ASSUME Pipelined
    PROVE  Spec => []CoherentConfig
  <1>1. SystemInv => CoherentConfig
    BY DEF SystemInv, CopyInv
  <1>2. QED
    BY <1>1, SystemInvariant, PTL

\* The server is started and takes data only while the client is there to pull it.
THEOREM ClientPulls ==
    ASSUME Pipelined
    PROVE  Spec => []ClientRunsWithServer
  <1>1. SystemInv => ClientRunsWithServer
    BY DEF SystemInv, SessionInv, CopyInv, Measuring, Configured,
       ClientRunsWithServer
  <1>2. QED
    BY <1>1, SystemInvariant, PTL

\* The data a measure answers with is that run's, whenever the client wrote.
THEOREM DataOfThisRun ==
    ASSUME Pipelined
    PROVE  Spec => []DataIsOfThisRun
  <1>1. SystemInv => DataIsOfThisRun
    BY DEF SystemInv, DataInv
  <1>2. QED
    BY <1>1, SystemInvariant, PTL
=============================================================================
