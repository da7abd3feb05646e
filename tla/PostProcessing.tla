--------------------------- MODULE PostProcessing ---------------------------
(***************************************************************************)
(* datenraffinerie/postprocessing_queue.py: the thread that starts an      *)
(* unpacker for the raw file of every run, and the thread that starts a    *)
(* fracker, which merges the unpacked data with the run's full             *)
(* configuration into the hdf file.  Both keep a bounded list of running   *)
(* processes, which they poll.  The unpacker and the fracker are external  *)
(* programs.                                                               *)
(*                                                                         *)
(* The runs come from the acquisition thread of datenraffinerie, or from   *)
(* the directory that process-raw-data reads (FromDisk).  A file is its    *)
(* content, one of those the producer can write; hdf[r] is the pair of     *)
(* what the root file and the configuration file of run r held.  A process *)
(* that fails, or is killed, may have created its output: such a file is   *)
(* Partial, and the threads leave it where it is.                          *)
(***************************************************************************)
EXTENDS Integers, Sequences, FiniteSets, Sorting

CONSTANTS
    RunCount,
    Content,         \* what a raw or configuration file can hold
    NoConfig,
    Partial,         \* what a process that failed may have left
    max_parallel_unpackers,
    max_parallel_frackers,
    keep_root,       \* --root
    Installed,       \* the external programs that are installed
    Programs,        \* the programs considered
    RawFiles,        \* process-raw-data: the runs that have a raw file
    ConfigFiles      \* process-raw-data: which runs can have a full
                     \* configuration file, as a set of sets

Runs == 0 .. RunCount - 1

ASSUME RunsAssumption == /\ RunCount \in Nat \ {0}
                         /\ NoConfig \notin Content \cup (Content \X Content)
                         /\ Partial \notin Content \cup (Content \X Content)
                         /\ Partial # NoConfig
ASSUME TasksAssumption == /\ max_parallel_unpackers \in Nat \ {0}
                          /\ max_parallel_frackers \in Nat \ {0}
ASSUME OptionAssumption == /\ keep_root \in BOOLEAN
                           /\ Programs \subseteq
                                {"datenraffinerie", "process-raw-data"}
                           /\ Installed \subseteq {"unpack", "fracker"}
                           /\ RawFiles \subseteq Runs
                           /\ ConfigFiles \subseteq SUBSET Runs

VARIABLES
    program,         \* which program runs
    unread,          \* raw files process-raw-data has not put in the queue
    raw_data_queue,
    data_taking_done,
    raw_data,        \* the raw files
    full_config,     \* the full configuration files
    unpack_pc,
    unpacking,       \* running_tasks of the unpack thread
    root_data,       \* the root files
    root_data_queue,
    unpacking_done,
    frack_pc,
    fracking,        \* running_tasks of the frack thread
    hdf,             \* the hdf files
    fracking_done

inputVars == <<unread, data_taking_done, full_config>>
unpackVars == <<unpack_pc, unpacking, unpacking_done>>
frackVars == <<frack_pc, fracking, hdf, fracking_done>>
vars == <<program, raw_data_queue, raw_data, inputVars, unpackVars, root_data,
          root_data_queue, frackVars>>

-----------------------------------------------------------------------------
Task(r) == [run |-> r, returncode |-> "none"]
RunsOf(tasks) == {tasks[i].run : i \in DOMAIN tasks}
Removed(files, rs) == [r \in Runs |-> IF r \in rs THEN NoConfig ELSE files[r]]

\* The runs of a list of tasks, of those that exited (del_indices holds
\* their places), and the list without these.
At(tasks, code) == {i \in DOMAIN tasks : tasks[i].returncode = code}
Failed(tasks) == {tasks[i].run : i \in At(tasks, "failed")}
Exited(tasks) == {tasks[i].run : i \in At(tasks, "ok") \cup At(tasks, "failed")}
Succeeded(tasks) ==
    LET order == Sorted(At(tasks, "ok"))
    IN [k \in DOMAIN order |-> tasks[order[k]].run]
Running(tasks) ==
    LET order == Sorted(At(tasks, "none"))
    IN [k \in DOMAIN order |-> tasks[order[k]]]

Whole(file) == file \notin {NoConfig, Partial}

NoFiles == [r \in Runs |-> NoConfig]
OnDisk(rs) == {files \in [Runs -> Content \cup {NoConfig}] :
                 \A r \in Runs : files[r] # NoConfig <=> r \in rs}

FromDisk == program = "process-raw-data"

\* The zip of the sorted configuration files and the sorted raw files.
ConfigOf(r) == IF FromDisk
               THEN CHOOSE c \in Runs : Rank(c, Runs) = Rank(r, RawFiles)
               ELSE r

StagesInit ==
    /\ unpack_pc = "loop"
    /\ unpacking = <<>>
    /\ root_data = NoFiles
    /\ root_data_queue = <<>>
    /\ unpacking_done = FALSE
    /\ frack_pc = "loop"
    /\ fracking = <<>>
    /\ hdf = NoFiles
    /\ fracking_done = FALSE

Init ==
    /\ program \in Programs
    /\ unread = IF FromDisk THEN Sorted(RawFiles) ELSE <<>>
    /\ raw_data_queue = <<>>
    /\ data_taking_done = FALSE
    /\ raw_data \in OnDisk(IF FromDisk THEN RawFiles ELSE {})
    /\ full_config \in UNION {OnDisk(rs) : rs \in IF FromDisk THEN ConfigFiles
                                                   ELSE {{}}}
    /\ StagesInit

-----------------------------------------------------------------------------
(* What feeds the queue.                                                   *)

\* The acquisition thread of datenraffinerie puts a run it has acquired, with
\* the files written on the way to it, whatever they hold.
Acquire(r) ==
    /\ ~FromDisk
    /\ ~data_taking_done
    /\ full_config[r] = NoConfig
    /\ \E data, config \in Content :
          /\ raw_data' = [raw_data EXCEPT ![r] = data]
          /\ full_config' = [full_config EXCEPT ![r] = config]
    /\ raw_data_queue' = Append(raw_data_queue, r)
    /\ UNCHANGED <<program, unread, data_taking_done, unpackVars, root_data,
                   root_data_queue, frackVars>>

AcquisitionEnds ==
    /\ ~FromDisk
    /\ ~data_taking_done
    /\ data_taking_done' = TRUE
    /\ UNCHANGED <<program, unread, raw_data_queue, raw_data, full_config,
                   unpackVars, root_data, root_data_queue, frackVars>>

\* main of process-raw-data puts the raw files one by one, with the
\* configuration file zip pairs them with, and sets the event after the last.
PutRawFile ==
    /\ FromDisk
    /\ unread # <<>>
    /\ full_config[ConfigOf(Head(unread))] # NoConfig
    /\ unread' = Tail(unread)
    /\ raw_data_queue' = Append(raw_data_queue, Head(unread))
    /\ UNCHANGED <<program, data_taking_done, raw_data, full_config,
                   unpackVars, root_data, root_data_queue, frackVars>>

RawFilesPut ==
    /\ FromDisk
    /\ unread = <<>>
    /\ ~data_taking_done
    /\ data_taking_done' = TRUE
    /\ UNCHANGED <<program, unread, raw_data_queue, raw_data, full_config,
                   unpackVars, root_data, root_data_queue, frackVars>>

\* Without the configuration file, main sets both events and waits for the
\* threads to end.
ConfigFileMissing ==
    /\ FromDisk
    /\ unread # <<>>
    /\ ~data_taking_done
    /\ full_config[ConfigOf(Head(unread))] = NoConfig
    /\ data_taking_done' = TRUE
    /\ unpacking_done' = TRUE
    /\ UNCHANGED <<program, unread, raw_data_queue, raw_data, full_config,
                   unpack_pc, unpacking, root_data, root_data_queue,
                   frackVars>>

-----------------------------------------------------------------------------
(* unpack_data                                                             *)

\* Mutant: the running tasks do not keep the loop alive.
UnpackLoopLeaving ==
    /\ unpack_pc = "loop"
    /\ IF ~data_taking_done \/ raw_data_queue # <<>>
       THEN unpack_pc' = "get" /\ UNCHANGED unpacking_done
       ELSE unpack_pc' = "done" /\ unpacking_done' = TRUE
    /\ UNCHANGED <<program, raw_data_queue, raw_data, inputVars, unpacking,
                   root_data, root_data_queue, frackVars>>

UnpackLoop ==
    /\ unpack_pc = "loop"
    /\ IF ~data_taking_done \/ raw_data_queue # <<>> \/ unpacking # <<>>
       THEN unpack_pc' = "get" /\ UNCHANGED unpacking_done
       ELSE unpack_pc' = "done" /\ unpacking_done' = TRUE
    /\ UNCHANGED <<program, raw_data_queue, raw_data, inputVars, unpacking,
                   root_data, root_data_queue, frackVars>>

\* Mutant: one task more than there may be.
UnpackGetMore ==
    /\ unpack_pc = "get"
    /\ IF Len(unpacking) <= max_parallel_unpackers /\ raw_data_queue # <<>>
       THEN /\ raw_data_queue' = Tail(raw_data_queue)
            /\ unpacking' = Append(unpacking, Task(Head(raw_data_queue)))
       ELSE UNCHANGED <<raw_data_queue, unpacking>>
    /\ unpack_pc' = "poll"
    /\ UNCHANGED <<program, raw_data, inputVars, unpacking_done, root_data,
                   root_data_queue, frackVars>>

\* An item has the six names of generate_run_file_names; the four that
\* process-raw-data puts raise a ValueError, and a missing unpacker a
\* FileNotFoundError, which end the thread.
UnpackGet ==
    /\ unpack_pc = "get"
    /\ IF Len(unpacking) < max_parallel_unpackers /\ raw_data_queue # <<>>
       THEN /\ raw_data_queue' = Tail(raw_data_queue)
            /\ IF FromDisk \/ "unpack" \notin Installed
               THEN unpack_pc' = "dead" /\ UNCHANGED unpacking
               ELSE /\ unpack_pc' = "poll"
                    /\ unpacking' = Append(unpacking,
                                           Task(Head(raw_data_queue)))
       ELSE unpack_pc' = "poll" /\ UNCHANGED <<raw_data_queue, unpacking>>
    /\ UNCHANGED <<program, raw_data, inputVars, unpacking_done, root_data,
                   root_data_queue, frackVars>>

\* Mutant: a failed unpacker's run is passed on.
UnpackPollAll ==
    /\ unpack_pc = "poll"
    /\ root_data_queue' =
          root_data_queue \o Succeeded(unpacking) \o Sorted(Failed(unpacking))
    /\ raw_data' = Removed(raw_data, Failed(unpacking))
    /\ unpacking' = Running(unpacking)
    /\ unpack_pc' = "loop"
    /\ UNCHANGED <<program, raw_data_queue, inputVars, unpacking_done,
                   root_data, frackVars>>

\* Exited tasks leave the list: those that succeeded are passed on, the raw
\* file of those that failed is removed.
UnpackPoll ==
    /\ unpack_pc = "poll"
    /\ root_data_queue' = root_data_queue \o Succeeded(unpacking)
    /\ raw_data' = Removed(raw_data, Failed(unpacking))
    /\ unpacking' = Running(unpacking)
    /\ unpack_pc' = "loop"
    /\ UNCHANGED <<program, raw_data_queue, inputVars, unpacking_done,
                   root_data, frackVars>>

\* An unpacker ends: it has written the root file, or it failed and the root
\* file is missing or what was written of it.
UnpackerExits(i) ==
    /\ i \in DOMAIN unpacking
    /\ unpacking[i].returncode = "none"
    /\ LET r == unpacking[i].run IN
       \/ /\ unpacking' = [unpacking EXCEPT ![i].returncode = "ok"]
          /\ root_data' = [root_data EXCEPT ![r] = raw_data[r]]
       \/ /\ unpacking' = [unpacking EXCEPT ![i].returncode = "failed"]
          /\ \/ UNCHANGED root_data
             \/ root_data' = [root_data EXCEPT ![r] = Partial]
    /\ UNCHANGED <<program, raw_data_queue, raw_data, inputVars, unpack_pc,
                   unpacking_done, root_data_queue, frackVars>>

-----------------------------------------------------------------------------
(* frack_data                                                              *)

FrackLoop ==
    /\ frack_pc = "loop"
    /\ IF ~unpacking_done \/ root_data_queue # <<>> \/ fracking # <<>>
       THEN frack_pc' = "get" /\ UNCHANGED fracking_done
       ELSE frack_pc' = "done" /\ fracking_done' = TRUE
    /\ UNCHANGED <<program, raw_data_queue, raw_data, inputVars, unpackVars,
                   root_data, root_data_queue, fracking, hdf>>

\* A missing fracker raises the FileNotFoundError that ends the thread.
FrackGet ==
    /\ frack_pc = "get"
    /\ IF Len(fracking) < max_parallel_frackers /\ root_data_queue # <<>>
       THEN /\ root_data_queue' = Tail(root_data_queue)
            /\ IF "fracker" \notin Installed
               THEN frack_pc' = "dead" /\ UNCHANGED fracking
               ELSE /\ frack_pc' = "poll"
                    /\ fracking' = Append(fracking,
                                          Task(Head(root_data_queue)))
       ELSE frack_pc' = "poll" /\ UNCHANGED <<root_data_queue, fracking>>
    /\ UNCHANGED <<program, raw_data_queue, raw_data, inputVars, unpackVars,
                   root_data, hdf, fracking_done>>

\* Mutant: the root files go with every poll.
FrackPollEager ==
    /\ frack_pc = "poll"
    /\ raw_data' = Removed(raw_data, Failed(fracking))
    /\ root_data' = IF keep_root THEN root_data
                    ELSE Removed(root_data, RunsOf(fracking))
    /\ fracking' = Running(fracking)
    /\ frack_pc' = "loop"
    /\ UNCHANGED <<program, raw_data_queue, inputVars, unpackVars,
                   root_data_queue, hdf, fracking_done>>

\* Mutant: exited tasks stay in the list.
FrackPollKeeps ==
    /\ frack_pc = "poll"
    /\ raw_data' = Removed(raw_data, Failed(fracking))
    /\ root_data' = IF keep_root THEN root_data
                    ELSE Removed(root_data, Exited(fracking))
    /\ frack_pc' = "loop"
    /\ UNCHANGED <<program, raw_data_queue, inputVars, unpackVars,
                   root_data_queue, fracking, hdf, fracking_done>>

\* The raw file of a fracker that failed is removed, and the root file of
\* every one that exited unless it is to be kept.
FrackPoll ==
    /\ frack_pc = "poll"
    /\ raw_data' = Removed(raw_data, Failed(fracking))
    /\ root_data' = IF keep_root THEN root_data
                    ELSE Removed(root_data, Exited(fracking))
    /\ fracking' = Running(fracking)
    /\ frack_pc' = "loop"
    /\ UNCHANGED <<program, raw_data_queue, inputVars, unpackVars,
                   root_data_queue, hdf, fracking_done>>

\* A fracker ends: it has written the hdf file, or it failed, before or after
\* it created the file.
FrackerExits(i) ==
    /\ i \in DOMAIN fracking
    /\ fracking[i].returncode = "none"
    /\ LET r == fracking[i].run IN
       \/ /\ fracking' = [fracking EXCEPT ![i].returncode = "ok"]
          /\ hdf' = [hdf EXCEPT ![r] =
                       <<root_data[r], full_config[ConfigOf(r)]>>]
       \/ /\ fracking' = [fracking EXCEPT ![i].returncode = "failed"]
          /\ \/ UNCHANGED hdf
             \/ hdf' = [hdf EXCEPT ![r] = Partial]
    /\ UNCHANGED <<program, raw_data_queue, raw_data, inputVars, unpackVars,
                   root_data, root_data_queue, frack_pc, fracking_done>>

-----------------------------------------------------------------------------
Main == PutRawFile \/ RawFilesPut \/ ConfigFileMissing
Feed == (\E r \in Runs : Acquire(r)) \/ AcquisitionEnds \/ Main
UnpackThread == UnpackLoop \/ UnpackGet \/ UnpackPoll
FrackThread == FrackLoop \/ FrackGet \/ FrackPoll
Unpacker(i) == UnpackerExits(i)
Fracker(i) == FrackerExits(i)

PostNext ==
    \/ UnpackThread
    \/ \E i \in DOMAIN unpacking : Unpacker(i)
    \/ FrackThread
    \/ \E i \in DOMAIN fracking : Fracker(i)

Next == Feed \/ PostNext

Spec == Init /\ [][Next]_vars

\* Both threads are scheduled and every unpacker and fracker ends.
PostFairness ==
    /\ WF_vars(UnpackThread)
    /\ WF_vars(FrackThread)
    /\ \A i \in 1..max_parallel_unpackers : WF_vars(Unpacker(i))
    /\ \A i \in 1..max_parallel_frackers : WF_vars(Fracker(i))
FairSpec == Spec /\ PostFairness /\ WF_vars(Main)

-----------------------------------------------------------------------------
(***************************************************************************)
(* Properties.                                                             *)
(***************************************************************************)
TaskType == [run : Runs, returncode : {"none", "ok", "failed"}]

\* Every variable keeps the type the code gives it, and the lists of running
\* processes their bounds.
TypeOK ==
    /\ program \in Programs
    /\ unread \in Seq(Runs)
    /\ raw_data_queue \in Seq(Runs)
    /\ data_taking_done \in BOOLEAN
    /\ raw_data \in [Runs -> Content \cup {NoConfig}]
    /\ full_config \in [Runs -> Content \cup {NoConfig}]
    /\ unpack_pc \in {"loop", "get", "poll", "done", "dead"}
    /\ unpacking \in Seq(TaskType)
    /\ Len(unpacking) <= max_parallel_unpackers
    /\ root_data \in [Runs -> Content \cup {NoConfig, Partial}]
    /\ root_data_queue \in Seq(Runs)
    /\ unpacking_done \in BOOLEAN
    /\ frack_pc \in {"loop", "get", "poll", "done", "dead"}
    /\ fracking \in Seq(TaskType)
    /\ Len(fracking) <= max_parallel_frackers
    /\ hdf \in [Runs -> (Content \X Content) \cup {NoConfig, Partial}]
    /\ fracking_done \in BOOLEAN

Occurrences(r, s) == Cardinality({i \in DOMAIN s : s[i] = r})
TasksOn(r, tasks) == Cardinality({i \in DOMAIN tasks : tasks[i].run = r})
Fracked(r) == Whole(hdf[r]) /\ r \notin RunsOf(fracking)
Places(r) ==
    Occurrences(r, raw_data_queue) + TasksOn(r, unpacking)
    + Occurrences(r, root_data_queue) + TasksOn(r, fracking)
    + (IF Fracked(r) THEN 1 ELSE 0)

\* A run that was acquired and whose raw file exists is in exactly one place:
\* waiting for or in one of the two stages, or whole in its hdf file.  A run
\* whose raw file was removed is in none: an hdf file it has is a partial one.
RunInOnePlace ==
    ~FromDisk => \A r \in Runs : Places(r) = IF raw_data[r] = NoConfig THEN 0 ELSE 1

\* The files a running process reads are there, and whole, while it runs.  A
\* root file that is not to be kept is there no longer than it is needed, with
\* one exception: what an unpacker that failed left of it stays, and then the
\* raw file is gone.
FilesOfTasks ==
    /\ \A i \in DOMAIN unpacking : raw_data[unpacking[i].run] # NoConfig
    /\ \A i \in DOMAIN fracking :
          /\ Whole(root_data[fracking[i].run])
          /\ full_config[fracking[i].run] # NoConfig
    /\ ~keep_root => \A r \in Runs : root_data[r] # NoConfig =>
          \/ r \in RunsOf(unpacking) \cup RunsOf(fracking)
          \/ \E i \in DOMAIN root_data_queue : root_data_queue[i] = r
          \/ root_data[r] = Partial /\ raw_data[r] = NoConfig

\* When the last stage says it is done, none of the runs that were handed over
\* is left in a queue or a process, and they are told apart by their raw files:
\* a run that has one has a whole hdf file, one that has none was given up.
DoneIsDone ==
    fracking_done /\ ~FromDisk =>
        /\ raw_data_queue = <<>> /\ unpacking = <<>>
        /\ root_data_queue = <<>> /\ fracking = <<>>
        /\ \A r \in Runs : raw_data[r] # NoConfig <=> Whole(hdf[r])

\* Once datenraffinerie has taken its data the postprocessing comes to the end
\* its main thread waits for; so does process-raw-data when it gives up because
\* a configuration file is missing and joins both threads, although its unpack
\* thread may have died.
ProcessingEnds ==
    data_taking_done /\ (FromDisk => unread # <<>>) ~> fracking_done
=============================================================================
