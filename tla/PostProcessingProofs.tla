------------------------ MODULE PostProcessingProofs ------------------------
(***************************************************************************)
(* Proofs about PostProcessing: for any number of runs and any number of   *)
(* unpackers and frackers, no run is lost, doubled or robbed of its files  *)
(* on its way through the two stages.                                      *)
(***************************************************************************)
EXTENDS PostProcessing, SequenceLemmas

-----------------------------------------------------------------------------
(* The lists of tasks.                                                     *)

\* There are no more places in a part of a list than in the list.
LEMMA PartOfList ==
    ASSUME NEW n \in Nat, NEW D \in SUBSET (1..n)
    PROVE  IsFiniteSet(D) /\ D \in SUBSET Int /\ Cardinality(D) <= n
  <1>1. IsFiniteSet(1..n) /\ Cardinality(1..n) = n
    BY FS_Interval
  <1>2. IsFiniteSet(D) /\ Cardinality(D) <= n
    BY <1>1, FS_Subset
  <1>3. D \in SUBSET Int
    OBVIOUS
  <1>4. QED
    BY <1>2, <1>3

\* No two tasks of a list are about the same run.
DistinctRuns(tasks) ==
    \A i, j \in DOMAIN tasks : tasks[i].run = tasks[j].run => i = j

\* The places in a list of tasks, by return code.
LEMMA PlacesInList ==
    ASSUME NEW tasks \in Seq(TaskType)
    PROVE  /\ Len(tasks) \in Nat /\ DOMAIN tasks = 1..Len(tasks)
           /\ \A i \in DOMAIN tasks : /\ tasks[i] \in TaskType
                                      /\ tasks[i].run \in Runs
                                      /\ tasks[i].returncode \in {"none", "ok", "failed"}
           /\ \A code : /\ At(tasks, code) \in SUBSET (1..Len(tasks))
                        /\ \A i \in DOMAIN tasks :
                              i \in At(tasks, code) <=> tasks[i].returncode = code
  <1>1. Len(tasks) \in Nat /\ tasks \in [1..Len(tasks) -> TaskType]
    BY LenProperties
  <1>2. \A t \in TaskType : t.run \in Runs /\ t.returncode \in {"none", "ok", "failed"}
    BY DEF TaskType
  <1>3. DOMAIN tasks = 1..Len(tasks)
    BY <1>1
  <1>4. QED
    BY <1>1, <1>2, <1>3 DEF At

\* The list without the tasks that exited.
LEMMA RunningList ==
    ASSUME NEW tasks \in Seq(TaskType)
    PROVE  /\ Running(tasks) \in Seq(TaskType)
           /\ Len(Running(tasks)) <= Len(tasks)
           /\ \A k \in DOMAIN Running(tasks) : /\ Running(tasks)[k].returncode = "none"
                                               /\ \E i \in At(tasks, "none") : Running(tasks)[k] = tasks[i]
           /\ DistinctRuns(tasks) => /\ DistinctRuns(Running(tasks))
                                     /\ RunsOf(Running(tasks)) = RunsOf(tasks) \ Exited(tasks)
                                     /\ Exited(tasks) \subseteq RunsOf(tasks)
  <1> DEFINE D == At(tasks, "none")
             c == Cardinality(D)
             r == Running(tasks)
             o == Sorted(D)
  <1>1. /\ Len(tasks) \in Nat /\ DOMAIN tasks = 1..Len(tasks)
        /\ D \in SUBSET (1..Len(tasks))
    BY PlacesInList
  <1>2. /\ c \in Nat /\ c <= Len(tasks) /\ o \in [1..c -> D]
        /\ \A i, j \in 1..c : o[i] = o[j] => i = j
        /\ \A d \in D : \E i \in 1..c : o[i] = d
    BY <1>1, PartOfList, SortedIsBijection
  <1>3. r = [k \in 1..c |-> tasks[o[k]]]
    <2>1. DOMAIN o = 1..c
      BY <1>2
    <2>2. r = [k \in DOMAIN o |-> tasks[o[k]]]
      BY DEF Running
    <2>3. QED
      BY <2>1, <2>2
  <1> HIDE DEF r, o, c, D
  <1>4. ASSUME NEW k \in 1..c
        PROVE  /\ o[k] \in D /\ r[k] = tasks[o[k]] /\ r[k] \in TaskType
               /\ r[k].returncode = "none"
    <2>1. o[k] \in D /\ o[k] \in DOMAIN tasks
      BY <1>1, <1>2
    <2>2. tasks[o[k]].returncode = "none"
      BY <2>1, PlacesInList DEF D
    <2>3. QED
      BY <1>3, <2>1, <2>2, PlacesInList
  <1>5. r \in [1..c -> TaskType]
    BY <1>3, <1>4
  <1>6. r \in Seq(TaskType) /\ Len(r) = c /\ DOMAIN r = 1..c
    BY <1>2, <1>5, SeqDef, LenProperties
  <1>7. ASSUME DistinctRuns(tasks)
        PROVE  /\ DistinctRuns(r) /\ RunsOf(r) = RunsOf(tasks) \ Exited(tasks)
               /\ Exited(tasks) \subseteq RunsOf(tasks)
    <2>1. \A k \in 1..c : o[k] \in DOMAIN tasks
      BY <1>1, <1>2
    <2>2. DistinctRuns(r)
      <3>1. SUFFICES ASSUME NEW i \in 1..c, NEW j \in 1..c, r[i].run = r[j].run
                     PROVE  i = j
        BY <1>6 DEF DistinctRuns
      <3>2. tasks[o[i]].run = tasks[o[j]].run
        BY <1>4, <3>1
      <3>3. o[i] = o[j]
        BY <1>7, <2>1, <3>2 DEF DistinctRuns
      <3>4. QED
        BY <1>2, <3>3
    <2>3. ASSUME NEW q \in RunsOf(r)
          PROVE  q \in RunsOf(tasks) /\ q \notin Exited(tasks)
      <3>1. PICK k \in 1..c : q = r[k].run
        BY <1>6 DEF RunsOf
      <3>2. q = tasks[o[k]].run /\ tasks[o[k]].returncode = "none" /\ o[k] \in DOMAIN tasks
        BY <1>4, <2>1, <3>1
      <3>3. \A i \in DOMAIN tasks : tasks[i].run = q => i = o[k]
        BY <1>7, <3>2 DEF DistinctRuns
      <3>4. q \notin Exited(tasks)
        <4>1. SUFFICES ASSUME NEW i \in At(tasks, "ok") \cup At(tasks, "failed"),
                              tasks[i].run = q
                       PROVE  FALSE
          BY DEF Exited
        <4>2. i \in DOMAIN tasks /\ tasks[i].returncode # "none"
          BY DEF At
        <4>3. QED
          BY <3>2, <3>3, <4>1, <4>2
      <3>5. QED
        BY <3>2, <3>4 DEF RunsOf
    <2>4. ASSUME NEW q \in RunsOf(tasks), q \notin Exited(tasks)
          PROVE  q \in RunsOf(r)
      <3>1. PICK i \in DOMAIN tasks : q = tasks[i].run
        BY DEF RunsOf
      <3>2. i \notin At(tasks, "ok") /\ i \notin At(tasks, "failed")
        BY <2>4, <3>1 DEF Exited
      <3>3. i \in D
        BY <3>2, PlacesInList DEF D
      <3>4. PICK k \in 1..c : o[k] = i
        BY <1>2, <3>3
      <3>5. r[k].run = q
        BY <1>4, <3>1, <3>4
      <3>6. QED
        BY <1>6, <3>5 DEF RunsOf
    <2>5. Exited(tasks) \subseteq RunsOf(tasks)
      BY DEF Exited, RunsOf, At
    <2>6. QED
      BY <2>2, <2>3, <2>4, <2>5
  <1>8. QED
    BY <1>2, <1>4, <1>6, <1>7 DEF r, D

\* The runs passed on are those of the tasks that succeeded, each once.
LEMMA SucceededList ==
    ASSUME NEW tasks \in Seq(TaskType), DistinctRuns(tasks)
    PROVE  /\ Succeeded(tasks) \in Seq(Runs)
           /\ Distinct(Succeeded(tasks))
           /\ Elems(Succeeded(tasks)) = {tasks[i].run : i \in At(tasks, "ok")}
           /\ Exited(tasks) = Elems(Succeeded(tasks)) \cup Failed(tasks)
           /\ Elems(Succeeded(tasks)) \cap Failed(tasks) = {}
  <1> DEFINE D == At(tasks, "ok")
             c == Cardinality(D)
             r == Succeeded(tasks)
             o == Sorted(D)
  <1>1. /\ Len(tasks) \in Nat /\ DOMAIN tasks = 1..Len(tasks)
        /\ D \in SUBSET (1..Len(tasks))
    BY PlacesInList
  <1>2. /\ c \in Nat /\ o \in [1..c -> D]
        /\ \A i, j \in 1..c : o[i] = o[j] => i = j
        /\ \A d \in D : \E i \in 1..c : o[i] = d
    BY <1>1, PartOfList, SortedIsBijection
  <1>3. r = [k \in 1..c |-> tasks[o[k]].run]
    <2>1. DOMAIN o = 1..c
      BY <1>2
    <2>2. r = [k \in DOMAIN o |-> tasks[o[k]].run]
      BY DEF Succeeded
    <2>3. QED
      BY <2>1, <2>2
  <1> HIDE DEF r, o, c, D
  <1>4. ASSUME NEW k \in 1..c
        PROVE  o[k] \in D /\ o[k] \in DOMAIN tasks /\ r[k] = tasks[o[k]].run /\ r[k] \in Runs
    <2>1. o[k] \in D /\ o[k] \in DOMAIN tasks
      BY <1>1, <1>2
    <2>2. QED
      BY <1>3, <2>1, PlacesInList
  <1>5. r \in [1..c -> Runs]
    BY <1>3, <1>4
  <1>6. r \in Seq(Runs) /\ Len(r) = c
    BY <1>2, <1>5, SeqDef, LenProperties
  <1>7. Distinct(r)
    <2>1. SUFFICES ASSUME NEW i \in 1..c, NEW j \in 1..c, r[i] = r[j]
                   PROVE  i = j
      BY <1>6 DEF Distinct
    <2>2. tasks[o[i]].run = tasks[o[j]].run
      BY <1>4, <2>1
    <2>3. o[i] = o[j]
      BY <1>4, <2>2 DEF DistinctRuns
    <2>4. QED
      BY <1>2, <2>3
  <1>8. Elems(r) = {tasks[i].run : i \in D}
    <2>1. ASSUME NEW q \in Elems(r)
          PROVE  \E i \in D : q = tasks[i].run
      BY <1>4, <1>6 DEF Elems
    <2>2. ASSUME NEW i \in D
          PROVE  tasks[i].run \in Elems(r)
      <3>1. PICK k \in 1..c : o[k] = i
        BY <1>2
      <3>2. r[k] = tasks[i].run
        BY <1>4, <3>1
      <3>3. QED
        BY <1>6, <3>2 DEF Elems
    <2>3. QED
      BY <2>1, <2>2
  <1>9. Exited(tasks) = Elems(r) \cup Failed(tasks)
    BY <1>8 DEF Exited, Failed, D
  <1>10. ASSUME NEW i \in D, NEW j \in At(tasks, "failed"), tasks[i].run = tasks[j].run
         PROVE  FALSE
    <2>1. i \in DOMAIN tasks /\ j \in DOMAIN tasks
      BY DEF At, D
    <2>2. i = j
      BY <1>10, <2>1 DEF DistinctRuns
    <2>3. tasks[i].returncode = "ok" /\ tasks[j].returncode = "failed"
      BY <2>1, PlacesInList DEF D
    <2>4. QED
      BY <2>2, <2>3
  <1>11. Elems(r) \cap Failed(tasks) = {}
    BY <1>8, <1>10 DEF Failed
  <1>12. QED
    BY <1>6, <1>7, <1>8, <1>9, <1>11 DEF r, D

\* A task of a list ends.
Ended(tasks, i, code) == [tasks EXCEPT ![i].returncode = code]

\* The list has the runs it had, and the return code of the one that ended.
LEMMA TaskExits ==
    ASSUME NEW tasks \in Seq(TaskType), NEW i \in DOMAIN tasks,
           NEW code \in {"ok", "failed"}
    PROVE  /\ Ended(tasks, i, code) \in Seq(TaskType)
           /\ Len(Ended(tasks, i, code)) = Len(tasks)
           /\ DOMAIN Ended(tasks, i, code) = DOMAIN tasks
           /\ RunsOf(Ended(tasks, i, code)) = RunsOf(tasks)
           /\ Ended(tasks, i, code)[i].run = tasks[i].run
           /\ Ended(tasks, i, code)[i].returncode = code
           /\ \A j \in DOMAIN tasks : j # i => Ended(tasks, i, code)[j] = tasks[j]
           /\ DistinctRuns(tasks) => DistinctRuns(Ended(tasks, i, code))
  <1> DEFINE n == Len(tasks)
             t == Ended(tasks, i, code)
  <1>1. n \in Nat /\ DOMAIN tasks = 1..n /\ tasks \in [1..n -> TaskType]
    BY LenProperties
  <1> HIDE DEF n
  <1>2. /\ t = [tasks EXCEPT ![i].returncode = code]
        /\ \A j \in 1..n : t[j] = IF j = i THEN [tasks[i] EXCEPT !.returncode = code]
                                        ELSE tasks[j]
    BY <1>1 DEF Ended
  <1> HIDE DEF t
  <1>3. ASSUME NEW j \in 1..n
        PROVE  /\ t[j] \in TaskType /\ t[j].run = tasks[j].run
               /\ t[j].returncode = IF j = i THEN code ELSE tasks[j].returncode
    <2>1. tasks[j] \in [run : Runs, returncode : {"none", "ok", "failed"}]
      BY <1>1 DEF TaskType
    <2>2. QED
      BY <1>1, <1>2, <2>1 DEF TaskType
  <1>4. t \in [1..n -> TaskType]
    BY <1>1, <1>2, <1>3
  <1>5. t \in Seq(TaskType) /\ Len(t) = n /\ DOMAIN t = 1..n
    BY <1>1, <1>4, SeqDef, LenProperties
  <1>6. RunsOf(t) = RunsOf(tasks)
    BY <1>1, <1>3, <1>5 DEF RunsOf
  <1>7. DistinctRuns(tasks) => DistinctRuns(t)
    BY <1>1, <1>3, <1>5 DEF DistinctRuns
  <1>8. \A j \in DOMAIN tasks : j # i => t[j] = tasks[j]
    BY <1>1, <1>2
  <1>9. QED
    BY <1>1, <1>3, <1>5, <1>6, <1>7, <1>8 DEF n, t

\* A task is started for a run.
LEMMA TaskStarts ==
    ASSUME NEW tasks \in Seq(TaskType), NEW r \in Runs
    PROVE  /\ Append(tasks, Task(r)) \in Seq(TaskType)
           /\ Len(Append(tasks, Task(r))) = Len(tasks) + 1
           /\ RunsOf(Append(tasks, Task(r))) = RunsOf(tasks) \cup {r}
           /\ \A j \in DOMAIN Append(tasks, Task(r)) :
                 \/ j \in DOMAIN tasks /\ Append(tasks, Task(r))[j] = tasks[j]
                 \/ /\ Append(tasks, Task(r))[j].run = r
                    /\ Append(tasks, Task(r))[j].returncode = "none"
           /\ DistinctRuns(tasks) /\ r \notin RunsOf(tasks) =>
                 DistinctRuns(Append(tasks, Task(r)))
  <1> DEFINE t == Append(tasks, Task(r))
  <1> DEFINE n == Len(tasks)
  <1>1. n \in Nat /\ DOMAIN tasks = 1..n
    BY LenProperties
  <1>2. Task(r) \in TaskType /\ Task(r).run = r /\ Task(r).returncode = "none"
    BY DEF Task, TaskType
  <1>3. /\ t \in Seq(TaskType) /\ Len(t) = n + 1 /\ t[n + 1] = Task(r)
        /\ \A j \in 1..n : t[j] = tasks[j]
    BY <1>2, AppendProperties
  <1>4. DOMAIN t = 1..(n + 1)
    BY <1>3, LenProperties
  <1> HIDE DEF n, t
  <1>5. 1..(n + 1) = 1..n \cup {n + 1}
    BY <1>1
  <1>6. \A j \in DOMAIN t : \/ j \in DOMAIN tasks /\ t[j] = tasks[j]
                            \/ t[j].run = r /\ t[j].returncode = "none"
    BY <1>1, <1>2, <1>3, <1>4, <1>5
  <1>7. RunsOf(t) = RunsOf(tasks) \cup {r}
    <2>1. RunsOf(t) = {t[j].run : j \in 1..n} \cup {t[n + 1].run}
      BY <1>4, <1>5 DEF RunsOf
    <2>2. {t[j].run : j \in 1..n} = RunsOf(tasks)
      BY <1>1, <1>3 DEF RunsOf
    <2>3. QED
      BY <1>2, <1>3, <2>1, <2>2
  <1>8. ASSUME DistinctRuns(tasks), r \notin RunsOf(tasks)
        PROVE  DistinctRuns(t)
    <2>1. \A j \in 1..n : t[j].run # r
      BY <1>1, <1>3, <1>8 DEF RunsOf
    <2>2. \A j, k \in 1..n : t[j].run = t[k].run => j = k
      BY <1>1, <1>3, <1>8 DEF DistinctRuns
    <2>3. t[n + 1].run = r
      BY <1>2, <1>3
    <2>4. QED
      BY <1>4, <1>5, <2>1, <2>2, <2>3 DEF DistinctRuns
  <1>9. QED
    BY <1>3, <1>6, <1>7, <1>8 DEF n, t

(***************************************************************************)
(* Where the runs are.                                                     *)
(***************************************************************************)
Waiting == Elems(raw_data_queue)
AtUnpacker == RunsOf(unpacking)
Unpacked == Elems(root_data_queue)
AtFracker == RunsOf(fracking)
Finished == {r \in Runs : Fracked(r)}
Present == {r \in Runs : raw_data[r] # NoConfig}
Somewhere == Waiting \cup AtUnpacker \cup Unpacked \cup AtFracker \cup Finished

\* No queue or list has a run twice.
OnceInv ==
    /\ Distinct(raw_data_queue) /\ Distinct(root_data_queue)
    /\ DistinctRuns(unpacking) /\ DistinctRuns(fracking)

\* A run is in one place at most, and has its raw file there; one that has
\* its raw file is somewhere, unless a thread died with it.
PlacesInv ==
    /\ Waiting \cap (AtUnpacker \cup Unpacked \cup AtFracker \cup Finished) = {}
    /\ AtUnpacker \cap (Unpacked \cup AtFracker \cup Finished) = {}
    /\ Unpacked \cap (AtFracker \cup Finished) = {}
    /\ Somewhere \subseteq Present
    /\ unpack_pc # "dead" /\ frack_pc # "dead" => Present \subseteq Somewhere

\* A root file that is there is needed, or what an unpacker that failed left.
RootFileNeeded(r) ==
    \/ r \in AtUnpacker \cup Unpacked \cup AtFracker
    \/ root_data[r] = Partial /\ raw_data[r] = NoConfig

\* The runs no fracker has ended for have no hdf file, not even a part of one.
Unfracked ==
    /\ \A r \in Runs : full_config[r] = NoConfig => hdf[r] = NoConfig
    /\ \A r \in Waiting \cup AtUnpacker \cup Unpacked : hdf[r] = NoConfig
    /\ \A i \in DOMAIN fracking :
          fracking[i].returncode = "none" => hdf[fracking[i].run] = NoConfig

\* A run acquired has its configuration file; its root file is whole when the
\* unpacker has succeeded, and its hdf file when the fracker has.
FilesInv ==
    /\ Unfracked
    /\ \A r \in Runs : full_config[r] = NoConfig =>
          raw_data[r] = NoConfig /\ root_data[r] = NoConfig
    /\ \A r \in Waiting : ~Whole(root_data[r])
    /\ \A i \in DOMAIN unpacking :
          Whole(root_data[unpacking[i].run]) <=> unpacking[i].returncode = "ok"
    /\ \A r \in Unpacked \cup AtFracker : Whole(root_data[r])
    /\ \A i \in DOMAIN fracking :
          Whole(hdf[fracking[i].run]) <=> fracking[i].returncode = "ok"
    /\ ~keep_root /\ frack_pc # "dead" =>
          \A r \in Runs : root_data[r] # NoConfig => RootFileNeeded(r)

StagesInv == OnceInv /\ PlacesInv /\ FilesInv

\* The events are set in their order, each when the stage has nothing left.
EventInv ==
    /\ unpack_pc = "done" =>
          data_taking_done /\ raw_data_queue = <<>> /\ unpacking = <<>>
    /\ unpacking_done => unpack_pc = "done"
    /\ frack_pc = "done" =>
          unpacking_done /\ root_data_queue = <<>> /\ fracking = <<>>
    /\ fracking_done => frack_pc = "done"

\* What ends a thread.
DeadInv ==
    /\ unpack_pc = "dead" => FromDisk \/ "unpack" \notin Installed
    /\ frack_pc = "dead" => "fracker" \notin Installed

\* process-raw-data's items end the unpack thread: nothing is unpacked.
DiskInv == /\ unpacking = <<>> /\ root_data_queue = <<>> /\ fracking = <<>>
           /\ root_data = NoFiles

PostInv ==
    /\ TypeOK /\ DeadInv
    /\ FromDisk => DiskInv
    /\ ~FromDisk => StagesInv /\ EventInv

-----------------------------------------------------------------------------
(* Types.                                                                  *)

\* A file is absent, partial or has a content; contents, and pairs of contents,
\* are whole, and the marks of absent and of partial files are not.
LEMMA FileTypes ==
    /\ NoFiles \in [Runs -> Content \cup {NoConfig, Partial}]
    /\ NoFiles \in [Runs -> (Content \X Content) \cup {NoConfig, Partial}]
    /\ \A rs : OnDisk(rs) \subseteq [Runs -> Content \cup {NoConfig}]
    /\ \A c \in Content : c # NoConfig
    /\ \A c, d \in Content : <<c, d>> # NoConfig
    /\ \A rs, files : files \in [Runs -> Content \cup {NoConfig}] =>
          Removed(files, rs) \in [Runs -> Content \cup {NoConfig}]
    /\ \A rs, files : files \in [Runs -> Content \cup {NoConfig, Partial}] =>
          Removed(files, rs) \in [Runs -> Content \cup {NoConfig, Partial}]
    /\ ~Whole(NoConfig) /\ ~Whole(Partial)
    /\ \A c \in Content : Whole(c)
    /\ \A c, d \in Content : Whole(<<c, d>>)
  <1>1. \A rs : OnDisk(rs) \subseteq [Runs -> Content \cup {NoConfig}]
    BY DEF OnDisk
  <1>2. \A c \in Content : c # NoConfig
    BY RunsAssumption
  <1>3. \A c, d \in Content : <<c, d>> # NoConfig
    BY RunsAssumption
  <1>4. \A rs, files : files \in [Runs -> Content \cup {NoConfig}] =>
           Removed(files, rs) \in [Runs -> Content \cup {NoConfig}]
    BY DEF Removed
  <1>5. \A rs, files : files \in [Runs -> Content \cup {NoConfig, Partial}] =>
           Removed(files, rs) \in [Runs -> Content \cup {NoConfig, Partial}]
    BY DEF Removed
  <1>6. /\ ~Whole(NoConfig) /\ ~Whole(Partial)
        /\ \A c \in Content : Whole(c)
        /\ \A c, d \in Content : Whole(<<c, d>>)
    BY <1>2, <1>3, RunsAssumption DEF Whole
  <1>7. /\ NoFiles \in [Runs -> Content \cup {NoConfig, Partial}]
        /\ NoFiles \in [Runs -> (Content \X Content) \cup {NoConfig, Partial}]
    BY DEF NoFiles
  <1>8. QED
    BY <1>1, <1>2, <1>3, <1>4, <1>5, <1>6, <1>7

\* A queue without its head is a queue.
LEMMA RestOfQueue ==
    ASSUME NEW s \in Seq(Runs), s # <<>>
    PROVE  Tail(s) \in Seq(Runs) /\ Head(s) \in Runs
  BY HeadTailElems

\* Initially every variable has its type.
LEMMA TypeInit == Init => TypeOK
  <1> SUFFICES ASSUME Init PROVE TypeOK
    OBVIOUS
  <1>1. unread \in Seq(Runs)
    <2>1. Sorted(RawFiles) \in Seq(Runs)
      <3>1. RawFiles \in SUBSET Runs /\ RunCount \in Nat
        BY OptionAssumption, RunsAssumption
      <3>2. IsFiniteSet(Runs)
        BY <3>1, FS_Interval DEF Runs
      <3>3. RawFiles \in SUBSET Int /\ IsFiniteSet(RawFiles)
        <4>1. Runs \in SUBSET Int
          BY DEF Runs
        <4>2. QED
          BY <3>1, <3>2, <4>1, FS_Subset
      <3>4. /\ Cardinality(RawFiles) \in Nat
            /\ Sorted(RawFiles) \in [1..Cardinality(RawFiles) -> RawFiles]
        BY <3>3, SortedIsBijection
      <3>5. Sorted(RawFiles) \in [1..Cardinality(RawFiles) -> Runs]
        BY <3>1, <3>4
      <3>6. QED
        BY <3>4, <3>5, SeqDef
    <2>2. CASE FromDisk
      BY <2>1, <2>2 DEF Init
    <2>3. CASE ~FromDisk
      <3>1. unread = <<>>
        BY <2>3 DEF Init
      <3>2. QED
        BY <3>1
    <2>4. QED
      BY <2>2, <2>3
  <1>2. raw_data \in [Runs -> Content \cup {NoConfig}]
    <2>1. raw_data \in OnDisk(IF FromDisk THEN RawFiles ELSE {})
      BY DEF Init
    <2>2. QED
      BY <2>1, FileTypes
  <1>3. full_config \in [Runs -> Content \cup {NoConfig}]
    <2>1. \E rs : full_config \in OnDisk(rs)
      BY DEF Init
    <2>2. QED
      BY <2>1, FileTypes
  <1>4. /\ root_data \in [Runs -> Content \cup {NoConfig, Partial}]
        /\ hdf \in [Runs -> (Content \X Content) \cup {NoConfig, Partial}]
    BY FileTypes DEF Init, StagesInit
  <1>5. /\ raw_data_queue = <<>> /\ root_data_queue = <<>>
        /\ unpacking = <<>> /\ fracking = <<>>
    BY DEF Init, StagesInit
  <1>6. /\ Len(unpacking) <= max_parallel_unpackers
        /\ Len(fracking) <= max_parallel_frackers
    BY <1>5, TasksAssumption
  <1>7. /\ program \in Programs /\ data_taking_done \in BOOLEAN
        /\ unpacking_done \in BOOLEAN /\ fracking_done \in BOOLEAN
        /\ unpack_pc \in {"loop", "get", "poll", "done", "dead"}
        /\ frack_pc \in {"loop", "get", "poll", "done", "dead"}
    BY DEF Init, StagesInit
  <1>8. /\ raw_data_queue \in Seq(Runs) /\ root_data_queue \in Seq(Runs)
        /\ unpacking \in Seq(TaskType) /\ fracking \in Seq(TaskType)
    BY <1>5
  <1>9. QED
    BY <1>1, <1>2, <1>3, <1>4, <1>6, <1>7, <1>8 DEF TypeOK

\* What feeds the queue keeps the types.
LEMMA FeedType ==
    ASSUME TypeOK, Feed
    PROVE  TypeOK'
  <1> USE DEF inputVars, unpackVars, frackVars
  <1>1. ASSUME NEW r \in Runs, Acquire(r)
        PROVE  TypeOK'
    <2>1. raw_data_queue' \in Seq(Runs)
      <3>1. raw_data_queue \in Seq(Runs) /\ raw_data_queue' = Append(raw_data_queue, r)
        BY <1>1 DEF Acquire, TypeOK
      <3>2. QED
        BY <3>1
    <2>2. /\ raw_data' \in [Runs -> Content \cup {NoConfig}]
          /\ full_config' \in [Runs -> Content \cup {NoConfig}]
      BY <1>1 DEF Acquire, TypeOK
    <2>3. QED
      BY <1>1, <2>1, <2>2 DEF Acquire, TypeOK
  <1>2. CASE AcquisitionEnds
    BY <1>2 DEF AcquisitionEnds, TypeOK
  <1>3. CASE PutRawFile
    <2>1. /\ Head(unread) \in Runs /\ unread' \in Seq(Runs)
          /\ raw_data_queue' \in Seq(Runs)
      BY <1>3, HeadTailElems, AppendElems DEF PutRawFile, TypeOK
    <2>2. QED
      BY <1>3, <2>1 DEF PutRawFile, TypeOK
  <1>4. CASE RawFilesPut
    BY <1>4 DEF RawFilesPut, TypeOK
  <1>5. CASE ConfigFileMissing
    BY <1>5 DEF ConfigFileMissing, TypeOK
  <1>6. QED
    BY <1>1, <1>2, <1>3, <1>4, <1>5 DEF Feed, Main

\* The unpack thread and its processes keep the types, and start no more
\* processes than they may.
LEMMA UnpackType ==
    ASSUME TypeOK, DistinctRuns(unpacking),
           UnpackThread \/ \E i \in DOMAIN unpacking : Unpacker(i)
    PROVE  TypeOK'
  <1> USE DEF inputVars, unpackVars, frackVars
  <1>1. unpacking \in Seq(TaskType) /\ Len(unpacking) \in Nat
    BY LenProperties DEF TypeOK
  <1>2. max_parallel_unpackers \in Nat
    BY TasksAssumption
  <1>3. CASE UnpackLoop
    <2>1. unpack_pc' \in {"get", "done"} /\ unpacking_done' \in BOOLEAN
      BY <1>3 DEF UnpackLoop, TypeOK
    <2>2. QED
      BY <1>3, <2>1 DEF UnpackLoop, TypeOK
  <1>4. CASE UnpackGet
    <2>1. unpack_pc' \in {"dead", "poll"}
      BY <1>4 DEF UnpackGet
    <2>2. raw_data_queue' \in Seq(Runs)
      <3>1. \/ raw_data_queue' = raw_data_queue
            \/ raw_data_queue # <<>> /\ raw_data_queue' = Tail(raw_data_queue)
        BY <1>4 DEF UnpackGet
      <3>2. raw_data_queue \in Seq(Runs)
        BY DEF TypeOK
      <3>3. raw_data_queue # <<>> => Tail(raw_data_queue) \in Seq(Runs)
        BY <3>2, RestOfQueue
      <3>4. QED
        BY <3>1, <3>2, <3>3, Zenon
    <2>3. /\ unpacking' \in Seq(TaskType)
          /\ Len(unpacking') <= max_parallel_unpackers
      <3>1. CASE unpacking' = unpacking
        BY <3>1 DEF TypeOK
      <3>2. CASE unpacking' # unpacking
        <4>1. /\ Len(unpacking) < max_parallel_unpackers
              /\ raw_data_queue # <<>>
              /\ unpacking' = Append(unpacking, Task(Head(raw_data_queue)))
          BY <1>4, <3>2 DEF UnpackGet
        <4>2. Head(raw_data_queue) \in Runs
          BY <4>1, HeadTailElems DEF TypeOK
        <4>3. unpacking' \in Seq(TaskType) /\ Len(unpacking') = Len(unpacking) + 1
          BY <1>1, <4>1, <4>2, TaskStarts
        <4>4. QED
          BY <1>1, <1>2, <4>1, <4>3
      <3>3. QED
        BY <3>1, <3>2
    <2>4. QED
      BY <1>4, <2>1, <2>2, <2>3 DEF UnpackGet, TypeOK
  <1>5. CASE UnpackPoll
    <2>1. root_data_queue' \in Seq(Runs)
      <3>1. root_data_queue \in Seq(Runs) /\ Succeeded(unpacking) \in Seq(Runs)
        BY <1>1, SucceededList DEF TypeOK
      <3>2. root_data_queue' = root_data_queue \o Succeeded(unpacking)
        BY <1>5 DEF UnpackPoll
      <3>3. QED
        BY <3>1, <3>2
    <2>2. raw_data' \in [Runs -> Content \cup {NoConfig}]
      BY <1>5, FileTypes DEF UnpackPoll, TypeOK
    <2>3. /\ unpacking' \in Seq(TaskType)
          /\ Len(unpacking') <= max_parallel_unpackers
      <3>1. /\ unpacking' \in Seq(TaskType) /\ Len(unpacking') <= Len(unpacking)
            /\ Len(unpacking') \in Nat
        BY <1>1, <1>5, RunningList, LenProperties DEF UnpackPoll
      <3>2. QED
        BY <1>1, <1>2, <3>1 DEF TypeOK
    <2>4. unpack_pc' = "loop"
      BY <1>5 DEF UnpackPoll
    <2>5. QED
      BY <1>5, <2>1, <2>2, <2>3, <2>4 DEF UnpackPoll, TypeOK
  <1>6. ASSUME NEW i \in DOMAIN unpacking, UnpackerExits(i)
        PROVE  TypeOK'
    <2>1. PICK code \in {"ok", "failed"} :
             /\ unpacking' = Ended(unpacking, i, code)
             /\ \/ root_data' = root_data
                \/ root_data' = [root_data EXCEPT ![unpacking[i].run] =
                                    raw_data[unpacking[i].run]]
                \/ root_data' = [root_data EXCEPT ![unpacking[i].run] = Partial]
      BY <1>6 DEF UnpackerExits, Ended
    <2>2. unpacking' \in Seq(TaskType) /\ Len(unpacking') = Len(unpacking)
      BY <1>1, <2>1, TaskExits
    <2>3. unpacking[i].run \in Runs
      BY <1>1, PlacesInList
    <2>4. root_data' \in [Runs -> Content \cup {NoConfig, Partial}]
      BY <2>1, <2>3 DEF TypeOK
    <2>5. QED
      BY <1>6, <2>2, <2>4 DEF UnpackerExits, TypeOK
  <1>7. QED
    BY <1>3, <1>4, <1>5, <1>6 DEF UnpackThread, Unpacker

\* What the frackers merge is there.
MergeInputs ==
    \A i \in DOMAIN fracking : /\ ~FromDisk
                               /\ Whole(root_data[fracking[i].run])
                               /\ full_config[fracking[i].run] # NoConfig

\* So do the frack thread and its processes.
LEMMA FrackType ==
    ASSUME TypeOK,
           FrackThread \/ \E i \in DOMAIN fracking : Fracker(i),
           MergeInputs
    PROVE  TypeOK'
  <1> USE DEF inputVars, unpackVars, frackVars
  <1>1. fracking \in Seq(TaskType) /\ Len(fracking) \in Nat
    BY LenProperties DEF TypeOK
  <1>2. max_parallel_frackers \in Nat
    BY TasksAssumption
  <1>3. CASE FrackLoop
    <2>1. frack_pc' \in {"get", "done"} /\ fracking_done' \in BOOLEAN
      BY <1>3 DEF FrackLoop, TypeOK
    <2>2. QED
      BY <1>3, <2>1 DEF FrackLoop, TypeOK
  <1>4. CASE FrackGet
    <2>1. frack_pc' \in {"dead", "poll"}
      BY <1>4 DEF FrackGet
    <2>2. root_data_queue' \in Seq(Runs)
      <3>1. \/ root_data_queue' = root_data_queue
            \/ root_data_queue # <<>> /\ root_data_queue' = Tail(root_data_queue)
        BY <1>4 DEF FrackGet
      <3>2. root_data_queue \in Seq(Runs)
        BY DEF TypeOK
      <3>3. root_data_queue # <<>> => Tail(root_data_queue) \in Seq(Runs)
        BY <3>2, RestOfQueue
      <3>4. QED
        BY <3>1, <3>2, <3>3, Zenon
    <2>3. /\ fracking' \in Seq(TaskType)
          /\ Len(fracking') <= max_parallel_frackers
      <3>1. CASE fracking' = fracking
        BY <3>1 DEF TypeOK
      <3>2. CASE fracking' # fracking
        <4>1. /\ Len(fracking) < max_parallel_frackers
              /\ root_data_queue # <<>>
              /\ fracking' = Append(fracking, Task(Head(root_data_queue)))
          BY <1>4, <3>2 DEF FrackGet
        <4>2. Head(root_data_queue) \in Runs
          BY <4>1, HeadTailElems DEF TypeOK
        <4>3. fracking' \in Seq(TaskType) /\ Len(fracking') = Len(fracking) + 1
          BY <1>1, <4>1, <4>2, TaskStarts
        <4>4. QED
          BY <1>1, <1>2, <4>1, <4>3
      <3>3. QED
        BY <3>1, <3>2
    <2>4. QED
      BY <1>4, <2>1, <2>2, <2>3 DEF FrackGet, TypeOK
  <1>5. CASE FrackPoll
    <2>1. raw_data' \in [Runs -> Content \cup {NoConfig}]
      BY <1>5, FileTypes DEF FrackPoll, TypeOK
    <2>2. root_data' \in [Runs -> Content \cup {NoConfig, Partial}]
      BY <1>5, FileTypes DEF FrackPoll, TypeOK
    <2>3. /\ fracking' \in Seq(TaskType)
          /\ Len(fracking') <= max_parallel_frackers
      <3>1. /\ fracking' \in Seq(TaskType) /\ Len(fracking') <= Len(fracking)
            /\ Len(fracking') \in Nat
        BY <1>1, <1>5, RunningList, LenProperties DEF FrackPoll
      <3>2. QED
        BY <1>1, <1>2, <3>1 DEF TypeOK
    <2>4. frack_pc' = "loop"
      BY <1>5 DEF FrackPoll
    <2>5. QED
      BY <1>5, <2>1, <2>2, <2>3, <2>4 DEF FrackPoll, TypeOK
  <1>6. ASSUME NEW i \in DOMAIN fracking, FrackerExits(i)
        PROVE  TypeOK'
    <2> DEFINE r == fracking[i].run
    <2>1. PICK code \in {"ok", "failed"} :
             /\ fracking' = Ended(fracking, i, code)
             /\ \/ hdf' = hdf
                \/ hdf' = [hdf EXCEPT ![r] =
                             <<root_data[r], full_config[ConfigOf(r)]>>]
                \/ hdf' = [hdf EXCEPT ![r] = Partial]
      BY <1>6 DEF FrackerExits, Ended
    <2>2. fracking' \in Seq(TaskType) /\ Len(fracking') = Len(fracking)
      BY <1>1, <2>1, TaskExits
    <2>3. r \in Runs /\ ConfigOf(r) = r
      BY <1>1, PlacesInList DEF ConfigOf, MergeInputs
    <2>4. root_data[r] \in Content /\ full_config[r] \in Content
      BY <2>3 DEF TypeOK, MergeInputs, Whole
    <2> HIDE DEF r
    <2>5. hdf' \in [Runs -> (Content \X Content) \cup {NoConfig, Partial}]
      <3>1. <<root_data[r], full_config[r]>> \in Content \X Content
        BY <2>4
      <3>2. \/ hdf' = hdf
            \/ hdf' = [hdf EXCEPT ![r] = <<root_data[r], full_config[r]>>]
            \/ hdf' = [hdf EXCEPT ![r] = Partial]
        BY <2>1, <2>3
      <3>3. hdf \in [Runs -> (Content \X Content) \cup {NoConfig, Partial}]
        BY DEF TypeOK
      <3>4. QED
        BY <2>3, <3>1, <3>2, <3>3
    <2>6. QED
      BY <1>6, <2>2, <2>5 DEF FrackerExits, TypeOK
  <1>7. QED
    BY <1>3, <1>4, <1>5, <1>6 DEF FrackThread, Fracker

-----------------------------------------------------------------------------
(* Where the runs are, move by move.                                       *)

\* A thread that died stays dead.
DeadStays == /\ unpack_pc = "dead" => unpack_pc' = "dead"
             /\ frack_pc = "dead" => frack_pc' = "dead"

\* The places hold runs.
LEMMA PlaceTypes ==
    ASSUME TypeOK
    PROVE  /\ Waiting \subseteq Runs /\ AtUnpacker \subseteq Runs
           /\ Unpacked \subseteq Runs /\ AtFracker \subseteq Runs
           /\ unpacking \in Seq(TaskType) /\ fracking \in Seq(TaskType)
           /\ \A i \in DOMAIN unpacking : unpacking[i].run \in AtUnpacker
           /\ \A i \in DOMAIN fracking : fracking[i].run \in AtFracker
  <1>1. unpacking \in Seq(TaskType) /\ fracking \in Seq(TaskType)
    BY DEF TypeOK
  <1>2. Waiting \subseteq Runs /\ Unpacked \subseteq Runs
    BY ElemsType DEF TypeOK, Waiting, Unpacked
  <1>3. AtUnpacker \subseteq Runs /\ AtFracker \subseteq Runs
    BY <1>1, PlacesInList DEF AtUnpacker, AtFracker, RunsOf
  <1>4. /\ \A i \in DOMAIN unpacking : unpacking[i].run \in AtUnpacker
        /\ \A i \in DOMAIN fracking : fracking[i].run \in AtFracker
    BY DEF AtUnpacker, AtFracker, RunsOf
  <1>5. QED
    BY <1>1, <1>2, <1>3, <1>4

\* A step that leaves the queues, lists and files alone moves no run.
LEMMA NothingMoves ==
    ASSUME StagesInv, DeadStays,
           UNCHANGED <<raw_data_queue, unpacking, root_data_queue, fracking>>,
           UNCHANGED <<raw_data, full_config, root_data, hdf>>
    PROVE  StagesInv'
  <1>1. OnceInv'
    BY DEF StagesInv, OnceInv
  <1>2. /\ Waiting' = Waiting /\ AtUnpacker' = AtUnpacker /\ Unpacked' = Unpacked
        /\ AtFracker' = AtFracker
    BY DEF Waiting, AtUnpacker, Unpacked, AtFracker
  <1>3. Finished' = Finished /\ Present' = Present
    BY DEF Finished, Present, Fracked, Runs
  <1>4. PlacesInv'
    BY <1>2, <1>3 DEF StagesInv, PlacesInv, Somewhere, DeadStays
  <1>5. Unfracked'
    BY <1>2 DEF StagesInv, FilesInv, Unfracked, Runs
  <1>6. FilesInv'
    BY <1>2, <1>5 DEF StagesInv, FilesInv, RootFileNeeded, DeadStays, Runs
  <1>7. QED
    BY <1>1, <1>4, <1>6 DEF StagesInv

\* The acquisition passes on a run not passed on before.
LEMMA AcquireMove ==
    ASSUME TypeOK, StagesInv, DeadStays, NEW r \in Runs, Acquire(r)
    PROVE  StagesInv'
  <1> USE DEF inputVars, unpackVars, frackVars
  <1>1. PICK data \in Content, config \in Content :
           /\ raw_data' = [raw_data EXCEPT ![r] = data]
           /\ full_config' = [full_config EXCEPT ![r] = config]
    BY DEF Acquire
  <1>2. /\ raw_data_queue \in Seq(Runs) /\ raw_data_queue' = Append(raw_data_queue, r)
        /\ full_config[r] = NoConfig
        /\ UNCHANGED <<unpacking, root_data_queue, fracking, root_data, hdf>>
    BY DEF Acquire, TypeOK
  <1>3. /\ raw_data'[r] # NoConfig /\ full_config'[r] # NoConfig
        /\ \A q \in Runs : q # r => /\ raw_data'[q] = raw_data[q]
                                    /\ full_config'[q] = full_config[q]
    <2>1. data # NoConfig /\ config # NoConfig
      BY FileTypes
    <2>2. /\ raw_data \in [Runs -> Content \cup {NoConfig}]
          /\ full_config \in [Runs -> Content \cup {NoConfig}]
      BY DEF TypeOK
    <2>3. QED
      BY <1>1, <2>1, <2>2
  <1>4. raw_data[r] = NoConfig /\ root_data[r] = NoConfig
    BY <1>2 DEF StagesInv, FilesInv
  <1>5. r \notin Somewhere
    BY <1>4 DEF StagesInv, PlacesInv, Present
  <1>6. Waiting' = Waiting \cup {r} /\ Distinct(raw_data_queue')
    <2>1. Distinct(raw_data_queue) /\ r \notin Elems(raw_data_queue)
      BY <1>5 DEF StagesInv, OnceInv, Somewhere, Waiting
    <2>2. QED
      BY <1>2, <2>1, AppendElems DEF Waiting
  <1>7. /\ AtUnpacker' = AtUnpacker /\ Unpacked' = Unpacked
        /\ AtFracker' = AtFracker /\ Finished' = Finished
    BY <1>2 DEF AtUnpacker, Unpacked, AtFracker, Finished, Fracked, Runs
  <1>8. Present' = Present \cup {r}
    BY <1>3 DEF Present, Runs
  <1>9. PlacesInv'
    BY <1>5, <1>6, <1>7, <1>8 DEF StagesInv, PlacesInv, Somewhere, DeadStays
  <1>10. FilesInv'
    <2>1. \A q \in Runs : full_config'[q] = NoConfig =>
             raw_data'[q] = NoConfig /\ root_data'[q] = NoConfig
      BY <1>2, <1>3 DEF StagesInv, FilesInv
    <2>2. \A q \in Waiting' : ~Whole(root_data'[q])
      BY <1>2, <1>4, <1>6, FileTypes DEF StagesInv, FilesInv
    <2>3. \A q \in Runs : root_data'[q] # NoConfig /\ RootFileNeeded(q) =>
             RootFileNeeded(q)'
      BY <1>2, <1>3, <1>4, <1>7 DEF RootFileNeeded
    <2>4. Unfracked'
      BY <1>2, <1>3, <1>6, <1>7 DEF StagesInv, FilesInv, Unfracked, Runs
    <2>5. QED
      BY <1>2, <1>7, <2>1, <2>2, <2>3, <2>4 DEF StagesInv, FilesInv, DeadStays, Runs
  <1>11. OnceInv'
    BY <1>2, <1>6 DEF StagesInv, OnceInv
  <1>12. QED
    BY <1>9, <1>10, <1>11 DEF StagesInv

\* An unpacker is started for the first run that waits, or, if there is no
\* unpacker, the thread dies with it.
LEMMA UnpackGetMove ==
    ASSUME TypeOK, StagesInv, DeadStays, UnpackGet
    PROVE  StagesInv'
  <1> USE DEF inputVars, unpackVars, frackVars
  <1> DEFINE r == Head(raw_data_queue)
  <1>1. UNCHANGED <<root_data_queue, fracking, raw_data, full_config, root_data, hdf>>
    BY DEF UnpackGet
  <1>2. CASE UNCHANGED <<raw_data_queue, unpacking>>
    BY <1>1, <1>2, NothingMoves
  <1>3. CASE ~UNCHANGED <<raw_data_queue, unpacking>>
    <2>1. /\ raw_data_queue # <<>> /\ raw_data_queue \in Seq(Runs)
          /\ raw_data_queue' = Tail(raw_data_queue)
          /\ \/ unpack_pc' = "dead" /\ unpacking' = unpacking
             \/ unpacking' = Append(unpacking, Task(r))
      BY <1>3 DEF UnpackGet, TypeOK
    <2>2. /\ Waiting = {r} \cup Waiting' /\ r \in Runs
          /\ Distinct(raw_data_queue') /\ r \notin Waiting'
      <3>1. Distinct(raw_data_queue)
        BY DEF StagesInv, OnceInv
      <3>2. QED
        BY <2>1, <3>1, HeadTailElems DEF Waiting
    <2> HIDE DEF r
    <2>3. /\ Unpacked' = Unpacked /\ AtFracker' = AtFracker
          /\ Finished' = Finished /\ Present' = Present
      BY <1>1 DEF Unpacked, AtFracker, Finished, Fracked, Present, Runs
    <2>4. /\ r \notin AtUnpacker /\ r \notin Unpacked /\ r \notin AtFracker
          /\ r \notin Finished /\ r \in Present
      BY <2>2 DEF StagesInv, PlacesInv, Somewhere
    <2>5. ~Whole(root_data[r]) /\ \A q \in Waiting' : ~Whole(root_data[q])
      BY <2>2 DEF StagesInv, FilesInv
    <2>6. CASE unpack_pc' = "dead" /\ unpacking' = unpacking
      <3>1. AtUnpacker' = AtUnpacker
        BY <2>6 DEF AtUnpacker
      <3>2. OnceInv'
        BY <1>1, <2>2, <2>6 DEF StagesInv, OnceInv
      <3>3. PlacesInv'
        BY <2>2, <2>3, <2>6, <3>1 DEF StagesInv, PlacesInv, Somewhere
      <3>4. Unfracked'
        BY <1>1, <2>2, <2>3, <3>1 DEF StagesInv, FilesInv, Unfracked, Runs
      <3>5. FilesInv'
        BY <1>1, <2>3, <2>5, <2>6, <3>1, <3>4
           DEF StagesInv, FilesInv, RootFileNeeded, DeadStays, Runs
      <3>6. QED
        BY <3>2, <3>3, <3>5 DEF StagesInv
    <2>7. CASE unpacking' = Append(unpacking, Task(r))
      <3>1. unpacking \in Seq(TaskType) /\ DistinctRuns(unpacking) /\ r \in Runs
        BY <2>2 DEF TypeOK, StagesInv, OnceInv
      <3>2. ASSUME NEW t, t = Append(unpacking, Task(r))
            PROVE  /\ RunsOf(t) = RunsOf(unpacking) \cup {r}
                   /\ \A j \in DOMAIN t :
                         \/ j \in DOMAIN unpacking /\ t[j] = unpacking[j]
                         \/ t[j].run = r /\ t[j].returncode = "none"
                   /\ r \notin RunsOf(unpacking) => DistinctRuns(t)
        BY <3>1, <3>2, TaskStarts
      <3>3. AtUnpacker' = AtUnpacker \cup {r}
        BY <2>7, <3>2 DEF AtUnpacker
      <3>4. DistinctRuns(unpacking')
        BY <2>4, <2>7, <3>2 DEF AtUnpacker
      <3>5. OnceInv'
        BY <1>1, <2>2, <3>4 DEF StagesInv, OnceInv
      <3>6. PlacesInv'
        BY <2>2, <2>3, <2>4, <3>3 DEF StagesInv, PlacesInv, Somewhere, DeadStays
      <3>7. \A j \in DOMAIN unpacking' :
               Whole(root_data'[unpacking'[j].run]) <=> unpacking'[j].returncode = "ok"
        <4>1. SUFFICES ASSUME NEW j \in DOMAIN unpacking'
                       PROVE  Whole(root_data[unpacking'[j].run]) <=>
                                 unpacking'[j].returncode = "ok"
          BY <1>1
        <4>2. CASE j \in DOMAIN unpacking /\ unpacking'[j] = unpacking[j]
          BY <4>2 DEF StagesInv, FilesInv
        <4>3. CASE unpacking'[j].run = r /\ unpacking'[j].returncode = "none"
          BY <2>5, <4>3
        <4>4. QED
          BY <2>7, <3>2, <4>2, <4>3
      <3>8. FilesInv'
        <4>1. \A q \in Runs : RootFileNeeded(q) => RootFileNeeded(q)'
          BY <1>1, <2>3, <3>3 DEF RootFileNeeded
        <4>2. Unfracked'
          BY <1>1, <2>2, <2>3, <3>3 DEF StagesInv, FilesInv, Unfracked, Runs
        <4>3. QED
          BY <1>1, <2>3, <2>5, <3>7, <4>1, <4>2
             DEF StagesInv, FilesInv, DeadStays, Runs
      <3>9. QED
        BY <3>5, <3>6, <3>8 DEF StagesInv
    <2>8. QED
      BY <2>1, <2>6, <2>7
  <1>4. QED
    BY <1>2, <1>3

\* The unpackers that ended leave the list; those that succeeded pass their
\* run on, and the raw file of a run goes with the unpacker that failed on it.
LEMMA UnpackPollMove ==
    ASSUME TypeOK, StagesInv, DeadStays, UnpackPoll
    PROVE  StagesInv'
  <1> USE DEF inputVars, unpackVars, frackVars
  <1> DEFINE ok == Elems(Succeeded(unpacking))
             bad == Failed(unpacking)
  <1>1. /\ UNCHANGED <<raw_data_queue, fracking, full_config, root_data, hdf>>
        /\ raw_data' = Removed(raw_data, bad)
        /\ unpacking' = Running(unpacking)
        /\ root_data_queue' = root_data_queue \o Succeeded(unpacking)
    BY DEF UnpackPoll
  <1>2. /\ unpacking \in Seq(TaskType) /\ DistinctRuns(unpacking)
        /\ root_data_queue \in Seq(Runs) /\ Distinct(root_data_queue)
    BY DEF TypeOK, StagesInv, OnceInv
  <1>3. /\ Succeeded(unpacking) \in Seq(Runs) /\ Distinct(Succeeded(unpacking))
        /\ ok = {unpacking[i].run : i \in At(unpacking, "ok")}
        /\ Exited(unpacking) = ok \cup bad /\ ok \cap bad = {}
    BY <1>2, SucceededList
  <1>4. /\ DistinctRuns(unpacking')
        /\ AtUnpacker' = AtUnpacker \ (ok \cup bad)
        /\ ok \cup bad \subseteq AtUnpacker
        /\ \A k \in DOMAIN unpacking' :
              /\ unpacking'[k].returncode = "none"
              /\ \E i \in At(unpacking, "none") : unpacking'[k] = unpacking[i]
    BY <1>1, <1>2, <1>3, RunningList DEF AtUnpacker
  <1>5. /\ Unpacked \cap ok = {}
        /\ Waiting \cap (ok \cup bad) = {} /\ AtFracker \cap (ok \cup bad) = {}
        /\ Finished \cap (ok \cup bad) = {} /\ Unpacked \cap bad = {}
    BY <1>4 DEF StagesInv, PlacesInv
  <1>6. Unpacked' = Unpacked \cup ok /\ Distinct(root_data_queue')
    BY <1>1, <1>2, <1>3, <1>5, ConcatElems DEF Unpacked
  <1> HIDE DEF ok, bad
  <1>7. /\ Waiting' = Waiting /\ AtFracker' = AtFracker /\ Finished' = Finished
    BY <1>1 DEF Waiting, AtFracker, Finished, Fracked, Runs
  <1>8. Present' = Present \ bad
    <2>1. \A r \in Runs : raw_data'[r] = IF r \in bad THEN NoConfig ELSE raw_data[r]
      BY <1>1 DEF Removed
    <2>2. QED
      BY <2>1 DEF Present, Runs
  <1>9. OnceInv'
    BY <1>1, <1>4, <1>6 DEF StagesInv, OnceInv
  <1>10. PlacesInv'
    <2>1. Somewhere' = Somewhere \ bad
      BY <1>3, <1>4, <1>5, <1>6, <1>7 DEF Somewhere
    <2>2. QED
      BY <1>3, <1>4, <1>5, <1>6, <1>7, <1>8, <2>1
         DEF StagesInv, PlacesInv, DeadStays
  <1>11. FilesInv'
    <2>1. \A r \in Runs : full_config'[r] = NoConfig =>
             raw_data'[r] = NoConfig /\ root_data'[r] = NoConfig
      BY <1>1 DEF StagesInv, FilesInv, Removed
    <2>2. ASSUME NEW k \in DOMAIN unpacking'
          PROVE  Whole(root_data'[unpacking'[k].run]) <=> unpacking'[k].returncode = "ok"
      <3>1. PICK i \in At(unpacking, "none") : unpacking'[k] = unpacking[i]
        BY <1>4
      <3>2. i \in DOMAIN unpacking /\ unpacking[i].returncode = "none"
        BY DEF At
      <3>3. ~Whole(root_data[unpacking[i].run])
        BY <3>2 DEF StagesInv, FilesInv
      <3>4. QED
        BY <1>1, <3>1, <3>2, <3>3
    <2>3. ASSUME NEW i \in At(unpacking, "ok")
          PROVE  Whole(root_data[unpacking[i].run])
      BY DEF StagesInv, FilesInv, At
    <2>4. \A r \in Unpacked' \cup AtFracker' : Whole(root_data'[r])
      BY <1>1, <1>3, <1>6, <1>7, <2>3 DEF StagesInv, FilesInv
    <2>5. ASSUME NEW i \in At(unpacking, "failed")
          PROVE  ~Whole(root_data[unpacking[i].run])
      BY DEF StagesInv, FilesInv, At
    <2>6. \A r \in bad : ~Whole(root_data[r])
      BY <2>5 DEF bad, Failed
    <2>7. ASSUME ~keep_root, frack_pc' # "dead", NEW r \in Runs, root_data'[r] # NoConfig
          PROVE  RootFileNeeded(r)'
      <3>1. RootFileNeeded(r) /\ root_data'[r] = root_data[r]
        BY <1>1, <2>7 DEF StagesInv, FilesInv, DeadStays
      <3>2. raw_data'[r] = IF r \in bad THEN NoConfig ELSE raw_data[r]
        BY <1>1 DEF Removed
      <3>3. CASE r \in bad
        <4>1. root_data[r] = Partial
          BY <2>6, <2>7, <3>1, <3>3 DEF TypeOK, Whole
        <4>2. QED
          BY <3>1, <3>2, <3>3, <4>1 DEF RootFileNeeded
      <3>4. CASE r \notin bad
        BY <1>4, <1>6, <1>7, <3>1, <3>2, <3>4 DEF RootFileNeeded
      <3>5. QED
        BY <3>3, <3>4
    <2>8. /\ \A r \in Waiting' : ~Whole(root_data'[r])
          /\ \A i \in DOMAIN fracking' :
                Whole(hdf'[fracking'[i].run]) <=> fracking'[i].returncode = "ok"
      BY <1>1, <1>7 DEF StagesInv, FilesInv
    <2>9. Unfracked'
      BY <1>1, <1>3, <1>4, <1>6, <1>7 DEF StagesInv, FilesInv, Unfracked, Runs
    <2>10. QED
      BY <2>1, <2>2, <2>4, <2>7, <2>8, <2>9 DEF FilesInv, Runs
  <1>12. QED
    BY <1>9, <1>10, <1>11 DEF StagesInv

\* An unpacker ends: the root file is there if, and only if, it succeeded.
LEMMA UnpackerMove ==
    ASSUME TypeOK, StagesInv, DeadStays,
           NEW i \in DOMAIN unpacking, UnpackerExits(i)
    PROVE  StagesInv'
  <1> USE DEF inputVars, unpackVars, frackVars
  <1> DEFINE r == unpacking[i].run
  <1>1. UNCHANGED <<raw_data_queue, fracking, full_config, raw_data, hdf, root_data_queue>>
    BY DEF UnpackerExits
  <1>2. PICK code \in {"ok", "failed"} :
           /\ unpacking' = Ended(unpacking, i, code)
           /\ code = "ok" => root_data' = [root_data EXCEPT ![r] = raw_data[r]]
           /\ code = "failed" => \/ root_data' = root_data
                                 \/ root_data' = [root_data EXCEPT ![r] = Partial]
    BY DEF UnpackerExits, Ended
  <1>3. /\ unpacking \in Seq(TaskType) /\ DistinctRuns(unpacking)
        /\ root_data \in [Runs -> Content \cup {NoConfig, Partial}]
        /\ unpacking[i].returncode = "none"
    BY DEF TypeOK, StagesInv, OnceInv, UnpackerExits
  <1>4. /\ DOMAIN unpacking' = DOMAIN unpacking /\ RunsOf(unpacking') = RunsOf(unpacking)
        /\ \A j \in DOMAIN unpacking :
              /\ unpacking'[j].run = unpacking[j].run
              /\ unpacking'[j].returncode = IF j = i THEN code ELSE unpacking[j].returncode
        /\ DistinctRuns(unpacking')
    <2>1. unpacking' = Ended(unpacking, i, code) /\ code \in {"ok", "failed"}
      BY <1>2
    <2>2. unpacking \in Seq(TaskType) /\ DistinctRuns(unpacking)
      BY <1>3
    <2> HIDE DEF r
    <2>3. /\ DOMAIN Ended(unpacking, i, code) = DOMAIN unpacking
          /\ RunsOf(Ended(unpacking, i, code)) = RunsOf(unpacking)
      BY <2>2, TaskExits
    <2>4. DistinctRuns(Ended(unpacking, i, code))
      BY <2>2, TaskExits
    <2>5. /\ Ended(unpacking, i, code)[i].run = unpacking[i].run
          /\ Ended(unpacking, i, code)[i].returncode = code
          /\ \A j \in DOMAIN unpacking :
                j # i => Ended(unpacking, i, code)[j] = unpacking[j]
      BY <2>2, TaskExits
    <2>6. QED
      BY <2>1, <2>3, <2>4, <2>5
  <1>5. /\ DOMAIN unpacking' = DOMAIN unpacking /\ AtUnpacker' = AtUnpacker
        /\ \A j \in DOMAIN unpacking :
              /\ unpacking'[j].run = unpacking[j].run
              /\ unpacking'[j].returncode = IF j = i THEN code ELSE unpacking[j].returncode
        /\ DistinctRuns(unpacking')
    BY <1>4 DEF AtUnpacker
  <1>6. r \in AtUnpacker /\ r \in Runs
    BY PlaceTypes
  <1>7. raw_data[r] # NoConfig
    BY <1>6 DEF StagesInv, PlacesInv, Somewhere, Present
  <1>8. /\ Waiting' = Waiting /\ Unpacked' = Unpacked /\ AtFracker' = AtFracker
        /\ Finished' = Finished /\ Present' = Present
    BY <1>1 DEF Waiting, Unpacked, AtFracker, Finished, Fracked, Present, Runs
  <1>9. r \notin Waiting /\ r \notin Unpacked /\ r \notin AtFracker
    BY <1>6 DEF StagesInv, PlacesInv
  <1>10. OnceInv'
    BY <1>1, <1>5 DEF StagesInv, OnceInv
  <1>11. PlacesInv'
    BY <1>5, <1>8 DEF StagesInv, PlacesInv, Somewhere, DeadStays
  <1>12. \A j \in DOMAIN unpacking : unpacking[j].run = r => j = i
    BY <1>3 DEF DistinctRuns
  <1>13. ~Whole(root_data[r]) /\ full_config[r] # NoConfig
    <2>1. ~Whole(root_data[r])
      BY <1>3 DEF StagesInv, FilesInv
    <2>2. QED
      BY <1>6, <1>7, <2>1 DEF StagesInv, FilesInv
  <1>14. /\ \A q \in Runs : q # r => root_data'[q] = root_data[q]
         /\ code = "ok" => Whole(root_data'[r])
         /\ code = "failed" => ~Whole(root_data'[r])
    <2> HIDE DEF r
    <2>1. QED
      <3>1. raw_data[r] \in Content
        BY <1>6, <1>7 DEF TypeOK
      <3>2. Whole(raw_data[r]) /\ ~Whole(Partial)
        BY <3>1, FileTypes
      <3>3. /\ code = "ok" => root_data'[r] = raw_data[r]
            /\ code = "failed" => root_data'[r] \in {root_data[r], Partial}
        BY <1>2, <1>3, <1>6
      <3>4. code = "ok" \/ code = "failed"
        OBVIOUS
      <3>5. \A q \in Runs : q # r => root_data'[q] = root_data[q]
        BY <1>2, <1>3, <1>6, <3>4
      <3>6. QED
        BY <1>13, <3>2, <3>3, <3>5
  <1>15. FilesInv'
    <2>1. ASSUME NEW j \in DOMAIN unpacking
          PROVE  Whole(root_data'[unpacking[j].run]) <=> unpacking'[j].returncode = "ok"
      <3>1. unpacking[j].run \in Runs
        BY PlaceTypes
      <3>2. CASE j = i
        BY <1>5, <1>14, <3>2
      <3>3. CASE j # i
        <4>1. unpacking[j].run # r
          BY <1>12, <3>3
        <4>2. root_data'[unpacking[j].run] = root_data[unpacking[j].run]
          BY <1>14, <3>1, <4>1
        <4>3. QED
          BY <1>5, <3>3, <4>2 DEF StagesInv, FilesInv
      <3>4. QED
        BY <3>2, <3>3
    <2>2. \A j \in DOMAIN unpacking' :
             Whole(root_data'[unpacking'[j].run]) <=> unpacking'[j].returncode = "ok"
      BY <1>5, <2>1
    <2> HIDE DEF r
    <2>3. \A q \in Runs : full_config'[q] = NoConfig =>
             raw_data'[q] = NoConfig /\ root_data'[q] = NoConfig
      BY <1>1, <1>13, <1>14 DEF StagesInv, FilesInv
    <2>4. /\ \A q \in Waiting' : ~Whole(root_data'[q])
          /\ \A q \in Unpacked' \cup AtFracker' : Whole(root_data'[q])
      BY <1>8, <1>9, <1>14, PlaceTypes DEF StagesInv, FilesInv
    <2>5. ASSUME ~keep_root, frack_pc' # "dead", NEW q \in Runs, root_data'[q] # NoConfig
          PROVE  RootFileNeeded(q)'
      <3>1. CASE q = r
        BY <1>5, <1>6, <3>1 DEF RootFileNeeded
      <3>2. CASE q # r
        <4>1. root_data[q] # NoConfig /\ root_data'[q] = root_data[q]
          BY <1>14, <2>5, <3>2
        <4>2. RootFileNeeded(q)
          BY <1>1, <2>5, <4>1 DEF StagesInv, FilesInv, DeadStays
        <4>3. QED
          BY <1>1, <1>5, <1>8, <4>1, <4>2 DEF RootFileNeeded
      <3>3. QED
        BY <3>1, <3>2
    <2>6. \A j \in DOMAIN fracking' :
             Whole(hdf'[fracking'[j].run]) <=> fracking'[j].returncode = "ok"
      BY <1>1 DEF StagesInv, FilesInv
    <2>7. Unfracked'
      BY <1>1, <1>5, <1>8 DEF StagesInv, FilesInv, Unfracked, Runs
    <2>8. QED
      BY <2>2, <2>3, <2>4, <2>5, <2>6, <2>7 DEF FilesInv, Runs
  <1>16. QED
    BY <1>10, <1>11, <1>15 DEF StagesInv

\* A fracker is started for the first run unpacked, or, if there is no
\* fracker, the thread dies with it.
LEMMA FrackGetMove ==
    ASSUME TypeOK, StagesInv, DeadStays, FrackGet
    PROVE  StagesInv'
  <1> USE DEF inputVars, unpackVars, frackVars
  <1> DEFINE r == Head(root_data_queue)
  <1>1. UNCHANGED <<raw_data_queue, unpacking, raw_data, full_config, root_data, hdf>>
    BY DEF FrackGet
  <1>2. CASE UNCHANGED <<root_data_queue, fracking>>
    BY <1>1, <1>2, NothingMoves
  <1>3. CASE ~UNCHANGED <<root_data_queue, fracking>>
    <2>1. /\ root_data_queue # <<>> /\ root_data_queue \in Seq(Runs)
          /\ root_data_queue' = Tail(root_data_queue)
          /\ \/ frack_pc' = "dead" /\ fracking' = fracking
             \/ fracking' = Append(fracking, Task(r))
      BY <1>3 DEF FrackGet, TypeOK
    <2>2. /\ Unpacked = {r} \cup Unpacked' /\ r \in Runs
          /\ Distinct(root_data_queue') /\ r \notin Unpacked'
      <3>1. Distinct(root_data_queue)
        BY DEF StagesInv, OnceInv
      <3>2. QED
        BY <2>1, <3>1, HeadTailElems DEF Unpacked
    <2> HIDE DEF r
    <2>3. Waiting' = Waiting /\ AtUnpacker' = AtUnpacker /\ Present' = Present
      BY <1>1 DEF Waiting, AtUnpacker, Present, Runs
    <2>4. /\ r \notin Waiting /\ r \notin AtUnpacker /\ r \notin AtFracker
          /\ r \notin Finished /\ r \in Present
      BY <2>2 DEF StagesInv, PlacesInv, Somewhere
    <2>5. Whole(root_data[r]) /\ ~Whole(hdf[r])
      BY <2>2, <2>4 DEF StagesInv, FilesInv, Finished, Fracked, AtFracker
    <2>6. /\ \A q \in Runs : full_config'[q] = NoConfig =>
                raw_data'[q] = NoConfig /\ root_data'[q] = NoConfig
          /\ \A q \in Waiting' : ~Whole(root_data'[q])
          /\ \A j \in DOMAIN unpacking' :
                Whole(root_data'[unpacking'[j].run]) <=> unpacking'[j].returncode = "ok"
      BY <1>1, <2>3 DEF StagesInv, FilesInv
    <2>7. CASE frack_pc' = "dead" /\ fracking' = fracking
      <3>1. AtFracker' = AtFracker /\ Finished' = Finished
        BY <1>1, <2>7 DEF AtFracker, Finished, Fracked, Runs
      <3>2. OnceInv'
        BY <1>1, <2>2, <2>7 DEF StagesInv, OnceInv
      <3>3. PlacesInv'
        BY <2>2, <2>3, <2>7, <3>1 DEF StagesInv, PlacesInv, Somewhere
      <3>4. /\ \A q \in Unpacked' \cup AtFracker' : Whole(root_data'[q])
            /\ \A j \in DOMAIN fracking' :
                  Whole(hdf'[fracking'[j].run]) <=> fracking'[j].returncode = "ok"
        BY <1>1, <2>2, <2>7, <3>1 DEF StagesInv, FilesInv
      <3>5. Unfracked'
        BY <1>1, <2>2, <2>3, <2>7 DEF StagesInv, FilesInv, Unfracked, Runs
      <3>6. FilesInv'
        BY <2>6, <2>7, <3>4, <3>5 DEF FilesInv, Runs
      <3>7. QED
        BY <3>2, <3>3, <3>6 DEF StagesInv
    <2>8. CASE fracking' = Append(fracking, Task(r))
      <3>1. fracking \in Seq(TaskType) /\ DistinctRuns(fracking) /\ r \in Runs
        BY <2>2 DEF TypeOK, StagesInv, OnceInv
      <3>2. ASSUME NEW t, t = Append(fracking, Task(r))
            PROVE  /\ RunsOf(t) = RunsOf(fracking) \cup {r}
                   /\ \A j \in DOMAIN t :
                         \/ j \in DOMAIN fracking /\ t[j] = fracking[j]
                         \/ t[j].run = r /\ t[j].returncode = "none"
                   /\ r \notin RunsOf(fracking) => DistinctRuns(t)
        BY <3>1, <3>2, TaskStarts
      <3>3. AtFracker' = AtFracker \cup {r}
        BY <2>8, <3>2 DEF AtFracker
      <3>4. Finished' = Finished
        BY <1>1, <2>5, <3>3 DEF Finished, Fracked, AtFracker, Runs
      <3>5. DistinctRuns(fracking')
        BY <2>4, <2>8, <3>2 DEF AtFracker
      <3>6. OnceInv'
        BY <1>1, <2>2, <3>5 DEF StagesInv, OnceInv
      <3>7. PlacesInv'
        BY <2>2, <2>3, <2>4, <3>3, <3>4
           DEF StagesInv, PlacesInv, Somewhere, DeadStays
      <3>8. ASSUME NEW j \in DOMAIN fracking'
            PROVE  Whole(hdf'[fracking'[j].run]) <=> fracking'[j].returncode = "ok"
        <4>1. CASE j \in DOMAIN fracking /\ fracking'[j] = fracking[j]
          BY <1>1, <4>1 DEF StagesInv, FilesInv
        <4>2. CASE fracking'[j].run = r /\ fracking'[j].returncode = "none"
          BY <1>1, <2>5, <4>2
        <4>3. QED
          BY <2>8, <3>2, <4>1, <4>2
      <3>9. \A q \in Unpacked' \cup AtFracker' : Whole(root_data'[q])
        BY <1>1, <2>2, <2>5, <3>3 DEF StagesInv, FilesInv
      <3>10. ASSUME ~keep_root, frack_pc' # "dead", NEW q \in Runs, root_data'[q] # NoConfig
             PROVE  RootFileNeeded(q)'
        <4>1. RootFileNeeded(q)
          BY <1>1, <3>10 DEF StagesInv, FilesInv, DeadStays
        <4>2. QED
          BY <1>1, <2>2, <2>3, <3>3, <4>1 DEF RootFileNeeded
      <3>11. ASSUME NEW j \in DOMAIN fracking', fracking'[j].returncode = "none"
             PROVE  hdf'[fracking'[j].run] = NoConfig
        <4>1. CASE j \in DOMAIN fracking /\ fracking'[j] = fracking[j]
          BY <1>1, <3>11, <4>1 DEF StagesInv, FilesInv, Unfracked
        <4>2. CASE fracking'[j].run = r
          BY <1>1, <2>2, <4>2 DEF StagesInv, FilesInv, Unfracked
        <4>3. QED
          BY <2>8, <3>2, <4>1, <4>2
      <3>12. Unfracked'
        BY <1>1, <2>2, <2>3, <3>11 DEF StagesInv, FilesInv, Unfracked, Runs
      <3>13. FilesInv'
        BY <2>6, <3>8, <3>9, <3>10, <3>12 DEF FilesInv, Runs
      <3>14. QED
        BY <3>6, <3>7, <3>13 DEF StagesInv
    <2>9. QED
      BY <2>1, <2>7, <2>8
  <1>4. QED
    BY <1>2, <1>3

\* The frackers that ended leave the list: the raw file of a run goes with
\* the fracker that failed on it, the others are finished.
LEMMA FrackPollMove ==
    ASSUME TypeOK, StagesInv, DeadStays, FrackPoll
    PROVE  StagesInv'
  <1> USE DEF inputVars, unpackVars, frackVars
  <1> DEFINE ok == Elems(Succeeded(fracking))
             bad == Failed(fracking)
             exited == Exited(fracking)
  <1>1. /\ UNCHANGED <<raw_data_queue, unpacking, full_config, hdf, root_data_queue>>
        /\ raw_data' = Removed(raw_data, bad)
        /\ fracking' = Running(fracking)
        /\ keep_root => root_data' = root_data
        /\ ~keep_root => root_data' = Removed(root_data, exited)
    BY DEF FrackPoll
  <1>2. fracking \in Seq(TaskType) /\ DistinctRuns(fracking)
    BY DEF TypeOK, StagesInv, OnceInv
  <1>3. /\ ok = {fracking[i].run : i \in At(fracking, "ok")}
        /\ exited = ok \cup bad /\ ok \cap bad = {}
    BY <1>2, SucceededList
  <1>4. /\ DistinctRuns(fracking')
        /\ AtFracker' = AtFracker \ exited
        /\ exited \subseteq AtFracker
        /\ \A k \in DOMAIN fracking' :
              /\ fracking'[k].returncode = "none"
              /\ \E i \in At(fracking, "none") : fracking'[k] = fracking[i]
    BY <1>1, <1>2, <1>3, RunningList DEF AtFracker
  <1>5. /\ Waiting \cap exited = {} /\ AtUnpacker \cap exited = {}
        /\ Unpacked \cap exited = {} /\ Finished \cap AtFracker = {}
    BY <1>4 DEF StagesInv, PlacesInv, Finished, Fracked, AtFracker
  <1>6. /\ \A r \in ok : Whole(hdf[r])
        /\ \A r \in AtFracker \ ok : ~Whole(hdf[r])
    <2>1. ASSUME NEW i \in At(fracking, "ok")
          PROVE  Whole(hdf[fracking[i].run])
      BY DEF StagesInv, FilesInv, At
    <2>2. ASSUME NEW r \in AtFracker, r \notin ok
          PROVE  ~Whole(hdf[r])
      <3>1. PICK i \in DOMAIN fracking : r = fracking[i].run
        BY DEF AtFracker, RunsOf
      <3>2. i \notin At(fracking, "ok")
        BY <1>3, <2>2, <3>1
      <3>3. fracking[i].returncode # "ok"
        BY <3>2 DEF At
      <3>4. QED
        BY <3>1, <3>3 DEF StagesInv, FilesInv
    <2>3. QED
      BY <1>3, <2>1, <2>2
  <1> HIDE DEF ok, bad, exited
  <1>7. /\ Waiting' = Waiting /\ AtUnpacker' = AtUnpacker /\ Unpacked' = Unpacked
    BY <1>1 DEF Waiting, AtUnpacker, Unpacked
  <1>8. Finished' = Finished \cup ok
    <2>1. ok \subseteq Runs
      BY <1>3, <1>4, PlaceTypes
    <2>2. \A r \in Runs : /\ r \in Finished <=> Whole(hdf[r]) /\ r \notin AtFracker
                          /\ r \in Finished' <=> Whole(hdf[r]) /\ r \notin AtFracker'
      BY <1>1 DEF Finished, Fracked, AtFracker, Runs
    <2>3. Finished \subseteq Runs /\ Finished' \subseteq Runs
      BY DEF Finished, Runs
    <2>4. QED
      BY <1>3, <1>4, <1>6, <2>1, <2>2, <2>3
  <1>9. Present' = Present \ bad
    <2>1. \A r \in Runs : raw_data'[r] = IF r \in bad THEN NoConfig ELSE raw_data[r]
      BY <1>1 DEF Removed
    <2>2. QED
      BY <2>1 DEF Present, Runs
  <1>10. OnceInv'
    BY <1>1, <1>4 DEF StagesInv, OnceInv
  <1>11. PlacesInv'
    <2>1. Somewhere' = Somewhere \ bad
      BY <1>3, <1>4, <1>5, <1>7, <1>8 DEF Somewhere
    <2>2. QED
      BY <1>3, <1>4, <1>5, <1>7, <1>8, <1>9, <2>1
         DEF StagesInv, PlacesInv, DeadStays
  <1>12. /\ \A r \in Runs : r \notin exited => root_data'[r] = root_data[r]
         /\ \A r \in Runs : root_data'[r] \in {root_data[r], NoConfig}
         /\ \A r \in Runs : ~Whole(root_data[r]) => ~Whole(root_data'[r])
         /\ ~keep_root => \A r \in Runs : r \in exited => root_data'[r] = NoConfig
    BY <1>1, OptionAssumption, FileTypes DEF Removed
  <1>13. FilesInv'
    <2>1. \A r \in Runs : full_config'[r] = NoConfig =>
             raw_data'[r] = NoConfig /\ root_data'[r] = NoConfig
      BY <1>1, <1>12 DEF StagesInv, FilesInv, Removed
    <2>2. \A r \in Waiting' : ~Whole(root_data'[r])
      BY <1>7, <1>12, PlaceTypes DEF StagesInv, FilesInv
    <2>3. ASSUME NEW i \in DOMAIN unpacking'
          PROVE  Whole(root_data'[unpacking'[i].run]) <=> unpacking'[i].returncode = "ok"
      <3>1. unpacking[i].run \in AtUnpacker /\ AtUnpacker \subseteq Runs
        BY <1>1, PlaceTypes
      <3>2. root_data'[unpacking[i].run] = root_data[unpacking[i].run]
        BY <1>5, <1>12, <3>1
      <3>3. QED
        BY <1>1, <3>2 DEF StagesInv, FilesInv
    <2>4. \A r \in Unpacked' \cup AtFracker' : Whole(root_data'[r])
      BY <1>4, <1>5, <1>7, <1>12, PlaceTypes DEF StagesInv, FilesInv
    <2>5. ASSUME NEW k \in DOMAIN fracking'
          PROVE  Whole(hdf'[fracking'[k].run]) <=> fracking'[k].returncode = "ok"
      <3>1. PICK i \in At(fracking, "none") : fracking'[k] = fracking[i]
        BY <1>4
      <3>2. i \in DOMAIN fracking /\ fracking[i].returncode = "none"
        BY DEF At
      <3>3. ~Whole(hdf[fracking[i].run])
        BY <3>2 DEF StagesInv, FilesInv
      <3>4. QED
        BY <1>1, <3>1, <3>2, <3>3
    <2>6. ASSUME ~keep_root, frack_pc' # "dead", NEW r \in Runs, root_data'[r] # NoConfig
          PROVE  RootFileNeeded(r)'
      <3>1. root_data'[r] = root_data[r] /\ r \notin exited
        BY <1>12, <2>6
      <3>2. RootFileNeeded(r)
        BY <2>6, <3>1 DEF StagesInv, FilesInv, DeadStays
      <3>3. raw_data'[r] = raw_data[r]
        BY <1>1, <1>3, <3>1 DEF Removed
      <3>4. QED
        BY <1>4, <1>7, <3>1, <3>2, <3>3 DEF RootFileNeeded
    <2>7. Unfracked'
      <3>1. ASSUME NEW k \in DOMAIN fracking'
            PROVE  hdf'[fracking'[k].run] = NoConfig
        <4>1. PICK i \in At(fracking, "none") : fracking'[k] = fracking[i]
          BY <1>4
        <4>2. i \in DOMAIN fracking /\ fracking[i].returncode = "none"
          BY DEF At
        <4>3. QED
          BY <1>1, <4>1, <4>2 DEF StagesInv, FilesInv, Unfracked
      <3>2. QED
        BY <1>1, <1>7, <3>1 DEF StagesInv, FilesInv, Unfracked, Runs
    <2>8. QED
      BY <2>1, <2>2, <2>3, <2>4, <2>5, <2>6, <2>7 DEF FilesInv, Runs
  <1>14. QED
    BY <1>10, <1>11, <1>13 DEF StagesInv

\* A fracker ends: the hdf file is there if, and only if, it succeeded.
LEMMA FrackerMove ==
    ASSUME TypeOK, StagesInv, DeadStays, ~FromDisk,
           NEW i \in DOMAIN fracking, FrackerExits(i)
    PROVE  StagesInv'
  <1> USE DEF inputVars, unpackVars, frackVars
  <1> DEFINE r == fracking[i].run
  <1>1. UNCHANGED <<raw_data_queue, unpacking, full_config, raw_data, root_data, root_data_queue>>
    BY DEF FrackerExits
  <1>2. PICK code \in {"ok", "failed"} :
           /\ fracking' = Ended(fracking, i, code)
           /\ code = "ok" =>
                 hdf' = [hdf EXCEPT ![r] = <<root_data[r], full_config[ConfigOf(r)]>>]
           /\ code = "failed" => \/ hdf' = hdf
                                 \/ hdf' = [hdf EXCEPT ![r] = Partial]
    BY DEF FrackerExits, Ended
  <1>3. /\ fracking \in Seq(TaskType) /\ DistinctRuns(fracking)
        /\ hdf \in [Runs -> (Content \X Content) \cup {NoConfig, Partial}]
        /\ fracking[i].returncode = "none"
    BY DEF TypeOK, StagesInv, OnceInv, FrackerExits
  <1>4. r \in AtFracker /\ r \in Runs /\ ConfigOf(r) = r
    BY PlaceTypes DEF ConfigOf
  <1>5. /\ DOMAIN fracking' = DOMAIN fracking /\ RunsOf(fracking') = RunsOf(fracking)
        /\ DistinctRuns(fracking')
        /\ fracking'[i].run = r /\ fracking'[i].returncode = code
        /\ \A j \in DOMAIN fracking : j # i => fracking'[j] = fracking[j]
    <2>1. fracking' = Ended(fracking, i, code) /\ code \in {"ok", "failed"}
      BY <1>2
    <2>2. fracking \in Seq(TaskType) /\ DistinctRuns(fracking)
      BY <1>3
    <2>3. /\ DOMAIN Ended(fracking, i, code) = DOMAIN fracking
          /\ RunsOf(Ended(fracking, i, code)) = RunsOf(fracking)
      BY <2>2, TaskExits
    <2>4. DistinctRuns(Ended(fracking, i, code))
      BY <2>2, TaskExits
    <2>5. /\ Ended(fracking, i, code)[i].run = fracking[i].run
          /\ Ended(fracking, i, code)[i].returncode = code
          /\ \A j \in DOMAIN fracking :
                j # i => Ended(fracking, i, code)[j] = fracking[j]
      BY <2>2, TaskExits
    <2>6. QED
      BY <2>1, <2>3, <2>4, <2>5
  <1>6. \A j \in DOMAIN fracking : fracking[j].run = r => j = i
    BY <1>3 DEF DistinctRuns
  <1>7. ~Whole(hdf[r])
    BY <1>3 DEF StagesInv, FilesInv
  <1> HIDE DEF r
  <1>8. Whole(<<root_data[r], full_config[r]>>)
    <2>1. raw_data[r] # NoConfig /\ Whole(root_data[r])
      BY <1>4 DEF StagesInv, PlacesInv, FilesInv, Somewhere, Present
    <2>2. full_config[r] # NoConfig
      BY <1>4, <2>1 DEF StagesInv, FilesInv
    <2>3. root_data[r] \in Content /\ full_config[r] \in Content
      BY <1>4, <2>1, <2>2 DEF TypeOK, Whole
    <2>4. QED
      BY <2>3, FileTypes
  <1>9. /\ \A q \in Runs : q # r => hdf'[q] = hdf[q]
        /\ code = "ok" => Whole(hdf'[r])
        /\ code = "failed" => ~Whole(hdf'[r])
    <2>1. code = "ok" \/ code = "failed"
      OBVIOUS
    <2>2. /\ code = "ok" => hdf'[r] = <<root_data[r], full_config[r]>>
          /\ code = "failed" => hdf'[r] \in {hdf[r], Partial}
      BY <1>2, <1>3, <1>4
    <2>3. \A q \in Runs : q # r => hdf'[q] = hdf[q]
      BY <1>2, <1>3, <1>4, <2>1
    <2>4. QED
      BY <1>7, <1>8, <2>2, <2>3, FileTypes
  <1>10. /\ Waiting' = Waiting /\ AtUnpacker' = AtUnpacker /\ Unpacked' = Unpacked
         /\ AtFracker' = AtFracker /\ Present' = Present
    BY <1>1, <1>5 DEF Waiting, AtUnpacker, Unpacked, AtFracker, Present, Runs
  <1>11. Finished' = Finished
    <2>1. \A q \in Runs : /\ q \in Finished <=> Whole(hdf[q]) /\ q \notin AtFracker
                          /\ q \in Finished' <=> Whole(hdf'[q]) /\ q \notin AtFracker'
      BY DEF Finished, Fracked, AtFracker, Runs
    <2>2. Finished \subseteq Runs /\ Finished' \subseteq Runs
      BY DEF Finished, Runs
    <2>3. QED
      BY <1>4, <1>9, <1>10, <2>1, <2>2
  <1>12. OnceInv'
    BY <1>1, <1>5 DEF StagesInv, OnceInv
  <1>13. PlacesInv'
    BY <1>10, <1>11 DEF StagesInv, PlacesInv, Somewhere, DeadStays
  <1>14. FilesInv'
    <2>1. ASSUME NEW j \in DOMAIN fracking
          PROVE  Whole(hdf'[fracking'[j].run]) <=> fracking'[j].returncode = "ok"
      <3>1. CASE j = i
        BY <1>2, <1>5, <1>9, <3>1
      <3>2. CASE j # i
        <4>1. fracking[j].run # r /\ fracking[j].run \in Runs
          BY <1>6, <3>2, PlaceTypes
        <4>2. hdf'[fracking[j].run] = hdf[fracking[j].run]
          BY <1>9, <4>1
        <4>3. QED
          BY <1>5, <3>2, <4>2 DEF StagesInv, FilesInv
      <3>3. QED
        BY <3>1, <3>2
    <2>2. \A j \in DOMAIN fracking' :
             Whole(hdf'[fracking'[j].run]) <=> fracking'[j].returncode = "ok"
      BY <1>5, <2>1
    <2>3. /\ \A q \in Runs : full_config'[q] = NoConfig =>
                raw_data'[q] = NoConfig /\ root_data'[q] = NoConfig
          /\ \A q \in Waiting' : ~Whole(root_data'[q])
          /\ \A j \in DOMAIN unpacking' :
                Whole(root_data'[unpacking'[j].run]) <=> unpacking'[j].returncode = "ok"
          /\ \A q \in Unpacked' \cup AtFracker' : Whole(root_data'[q])
      BY <1>1, <1>10 DEF StagesInv, FilesInv
    <2>4. ASSUME ~keep_root, frack_pc' # "dead", NEW q \in Runs, root_data'[q] # NoConfig
          PROVE  RootFileNeeded(q)'
      <3>1. RootFileNeeded(q)
        BY <1>1, <2>4 DEF StagesInv, FilesInv, DeadStays
      <3>2. QED
        BY <1>1, <1>10, <3>1 DEF RootFileNeeded
    <2>5. ASSUME NEW j \in DOMAIN fracking', fracking'[j].returncode = "none"
          PROVE  hdf'[fracking'[j].run] = NoConfig
      <3>1. j \in DOMAIN fracking /\ j # i /\ fracking'[j] = fracking[j]
        BY <1>2, <1>5, <2>5
      <3>2. fracking[j].run # r /\ fracking[j].run \in Runs
        BY <1>6, <3>1, PlaceTypes
      <3>3. QED
        BY <1>9, <2>5, <3>1, <3>2 DEF StagesInv, FilesInv, Unfracked
    <2>6. full_config[r] # NoConfig
      <3>1. raw_data[r] # NoConfig
        BY <1>4 DEF StagesInv, PlacesInv, Somewhere, Present
      <3>2. QED
        BY <1>4, <3>1 DEF StagesInv, FilesInv
    <2>7. r \notin Waiting \cup AtUnpacker \cup Unpacked
      BY <1>4 DEF StagesInv, PlacesInv
    <2>8. Unfracked'
      <3>1. \A q \in Runs : full_config'[q] = NoConfig => hdf'[q] = NoConfig
        BY <1>1, <1>9, <2>6 DEF StagesInv, FilesInv, Unfracked
      <3>2. \A q \in Waiting' \cup AtUnpacker' \cup Unpacked' : hdf'[q] = NoConfig
        BY <1>9, <1>10, <2>7, PlaceTypes DEF StagesInv, FilesInv, Unfracked
      <3>3. QED
        BY <2>5, <3>1, <3>2 DEF Unfracked, Runs
    <2>9. QED
      BY <2>2, <2>3, <2>4, <2>8 DEF FilesInv, Runs
  <1>15. QED
    BY <1>12, <1>13, <1>14 DEF StagesInv

-----------------------------------------------------------------------------
(* The invariant.                                                          *)

\* No step changes the program that runs, or brings a thread back.
LEMMA ThreadsStayDead ==
    ASSUME [Next]_vars
    PROVE  program' = program /\ DeadStays
  <1> USE DEF inputVars, unpackVars, frackVars, DeadStays
  <1>1. CASE Feed
    BY <1>1 DEF Feed, Main, Acquire, AcquisitionEnds, PutRawFile, RawFilesPut,
                ConfigFileMissing
  <1>2. CASE UnpackThread
    BY <1>2 DEF UnpackThread, UnpackLoop, UnpackGet, UnpackPoll
  <1>3. CASE FrackThread
    BY <1>3 DEF FrackThread, FrackLoop, FrackGet, FrackPoll
  <1>4. ASSUME NEW i \in DOMAIN unpacking, Unpacker(i)
        PROVE  program' = program /\ DeadStays
    BY <1>4 DEF Unpacker, UnpackerExits
  <1>5. ASSUME NEW i \in DOMAIN fracking, Fracker(i)
        PROVE  program' = program /\ DeadStays
    BY <1>5 DEF Fracker, FrackerExits
  <1>6. CASE UNCHANGED vars
    BY <1>6 DEF vars
  <1>7. QED
    BY <1>1, <1>2, <1>3, <1>4, <1>5, <1>6 DEF Next, PostNext

\* A thread dies of an item with four names or of a program not installed.
LEMMA DeadStep ==
    ASSUME DeadInv, [Next]_vars
    PROVE  DeadInv'
  <1> USE DEF inputVars, unpackVars, frackVars, FromDisk
  <1>1. CASE Feed
    BY <1>1 DEF DeadInv, Feed, Main, Acquire, AcquisitionEnds, PutRawFile, RawFilesPut,
                ConfigFileMissing
  <1>2. CASE UnpackThread
    BY <1>2 DEF DeadInv, UnpackThread, UnpackLoop, UnpackGet, UnpackPoll
  <1>3. CASE FrackThread
    BY <1>3 DEF DeadInv, FrackThread, FrackLoop, FrackGet, FrackPoll
  <1>4. ASSUME NEW i \in DOMAIN unpacking, Unpacker(i)
        PROVE  DeadInv'
    BY <1>4 DEF DeadInv, Unpacker, UnpackerExits
  <1>5. ASSUME NEW i \in DOMAIN fracking, Fracker(i)
        PROVE  DeadInv'
    BY <1>5 DEF DeadInv, Fracker, FrackerExits
  <1>6. CASE UNCHANGED vars
    BY <1>6 DEF DeadInv, vars
  <1>7. QED
    BY <1>1, <1>2, <1>3, <1>4, <1>5, <1>6 DEF Next, PostNext

\* A list without tasks stays one when it is polled, and passes nothing on.
LEMMA EmptyPoll ==
    ASSUME NEW tasks \in Seq(TaskType), tasks = <<>>
    PROVE  Running(tasks) = <<>> /\ Succeeded(tasks) = <<>>
  <1>1. Len(tasks) = 0 /\ DOMAIN tasks = {}
    BY EmptySeq
  <1>2. DistinctRuns(tasks)
    BY <1>1 DEF DistinctRuns
  <1>3. Succeeded(tasks) = <<>>
    <2>1. /\ Succeeded(tasks) \in Seq(Runs)
          /\ Elems(Succeeded(tasks)) = {tasks[i].run : i \in At(tasks, "ok")}
      BY <1>2, SucceededList
    <2>2. At(tasks, "ok") = {}
      BY <1>1 DEF At
    <2>3. QED
      BY <2>1, <2>2, ElemsType
  <1>4. Running(tasks) = <<>>
    <2>1. /\ Running(tasks) \in Seq(TaskType)
          /\ \A k \in DOMAIN Running(tasks) : \E i \in At(tasks, "none") : TRUE
      BY RunningList
    <2>2. At(tasks, "none") = {}
      BY <1>1 DEF At
    <2>3. Elems(Running(tasks)) = {}
      <3>1. DOMAIN Running(tasks) = 1..Len(Running(tasks))
        BY <2>1, LenProperties
      <3>2. DOMAIN Running(tasks) = {}
        BY <2>1, <2>2
      <3>3. QED
        BY <3>1, <3>2 DEF Elems
    <2>4. QED
      BY <2>1, <2>3, ElemsType
  <1>5. QED
    BY <1>3, <1>4

\* Nothing that process-raw-data puts in the queue is ever unpacked.
LEMMA DiskStep ==
    ASSUME TypeOK, FromDisk, DiskInv, [Next]_vars
    PROVE  DiskInv'
  <1> USE DEF inputVars, unpackVars, frackVars
  <1>1. unpacking \in Seq(TaskType) /\ fracking \in Seq(TaskType)
    BY DEF TypeOK
  <1>2. DOMAIN unpacking = {} /\ DOMAIN fracking = {}
    BY EmptySeq DEF DiskInv
  <1>3. CASE Feed
    BY <1>3 DEF DiskInv, Feed, Main, Acquire, AcquisitionEnds, PutRawFile, RawFilesPut,
                ConfigFileMissing
  <1>4. CASE UnpackLoop
    BY <1>4 DEF DiskInv, UnpackLoop
  <1>5. CASE UnpackGet
    BY <1>5 DEF DiskInv, UnpackGet
  <1>6. CASE UnpackPoll
    <2>1. Running(unpacking) = <<>> /\ Succeeded(unpacking) = <<>>
      BY <1>1, EmptyPoll DEF DiskInv
    <2>2. root_data_queue' = <<>>
      <3>1. root_data_queue' = root_data_queue \o Succeeded(unpacking)
        BY <1>6 DEF UnpackPoll
      <3>2. root_data_queue = <<>>
        BY DEF DiskInv
      <3>3. <<>> \o <<>> = <<>>
        OBVIOUS
      <3>4. QED
        BY <2>1, <3>1, <3>2, <3>3
    <2>3. QED
      BY <1>6, <2>1, <2>2 DEF DiskInv, UnpackPoll
  <1>7. CASE FrackLoop
    BY <1>7 DEF DiskInv, FrackLoop
  <1>8. CASE FrackGet
    BY <1>8 DEF DiskInv, FrackGet
  <1>9. CASE FrackPoll
    <2>1. Running(fracking) = <<>>
      BY <1>1, EmptyPoll DEF DiskInv
    <2>2. \A rs : Removed(NoFiles, rs) = NoFiles
      BY DEF Removed, NoFiles
    <2>3. root_data' = NoFiles
      BY <1>9, <2>2 DEF DiskInv, FrackPoll
    <2>4. QED
      BY <1>9, <2>1, <2>3 DEF DiskInv, FrackPoll
  <1>10. CASE UNCHANGED vars
    BY <1>10 DEF DiskInv, vars, NoFiles
  <1>11. QED
    BY <1>2, <1>3, <1>4, <1>5, <1>6, <1>7, <1>8, <1>9, <1>10
       DEF Next, PostNext, UnpackThread, FrackThread

\* An event that is set, and what it says of the stage, stays.
LEMMA EventStep ==
    ASSUME TypeOK, ~FromDisk, EventInv, [Next]_vars
    PROVE  EventInv'
  <1> USE DEF inputVars, unpackVars, frackVars
  <1>1. CASE Feed
    BY <1>1 DEF EventInv, Feed, Main, Acquire, AcquisitionEnds, PutRawFile, RawFilesPut,
                ConfigFileMissing
  <1>2. CASE UnpackLoop
    BY <1>2 DEF EventInv, UnpackLoop
  <1>3. CASE UnpackGet
    BY <1>3 DEF EventInv, UnpackGet
  <1>4. CASE UnpackPoll
    BY <1>4 DEF EventInv, UnpackPoll
  <1>5. CASE FrackLoop
    BY <1>5 DEF EventInv, FrackLoop
  <1>6. CASE FrackGet
    BY <1>6 DEF EventInv, FrackGet
  <1>7. CASE FrackPoll
    BY <1>7 DEF EventInv, FrackPoll
  <1>8. ASSUME NEW i \in DOMAIN unpacking, Unpacker(i)
        PROVE  EventInv'
    <2>1. unpacking # <<>>
      BY EmptySeq
    <2>2. QED
      BY <1>8, <2>1 DEF EventInv, Unpacker, UnpackerExits
  <1>9. ASSUME NEW i \in DOMAIN fracking, Fracker(i)
        PROVE  EventInv'
    <2>1. fracking # <<>>
      BY EmptySeq
    <2>2. QED
      BY <1>9, <2>1 DEF EventInv, Fracker, FrackerExits
  <1>10. CASE UNCHANGED vars
    BY <1>10 DEF EventInv, vars
  <1>11. QED
    BY <1>1, <1>2, <1>3, <1>4, <1>5, <1>6, <1>7, <1>8, <1>9, <1>10
       DEF Next, PostNext, UnpackThread, FrackThread

\* Every step keeps the runs in their places.
LEMMA StagesStep ==
    ASSUME TypeOK, ~FromDisk, StagesInv, [Next]_vars
    PROVE  StagesInv'
  <1> USE DEF inputVars, unpackVars, frackVars
  <1>1. DeadStays
    BY ThreadsStayDead
  <1>2. ASSUME UNCHANGED <<raw_data_queue, unpacking, root_data_queue, fracking>>,
               UNCHANGED <<raw_data, full_config, root_data, hdf>>
        PROVE  StagesInv'
    BY <1>1, <1>2, NothingMoves
  <1>3. CASE Feed
    <2>1. ASSUME NEW r \in Runs, Acquire(r)
          PROVE  StagesInv'
      BY <1>1, <2>1, AcquireMove
    <2>2. CASE AcquisitionEnds \/ Main
      BY <1>2, <2>2 DEF AcquisitionEnds, Main, PutRawFile, RawFilesPut,
                        ConfigFileMissing
    <2>3. QED
      BY <1>3, <2>1, <2>2 DEF Feed
  <1>4. CASE UnpackLoop
    BY <1>2, <1>4 DEF UnpackLoop
  <1>5. CASE UnpackGet
    BY <1>1, <1>5, UnpackGetMove
  <1>6. CASE UnpackPoll
    BY <1>1, <1>6, UnpackPollMove
  <1>7. CASE FrackLoop
    BY <1>2, <1>7 DEF FrackLoop
  <1>8. CASE FrackGet
    BY <1>1, <1>8, FrackGetMove
  <1>9. CASE FrackPoll
    BY <1>1, <1>9, FrackPollMove
  <1>10. ASSUME NEW i \in DOMAIN unpacking, Unpacker(i)
         PROVE  StagesInv'
    BY <1>1, <1>10, UnpackerMove DEF Unpacker
  <1>11. ASSUME NEW i \in DOMAIN fracking, Fracker(i)
         PROVE  StagesInv'
    BY <1>1, <1>11, FrackerMove DEF Fracker
  <1>12. CASE UNCHANGED vars
    BY <1>2, <1>12 DEF vars
  <1>13. QED
    BY <1>3, <1>4, <1>5, <1>6, <1>7, <1>8, <1>9, <1>10, <1>11, <1>12
       DEF Next, PostNext, UnpackThread, FrackThread

\* Every step keeps the types.
LEMMA TypeStep ==
    ASSUME PostInv, [Next]_vars
    PROVE  TypeOK'
  <1>1. TypeOK
    BY DEF PostInv
  <1>2. DistinctRuns(unpacking)
    <2>1. CASE FromDisk
      BY <2>1, EmptySeq DEF PostInv, DiskInv, DistinctRuns
    <2>2. CASE ~FromDisk
      BY <2>2 DEF PostInv, StagesInv, OnceInv
    <2>3. QED
      BY <2>1, <2>2
  <1>3. MergeInputs
    <2>1. CASE FromDisk
      BY <2>1, EmptySeq DEF PostInv, DiskInv, MergeInputs
    <2>2. CASE ~FromDisk
      <3>1. StagesInv
        BY <2>2 DEF PostInv
      <3>2. ASSUME NEW i \in DOMAIN fracking
            PROVE  /\ Whole(root_data[fracking[i].run])
                   /\ full_config[fracking[i].run] # NoConfig
        <4>1. fracking[i].run \in AtFracker /\ fracking[i].run \in Runs
          BY <1>1, PlaceTypes
        <4>2. Whole(root_data[fracking[i].run])
          BY <3>1, <4>1 DEF StagesInv, FilesInv
        <4>3. raw_data[fracking[i].run] # NoConfig
          BY <3>1, <4>1 DEF StagesInv, PlacesInv, Somewhere, Present
        <4>4. QED
          BY <3>1, <4>1, <4>2, <4>3 DEF StagesInv, FilesInv
      <3>3. QED
        BY <2>2, <3>2 DEF MergeInputs
    <2>3. QED
      BY <2>1, <2>2
  <1>4. CASE Feed
    BY <1>1, <1>4, FeedType
  <1>5. CASE UnpackThread \/ \E i \in DOMAIN unpacking : Unpacker(i)
    BY <1>1, <1>2, <1>5, UnpackType
  <1>6. CASE FrackThread \/ \E i \in DOMAIN fracking : Fracker(i)
    BY <1>1, <1>3, <1>6, FrackType
  <1>7. CASE UNCHANGED vars
    BY <1>1, <1>7 DEF TypeOK, vars, inputVars, unpackVars, frackVars
  <1>8. QED
    BY <1>4, <1>5, <1>6, <1>7 DEF Next, PostNext

\* The invariant holds initially.
LEMMA PostInit == Init => PostInv
  <1> SUFFICES ASSUME Init PROVE PostInv
    OBVIOUS
  <1>1. TypeOK
    BY TypeInit
  <1>2. DeadInv
    BY DEF Init, StagesInit, DeadInv
  <1>3. DiskInv
    BY DEF Init, StagesInit, DiskInv
  <1>4. ASSUME ~FromDisk
        PROVE  StagesInv /\ EventInv
    <2>1. /\ raw_data_queue = <<>> /\ unpacking = <<>> /\ root_data_queue = <<>>
          /\ fracking = <<>> /\ raw_data \in OnDisk({})
          /\ root_data = NoFiles /\ hdf = NoFiles
      BY <1>4 DEF Init, StagesInit
    <2>2. DOMAIN unpacking = {} /\ DOMAIN fracking = {}
      BY <2>1, EmptySeq
    <2>3. /\ Waiting = {} /\ AtUnpacker = {} /\ Unpacked = {} /\ AtFracker = {}
          /\ Distinct(raw_data_queue) /\ Distinct(root_data_queue)
      BY <2>1, <2>2, EmptyElems DEF Waiting, AtUnpacker, Unpacked, AtFracker, RunsOf
    <2>4. /\ \A r \in Runs : raw_data[r] = NoConfig
          /\ \A r \in Runs : root_data[r] = NoConfig /\ ~Whole(root_data[r])
          /\ \A r \in Runs : hdf[r] = NoConfig /\ ~Whole(hdf[r])
      BY <2>1, FileTypes DEF OnDisk, NoFiles
    <2>5. Present = {} /\ Finished = {}
      BY <2>4 DEF Present, Finished, Fracked
    <2>6. OnceInv
      BY <2>2, <2>3 DEF OnceInv, DistinctRuns
    <2>7. PlacesInv
      BY <2>3, <2>5 DEF PlacesInv, Somewhere
    <2>8. FilesInv
      BY <2>2, <2>3, <2>4 DEF FilesInv, Unfracked
    <2>9. EventInv
      BY DEF Init, StagesInit, EventInv
    <2>10. QED
      BY <2>6, <2>7, <2>8, <2>9 DEF StagesInv
  <1>5. QED
    BY <1>1, <1>2, <1>3, <1>4 DEF PostInv

\* Every step keeps the invariant.
LEMMA PostStep == PostInv /\ [Next]_vars => PostInv'
  <1> SUFFICES ASSUME PostInv, [Next]_vars PROVE PostInv'
    OBVIOUS
  <1>1. TypeOK /\ DeadInv
    BY DEF PostInv
  <1>2. FromDisk' <=> FromDisk
    BY ThreadsStayDead DEF FromDisk
  <1>3. TypeOK' /\ DeadInv'
    BY <1>1, TypeStep, DeadStep
  <1>4. CASE FromDisk
    BY <1>1, <1>2, <1>3, <1>4, DiskStep DEF PostInv
  <1>5. CASE ~FromDisk
    BY <1>1, <1>2, <1>3, <1>5, StagesStep, EventStep DEF PostInv
  <1>6. QED
    BY <1>4, <1>5

\* So it holds in every reachable state.
LEMMA PostInvariant == Spec => []PostInv
  BY PostInit, PostStep, PTL DEF Spec

-----------------------------------------------------------------------------
(* Theorems.                                                               *)

\* Every variable keeps its type, and no more unpackers or frackers run at a
\* time than the options allow.
THEOREM TypesAreKept == Spec => []TypeOK
  <1>1. PostInv => TypeOK
    BY DEF PostInv
  <1>2. QED
    BY <1>1, PostInvariant, PTL

\* When frack_data sets its last event both queues and both lists are empty,
\* and a run has a whole hdf file if, and only if, its raw file was not removed,
\* whatever processes failed on the way.
THEOREM DoneMeansDone == Spec => []DoneIsDone
  <1>1. PostInv => DoneIsDone
    <2>1. SUFFICES ASSUME PostInv, fracking_done, ~FromDisk
                   PROVE  /\ raw_data_queue = <<>> /\ unpacking = <<>>
                          /\ root_data_queue = <<>> /\ fracking = <<>>
                          /\ \A r \in Runs : raw_data[r] # NoConfig <=> Whole(hdf[r])
      BY DEF DoneIsDone
    <2>2. StagesInv /\ EventInv
      BY <2>1 DEF PostInv
    <2>3. frack_pc = "done" /\ unpack_pc = "done"
      BY <2>1, <2>2 DEF EventInv
    <2>4. /\ raw_data_queue = <<>> /\ unpacking = <<>>
          /\ root_data_queue = <<>> /\ fracking = <<>>
      BY <2>2, <2>3 DEF EventInv
    <2>5. Waiting = {} /\ AtUnpacker = {} /\ Unpacked = {} /\ AtFracker = {}
      BY <2>4, EmptyElems, EmptySeq DEF Waiting, AtUnpacker, Unpacked, AtFracker, RunsOf
    <2>6. Present \subseteq Finished
      BY <2>2, <2>3, <2>5 DEF StagesInv, PlacesInv, Somewhere
    <2>7. \A r \in Runs : raw_data[r] # NoConfig <=> Whole(hdf[r])
      <3>1. Finished \subseteq Present
        BY <2>2 DEF StagesInv, PlacesInv, Somewhere
      <3>2. \A r \in Runs : Whole(hdf[r]) => r \in Finished
        BY <2>5 DEF Finished, Fracked, AtFracker
      <3>3. QED
        BY <2>6, <3>1, <3>2 DEF Present, Finished, Fracked
    <2>8. QED
      BY <2>4, <2>7
  <1>2. QED
    BY <1>1, PostInvariant, PTL

\* A queue without repetitions has an item once or not at all.
LEMMA OccurrencesOfOne ==
    ASSUME NEW S, NEW s \in Seq(S), Distinct(s), NEW r
    PROVE  Occurrences(r, s) = IF r \in Elems(s) THEN 1 ELSE 0
  <1> DEFINE P == {i \in DOMAIN s : s[i] = r}
  <1>1. DOMAIN s = 1..Len(s)
    BY LenProperties
  <1>2. CASE r \in Elems(s)
    <2>1. PICK i \in DOMAIN s : s[i] = r
      BY <1>1, <1>2 DEF Elems
    <2>2. P = {i}
      BY <1>1, <2>1 DEF Distinct
    <2>3. QED
      BY <1>2, <2>2, FS_Singleton DEF Occurrences
  <1>3. CASE r \notin Elems(s)
    <2>1. P = {}
      BY <1>1, <1>3 DEF Elems
    <2>2. QED
      BY <1>3, <2>1, FS_EmptySet DEF Occurrences
  <1>4. QED
    BY <1>2, <1>3

\* So it is with a list of tasks.
LEMMA TasksOnOne ==
    ASSUME NEW tasks, DistinctRuns(tasks), NEW r
    PROVE  TasksOn(r, tasks) = IF r \in RunsOf(tasks) THEN 1 ELSE 0
  <1> DEFINE P == {i \in DOMAIN tasks : tasks[i].run = r}
  <1>1. CASE r \in RunsOf(tasks)
    <2>1. PICK i \in DOMAIN tasks : tasks[i].run = r
      BY <1>1 DEF RunsOf
    <2>2. P = {i}
      BY <2>1 DEF DistinctRuns
    <2>3. QED
      BY <1>1, <2>2, FS_Singleton DEF TasksOn
  <1>2. CASE r \notin RunsOf(tasks)
    <2>1. P = {}
      BY <1>2 DEF RunsOf
    <2>2. QED
      BY <1>2, <2>1, FS_EmptySet DEF TasksOn
  <1>3. QED
    BY <1>1, <1>2

\* The number of places a run is in.
LEMMA PlacesOfRun ==
    ASSUME TypeOK, StagesInv, NEW r \in Runs
    PROVE  Places(r) = IF r \in Somewhere THEN 1 ELSE 0
  <1>1. /\ Occurrences(r, raw_data_queue) = IF r \in Waiting THEN 1 ELSE 0
        /\ Occurrences(r, root_data_queue) = IF r \in Unpacked THEN 1 ELSE 0
    <2>1. /\ raw_data_queue \in Seq(Runs) /\ Distinct(raw_data_queue)
          /\ root_data_queue \in Seq(Runs) /\ Distinct(root_data_queue)
      BY DEF TypeOK, StagesInv, OnceInv
    <2>2. QED
      BY <2>1, OccurrencesOfOne DEF Waiting, Unpacked
  <1>2. /\ TasksOn(r, unpacking) = IF r \in AtUnpacker THEN 1 ELSE 0
        /\ TasksOn(r, fracking) = IF r \in AtFracker THEN 1 ELSE 0
    BY TasksOnOne DEF StagesInv, OnceInv, AtUnpacker, AtFracker
  <1>3. (IF Fracked(r) THEN 1 ELSE 0) = IF r \in Finished THEN 1 ELSE 0
    BY DEF Finished
  <1>4. /\ r \in Waiting => r \notin AtUnpacker /\ r \notin Unpacked
                            /\ r \notin AtFracker /\ r \notin Finished
        /\ r \in AtUnpacker => r \notin Unpacked /\ r \notin AtFracker /\ r \notin Finished
        /\ r \in Unpacked => r \notin AtFracker /\ r \notin Finished
        /\ r \in AtFracker => r \notin Finished
    BY DEF StagesInv, PlacesInv, Finished, Fracked, AtFracker
  <1>5. r \in Somewhere <=> \/ r \in Waiting \/ r \in AtUnpacker \/ r \in Unpacked
                            \/ r \in AtFracker \/ r \in Finished
    BY DEF Somewhere
  <1>6. Places(r) = (IF r \in Waiting THEN 1 ELSE 0)
                    + (IF r \in AtUnpacker THEN 1 ELSE 0)
                    + (IF r \in Unpacked THEN 1 ELSE 0)
                    + (IF r \in AtFracker THEN 1 ELSE 0)
                    + (IF r \in Finished THEN 1 ELSE 0)
    BY <1>1, <1>2, <1>3 DEF Places
  <1> HIDE DEF Waiting, AtUnpacker, Unpacked, AtFracker, Finished, Somewhere
  <1>7. QED
    BY <1>4, <1>5, <1>6

\* No run is lost or processed twice between the two threads: with both
\* programs installed, which is what it takes for the threads to live, a run
\* whose raw file is there is in exactly one queue, list or whole hdf file, and
\* one whose raw file was removed is in none.
THEOREM NoRunIsLost ==
    ASSUME {"unpack", "fracker"} \subseteq Installed
    PROVE  Spec => []RunInOnePlace
  <1>1. PostInv => RunInOnePlace
    <2>1. SUFFICES ASSUME PostInv, ~FromDisk, NEW r \in Runs
                   PROVE  Places(r) = IF raw_data[r] = NoConfig THEN 0 ELSE 1
      BY DEF RunInOnePlace
    <2>2. TypeOK /\ StagesInv
      BY <2>1 DEF PostInv
    <2>3. unpack_pc # "dead" /\ frack_pc # "dead"
      BY <2>1 DEF PostInv, DeadInv
    <2>4. Somewhere = Present
      BY <2>2, <2>3 DEF StagesInv, PlacesInv
    <2>5. r \in Present <=> raw_data[r] # NoConfig
      BY DEF Present
    <2>6. QED
      BY <2>2, <2>4, <2>5, PlacesOfRun
  <1>2. QED
    BY <1>1, PostInvariant, PTL

\* The raw file is there while its unpacker runs, the root file and the
\* configuration file while the fracker runs; with the fracker installed, a
\* root file that is not to be kept is there only while it is needed, or is what
\* an unpacker that failed left of it.
THEOREM FilesAreThere ==
    ASSUME "fracker" \in Installed
    PROVE  Spec => []FilesOfTasks
  <1>1. PostInv => FilesOfTasks
    <2>1. SUFFICES ASSUME PostInv PROVE FilesOfTasks
      OBVIOUS
    <2>2. TypeOK /\ frack_pc # "dead"
      BY <2>1 DEF PostInv, DeadInv
    <2>3. CASE FromDisk
      <3>1. DOMAIN unpacking = {} /\ DOMAIN fracking = {}
        BY <2>1, <2>3, EmptySeq DEF PostInv, DiskInv
      <3>2. \A r \in Runs : root_data[r] = NoConfig
        BY <2>1, <2>3 DEF PostInv, DiskInv, NoFiles
      <3>3. QED
        BY <3>1, <3>2 DEF FilesOfTasks
    <2>4. CASE ~FromDisk
      <3>1. StagesInv
        BY <2>1, <2>4 DEF PostInv
      <3>2. \A i \in DOMAIN unpacking : raw_data[unpacking[i].run] # NoConfig
        <4>1. AtUnpacker \subseteq Present
          BY <3>1 DEF StagesInv, PlacesInv, Somewhere
        <4>2. QED
          BY <2>2, <4>1, PlaceTypes DEF Present
      <3>3. ASSUME NEW i \in DOMAIN fracking
            PROVE  /\ Whole(root_data[fracking[i].run])
                   /\ full_config[fracking[i].run] # NoConfig
        <4>1. fracking[i].run \in AtFracker /\ fracking[i].run \in Runs
          BY <2>2, PlaceTypes
        <4>2. Whole(root_data[fracking[i].run])
          BY <3>1, <4>1 DEF StagesInv, FilesInv
        <4>3. raw_data[fracking[i].run] # NoConfig
          BY <3>1, <4>1 DEF StagesInv, PlacesInv, Somewhere, Present
        <4>4. QED
          BY <3>1, <4>1, <4>2, <4>3 DEF StagesInv, FilesInv
      <3>4. ASSUME ~keep_root, NEW r \in Runs, root_data[r] # NoConfig
            PROVE  \/ r \in RunsOf(unpacking) \cup RunsOf(fracking)
                   \/ \E i \in DOMAIN root_data_queue : root_data_queue[i] = r
                   \/ root_data[r] = Partial /\ raw_data[r] = NoConfig
        <4>1. \/ r \in AtUnpacker \cup Unpacked \cup AtFracker
              \/ root_data[r] = Partial /\ raw_data[r] = NoConfig
          BY <2>2, <3>1, <3>4 DEF StagesInv, FilesInv, RootFileNeeded
        <4>2. DOMAIN root_data_queue = 1..Len(root_data_queue)
          BY <2>2, LenProperties DEF TypeOK
        <4>3. QED
          BY <4>1, <4>2 DEF AtUnpacker, Unpacked, AtFracker, Elems
      <3>5. QED
        BY <3>2, <3>3, <3>4 DEF FilesOfTasks
    <2>5. QED
      BY <2>3, <2>4
  <1>2. QED
    BY <1>1, PostInvariant, PTL
=============================================================================
