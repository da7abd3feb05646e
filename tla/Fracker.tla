------------------------------ MODULE Fracker ------------------------------
(***************************************************************************)
(* tools/fracker.cc, the program that merges the rows of a root file with  *)
(* the configuration of their channels into an hdf table, block by block.  *)
(*                                                                         *)
(* main() is a sequence of steps over a program counter.  A job is what    *)
(* the command line gives it: [d, c, i, b, s, o, f] for the options of     *)
(* these names.  yamls and roots are the files it reads, hdf the files it  *)
(* writes.  A row of a root file is a function from the columns of its     *)
(* tree to values.                                                         *)
(***************************************************************************)
EXTENDS HgcrocCache, HdfTables, TLC

CONSTANTS
    Jobs,           \* the command lines the program is started with
    MaxJobs,        \* a bound of the model: runs of the program
    yamls,          \* path -> YAML tree, of configuration files
    roots,          \* path -> trees of a root file
    Paths,          \* paths of hdf files
    updated(_, _),  \* the overlay of yaml-tools.h, see YamlTools
    UpdateThrown    \* its result when it throws

\* A job names a root file that exists (CLI::ExistingFile), an output, a block
\* size and columns; the rows of a tree are a sequence.
ASSUME JobsAssumption ==
    /\ Jobs # {} /\ MaxJobs \in Nat
    /\ \A j \in Jobs : /\ j.i \in DOMAIN roots
                       /\ j.o \in Paths
                       /\ j.b \in Nat
                       /\ j.s \in Seq(Range(j.s))
\* In the data of events a row names a half and one of its channels.
ASSUME RootsAssumption ==
    \A i \in DOMAIN roots : \A tree \in DOMAIN roots[i] :
        /\ roots[i][tree] \in Seq(Range(roots[i][tree]))
        /\ tree = "unpacker_data/hgcroc" =>
              \A data \in Range(roots[i][tree]) :
                  /\ data["half"] \in {0, 1}
                  /\ data["channel"] \in 0 .. HalfChannels + 2
\* The configuration has no column with a name of the data's, and each of its
\* columns has a type: both tables are generated from the register map.
ASSUME ColumnsAssumption ==
    /\ DOMAIN column_type = ConfigColumns
    /\ ConfigColumns \cap (event_mode_data_columns \cup summary_data_columns) = {}

VARIABLES
    pc,             \* where main() is, or how it ended
    job,
    run_config,     \* the YAML tree with the configuration
    data_columns, config_columns,
    table_type,     \* the compound type of the table
    cache,
    m_block_buffer, \* block_size rows
    row,            \* the next row to be read
    block,
    hdf,            \* path -> file, for the files written so far
    jobs            \* how often the program was started

vars == <<pc, job, run_config, data_columns, config_columns, table_type, cache,
          m_block_buffer, row, block, hdf, jobs>>
locals == <<run_config, data_columns, config_columns, table_type, cache>>
loop == <<m_block_buffer, row, block>>

Missing == [missing |-> TRUE]     \* a node that is not there
Null == [null |-> TRUE]           \* a node without a value
EmptyFile == create_pytables_file
Ended == {"start", "success", "failure", "abort", "undefined"}
Running == {"load", "format", "create", "cache", "rows", "clean_up"}

(***************************************************************************)
(* A row in which nothing was written yet.                                 *)
(***************************************************************************)
NoRow == <<>>

(***************************************************************************)
(* How the program reads its configuration.                                *)
(***************************************************************************)
Child(node, key) ==
    IF DOMAIN node = {"map"} /\ key \in DOMAIN node.map
    THEN node.map[key] ELSE Missing

(***************************************************************************)
(* The trees the program reads, and the nodes down to the registers.  What *)
(* yaml-tools.h does to two of them where it does not throw: the entries   *)
(* of both, those they have in common overlaid where their types agree and *)
(* taken from the second where they do not, unless it has no value there.  *)
(***************************************************************************)
Trees == {yamls[p] : p \in DOMAIN yamls}
            \cup {Child(yamls[p], "target") : p \in DOMAIN yamls}
Below(nodes) ==
    nodes \cup UNION {{n.map[k] : k \in DOMAIN n.map} :
                        n \in {m \in nodes : DOMAIN m = {"map"}}}
Nodes == Below(Below(Below(Below(Trees))))

ASSUME UpdatedAssumption ==
    \A d1, d2 \in Nodes :
        LET d == updated(d1, d2)
        IN  d # UpdateThrown =>
            /\ DOMAIN d = DOMAIN d1
            /\ DOMAIN d1 # DOMAIN d2 => d = d1
            /\ DOMAIN d1 = {"scalar"} /\ DOMAIN d2 = {"scalar"} => d = d2
            /\ DOMAIN d1 = {"map"} /\ DOMAIN d2 = {"map"} =>
                /\ DOMAIN d.map = DOMAIN d1.map \cup DOMAIN d2.map
                /\ \A k \in DOMAIN d1.map \ DOMAIN d2.map : d.map[k] = d1.map[k]
                /\ \A k \in DOMAIN d2.map \ DOMAIN d1.map : d.map[k] = d2.map[k]
                /\ \A k \in DOMAIN d1.map \cap DOMAIN d2.map :
                    IF DOMAIN d1.map[k] = DOMAIN d2.map[k]
                    THEN /\ d.map[k] = updated(d1.map[k], d2.map[k])
                         /\ d.map[k] # UpdateThrown
                    ELSE d.map[k] = IF d2.map[k] # Null THEN d2.map[k]
                                                        ELSE d1.map[k]

roc_name(roc) == "roc_s" \o ToString(roc)

Setting(node, roc, r) ==
    Child(Child(Child(Child(node, roc_name(roc)), r[1]), ToString(r[2])), r[3])

IsInteger(node) == DOMAIN node = {"scalar"} /\ node # [scalar |-> -1]

(***************************************************************************)
(* The number of ROCs is the number of entries, of "target" where there is *)
(* one, but the values are always looked up at the top.                    *)
(***************************************************************************)
roc_count(node) ==
    LET roc_config == IF Child(node, "target") # Missing
                      THEN Child(node, "target") ELSE node
        entries == IF DOMAIN roc_config = {"map"} THEN DOMAIN roc_config.map
                                                  ELSE {}
    IN  Cardinality(entries \ {"hostname", "port"})

Settings(node) ==
    [roc \in 0 .. roc_count(node) - 1 |->
        [r \in {q \in Registers : IsInteger(Setting(node, roc, q))} |->
            Setting(node, roc, r).scalar]]
-----------------------------------------------------------------------------
NoJob == CHOOSE j \in Jobs : TRUE

Init ==
    /\ pc = "start"
    /\ job = NoJob
    /\ run_config = Missing
    /\ data_columns = <<>>
    /\ config_columns = <<>>
    /\ table_type = NoType
    /\ cache = <<>>
    /\ m_block_buffer = <<>>
    /\ row = 0
    /\ block = 0
    /\ hdf = <<>>
    /\ jobs = 0

(***************************************************************************)
(* The program is started, with files that exist (CLI::ExistingFile).      *)
(***************************************************************************)
Start(j) ==
    /\ pc \in Ended
    /\ jobs < MaxJobs
    /\ pc' = "load"
    /\ job' = j
    /\ jobs' = jobs + 1
    /\ UNCHANGED <<locals, loop, hdf>>

(***************************************************************************)
(* The program ends, and its memory is gone.                               *)
(***************************************************************************)
Exit(status) ==
    /\ pc' = status
    /\ job' = NoJob
    /\ run_config' = Missing
    /\ data_columns' = <<>> /\ config_columns' = <<>>
    /\ table_type' = NoType
    /\ cache' = <<>>
    /\ m_block_buffer' = <<>>
    /\ row' = 0 /\ block' = 0
    /\ UNCHANGED <<hdf, jobs>>

(***************************************************************************)
(* The configurations are loaded; the run's lies below "target", that of   *)
(* the default is the whole file.                                          *)
(***************************************************************************)
LoadFails ==
    /\ pc = "load"
    /\ \/ job.c \notin DOMAIN yamls
       \/ job.d # "null" /\ job.d \notin DOMAIN yamls
    /\ Exit("failure")

Overlaid ==
    LET overlay_config == Child(yamls[job.c], "target")
    IN  IF job.d = "null" THEN overlay_config
                          ELSE updated(yamls[job.d], overlay_config)

Load ==
    /\ pc = "load"
    /\ job.c \in DOMAIN yamls
    /\ job.d \in DOMAIN yamls \cup {"null"}
    /\ IF Overlaid = UpdateThrown
       THEN Exit("abort")
       ELSE /\ run_config' = Overlaid
            /\ pc' = "format"
            /\ UNCHANGED <<job, data_columns, config_columns, table_type, cache,
                           loop, hdf, jobs>>

(***************************************************************************)
(* The format decides on the tree; the columns are split in those of the   *)
(* data and those of the configuration.  That the tree is not there is     *)
(* reported, and the program goes on.                                      *)
(***************************************************************************)
event_mode == job.f = "full"
Tree == openRootTree(roots[job.i], event_mode)

Format ==
    /\ pc = "format"
    /\ IF job.f \notin {"summary", "full"}
       THEN Exit("failure")
       ELSE /\ data_columns' = filter_measurement_columns(event_mode, job.s)
            /\ config_columns' = AtPlaces(job.s, {i \in DOMAIN job.s :
                                                    job.s[i] \in DOMAIN column_type})
            /\ pc' = "create"
            /\ UNCHANGED <<job, run_config, table_type, cache, loop, hdf, jobs>>

(***************************************************************************)
(* The output file is created with an empty table, before the cache is.    *)
(***************************************************************************)
Create ==
    /\ pc = "create"
    /\ table_type' = create_compound_datatype_form_columns(
                         data_columns, config_columns, event_mode)
    /\ hdf' = Stored(hdf, job.o,
                     create_pytables_table(create_pytables_group(EmptyFile, "data"),
                                           "data", "measurements", table_type', job.b))
    /\ pc' = "cache"
    /\ UNCHANGED <<job, run_config, data_columns, config_columns, cache, loop, jobs>>

(***************************************************************************)
(* The cache, the zeroed buffer and the number of blocks.  Without columns *)
(* the type is invalid, and the -1 members it has are an unsigned number.  *)
(* Without a tree the pointer to it was never set.  A block size of 0      *)
(* divides by 0.                                                           *)
(***************************************************************************)
Cache ==
    /\ pc = "cache"
    /\ LET config == Settings(run_config)
       IN  IF table_type = NoType
           THEN Exit("undefined")
           ELSE IF CacheFails(config, DOMAIN config, job.s)
           THEN Exit("abort")
           ELSE IF Tree.thrown \/ job.b = 0
           THEN Exit("undefined")
           ELSE /\ cache' = generate_hgcroc_config_cache(config, DOMAIN config, job.s)
                /\ m_block_buffer' = [i \in 1 .. job.b |-> NoRow]
                /\ row' = 0
                /\ block' = 0
                /\ pc' = "rows"
                /\ UNCHANGED <<job, run_config, data_columns, config_columns,
                               table_type, hdf, jobs>>

(***************************************************************************)
(* One row: the key of its channel, then a value for each member of the    *)
(* table, from the row or from the cache.  The members are counted, not    *)
(* named.  A value is copied with the size of the member and read back     *)
(* with its type: where that is not the type of the entry it is Garbage.   *)
(***************************************************************************)
Garbage == -1

Key(data) ==
    IF event_mode
    THEN transform_event_row_to_cache_key(<<data["chip"], data["channel"], data["half"]>>)
    ELSE <<data["chip"], data["channel"], data["channeltype"]>>

DataCell(data, i) ==
    LET column == data_columns[i]
    IN  IF Entry(event_mode)[column].size = get_hdf_type(event_mode)[column].size
        THEN data[column] ELSE Garbage

ConfigCell(data, i) ==
    LET values == cache[Key(data)]
    IN  IF i \in DOMAIN values THEN values[i] ELSE Garbage

MergedRow(data) ==
    [i \in DOMAIN table_type.members |->
        IF i <= Len(data_columns) THEN DataCell(data, i)
                                  ELSE ConfigCell(data, i - Len(data_columns))]

total_rows == Len(Tree.rows)
blocks == (total_rows \div job.b) + 1
InBlock == row < job.b * (block + 1) /\ row < total_rows

CopyRow ==
    /\ pc = "rows"
    /\ InBlock
    /\ LET data == Tree.rows[row + 1]
       IN  IF /\ Len(table_type.members) > Len(data_columns)
              /\ Key(data) \notin DOMAIN cache
           THEN Exit("undefined")
           ELSE /\ m_block_buffer' = [m_block_buffer EXCEPT
                                         ![(row % job.b) + 1] = MergedRow(data)]
                /\ row' = row + 1
                /\ UNCHANGED <<pc, job, locals, block, hdf, jobs>>

(***************************************************************************)
(* The block is written; in the last one only the rest of the rows.        *)
(***************************************************************************)
write_row_countFull == job.b
write_row_count == IF row = total_rows THEN row % job.b ELSE job.b

InLastBlock == block + 1 = blocks

WriteBlock ==
    /\ pc = "rows"
    /\ ~InBlock
    /\ hdf' = [hdf EXCEPT ![job.o] =
                  write_buffer_to_pytable(@, "data", "measurements",
                                          write_row_count, m_block_buffer)]
    /\ block' = block + 1
    /\ pc' = IF InLastBlock THEN "clean_up" ELSE "rows"
    /\ UNCHANGED <<job, locals, m_block_buffer, row, jobs>>

(***************************************************************************)
(* What was allocated is freed, and the file is closed.                    *)
(***************************************************************************)
CleanUp ==
    /\ pc = "clean_up"
    /\ Exit("success")

Next ==
    \/ \E j \in Jobs : Start(j)
    \/ LoadFails
    \/ Load
    \/ Format
    \/ Create
    \/ Cache
    \/ CopyRow
    \/ WriteBlock
    \/ CleanUp

Spec == Init /\ [][Next]_vars
-----------------------------------------------------------------------------
WrittenRows == hdf[job.o]["data"]["measurements"].rows

(***************************************************************************)
(* The counters, the buffer and the files have their types, and the row    *)
(* that is read belongs to the block.                                      *)
(***************************************************************************)
TypeOK ==
    /\ pc \in Ended \cup Running
    /\ job \in Jobs
    /\ Range(data_columns) \cup Range(config_columns) \subseteq
           UNION {Range(j.s) : j \in Jobs}
    /\ \A key \in DOMAIN cache : validate_key(key)
    /\ row \in Nat /\ block \in Nat /\ jobs \in 0 .. MaxJobs
    /\ DOMAIN hdf \subseteq Paths
    /\ pc = "rows" => /\ Len(m_block_buffer) = job.b
                      /\ block < blocks
                      /\ row \in job.b * block .. total_rows

(***************************************************************************)
(* What is in the table is what comes first in the tree, each row with the *)
(* configuration of its own channel: no row is written twice, left out or  *)
(* taken from what an earlier block left in the buffer.                    *)
(***************************************************************************)
RowsInOrder ==
    pc \in {"rows", "clean_up"} =>
        /\ Len(WrittenRows) <= total_rows
        /\ \A i \in DOMAIN WrittenRows : WrittenRows[i] = MergedRow(Tree.rows[i])

(***************************************************************************)
(* A program that ends with success has written every row, except for the  *)
(* last block_size rows where the blocks are all full (line 229).          *)
(***************************************************************************)
WrittenOnSuccess ==
    pc = "clean_up" =>
        Len(WrittenRows) = IF total_rows % job.b = 0 /\ total_rows > 0
                           THEN total_rows - job.b ELSE total_rows

(***************************************************************************)
(* The file of a run: the program's counters and buffer stay together with *)
(* the rows that are read, no row is lost, doubled or taken from an earlier *)
(* block, and success means all that is ever written.                      *)
(***************************************************************************)
FrackedFile == TypeOK /\ RowsInOrder /\ WrittenOnSuccess

(***************************************************************************)
(* "run through the root file, retrieve the config from the cache entries  *)
(* and write the output" (fracker.cc:191): every row is in the output.     *)
(***************************************************************************)
EveryRowWritten == pc = "clean_up" => Len(WrittenRows) = total_rows

(***************************************************************************)
(* The value a register of a run has by its YAML files: that of the run's  *)
(* configuration, or else that of the default.                             *)
(***************************************************************************)
Configured(roc, r) ==
    LET own == Setting(Child(yamls[job.c], "target"), roc, r)
    IN  (IF own \notin {Missing, Null} \/ job.d = "null" THEN own
         ELSE Setting(yamls[job.d], roc, r)).scalar

(***************************************************************************)
(* The registers that govern the channel of a row, by what the blocks of   *)
(* the chip are: one of a channel, one of its half, one of the chip.       *)
(***************************************************************************)
HalfOf(data) ==
    IF event_mode THEN data["half"]
    ELSE data["channel"] \div (channel_count[data["channeltype"]] \div 2)

IndexOf(data) ==
    IF ~event_mode THEN data["channel"]
    ELSE CASE data["channel"] < HalfChannels ->
                data["channel"] + HalfChannels * data["half"]
           [] data["channel"] = HalfChannels -> data["half"]
           [] OTHER -> data["channel"] - HalfChannels - 1 + 2 * data["half"]

BlockOf(data) ==
    IF event_mode
    THEN CASE data["channel"] < HalfChannels -> "ch"
           [] data["channel"] = HalfChannels -> "calib"
           [] OTHER -> "cm"
    ELSE CASE data["channeltype"] = ROC_CHAN_TYPE -> "ch"
           [] data["channeltype"] = ROC_CALIB_CHAN_TYPE -> "calib"
           [] OTHER -> "cm"

Governing(data, column) ==
    {r \in Registers :
        /\ ColumnName(r[1], r[3]) = column
        /\ \/ r[1] \in global
           \/ r[1] \in half_wise /\ r[2] = HalfOf(data)
           \/ r[1] = BlockOf(data) /\ r[2] = IndexOf(data)}

(***************************************************************************)
(* The columns asked for are plain: none is there twice, and none stands   *)
(* for the registers of two blocks of the same channel (EN_REF_BG does).   *)
(***************************************************************************)
Plain(columns) ==
    /\ IsInjective(columns)
    /\ \A c \in Range(columns) \cap ConfigColumns :
        Cardinality({r[1] : r \in {q \in Registers :
                        ColumnName(q[1], q[3]) = c}} \ channel)
        + (IF \E r \in Registers : r[1] \in channel /\ r[3] = c
           THEN 1 ELSE 0) = 1

(***************************************************************************)
(* With plain columns every configuration value in the table is the value  *)
(* the run's YAML files give to the register of that name that governs the *)
(* row's channel: through overlay, key lookup, cache and copy.             *)
(***************************************************************************)
ConfigOfItsChannel ==
    pc = "clean_up" /\ Plain(job.s) =>
        \A i \in DOMAIN WrittenRows, c \in DOMAIN config_columns :
            LET data == Tree.rows[i]
            IN  \A r \in Governing(data, config_columns[c]) :
                    WrittenRows[i][Len(data_columns) + c] =
                        Configured(data["chip"], r)
=============================================================================
