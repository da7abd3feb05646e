----------------------------- MODULE HdfTables -----------------------------
(***************************************************************************)
(* The PyTables part of tools/hdf-utils.cc: compound types, tables in a    *)
(* group of a file, appending to a table and merging two.                  *)
(*                                                                         *)
(* A type is [members, size], a member [name, offset, class, size].  A     *)
(* table is [type, chunk, fields, rows], its rows sequences of cells, one  *)
(* for each member.  A file is a function from groups to functions from    *)
(* the names of tables to tables.  NoTable and NoType stand for what the   *)
(* HDF5 library returns an invalid handle for; in a file that cannot be    *)
(* opened there is no group to be opened.                                  *)
(***************************************************************************)
EXTENDS Integers, Sequences, FiniteSets, SequencesExt, RootTools

CONSTANT column_type    \* the type of each configuration column

NoTable == [rows |-> <<>>]
NotAFile == [g \in {} |-> {}]
NoType == [not_a_type |-> TRUE]

(***************************************************************************)
(* create_compund_datatype.  Every column has its place in the row, but    *)
(* H5Tinsert refuses a second member of one name, and H5Tcreate a row of   *)
(* no size.                                                                *)
(***************************************************************************)
create_compund_datatype(names, types) ==
    LET Offset(n) == MapThenSumSet(LAMBDA i : types[i].size, 1 .. n - 1)
        first == {i \in DOMAIN names : \A j \in 1 .. i - 1 : names[j] # names[i]}
        columns == [i \in DOMAIN names |->
                      [name |-> names[i], offset |-> Offset(i),
                       class |-> types[i].class, size |-> types[i].size]]
    IN  IF names = <<>> THEN NoType
        ELSE [members |-> AtPlaces(columns, first), size |-> Offset(Len(names) + 1)]

create_compound_datatype_form_columns(data_columns, config_columns, event_mode) ==
    create_compund_datatype(
        data_columns \o config_columns,
        [i \in DOMAIN data_columns |-> get_hdf_type(event_mode)[data_columns[i]]]
            \o [i \in DOMAIN config_columns |-> column_type[config_columns[i]]])

(***************************************************************************)
(* compare_compound_data_types: the sizes compared for each member are     *)
(* those of the whole rows.                                                *)
(***************************************************************************)
compare_compound_data_types(t1, t2) ==
    /\ Len(t1.members) = Len(t2.members)
    /\ \A i \in DOMAIN t1.members :
        /\ t1.members[i].name = t2.members[i].name
        /\ t1.members[i].class = t2.members[i].class
        /\ t1.size = t2.size

(***************************************************************************)
(* create_pytables_file, _group and _table.  A file is truncated; a table  *)
(* without chunks cannot be extensible and is refused by H5Dcreate.        *)
(***************************************************************************)
create_pytables_file == [g \in {} |-> {}]

\* The files with one of them written at a path.
Stored(files, path, file) ==
    [p \in DOMAIN files \cup {path} |-> IF p = path THEN file ELSE files[p]]

create_pytables_group(file, group) ==
    IF group \in DOMAIN file THEN file
    ELSE [g \in DOMAIN file \cup {group} |->
             IF g = group THEN [t \in {} |-> NoTable] ELSE file[g]]

create_pytables_table(file, group, name, type, chunk_rows) ==
    IF chunk_rows = 0 \/ type = NoType THEN file
    ELSE [file EXCEPT ![group] =
            [t \in DOMAIN @ \cup {name} |->
                IF t = name
                THEN [type |-> type, chunk |-> chunk_rows, rows |-> <<>>,
                      fields |-> [i \in DOMAIN type.members |->
                                     type.members[i].name]]
                ELSE @[t]]]

(***************************************************************************)
(* write_buffer_to_pytable extends the table by the rows of the buffer and *)
(* writes them behind its last row.                                        *)
(***************************************************************************)
write_buffer_to_pytable(file, group, name, buffer_size, buffer) ==
    [file EXCEPT ![group][name].rows = @ \o SubSeq(buffer, 1, buffer_size)]

OpenTable(file, group, name) ==
    IF group \in DOMAIN file /\ name \in DOMAIN file[group]
    THEN file[group][name] ELSE NoTable

get_pytable_type(file, group, name) ==
    LET table == OpenTable(file, group, name)
    IN  IF table = NoTable THEN NoType ELSE table.type

(***************************************************************************)
(* merge_tables: "runtime_error" for what it checks.  The test for an      *)
(* input table that is not there looks at the group, so the shape of a     *)
(* table that could not be opened is taken, and the allocation for it is   *)
(* "bad_alloc".                                                            *)
(***************************************************************************)
MergeError(merge_file, input_file, group, name) ==
    LET out == OpenTable(merge_file, group, name)
        in == OpenTable(input_file, group, name)
    IN  CASE out = NoTable -> "runtime_error"
          [] group \notin DOMAIN input_file -> "runtime_error"
          [] in = NoTable -> "bad_alloc"
          [] ~compare_compound_data_types(out.type, in.type) -> "runtime_error"
          [] OTHER -> "none"

(***************************************************************************)
(* The blocks that are read and written one after the other, and the rest. *)
(***************************************************************************)
CopyBlock(rows, block_length, i) ==
    SubSeq(rows, block_length * i + 1, block_length * (i + 1))

LastBlockShort(rows, block_length) ==
    LET block_count == Len(rows) \div block_length
        last_block_length == Len(rows) % block_length
    IN  IF last_block_length # 0
        THEN SubSeq(rows, block_length * block_count + 1,
                          block_length * block_count + last_block_length - 1)
        ELSE <<>>
LastBlock(rows, block_length) ==
    LET block_count == Len(rows) \div block_length
        last_block_length == Len(rows) % block_length
    IN  IF last_block_length # 0
        THEN SubSeq(rows, block_length * block_count + 1,
                          block_length * block_count + last_block_length)
        ELSE <<>>

merge_tables(merge_file, input_file, group, name, block_length) ==
    IF MergeError(merge_file, input_file, group, name) # "none"
    THEN merge_file
    ELSE LET in == input_file[group][name].rows
             block_count == Len(in) \div block_length
             Append1(file, buffer) ==
                write_buffer_to_pytable(file, group, name, Len(buffer), buffer)
             copied[i \in 0 .. block_count] ==
                IF i = 0 THEN merge_file
                ELSE Append1(copied[i - 1], CopyBlock(in, block_length, i - 1))
         IN  Append1(copied[block_count], LastBlock(in, block_length))
=============================================================================
