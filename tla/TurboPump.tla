----------------------------- MODULE TurboPump -----------------------------
(***************************************************************************)
(* tools/turbo-pump.cc: the tables of several hdf files are merged into    *)
(* one, file after file.  A merge is what the command line gives the       *)
(* program: [i, o, b, g] for the input paths, the output path, the block   *)
(* size and the group.                                                     *)
(***************************************************************************)
EXTENDS HdfTables

CONSTANTS
    Merges,         \* the command lines the program is started with
    MaxMerges       \* a bound of the model: runs of the program

VARIABLES
    tp_pc,          \* where main() is, or how it ended
    merge,
    next,           \* the inputs that were merged
    merges,         \* how often the program was started
    hdf             \* path -> file

tp_vars == <<tp_pc, merge, next, merges, hdf>>

TpEnded == {"start", "success", "failure", "abort"}
FileAt(path) == IF path \in DOMAIN hdf THEN hdf[path] ELSE NotAFile

TpInit ==
    /\ tp_pc = "start"
    /\ merge = CHOOSE m \in Merges : TRUE
    /\ next = 0
    /\ merges = 0

(***************************************************************************)
(* The inputs exist, whatever they are (CLI::ExistingFile).  One input is  *)
(* refused.                                                                *)
(***************************************************************************)
StartMerge(m) ==
    /\ tp_pc \in TpEnded
    /\ merges < MaxMerges
    /\ merge' = m
    /\ next' = 0
    /\ merges' = merges + 1
    /\ tp_pc' = IF Len(m.i) <= 1 THEN "failure" ELSE "create"
    /\ UNCHANGED hdf

(***************************************************************************)
(* The output gets the type of the first input, which stays open: when the *)
(* output is that file it cannot be truncated, and nothing is created.     *)
(***************************************************************************)
input_table_type == get_pytable_type(FileAt(merge.i[1]), merge.g, "measurements")

CreateOutput ==
    /\ tp_pc = "create"
    /\ tp_pc' = "merge"
    /\ hdf' = IF merge.o = merge.i[1] THEN hdf
              ELSE Stored(hdf, merge.o,
                          create_pytables_table(
                              create_pytables_group(create_pytables_file, merge.g),
                              merge.g, "measurements", input_table_type, merge.b))
    /\ UNCHANGED <<merge, next, merges>>

(***************************************************************************)
(* One input after the other; the first that does not fit ends the program *)
(* and leaves the output with what was merged before.                      *)
(***************************************************************************)
MergeNext ==
    /\ tp_pc = "merge"
    /\ LET out == IF merge.o = merge.i[1] THEN NotAFile ELSE FileAt(merge.o)
           in == FileAt(merge.i[next + 1])
           error == MergeError(out, in, merge.g, "measurements")
       IN  IF error = "none"
           THEN /\ hdf' = [hdf EXCEPT ![merge.o] =
                             merge_tables(@, in, merge.g, "measurements", merge.b)]
                /\ next' = next + 1
                /\ tp_pc' = IF next + 1 = Len(merge.i) THEN "success" ELSE "merge"
           ELSE /\ tp_pc' = IF error = "bad_alloc" THEN "abort" ELSE "failure"
                /\ UNCHANGED <<hdf, next>>
    /\ UNCHANGED <<merge, merges>>

TpNext ==
    \/ \E m \in Merges : StartMerge(m)
    \/ CreateOutput
    \/ MergeNext
-----------------------------------------------------------------------------
RowsAt(path) == OpenTable(FileAt(path), merge.g, "measurements").rows
FlatRows(inputs, n) == FlattenSeq([k \in 1 .. n |-> RowsAt(inputs[k])])

(***************************************************************************)
(* While it merges the output holds the rows of the inputs that were       *)
(* merged, in their order and each once, whatever the block size; the      *)
(* output is none of the inputs.                                           *)
(***************************************************************************)
RowsSoFar ==
    merge.o \notin Range(merge.i) => RowsAt(merge.o) = FlatRows(merge.i, next)

MergedInOrder == tp_pc = "merge" => RowsSoFar

(***************************************************************************)
(* A merge that ends with success has merged every input, row for row, and *)
(* all of them have the columns of the output: a missing, unreadable or    *)
(* different input is never passed over.                                   *)
(***************************************************************************)
Columns(path) ==
    LET type == get_pytable_type(FileAt(path), merge.g, "measurements")
    IN  IF type = NoType THEN <<>>
        ELSE [i \in DOMAIN type.members |-> type.members[i].name]

CompleteOnSuccess ==
    tp_pc = "merge" /\ tp_pc' = "success"
        => /\ next' = Len(merge.i) /\ RowsSoFar'
           /\ \A k \in DOMAIN merge.i :
                 /\ Columns(merge.i[k]) # <<>>
                 /\ Columns(merge.i[k]) = Columns(merge.o)
=============================================================================
