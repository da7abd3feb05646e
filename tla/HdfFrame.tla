------------------------------ MODULE HdfFrame ------------------------------
(***************************************************************************)
(* The pandas part of tools/hdf-utils.cc: a frame kept in blocks of        *)
(* columns of one type with two axes, as test-hdf-utils.cc builds and      *)
(* merges it.                                                              *)
(*                                                                         *)
(* A frame is [group, nblocks, items, values, axis0, axis1]: nblocks is    *)
(* the attribute of that name, items[k] the columns of block k, values[k]  *)
(* = [type, columns, rows] its data set.  A row is named <<path, j>> for   *)
(* the j-th row written to a block of the file at path, so that rows that  *)
(* belong together have one name.  A column is [name, length].             *)
(***************************************************************************)
EXTENDS Integers, Sequences

CONSTANTS
    Paths,          \* paths of files
    Groups,         \* names of groups
    Types,          \* of the values of a block
    Names,          \* of columns
    Layouts,        \* what the caller may mean to write: path -> <<type, columns>>s
    StringSize,     \* of a column's name in the file, 50 in the code
    MaxRows,        \* bounds of the model: rows written to one file,
    MaxMerged,      \* and rows of one that files were appended to
    Lockstep        \* the caller writes every block in turn, as the tests do

Column == [name : Names, length : Nat]
Row == Paths \X (1 .. MaxRows)
Block == [type : Types, columns : Nat, rows : Seq(Row)]
Frame == [group : Groups, nblocks : Nat, items : Seq(Seq(Column)),
          values : Seq(Block), axis0 : Seq(Column), axis1 : Seq(Nat)]

ASSUME StringAssumption == StringSize \in Nat \ {0}
ASSUME RowsAssumption == MaxRows \in Nat
ASSUME LayoutsAssumption == Layouts \subseteq [Paths -> Seq(Types \X Seq(Column))]

VARIABLES
    files,          \* path -> frame
    layout,         \* path -> what the caller means to write there
    failed          \* history: the files an append_file has failed to extend,
                    \* and those made from them

vars == <<files, layout, failed>>

Highest(S) == IF S = {} THEN 0 ELSE CHOOSE x \in S : \A y \in S : y <= x
Complete(file) == Len(file.values) = file.nblocks
Rows(file, k) == file.values[k].rows
Longest(file) == Highest({Len(Rows(file, k)) : k \in DOMAIN file.values})
Index(n) == [i \in 1 .. n |-> i - 1]
FILL == 0

Init ==
    /\ files = <<>>
    /\ layout \in Layouts
    /\ failed = {}

Store(path, file) ==
    files' = [p \in DOMAIN files \cup {path} |->
                 IF p = path THEN file ELSE files[p]]

(***************************************************************************)
(* set_up_file and create_axes: an empty frame in a file that is truncated.*)
(***************************************************************************)
set_up_file(group) ==
    [group |-> group, nblocks |-> 0, items |-> <<>>, values |-> <<>>,
     axis0 |-> <<>>, axis1 |-> <<>>]

SetUp(path, group) ==
    /\ path \notin DOMAIN files
    /\ Store(path, set_up_file(group))
    /\ UNCHANGED <<layout, failed>>

(***************************************************************************)
(* make_h5_compat_string pads to str_size - size - 1, which is huge when   *)
(* a name leaves no room for its end.                                      *)
(***************************************************************************)
FitsString(column) == column.length + 1 <= StringSize

extend_axis0(axis0, block_columns) == axis0 \o block_columns

(***************************************************************************)
(* add_block: the block is counted before it is there.  With a name that   *)
(* does not fit, an exception leaves the file with a block that has no     *)
(* values.                                                                 *)
(***************************************************************************)
add_block(file, type, block_items) ==
    [file EXCEPT !.nblocks = @ + 1,
                 !.items = Append(@, block_items),
                 !.axis0 = extend_axis0(@, block_items),
                 !.values = Append(@, [type |-> type, columns |-> Len(block_items),
                                       rows |-> <<>>])]

AddBlock(path) ==
    /\ path \in DOMAIN files
    /\ Complete(files[path])
    /\ Longest(files[path]) = 0
    /\ files[path].nblocks < Len(layout[path])
    /\ LET block == layout[path][files[path].nblocks + 1]
       IN  Store(path, IF \A i \in DOMAIN block[2] : FitsString(block[2][i])
                       THEN add_block(files[path], block[1], block[2])
                       ELSE [files[path] EXCEPT !.nblocks = @ + 1])
    /\ UNCHANGED <<layout, failed>>

(***************************************************************************)
(* write_to_block.  When the axis is too short it is extended to the end   *)
(* of the block, and as many entries as there are rows are written from    *)
(* its old end on: the library refuses that when they reach beyond its new *)
(* end, and the added entries keep the fill value.                         *)
(***************************************************************************)
AxisAfterWrite(axis1, start_row, rows) ==
    LET end == start_row + rows
        old == Len(axis1)
    IN  axis1 \o [i \in 1 .. end - old |->
                     IF old + rows <= end /\ i <= rows THEN old + i - 1 ELSE FILL]

write_to_block(file, k, data) ==
    [file EXCEPT !.axis1 = AxisAfterWrite(@, Len(Rows(file, k)), Len(data)),
                 !.values[k].rows = @ \o data]

(***************************************************************************)
(* The caller of the tests writes the blocks in turn.                      *)
(***************************************************************************)
MayWrite(file, k, n) ==
    \/ ~Lockstep
    \/ IF k = 1 THEN Len(Rows(file, 1)) = Len(Rows(file, Len(file.values)))
                ELSE n = Len(Rows(file, k - 1)) - Len(Rows(file, k))

WriteToBlock(path, k, n) ==
    /\ path \in DOMAIN files
    /\ Complete(files[path])
    /\ files[path].nblocks = Len(layout[path])
    /\ k \in DOMAIN files[path].values
    /\ MayWrite(files[path], k, n)
    /\ Len(Rows(files[path], k)) + n <= MaxRows
    /\ LET start_row == Len(Rows(files[path], k))
       IN  Store(path, write_to_block(files[path], k,
                           [j \in 1 .. n |-> <<path, start_row + j>>]))
    /\ UNCHANGED <<layout, failed>>

(***************************************************************************)
(* create_merge_output_file: the output gets the blocks of the first       *)
(* input, from its group "data" whatever the name of the group.  What it   *)
(* cannot open is an exception, with the output begun.                     *)
(***************************************************************************)
CanOpen(path, group) == path \in DOMAIN files /\ files[path].group = group
AtRest(path) ==
    Lockstep /\ path \in DOMAIN files \ failed =>
        \A k \in DOMAIN files[path].values :
            Len(Rows(files[path], k)) = Longest(files[path])
Taint(out, in) == IF in \in failed THEN failed \cup {out} ELSE failed

CopyBlock(out, in, k) ==
    write_to_block(add_block(out, in.values[k].type, in.items[k]), k, Rows(in, k))

create_merge_output_file(group, in) ==
    LET copied[k \in 0 .. Len(in.values)] ==
            IF k = 0 THEN set_up_file(group) ELSE CopyBlock(copied[k - 1], in, k)
    IN  copied[Len(in.values)]

CreateMergeOutput(out, group, in) ==
    /\ out \notin DOMAIN files
    /\ in \in DOMAIN files
    /\ AtRest(in)
    /\ Store(out, IF CanOpen(in, "data")
                  THEN create_merge_output_file(group, files[in])
                  ELSE set_up_file(group))
    /\ failed' = Taint(out, in)
    /\ UNCHANGED layout

(***************************************************************************)
(* extend_axis1: the axis goes on counting.                                *)
(***************************************************************************)
extend_axis1(axis1, new_min_size) ==
    IF new_min_size <= Len(axis1) THEN axis1
    ELSE axis1 \o [i \in 1 .. new_min_size - Len(axis1) |-> Len(axis1) + i - 1]

validate_dataset_shape(src, dest) ==
    src.type = dest.type /\ src.columns = dest.columns

(***************************************************************************)
(* append_file: each block is checked and appended before the next one is  *)
(* checked, so what fails later leaves the earlier blocks extended.        *)
(***************************************************************************)
SameBlockCount(out, in) == in.nblocks = out.nblocks

BlockFits(out, in, k) ==
    /\ out.items[k] = in.items[k]
    /\ validate_dataset_shape(in.values[k], out.values[k])

AppendBlockReread(out, in, axis_dim, k) ==
    [out EXCEPT !.values[k].rows = @ \o Rows(in, k),
                !.axis1 = extend_axis1(@, Len(@) + Len(Rows(in, k)))]
AppendBlock(out, in, axis_dim, k) ==
    [out EXCEPT !.values[k].rows = @ \o Rows(in, k),
                !.axis1 = extend_axis1(@, axis_dim + Len(Rows(in, k)))]

ReachedSkipping(out, in, k) == BlockFits(out, in, k)
Reached(out, in, k) == \A j \in 1 .. k : BlockFits(out, in, j)

Appended(out, in) ==
    LET appended[k \in 0 .. Len(in.values)] ==
            IF k = 0 THEN out
            ELSE IF Reached(out, in, k)
            THEN AppendBlock(appended[k - 1], in, Len(out.axis1), k)
            ELSE appended[k - 1]
    IN  appended[Len(in.values)]

AppendFile(out, group, in) ==
    /\ out # in
    /\ AtRest(out) /\ AtRest(in)
    /\ {out, in} \subseteq DOMAIN files =>
           Longest(files[out]) + Longest(files[in]) <= MaxMerged
    /\ IF /\ CanOpen(out, group) /\ CanOpen(in, group)
          /\ Complete(files[out]) /\ Complete(files[in])
          /\ SameBlockCount(files[out], files[in])
       THEN /\ Store(out, Appended(files[out], files[in]))
            /\ failed' = IF \A k \in DOMAIN files[in].values :
                                BlockFits(files[out], files[in], k)
                         THEN Taint(out, in) ELSE failed \cup {out}
       ELSE UNCHANGED <<files, failed>>
    /\ UNCHANGED layout

Next ==
    \/ \E path \in Paths, group \in Groups : SetUp(path, group)
    \/ \E path \in Paths : AddBlock(path)
    \/ \E path \in Paths, k \in 1 .. 2, n \in 1 .. MaxRows : WriteToBlock(path, k, n)
    \/ \E out, in \in Paths, group \in Groups :
        CreateMergeOutput(out, group, in) \/ AppendFile(out, group, in)

Spec == Init /\ [][Next]_vars
-----------------------------------------------------------------------------
(***************************************************************************)
(* A frame has items for the blocks that are there, one less than counted  *)
(* where a block could not be added.                                       *)
(***************************************************************************)
TypeOK ==
    /\ DOMAIN files \subseteq Paths /\ failed \subseteq DOMAIN files
    /\ files \in [DOMAIN files -> Frame]
    /\ layout \in Layouts
    /\ \A p \in DOMAIN files :
        /\ files[p].nblocks - Len(files[p].values) \in {0, 1}
        /\ Len(files[p].items) = Len(files[p].values)

(***************************************************************************)
(* axis1 numbers the rows of the longest block from 0 on, after any        *)
(* sequence of writes in turn, merges and failed merges: both code paths   *)
(* that extend it agree.                                                   *)
(***************************************************************************)
AxisIsIndex ==
    \A p \in DOMAIN files : files[p].axis1 = Index(Longest(files[p]))

(***************************************************************************)
(* The j-th rows of all blocks belong together: they were written as one   *)
(* row, however often files were merged.  append_file checks and extends   *)
(* block by block, so this is lost where it fails in the middle.           *)
(***************************************************************************)
RowsTogether ==
    \A p \in DOMAIN files \ failed :
        \A k, l \in DOMAIN files[p].values :
            \A j \in DOMAIN Rows(files[p], k) \cap DOMAIN Rows(files[p], l) :
                Rows(files[p], k)[j] = Rows(files[p], l)[j]

(***************************************************************************)
(* Two blocks of a file that nobody is writing have the same length, and   *)
(* after a failed append_file it is the earlier block that is longer.      *)
(***************************************************************************)
EarlierBlocksLonger ==
    \A p \in DOMAIN files :
        \A k, l \in DOMAIN files[p].values :
            k < l => Len(Rows(files[p], k)) >= Len(Rows(files[p], l))

(***************************************************************************)
(* What a frame is, whatever was written, merged or broken off: rows that  *)
(* belong together in blocks that are counted, none ahead of an earlier one. *)
(***************************************************************************)
FrameOK == TypeOK /\ RowsTogether /\ EarlierBlocksLonger
=============================================================================
