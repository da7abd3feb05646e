---------------------------- MODULE MCHdfFrame ----------------------------
(***************************************************************************)
(* Two files written block by block and a third for what is merged.  The   *)
(* second file has the blocks of the first, or differs in the type of one  *)
(* block, or has one block only, or a column whose name is too long.       *)
(***************************************************************************)
EXTENDS HdfFrame

Col(name, length) == [name |-> name, length |-> length]
First(type) == <<type, <<Col("this", 4), Col("that", 4)>>>>
Second(type, name, length) == <<type, <<Col(name, length)>>>>
Usual == <<First("int"), Second("int", "other", 5)>>
MCLayouts ==
    {[a |-> Usual, b |-> b, m |-> <<>>] :
        b \in {Usual, <<First("int")>>,
               <<First("float"), Second("int", "other", 5)>>,
               <<First("int"), Second("float", "other", 5)>>,
               <<First("int"), Second("int", "long", 8)>>}}
=============================================================================
