----------------------------- MODULE CliConfig -----------------------------
(***************************************************************************)
(* tools/include/CLI11.hpp, class ConfigBase: from the lines of a          *)
(* configuration file to the items the parser takes.  A line opens a       *)
(* section, with <<>> for default, or is an item [parents, name, inputs]   *)
(* whose parents are those written before its name.  The items "++" and    *)
(* "--" open and close a section.  Quotes, comments, arrays and the        *)
(* selection of one section are left out.                                  *)
(***************************************************************************)
EXTENDS Naturals, Sequences, SequencesExt

Section(path) == [kind |-> "section", path |-> path]
Line(parents, name, inputs) ==
    [kind |-> "item", parents |-> parents, name |-> name, inputs |-> inputs]

ConfigItem(parents, name, inputs) ==
    [parents |-> parents, name |-> name, inputs |-> inputs]
Open(path) == ConfigItem(path, "++", <<>>)
Close(path) == ConfigItem(path, "--", <<>>)

(***************************************************************************)
(* checkParentSegments: what a section that begins closes and opens.  The  *)
(* last item closes the section before it, if there was one.               *)
(***************************************************************************)

Opens(path, from) ==
    [i \in 1 .. Len(path) - from |-> Open(SubSeq(path, 1, from + i))]

Closings(path, to) ==
    [i \in 1 .. Len(path) - to |-> Close(SubSeq(path, 1, Len(path) - i))]

Common(path, other) ==
    CHOOSE n \in 0 .. Len(path) :
        /\ \A i \in 1 .. n : i <= Len(other) /\ path[i] = other[i]
        /\ n < Len(path) => n >= Len(other) \/ path[n + 1] # other[n + 1]

checkParentSegments(output, path) ==
    LET low == IF Len(path) > 1 THEN Len(path) - 1 ELSE 1
        closed == output \o Closings(Last(output).parents, low)
        left == Last(closed).parents
        common == Common(left, Front(path))
        shared == IF common = Len(left) THEN Front(closed)
                  ELSE closed \o Closings(left, common + 1)
    IN  CASE output = <<>> \/ Last(output).name # "--" -> output \o Opens(path, 0)
          [] output # <<>> /\ Last(output).name = "--" /\ Len(path) = 1 ->
                Append(closed, Open(path))
          [] OTHER -> shared \o Opens(path, common)

(***************************************************************************)
(* from_config: two lines in a row of one name are one item.               *)
(***************************************************************************)
ReadSection(read, line) ==
    LET ended == IF read.section = <<>> THEN read.output
                 ELSE Append(read.output, Close(read.section))
    IN  [section |-> line.path,
         output |-> IF line.path = <<>> THEN ended
                    ELSE checkParentSegments(ended, line.path)]

ReadItem(read, line) ==
    LET item == ConfigItem(read.section \o line.parents, line.name, line.inputs)
        last == Last(read.output)
        again == /\ read.output # <<>>
                 /\ last.name = item.name /\ last.parents = item.parents
    IN  [read EXCEPT !.output =
            IF again THEN Append(Front(@), [last EXCEPT !.inputs = @ \o item.inputs])
            ELSE Append(@, item)]

from_config(lines) ==
    LET read == FoldLeft(LAMBDA r, line : IF line.kind = "section"
                                          THEN ReadSection(r, line)
                                          ELSE ReadItem(r, line),
                         [section |-> <<>>, output |-> <<>>], lines)
    IN  IF read.section = <<>> THEN read.output
        ELSE Append(read.output, Close(read.section)) \o Closings(read.section, 1)

(***************************************************************************)
(* The sections of a list of items that are open behind its last one, or   *)
(* <<"unbalanced">>: each is opened inside its parent, and only the        *)
(* innermost one is closed.                                                *)
(***************************************************************************)
OpenAtEnd(items) ==
    LET Step(open, item) ==
            CASE open = <<"unbalanced">> -> open
              [] open # <<"unbalanced">> /\ item.name = "++" ->
                    IF Front(item.parents) = open THEN item.parents
                    ELSE <<"unbalanced">>
              [] open # <<"unbalanced">> /\ item.name = "--" ->
                    IF item.parents = open THEN Front(open) ELSE <<"unbalanced">>
              [] OTHER -> open
    IN  FoldLeft(Step, <<>>, items)
=============================================================================
