----------------------------- MODULE CliOption -----------------------------
(***************************************************************************)
(* tools/include/CLI11.hpp, the library the tools read their command line  *)
(* with: class Option, how a definition is set up, and the way of its      *)
(* results from texts to the value of a variable.                          *)
(*                                                                         *)
(* An option is a record of its definition and of its results.  An         *)
(* operator that throws returns the option with the error's name in        *)
(* thrown.  Names match as they are: ignore_case and ignore_underscore,    *)
(* and validators that change a text, are left out.                        *)
(***************************************************************************)
EXTENDS Integers, Sequences, FiniteSets, SequencesExt

CONSTANTS
    Numbers,        \* text -> integer, for the texts that are integers
    Unlimited,      \* expected_max_vector_size, 2^29 in the code
    SizeModulus     \* 2^64 in the code: size_t wraps around

(***************************************************************************)
(* Texts.                                                                  *)
(***************************************************************************)
CharAt(s, i) == SubSeq(s, i, i)
Positions(s, c) == {i \in 1 .. Len(s) : CharAt(s, i) = c}
From(s, i) == SubSeq(s, i, Len(s))

\* The pieces between the delimiters that are not empty.
split(s, c) ==
    LET Pieces(cuts) == [i \in 1 .. Len(cuts) - 1 |->
                            SubSeq(s, cuts[i] + 1, cuts[i + 1] - 1)]
    IN  SelectSeq(Pieces(SetToSortSeq({0, Len(s) + 1} \cup Positions(s, c),
                                      LAMBDA i, j : i < j)),
                  LAMBDA piece : piece # "")

join(strings, c) ==
    FoldLeft(LAMBDA text, s : text \o c \o s, Head(strings), Tail(strings))

valid_first_char(c) == c \notin {"-", "!", " ", "\n"}
valid_name_string(s) ==
    /\ s # "" /\ valid_first_char(CharAt(s, 1))
    /\ \A i \in 2 .. Len(s) : CharAt(s, i) \notin {"=", ":", "{", " ", "\n"}

is_separator(s) == s \in {"", "%%"}

split_short(s) ==
    IF Len(s) > 1 /\ CharAt(s, 1) = "-" /\ valid_first_char(CharAt(s, 2))
    THEN [ok |-> TRUE, name |-> CharAt(s, 2), value |-> "", rest |-> From(s, 3)]
    ELSE [ok |-> FALSE]

split_long(s) ==
    IF Len(s) > 2 /\ SubSeq(s, 1, 2) = "--" /\ valid_first_char(CharAt(s, 3))
    THEN LET eq == Positions(s, "=")
             loc == IF eq = {} THEN Len(s) + 1
                               ELSE CHOOSE i \in eq : \A j \in eq : i <= j
         IN  [ok |-> TRUE, name |-> SubSeq(s, 3, loc - 1),
              value |-> From(s, loc + 1), rest |-> ""]
    ELSE [ok |-> FALSE]

(***************************************************************************)
(* get_names: the names of an option, or the error they are refused with.  *)
(***************************************************************************)
IsShort(n) == Len(n) > 1 /\ CharAt(n, 1) = "-" /\ CharAt(n, 2) # "-"
IsLong(n) == Len(n) > 2 /\ SubSeq(n, 1, 2) = "--"
IsPositional(n) == ~IsShort(n) /\ ~IsLong(n)

Misnamed(n) ==
    \/ IsShort(n) /\ (Len(n) # 2 \/ ~valid_first_char(CharAt(n, 2)))
    \/ IsLong(n) /\ ~valid_name_string(From(n, 3))
    \/ n \in {"-", "--"}

get_names(text) ==
    LET Cut(names, first) == [i \in DOMAIN names |-> From(names[i], first)]
        Sorted(names, positional) ==
            [snames |-> Cut(SelectSeq(names, IsShort), 2),
             lnames |-> Cut(SelectSeq(names, IsLong), 3),
             pname |-> IF positional = <<>> THEN "" ELSE positional[1],
             thrown |-> IF Len(positional) > 1 \/ \E n \in Range(names) : Misnamed(n)
                        THEN "BadNameString" ELSE "none"]
    IN  Sorted(split(text, ","), SelectSeq(split(text, ","), IsPositional))

(***************************************************************************)
(* What a type expects: strings for one value, values, and for the options *)
(* of the tools the way from strings to the value.                         *)
(***************************************************************************)
type_count_min == [string |-> 1, int |-> 1, uint |-> 1, size_t |-> 1, bool |-> 1,
                   pair |-> 2, strings |-> 1]
type_count == type_count_min
expected_count == [t \in DOMAIN type_count |->
                      IF t = "strings" THEN Unlimited ELSE 1]

(***************************************************************************)
(* An option as the constructor leaves it; defaults is an OptionDefaults.  *)
(* Of a default flag value there is <<name, value>> in flags.              *)
(***************************************************************************)
OptionDefaults == [required |-> FALSE, configurable |-> TRUE,
                   disable_flag_override |-> FALSE, delimiter |-> "",
                   policy |-> "Throw"]

Option(text, convert, defaults) ==
    get_names(text) @@ defaults @@
    [envname |-> "", flags |-> <<>>, default_str |-> "",
     type_min |-> 1, type_max |-> 1, expected_min |-> 1, expected_max |-> 1,
     validators |-> <<>>, needs |-> {}, excludes |-> {}, convert |-> convert,
     allow_extra_args |-> FALSE, flag_like |-> FALSE, run_for_default |-> FALSE,
     inject_separator |-> FALSE, force_callback |-> FALSE,
     results |-> <<>>, proc_results |-> <<>>, state |-> "parsing", value |-> <<>>]

Throw(o, error) == [o EXCEPT !.thrown = error]

(***************************************************************************)
(* The setters that do more than set.                                      *)
(***************************************************************************)
expected(o, value) ==
    CASE value < 0 -> [o EXCEPT !.expected_min = -value,
                                !.expected_max = IF @ < -value THEN -value ELSE @,
                                !.allow_extra_args = TRUE, !.flag_like = FALSE]
      [] value = Unlimited -> [o EXCEPT !.expected_min = 1,
                                        !.expected_max = Unlimited,
                                        !.allow_extra_args = TRUE,
                                        !.flag_like = FALSE]
      [] OTHER -> [o EXCEPT !.expected_min = value, !.expected_max = value,
                            !.flag_like = value = 0]

expected_range(o, min, max) ==
    LET low == IF min < 0 THEN -min ELSE min
        high == IF max < 0 THEN Unlimited ELSE max
    IN  [o EXCEPT !.expected_min = IF high < low THEN high ELSE low,
                  !.expected_max = IF high < low THEN low ELSE high]

type_size(o, min, max) ==
    LET backwards == min < 0 \/ max < 0
        Abs(n) == IF n < 0 THEN -n ELSE n
        low == IF backwards THEN Abs(min) ELSE min
        high == IF backwards THEN Abs(max) ELSE max
    IN  [o EXCEPT !.expected_max = IF backwards THEN Unlimited ELSE @,
                  !.type_min = IF low > high THEN high ELSE low,
                  !.type_max = IF low > high THEN low ELSE high,
                  !.required = @ /\ (low # 0 \/ high # 0),
                  !.inject_separator = @ \/ low >= Unlimited \/ high >= Unlimited]

multi_option_policy(o, value) ==
    IF value = o.policy THEN o
    ELSE [o EXCEPT !.policy = value, !.state = "parsing",
                   !.expected_max =
                      IF /\ o.policy = "Throw" /\ @ = Unlimited
                         /\ o.expected_min > 1
                      THEN o.expected_min ELSE @]

\* index -1: the validator is for every string of a value.
check(o, index, accepted) ==
    [o EXCEPT !.validators = Append(@, [index |-> index, accepted |-> accepted])]

(***************************************************************************)
(* How many strings are expected in all.  A product that overflows stands  *)
(* for no limit.                                                           *)
(***************************************************************************)
get_items_expected_min(o) == o.type_min * o.expected_min
get_items_expected_max(o) ==
    IF o.type_max * o.expected_max >= 4 * Unlimited
    THEN Unlimited ELSE o.type_max * o.expected_max

count(o) == Len(o.results)
get_positional(o) == o.pname # ""
nonpositional(o) == o.snames # <<>> \/ o.lnames # <<>>

(***************************************************************************)
(* check_name wants the dashes, and matching_name does not look at the     *)
(* positional name.                                                        *)
(***************************************************************************)
check_name(o, name) ==
    CASE IsLong(name) -> From(name, 3) \in Range(o.lnames)
      [] Len(name) > 1 /\ CharAt(name, 1) = "-" -> From(name, 2) \in Range(o.snames)
      [] OTHER -> \/ o.pname # "" /\ name = o.pname
                  \/ o.envname # "" /\ name = o.envname

Matching(o, other) ==
    \/ Range(o.snames) \cap Range(other.snames) # {}
    \/ Range(o.lnames) \cap Range(other.lnames) # {}

(***************************************************************************)
(* to_flag_value: NotFlag is the exception for a text that is none.        *)
(***************************************************************************)
NotFlag == [not_a_flag |-> TRUE]
IsFlagText(s) ==
    s \in {"true", "false", "on", "yes", "enable", "off", "no", "disable",
           "f", "n", "-", "t", "y", "+"} \cup DOMAIN Numbers
to_flag_value(s) ==
    CASE s \in {"true", "on", "yes", "enable", "t", "y", "+"} -> 1
      [] s \in {"false", "off", "no", "disable", "f", "n", "-", "0"} -> -1
      [] OTHER -> Numbers[s]

TextOf(i) == CHOOSE s \in DOMAIN Numbers : Numbers[s] = i

get_flag_value(o, name, input) ==
    LET known == SelectSeq(o.flags, LAMBDA f : f[1] = name)
        default == known[1][2]
        given == input \notin {"", "{}"}
        refused == /\ o.disable_flag_override /\ given
                   /\ input # IF known # <<>> THEN default ELSE "true"
    IN  CASE refused -> [thrown |-> "ArgumentMismatch"]
          [] ~refused /\ ~given ->
                [thrown |-> "none",
                 text |-> IF known # <<>> THEN default
                          ELSE IF o.flag_like THEN "true" ELSE o.default_str]
          [] OTHER ->
                [thrown |-> "none",
                 text |-> IF known = <<>> \/ default # "false" \/ ~IsFlagText(input)
                          THEN input
                          ELSE CASE to_flag_value(input) = 1 -> "false"
                                 [] to_flag_value(input) = -1 -> "true"
                                 [] OTHER -> TextOf(-to_flag_value(input))]

(***************************************************************************)
(* add_result: a text in brackets is a list where more than one argument   *)
(* is allowed, and a delimiter takes a text apart.                         *)
(***************************************************************************)
RECURSIVE Added(_, _)
Added(o, text) ==
    CASE /\ o.allow_extra_args /\ text # ""
         /\ CharAt(text, 1) = "[" /\ CharAt(text, Len(text)) = "]" ->
            LET items == split(SubSeq(text, 2, Len(text) - 1), ",")
            IN  FlattenSeq([i \in DOMAIN items |-> Added(o, items[i])])
      [] OTHER ->
            IF o.delimiter # "" /\ Positions(text, o.delimiter) # {}
            THEN split(text, o.delimiter) ELSE <<text>>

add_result(o, text) ==
    [o EXCEPT !.results = @ \o Added(o, text), !.state = "parsing"]

(***************************************************************************)
(* _validate and _validate_results.  A validator may be for one string of  *)
(* a value; with TakeLast the strings that will be dropped count from      *)
(* below 0.                                                                *)
(***************************************************************************)
Refused(o, text, index) ==
    /\ text # "" \/ o.expected_min # 0
    /\ \E v \in Range(o.validators) :
        v.index \in {-1, index} /\ text \notin v.accepted

Invalid(o, results) ==
    LET max == IF o.type_max > 1 THEN get_items_expected_max(o) ELSE o.expected_max
        first == IF max < Len(results) /\ o.policy = "TakeLast"
                 THEN max - Len(results) ELSE 0
        Separates(text, index) ==
            /\ o.type_max > 1 /\ is_separator(text)
            /\ o.type_max # o.type_min /\ index >= 0
        Place(index) == IF o.type_max > 1 /\ index >= 0
                        THEN index % o.type_max ELSE index
        Look(seen, text) ==
            IF Separates(text, seen.index) THEN [seen EXCEPT !.index = 0]
            ELSE [index |-> seen.index + 1,
                  bad |-> seen.bad \/ Refused(o, text, Place(seen.index))]
    IN  FoldLeft(Look, [index |-> first, bad |-> FALSE], results).bad

(***************************************************************************)
(* sum_string_vector, for integers.                                        *)
(***************************************************************************)
sum_string_vector(texts) ==
    IF \A s \in Range(texts) : IsFlagText(s)
    THEN TextOf(FoldLeft(LAMBDA sum, s :
                            sum + IF s \in DOMAIN Numbers THEN Numbers[s]
                                                          ELSE to_flag_value(s),
                         0, texts))
    ELSE FoldLeft(LAMBDA text, s : text \o s, "", texts)

(***************************************************************************)
(* _reduce_results: what the policy leaves, or <<>> for all there is.      *)
(***************************************************************************)
TrimSize(o, n) ==
    LET most == get_items_expected_max(o)
        limit == IF most < 1 THEN 1 ELSE most
    IN  IF limit < n THEN limit ELSE n

Kept(o, original) ==
    LET n == Len(original)
        Rest(trim) ==
            CASE o.policy = "TakeLast" /\ trim # n -> SubSeq(original, n - trim + 1, n)
              [] o.policy = "TakeFirst" /\ trim # n -> SubSeq(original, 1, trim)
              [] o.policy = "Join" /\ count(o) > 1 ->
                    <<join(original, IF o.delimiter = "" THEN "\n" ELSE o.delimiter)>>
              [] o.policy = "Sum" -> <<sum_string_vector(original)>>
              [] OTHER -> <<>>
    IN  Rest(TrimSize(o, n))

Miscounted(o, original) ==
    LET AtLeastOne(n) == IF n = 0 THEN 1 ELSE n
    IN  /\ o.policy = "Throw"
        /\ \/ Len(original) < AtLeastOne(get_items_expected_min(o))
           \/ Len(original) > AtLeastOne(get_items_expected_max(o))

Reduced(o, original) ==
    LET Marked(kept) ==
            IF /\ (IF kept = <<>> THEN original ELSE kept) = <<"{}">>
               /\ get_items_expected_min(o) > 0
            THEN <<"{}", "%%">> ELSE kept
    IN  Marked(Kept(o, original))

(***************************************************************************)
(* lexical_conversion: from the strings to the value of the variable.  A   *)
(* negative number wraps around in size_t, and is refused by the narrower  *)
(* unsigned int.  A value is a sequence of its parts.                      *)
(***************************************************************************)
\* A plausible slip, for the mutants: unsigned int wraps around as well.
lexical_castWraps(type, text) ==
    IF type \in {"uint", "size_t"} /\ text \in DOMAIN Numbers
    THEN [ok |-> TRUE, part |-> Numbers[text] % SizeModulus]
    ELSE [ok |-> type \in {"string", "strings", "pair"}, part |-> text]

lexical_cast(type, text) ==
    CASE type \in {"int", "uint"} /\ text \in DOMAIN Numbers ->
            [ok |-> type = "int" \/ Numbers[text] >= 0, part |-> Numbers[text]]
      [] type = "size_t" /\ text \in DOMAIN Numbers ->
            [ok |-> TRUE, part |-> Numbers[text] % SizeModulus]
      [] type = "int" /\ text = "true" -> [ok |-> TRUE, part |-> 1]
      [] type = "bool" /\ IsFlagText(text) ->
            [ok |-> TRUE, part |-> IF to_flag_value(text) > 0 THEN 1 ELSE 0]
      [] type \in {"string", "strings", "pair"} -> [ok |-> TRUE, part |-> text]
      [] OTHER -> [ok |-> FALSE, part |-> text]

lexical_assign(type, text) ==
    IF text = "" /\ type \in {"int", "uint", "size_t", "bool"}
    THEN [ok |-> TRUE, part |-> 0] ELSE lexical_cast(type, text)

lexical_conversion(type, texts) ==
    LET used == CASE type = "strings" ->
                        IF texts = <<"{}">> THEN <<>>
                        ELSE IF Len(texts) = 2 /\ texts[1] = "{}" /\ is_separator(texts[2])
                             THEN <<"{}">> ELSE texts
                  [] type = "pair" -> SubSeq(texts, 1, IF Len(texts) > 1 THEN 2 ELSE 1)
                  [] OTHER -> <<Head(texts)>>
        Joined(parts) == [ok |-> \A i \in DOMAIN parts : parts[i].ok,
                          value |-> [i \in DOMAIN parts |-> parts[i].part]]
    IN  Joined([i \in DOMAIN used |-> lexical_assign(type, used[i])])

(***************************************************************************)
(* run_callback: validate, reduce, and convert into the variable.          *)
(***************************************************************************)
Forced(o) == IF o.force_callback /\ o.results = <<>>
             THEN add_result(o, o.default_str) ELSE o

Validated(o) ==
    IF o.state # "parsing" THEN o
    ELSE IF Invalid(o, o.results) THEN Throw(o, "ValidationError")
    ELSE [o EXCEPT !.state = "validated"]

ReducedResults(o) ==
    IF o.thrown # "none" \/ o.state # "validated" THEN o
    ELSE IF Miscounted(o, o.results)
         THEN [Throw(o, "ArgumentMismatch") EXCEPT !.proc_results = <<>>]
         ELSE [o EXCEPT !.proc_results = Reduced(o, o.results), !.state = "reduced"]

Converted(o) ==
    LET send == IF o.proc_results = <<>> THEN o.results ELSE o.proc_results
        run == [o EXCEPT !.state = "callback_run"]
        Assigned(c) == IF c.ok THEN [run EXCEPT !.value = c.value]
                               ELSE Throw(run, "ConversionError")
    IN  CASE o.thrown # "none" -> o
          [] o.thrown = "none" /\ o.convert = "none" -> run
          [] OTHER -> Assigned(lexical_conversion(o.convert, send))

run_callback(o) == Converted(ReducedResults(Validated(Forced(o))))

(***************************************************************************)
(* The results an option would have as a vector of strings, without        *)
(* changing it: those it has, or its default.                              *)
(***************************************************************************)
as_strings(o) ==
    LET Texts(kept, results) ==
            lexical_conversion("strings", IF kept = <<>> THEN results ELSE kept).value
        Result(filled) ==
            IF Miscounted(filled, filled.results) THEN [thrown |-> "ArgumentMismatch"]
            ELSE [thrown |-> "none",
                  texts |-> Texts(Reduced(filled, filled.results), filled.results)]
    IN  Result(IF o.results = <<>> THEN add_result(o, o.default_str) ELSE o)

(***************************************************************************)
(* default_val sets the variable by way of the callback and leaves the     *)
(* results as they were; default_str changes a text of the help only.      *)
(***************************************************************************)
default_val(o, text) ==
    LET Run(added) == IF o.run_for_default
                      THEN [run_callback(added) EXCEPT !.state = "parsing"]
                      ELSE [Validated(added) EXCEPT !.state = o.state]
        After(run) == IF run.thrown # "none" THEN Throw(o, run.thrown)
                      ELSE [run EXCEPT !.results = o.results, !.default_str = text]
    IN  After(Run(add_result([o EXCEPT !.results = <<>>], text)))

default_str(o, text) == [o EXCEPT !.default_str = text]
=============================================================================
