----------------------------- MODULE CliParser -----------------------------
(***************************************************************************)
(* tools/include/CLI11.hpp, class App, the parse: App::parse(argc, argv)   *)
(* of a program as a state machine.  One action takes one word of the      *)
(* command line, with what the option it names gathers behind it, or does  *)
(* one of the passes that follow the words: the configuration files, the   *)
(* environment, the conversion of the options, the help flags, the         *)
(* requirements and what is left over.                                     *)
(*                                                                         *)
(* frames is the stack of the calls of _parse: the app, whether only       *)
(* positionals are left, and the app that found the subcommand (None if    *)
(* the app was given again, which leaves parsed_subcommands as it is).     *)
(*                                                                         *)
(* Callbacks of apps are left out, so _parse_positional never halts on a   *)
(* subcommand, and so are windows style options and trigger_on_parse.      *)
(***************************************************************************)
EXTENDS CliSetup, CliConfig

CONSTANTS
    Parsers,        \* [name, parser], the parser as it is before the parse
    root,           \* the id of a parser's outermost app
    Invocations     \* [parser, line, environment, files]

VARIABLES
    invocation,
    p,              \* the parser: its apps, options and the error thrown
    args,           \* the words that are left, the next one first
    frames,
    pc,
    queue,          \* the configuration files that are left to read
    deferred,       \* the FileError that is thrown behind the help
    turn            \* changes with every step, also one that takes no word

vars == <<invocation, p, args, frames, pc, queue, deferred, turn>>

SubsOf(a) == Range(p.app[a].subcommands)

(***************************************************************************)
(* ExitCodes, and exit: the code the program ends with.                    *)
(***************************************************************************)
ExitCodes ==
    [none |-> 0, CallForHelp |-> 0,
     IncorrectConstruction |-> 100, BadNameString |-> 101,
     OptionAlreadyAdded |-> 102, FileError |-> 103, ConversionError |-> 104,
     ValidationError |-> 105, RequiredError |-> 106, RequiresError |-> 107,
     ExcludesError |-> 108, ExtrasError |-> 109, ConfigError |-> 110,
     InvalidError |-> 111, HorribleError |-> 112, OptionNotFound |-> 113,
     ArgumentMismatch |-> 114]

(***************************************************************************)
(* _validate and _configure, before the first word.  Without a name an     *)
(* app is an option group, which neither falls through nor is a prefix.    *)
(***************************************************************************)
Unlimiteds(q, a) ==
    {i \in Range(q.app[a].options) :
        get_items_expected_max(q.opt[i]) >= Unlimited /\ ~nonpositional(q.opt[i])}

RECURSIVE Valid(_, _)
Valid(q, a) ==
    LET r == q.app[a]
        subs == r.subcommands
        nameless == {i \in DOMAIN subs : q.app[subs[i]].name = ""}
    IN  /\ Cardinality({i \in Unlimiteds(q, a) : ~q.opt[i].required}) <= 1
        /\ \A s \in Range(subs) : Valid(q, s)
        /\ r.require_option_min > 0 =>
            /\ r.require_option_max = 0 \/ r.require_option_max >= r.require_option_min
            /\ r.require_option_min <= Len(r.options) + Cardinality(nameless)

Configured(app) ==
    [a \in DOMAIN app |->
        LET group == app[a].parent # None /\ app[a].name = ""
        IN  [app[a] EXCEPT !.disabled = CASE app[a].startup = "enabled" -> FALSE
                                          [] app[a].startup = "disabled" -> TRUE
                                          [] OTHER -> @,
                           !.fallthrough = @ /\ ~group,
                           !.prefix_command = @ /\ ~group]]

(***************************************************************************)
(* Counting and finding.                                                   *)
(***************************************************************************)
RECURSIVE increment_parsed(_, _)
increment_parsed(q, a) ==
    FoldLeft(LAMBDA r, s : IF r.app[s].name = "" THEN increment_parsed(r, s) ELSE r,
             [q EXCEPT !.app[a].parsed = @ + 1], q.app[a].subcommands)

RECURSIVE count_all(_, _)
count_all(q, a) ==
    FoldLeft(LAMBDA n, i : n + count(q.opt[i]), 0, q.app[a].options)
    + FoldLeft(LAMBDA n, s : n + count_all(q, s), 0, q.app[a].subcommands)
    + IF q.app[a].name = "" THEN 0 ELSE q.app[a].parsed

\* The first result of Find(x) that is not None.
First(Find(_), s) ==
    LET found == SelectSeq([i \in DOMAIN s |-> Find(s[i])], LAMBDA x : x # None)
    IN  IF found = <<>> THEN None ELSE Head(found)

RECURSIVE find_subcommand(_, _, _, _, _)
find_subcommand(q, a, name, ignore_disabled, ignore_used) ==
    LET Find(s) ==
            LET below == IF q.app[s].name = ""
                         THEN find_subcommand(q, s, name, ignore_disabled, ignore_used)
                         ELSE None
            IN  CASE q.app[s].disabled /\ ignore_disabled -> None
                  [] OTHER ->
                        IF below # None THEN below
                        ELSE IF name \in AppNames(q, s)
                                /\ ~(ignore_used /\ q.app[s].parsed > 0)
                             THEN s ELSE None
    IN  First(Find, q.app[a].subcommands)

RECURSIVE valid_subcommand(_, _, _, _)
valid_subcommand(q, a, word, ignore_used) ==
    LET r == q.app[a]
        open == r.require_subcommand_max = 0
                \/ Len(r.parsed_subcommands) < r.require_subcommand_max
    IN  \/ open /\ find_subcommand(q, a, word, TRUE, ignore_used) # None
        \/ r.parent # None /\ valid_subcommand(q, r.parent, word, ignore_used)

RECURSIVE get_option_no_throw(_, _, _)
get_option_no_throw(q, a, name) ==
    LET own == SelectSeq(q.app[a].options, LAMBDA i : check_name(q.opt[i], name))
    IN  IF own # <<>> THEN Head(own)
        ELSE First(LAMBDA s : IF q.app[s].name = ""
                              THEN get_option_no_throw(q, s, name) ELSE None,
                   q.app[a].subcommands)

(***************************************************************************)
(* _recognize.  A negative number is no option unless its digit is one.    *)
(***************************************************************************)
Digits == {"0", "1", "2", "3", "4", "5", "6", "7", "8", "9"}
recognize(q, a, word, ignore_used) ==
    LET short == split_short(word)
    IN  CASE word = "--" -> "POSITIONAL_MARK"
          [] word # "--" /\ valid_subcommand(q, a, word, ignore_used) -> "SUBCOMMAND"
          [] OTHER ->
                CASE split_long(word).ok -> "LONG"
                  [] short.ok ->
                        IF short.name \in Digits
                           /\ get_option_no_throw(q, a, "-" \o short.name) = None
                        THEN "NONE" ELSE "SHORT"
                  [] word = "++" /\ q.app[a].name # "" /\ q.app[a].parent # None ->
                        "SUBCOMMAND_TERMINATOR"
                  [] OTHER -> "NONE"

(***************************************************************************)
(* _count_remaining_positionals (of the required ones), and                *)
(* _has_remaining_positionals.                                             *)
(***************************************************************************)
Waiting(o) == get_positional(o) /\ count(o) < get_items_expected_min(o)

count_required_positionals(q, a) ==
    FoldLeft(LAMBDA n, i : n + IF Waiting(q.opt[i]) /\ q.opt[i].required
                               THEN get_items_expected_min(q.opt[i]) - count(q.opt[i])
                               ELSE 0,
             0, q.app[a].options)

has_remaining_positionals(q, a) ==
    \E i \in Range(q.app[a].options) : Waiting(q.opt[i])

(***************************************************************************)
(* _move_to_missing: an option group that allows extras takes them.        *)
(***************************************************************************)
move_to_missing(q, a, class, word) ==
    LET takers == SelectSeq(q.app[a].subcommands,
                            LAMBDA s : q.app[s].name = "" /\ q.app[s].allow_extras)
        to == IF q.app[a].allow_extras \/ takers = <<>> THEN a ELSE Head(takers)
    IN  [q EXCEPT !.app[to].missing = Append(@, <<class, word>>)]

Separated(o) ==
    IF o.inject_separator /\ o.results # <<>> /\ Last(o.results) # ""
    THEN add_result(o, "") ELSE o

(***************************************************************************)
(* _parse_positional: who takes a positional.  An option that still waits, *)
(* an option group, the parent if the app falls through, a subcommand that *)
(* is given again, or the app for its extras; or nobody here, and the call *)
(* returns false.                                                          *)
(***************************************************************************)
Nobody == [by |-> "nobody"]

Eager(q, a, i, words) ==    \* positionals_at_end: the required ones first
    /\ q.app[a].positionals_at_end
    /\ Len(words) <= count_required_positionals(q, a)
    /\ Waiting(q.opt[i]) /\ q.opt[i].required

Takes(q, a, i) ==
    /\ get_positional(q.opt[i])
    /\ Waiting(q.opt[i]) \/ q.opt[i].allow_extra_args

Accepts(q, a, i, word) ==
    q.app[a].validate_positionals => ~Refused(q.opt[i], word, 0)

FallthroughParent(q, a) == NamedParent(q.app, a)

RECURSIVE Taker(_, _, _)
Taker(q, a, words) ==
    LET r == q.app[a]
        word == Head(words)
        Good(Can(_)) ==
            SelectSeq(r.options, LAMBDA i : Can(i) /\ Accepts(q, a, i, word))
        options == Good(LAMBDA i : Eager(q, a, i, words))
                   \o Good(LAMBDA i : Takes(q, a, i))
        groups == SelectSeq(r.subcommands,
                            LAMBDA s : /\ q.app[s].name = "" /\ ~q.app[s].disabled
                                       /\ Taker(q, s, words) # Nobody)
        Room(b) == \/ q.app[b].require_subcommand_max = 0
                   \/ q.app[b].require_subcommand_max > Len(q.app[b].parsed_subcommands)
        again == find_subcommand(q, a, word, TRUE, FALSE)
        above == IF r.parent = None THEN a ELSE FallthroughParent(q, a)
        wider == find_subcommand(q, above, word, TRUE, FALSE)
    IN  CASE options # <<>> -> [by |-> "option", id |-> Head(options)]
          [] options = <<>> /\ groups # <<>> -> Taker(q, Head(groups), words)
          [] OTHER ->
                IF r.parent # None /\ r.fallthrough THEN Taker(q, above, words)
                ELSE IF again # None /\ Room(a) THEN [by |-> "subcommand", id |-> again]
                ELSE IF wider # None /\ Room(q.app[wider].parent) THEN Nobody
                ELSE IF r.positionals_at_end THEN [by |-> "error"]
                ELSE IF r.parent # None /\ r.name = "" THEN Nobody
                ELSE [by |-> "extras", id |-> a]

(***************************************************************************)
(* _parse_arg: whose option it is, option groups and then parents looked   *)
(* through, or whose extra.                                                *)
(***************************************************************************)
OptionNamed(q, a, word, class) ==
    LET Is(i) == IF class = "LONG" THEN split_long(word).name \in Range(q.opt[i].lnames)
                 ELSE split_short(word).name \in Range(q.opt[i].snames)
        own == SelectSeq(q.app[a].options, Is)
    IN  IF own = <<>> THEN None ELSE Head(own)

RECURSIVE Owner(_, _, _, _)
Owner(q, a, word, class) ==
    LET r == q.app[a]
        own == OptionNamed(q, a, word, class)
        groups == SelectSeq(r.subcommands,
                            LAMBDA s : /\ q.app[s].name = "" /\ ~q.app[s].disabled
                                       /\ Owner(q, s, word, class) # Nobody)
    IN  CASE own # None -> [by |-> "option", id |-> own, app |-> a]
          [] own = None /\ groups # <<>> -> Owner(q, Head(groups), word, class)
          [] OTHER ->
                IF r.parent # None /\ r.name = "" THEN Nobody
                ELSE IF r.parent # None /\ r.fallthrough
                     THEN Owner(q, FallthroughParent(q, a), word, class)
                     ELSE [by |-> "extras", id |-> a]

(***************************************************************************)
(* What an option of app a, named in the first of the words, gathers: the  *)
(* minimum of one value whatever the words look like, and more of them up  *)
(* to its maximum while they are no options and no required positional     *)
(* waits for them.  A gathering is [o, left, collected].                   *)
(***************************************************************************)
\* A plausible slip, for the mutants: the word is not taken off.
GatherKeeps(g, word) ==
    [g EXCEPT !.o = add_result(@, word), !.collected = @ + Len(Added(g.o, word))]

Gather(g, word) ==
    [o |-> add_result(g.o, word), left |-> Tail(g.left),
     collected |-> g.collected + Len(Added(g.o, word))]

min_num(o) == IF o.type_min < get_items_expected_min(o)
              THEN o.type_min ELSE get_items_expected_min(o)
max_num(o) ==
    LET max == get_items_expected_max(o)
    IN  IF max < Unlimited \div 16 \/ o.allow_extra_args THEN max
        ELSE IF o.type_max * o.expected_min < 4 * Unlimited
             THEN o.type_max * o.expected_min ELSE Unlimited

RECURSIVE GatherMinimum(_)
GatherMinimum(g) ==
    IF min_num(g.o) > g.collected /\ g.left # <<>>
    THEN GatherMinimum(Gather(g, Head(g.left))) ELSE g

RECURSIVE GatherOptional(_, _, _)
GatherOptional(q, a, g) ==
    LET more == /\ g.collected < max_num(g.o) \/ g.o.allow_extra_args
                /\ g.left # <<>>
                /\ recognize(q, a, Head(g.left), FALSE) = "NONE"
                /\ count_required_positionals(q, a) < Len(g.left)
                /\ q.app[a].validate_optional_arguments
                        => ~Refused(g.o, Head(g.left), 0)
    IN  IF more THEN GatherOptional(q, a, Gather(g, Head(g.left))) ELSE g

\* A value behind = or behind the letter comes first; a flag has only that.
Attached(g, name, value, rest) ==
    LET flag == get_flag_value(g.o, name, value)
    IN  IF max_num(g.o) = 0
        THEN IF flag.thrown # "none" THEN [g EXCEPT !.o = Throw(@, flag.thrown)]
             ELSE [g EXCEPT !.o = add_result(@, flag.text),
                            !.left = IF rest = "" THEN @ ELSE <<"-" \o rest>> \o @]
        ELSE LET text == IF value # "" THEN value ELSE rest
             IN  IF text = "" THEN g
                 ELSE [g EXCEPT !.o = add_result(@, text),
                                !.collected = Len(Added(g.o, text))]

\* "--" ends the gathering, and a flag that got no value has its default.
Ended(q, a, g, name) ==
    LET eaten == IF g.left # <<>> /\ Head(g.left) = "--"
                 THEN [g EXCEPT !.left = Tail(@)] ELSE g
        flag == get_flag_value(g.o, name, "")
    IN  CASE max_num(g.o) <= g.collected /\ ~g.o.allow_extra_args -> g
          [] OTHER ->
                IF min_num(g.o) = 0 /\ max_num(g.o) > 0 /\ g.collected = 0
                THEN IF flag.thrown # "none" THEN [eaten EXCEPT !.o = Throw(@, flag.thrown)]
                     ELSE [eaten EXCEPT !.o = add_result(@, flag.text)]
                ELSE eaten

\* A value that is not complete gets an empty text, if its type allows it.
Completed(g) ==
    IF min_num(g.o) > 0 /\ g.collected % g.o.type_max # 0
    THEN IF g.o.type_max # g.o.type_min THEN [g EXCEPT !.o = add_result(@, "")]
         ELSE [g EXCEPT !.o = Throw(@, "ArgumentMismatch")]
    ELSE g

Gathered(q, a, i, words, class) ==
    LET word == Head(words)
        named == IF class = "LONG" THEN split_long(word) ELSE split_short(word)
        start == Attached([o |-> Separated(q.opt[i]), left |-> Tail(words),
                           collected |-> 0],
                          named.name, named.value, named.rest)
        least == GatherMinimum(start)
        most == IF least.collected < max_num(least.o) \/ least.o.allow_extra_args
                THEN GatherOptional(SetOption(q, i, least.o), a, least) ELSE least
    IN  CASE start.o.thrown # "none" -> start
          [] start.o.thrown = "none" /\ min_num(least.o) > least.collected ->
                [least EXCEPT !.o = Throw(@, "ArgumentMismatch")]
          [] OTHER -> Completed(Ended(q, a, most, named.name))

(***************************************************************************)
(* The passes behind the words.  _process_callbacks converts the options   *)
(* that have results; a pass stops at the first error.                     *)
(***************************************************************************)
Pass(Step(_, _), q, s) ==
    FoldLeft(LAMBDA r, x : IF r.thrown = "none" THEN Step(r, x) ELSE r, q, s)

ConvertOption(q, i) ==
    IF \/ count(q.opt[i]) = 0 /\ ~q.opt[i].force_callback
       \/ q.opt[i].state = "callback_run"
    THEN q ELSE SetOption(q, i, run_callback(q.opt[i]))

RECURSIVE process_callbacks(_, _)
process_callbacks(q, a) ==
    Pass(LAMBDA r, s : process_callbacks(r, s),
         Pass(ConvertOption, q, q.app[a].options), q.app[a].subcommands)

RECURSIVE process_env(_, _, _)
process_env(q, a, environment) ==
    LET Fill(r, i) ==
            LET name == r.opt[i].envname
            IN  IF count(r.opt[i]) = 0 /\ name \in DOMAIN environment
                THEN SetOption(r, i, add_result(r.opt[i], environment[name])) ELSE r
    IN  FoldLeft(LAMBDA r, s : process_env(r, s, environment),
                 FoldLeft(Fill, q, q.app[a].options), q.app[a].subcommands)

\* Of the apps that were given, the innermost ones call for help.
RECURSIVE process_help_flags(_, _, _)
process_help_flags(q, a, trigger) ==
    LET help == q.app[a].help
        wanted == trigger \/ (help # None /\ count(q.opt[help]) > 0)
        given == q.app[a].parsed_subcommands
    IN  IF given = <<>> THEN wanted
        ELSE \E s \in Range(given) : process_help_flags(q, s, wanted)

(***************************************************************************)
(* _process_requirements: the first error of an app, or none.              *)
(***************************************************************************)
\* A plausible slip, for the mutants: what an option needs is not looked at.
RequirementNoNeeds(q, a, i) ==
    LET o == q.opt[i]
    IN  CASE o.required /\ count(o) = 0 -> "RequiredError"
          [] ~o.required \/ count(o) > 0 ->
                IF count(o) > 0 /\ \E n \in o.excludes : count(q.opt[n]) # 0
                THEN "ExcludesError" ELSE "none"

Requirement(q, a, i) ==
    LET o == q.opt[i]
    IN  CASE o.required /\ count(o) = 0 -> "RequiredError"
          [] ~(o.required /\ count(o) = 0) /\ count(o) > 0
             /\ \E n \in o.needs : count(q.opt[n]) = 0 -> "RequiresError"
          [] OTHER -> IF count(o) > 0 /\ \E n \in o.excludes : count(q.opt[n]) # 0
                      THEN "ExcludesError" ELSE "none"

UsedOptions(q, a) ==
    Cardinality({i \in Range(q.app[a].options) : count(q.opt[i]) # 0})
    + Cardinality({s \in Range(q.app[a].subcommands) :
                    /\ ~q.app[s].disabled /\ q.app[s].name = ""
                    /\ count_all(q, s) > 0})

RECURSIVE process_requirements(_, _)
process_requirements(q, a) ==
    LET r == q.app[a]
        excluded == \/ \E i \in r.exclude_options : count(q.opt[i]) > 0
                    \/ \E s \in r.exclude_subcommands : count_all(q, s) > 0
        lacking == \/ \E i \in r.need_options : count(q.opt[i]) = 0
                   \/ \E s \in r.need_subcommands : count_all(q, s) = 0
        used == UsedOptions(q, a)
        Own(error, i) == IF error # "none" THEN error ELSE Requirement(q, a, i)
        own == FoldLeft(Own, "none", r.options)
        Skipped(s) ==
            \/ q.app[s].disabled
            \/ /\ q.app[s].name = "" /\ ~q.app[s].required /\ count_all(q, s) = 0
               /\ \/ r.require_option_min > 0 /\ r.require_option_min <= used
                  \/ r.require_option_max > 0 /\ used >= r.require_option_min
        Sub(error, s) ==
            LET below == IF q.app[s].parsed > 0 \/ q.app[s].name = ""
                         THEN process_requirements(q, s) ELSE "none"
            IN  IF error # "none" \/ Skipped(s) THEN error
                ELSE IF below # "none" THEN below
                ELSE IF q.app[s].required /\ count_all(q, s) = 0
                     THEN "RequiredError" ELSE "none"
    IN  CASE excluded -> IF count_all(q, a) > 0 THEN "ExcludesError" ELSE "none"
          [] ~excluded /\ lacking -> IF count_all(q, a) > 0 THEN "RequiresError" ELSE "none"
          [] OTHER ->
                IF own # "none" THEN own
                ELSE IF \/ r.require_subcommand_min > Len(r.parsed_subcommands)
                        \/ r.require_option_min > used
                        \/ 0 < r.require_option_max /\ r.require_option_max < used
                     THEN "RequiredError"
                     ELSE FoldLeft(Sub, "none", r.subcommands)

(***************************************************************************)
(* _parse_config and _parse_single_config: the items of a file, each in    *)
(* the app its parents name.  An option that has results keeps them.       *)
(***************************************************************************)
RECURSIVE AppOf(_, _, _)
AppOf(q, a, parents) ==
    IF a = None \/ parents = <<>> THEN a
    ELSE AppOf(q, find_subcommand(q, a, Head(parents), FALSE, FALSE), Tail(parents))

FullName(item) == join(Append(item.parents, item.name), ".")

ConfigOption(q, a, name) ==
    LET long == get_option_no_throw(q, a, "--" \o name)
        short == IF Len(name) = 1 THEN get_option_no_throw(q, a, "-" \o name) ELSE None
    IN  IF long # None THEN long
        ELSE IF short # None THEN short ELSE get_option_no_throw(q, a, name)

\* A plausible slip, for the mutants: an option that has results gets more.
FromItemAlways(q, i, item) ==
    SetOption(q, i, run_callback(FoldLeft(add_result, q.opt[i], item.inputs)))

FromItem(q, i, item) ==
    LET o == q.opt[i]
        flag == get_flag_value(o, item.name, IF item.inputs = <<>> THEN "{}"
                                             ELSE Head(item.inputs))
    IN  CASE count(o) > 0 -> q
          [] count(o) = 0 /\ o.expected_min = 0 ->
                IF Len(item.inputs) > 1 THEN Fail(q, "ConversionError")
                ELSE IF flag.thrown # "none" THEN Fail(q, flag.thrown)
                ELSE SetOption(q, i, add_result(o, flag.text))
          [] OTHER -> SetOption(q, i, run_callback(FoldLeft(add_result, o, item.inputs)))

OpenSection(q, a) ==
    LET opened == increment_parsed(q, a)
        parent == q.app[a].parent
    IN  IF parent = None THEN opened
        ELSE [opened EXCEPT !.app[parent].parsed_subcommands = Append(@, a)]

CloseSection(q, a) ==
    LET run == process_callbacks(q, a)
    IN  IF run.thrown # "none" THEN run
        ELSE [run EXCEPT !.thrown = process_requirements(run, a)]

parse_single_config(q, main, item) ==
    LET a == AppOf(q, main, item.parents)
        r == q.app[a]
        i == ConfigOption(q, a, item.name)
        unknown == IF q.app[main].config_extras = "error"
                   THEN Fail(q, "ConfigError") ELSE q
    IN  CASE a = None -> unknown
          [] a # None /\ item.name = "++" ->
                IF r.configurable THEN OpenSection(q, a) ELSE q
          [] a # None /\ item.name = "--" ->
                IF r.configurable THEN CloseSection(q, a) ELSE q
          [] OTHER ->
                CASE i = None ->
                        IF r.config_extras = "capture"
                        THEN [unknown EXCEPT !.app[a].missing =
                                                Append(@, <<"NONE", FullName(item)>>)]
                        ELSE unknown
                  [] i # None /\ ~q.opt[i].configurable ->
                        IF r.config_extras = "ignore_all" THEN unknown
                        ELSE Fail(q, "ConfigError")
                  [] OTHER -> FromItem(q, i, item)

parse_config(q, main, items) ==
    Pass(LAMBDA r, item : parse_single_config(r, main, item), q, items)

(***************************************************************************)
(* The parse.  Step changes the parser; what leaves its frame goes back to *)
(* the parent's call, but the outermost call goes on.                      *)
(***************************************************************************)
top == frames[Len(frames)]

Init ==
    /\ \E program \in Parsers :
        /\ p = program.parser
        /\ invocation \in {i \in Invocations : i.parser = program.name}
    /\ args = invocation.line
    /\ frames = <<>>
    /\ pc = "start"
    /\ queue = <<>>
    /\ deferred = "none"
    /\ turn = FALSE

Done == pc = "done"
Turn == turn' = ~turn

\* Plausible slips, for the mutants: an error does not end the parse, and a
\* call of _parse does not return.
ThenGoesOn(q, next) == p' = q /\ pc' = next
LeavesNot(q) == ThenGoesOn(q, "words") /\ UNCHANGED frames

\* The parser changes to q and the parse goes on at next, or ends in an error.
Then(q, next) ==
    /\ p' = q
    /\ pc' = IF q.thrown = "none" THEN next ELSE "done"

Start ==
    /\ pc = "start" /\ Turn
    /\ UNCHANGED <<invocation, args, queue, deferred>>
    /\ IF Valid(p, root)
       THEN /\ Then(increment_parsed([p EXCEPT !.app = Configured(@)], root), "words")
            /\ frames' = <<[app |-> root, positional_only |-> FALSE, caller |-> None]>>
       ELSE Then(Fail(p, "InvalidError"), "done") /\ UNCHANGED frames

\* The groups between a subcommand and the app that found it get to know it.
RECURSIVE Between(_, _, _)
Between(q, a, caller) ==
    IF a = caller THEN {} ELSE {a} \cup Between(q, q.app[a].parent, caller)

Returned(q, frame) ==
    IF frame.caller = None \/ q.app[frame.app].silent THEN q
    ELSE LET between == Between(q, q.app[frame.app].parent, frame.caller)
         IN  [q EXCEPT !.app = [a \in DOMAIN @ |->
                IF a \in between
                THEN [@[a] EXCEPT !.parsed_subcommands = Append(@, frame.app)]
                ELSE @[a]]]

Stays(positional_only) == frames' = [frames EXCEPT ![Len(frames)].positional_only = positional_only]
Enters(a, caller, positional_only) ==
    frames' = Append([frames EXCEPT ![Len(frames)].positional_only = positional_only],
                     [app |-> a, positional_only |-> FALSE, caller |-> caller])

Leaves(q) ==
    IF Len(frames) = 1 THEN Then(q, "words") /\ UNCHANGED frames
    ELSE Then(Returned(q, top), "words") /\ frames' = Front(frames)

\* A word of the class that _recognize gives it.
Word(class) ==
    /\ pc = "words" /\ args # <<>> /\ Turn
    /\ class = IF top.positional_only THEN "NONE"
               ELSE recognize(p, top.app, Head(args), TRUE)
    /\ UNCHANGED <<invocation, queue, deferred>>

ParseMark ==
    /\ Word("POSITIONAL_MARK")
    /\ args' = Tail(args)
    /\ IF ~has_remaining_positionals(p, top.app) /\ p.app[top.app].parent # None
       THEN Leaves(p)
       ELSE /\ Then(move_to_missing(p, top.app, "POSITIONAL_MARK", "--"), "words")
            /\ Stays(TRUE)

ParseTerminator ==
    /\ Word("SUBCOMMAND_TERMINATOR")
    /\ args' = Tail(args)
    /\ Leaves(p)

Positional(taker, only, refused) ==
    LET Extra(q, word) == move_to_missing(q, taker.id, "NONE", word)
    IN  CASE taker.by = "nobody" -> refused
          [] taker.by = "error" ->
                Then(Fail(p, "ExtrasError"), "words") /\ UNCHANGED <<args, frames>>
          [] taker.by = "option" ->
                /\ args' = Tail(args)
                /\ Then(SetOption(p, taker.id,
                                  add_result(Separated(p.opt[taker.id]), Head(args))),
                        "words")
                /\ Stays(only)
          [] taker.by = "subcommand" ->
                /\ args' = Tail(args)
                /\ Then(increment_parsed(p, taker.id), "words")
                /\ Enters(taker.id, None, only)
          [] taker.by = "extras" ->
                LET words == IF p.app[taker.id].prefix_command THEN args ELSE <<Head(args)>>
                IN  /\ args' = SubSeq(args, Len(words) + 1, Len(args))
                    /\ Then(FoldLeft(Extra, p, words), "words")
                    /\ Stays(only)

ParsePositional ==
    /\ Word("NONE")
    /\ Positional(Taker(p, top.app, args),
                  top.positional_only \/ p.app[top.app].positionals_at_end,
                  Leaves(p) /\ UNCHANGED args)

ParseSubcommand ==
    LET found == find_subcommand(p, top.app, Head(args), TRUE, TRUE)
    IN  /\ Word("SUBCOMMAND")
        /\ IF count_required_positionals(p, top.app) > 0
           THEN Positional(Taker(p, top.app, args), top.positional_only,
                           UNCHANGED <<p, pc, args, frames>>)
           ELSE IF found = None THEN Leaves(p) /\ UNCHANGED args
           ELSE /\ args' = Tail(args)
                /\ Then(increment_parsed(
                            IF p.app[found].silent THEN p
                            ELSE [p EXCEPT !.app[top.app].parsed_subcommands =
                                                Append(@, found)], found),
                        "words")
                /\ Enters(found, top.app, top.positional_only)

ParseOption(class) ==
    LET owner == Owner(p, top.app, Head(args), class)
        g == Gathered(p, owner.app, owner.id, args, class)
    IN  /\ Word(class)
        /\ UNCHANGED frames
        /\ IF owner.by = "option"
           THEN /\ args' = g.left
                /\ Then(SetOption(p, owner.id, g.o), "words")
           ELSE /\ args' = Tail(args)
                /\ Then(move_to_missing(p, owner.id, class, Head(args)), "words")

\* Without words a subcommand's call returns, and the outermost one ends.
NoMoreWords ==
    /\ pc = "words" /\ args = <<>> /\ Turn
    /\ UNCHANGED <<invocation, args, queue, deferred>>
    /\ IF Len(frames) > 1 THEN Leaves(p)
       ELSE Then(p, "config_files") /\ UNCHANGED frames

(***************************************************************************)
(* _process.  The configuration files are read from the last one to the    *)
(* first; a FileError waits until the help flags have been looked at.      *)
(***************************************************************************)
config_option == p.opt[p.app[root].config]

FindConfigFiles ==
    /\ pc = "config_files" /\ Turn
    /\ UNCHANGED <<invocation, args, frames>>
    /\ IF p.app[root].config = None
       THEN Then(p, "environment") /\ UNCHANGED <<queue, deferred>>
       ELSE LET files == as_strings(config_option)
            IN  IF files.thrown # "none"
                THEN Then(Fail(p, files.thrown), "done") /\ UNCHANGED <<queue, deferred>>
                ELSE IF files.texts = <<>> \/ Head(files.texts) = ""
                THEN /\ UNCHANGED queue
                     /\ deferred' = IF config_option.required THEN "FileError" ELSE "none"
                     /\ Then(p, IF config_option.required THEN "callbacks" ELSE "environment")
                ELSE /\ queue' = [i \in DOMAIN files.texts |->
                                   [path |-> Reverse(files.texts)[i],
                                    given |-> count(config_option) > 0]]
                     /\ UNCHANGED deferred
                     /\ Then(p, "read_config")

ReadConfigFile ==
    /\ pc = "read_config" /\ queue # <<>> /\ Turn
    /\ UNCHANGED <<invocation, args, frames>>
    /\ LET path == Head(queue).path
           given == Head(queue).given
           read == parse_config(p, root, from_config(invocation.files[path]))
           config == p.app[root].config
       IN  IF path \in DOMAIN invocation.files
           THEN /\ queue' = Tail(queue) /\ UNCHANGED deferred
                /\ Then(IF given \/ read.thrown # "none" THEN read
                        ELSE SetOption(read, config, add_result(read.opt[config], path)),
                        "read_config")
           ELSE IF given \/ config_option.required
           THEN /\ queue' = <<>> /\ deferred' = "FileError"
                /\ Then(p, "callbacks")
           ELSE /\ queue' = Tail(queue) /\ UNCHANGED deferred
                /\ Then(p, "read_config")

NoMoreConfigFiles ==
    /\ pc = "read_config" /\ queue = <<>> /\ Turn
    /\ Then(p, "environment")
    /\ UNCHANGED <<invocation, args, frames, queue, deferred>>

ProcessEnvironment ==
    /\ pc = "environment" /\ Turn
    /\ Then(process_env(p, root, invocation.environment), "callbacks")
    /\ UNCHANGED <<invocation, args, frames, queue, deferred>>

ProcessCallbacks ==
    /\ pc = "callbacks" /\ Turn
    /\ Then(process_callbacks(p, root), "help_flags")
    /\ UNCHANGED <<invocation, args, frames, queue, deferred>>

\* Behind the help flags the deferred error is thrown.
ProcessHelpFlags ==
    /\ pc = "help_flags" /\ Turn
    /\ Then(Fail(p, IF process_help_flags(p, root, FALSE) THEN "CallForHelp" ELSE deferred),
            "requirements")
    /\ UNCHANGED <<invocation, args, frames, queue, deferred>>

ProcessRequirements ==
    /\ pc = "requirements" /\ Turn
    /\ Then(Fail(p, process_requirements(p, root)), "extras")
    /\ UNCHANGED <<invocation, args, frames, queue, deferred>>

\* _process_extras: "--" is not left over.
RECURSIVE LeftOver(_, _)
LeftOver(q, a) ==
    LET r == q.app[a]
    IN  \/ /\ ~r.allow_extras /\ ~r.prefix_command
           /\ \E m \in Range(r.missing) : m[1] # "POSITIONAL_MARK"
        \/ \E s \in Range(r.subcommands) : q.app[s].parsed > 0 /\ LeftOver(q, s)

ProcessExtras ==
    /\ pc = "extras" /\ Turn
    /\ Then(Fail(p, IF LeftOver(p, root) THEN "ExtrasError" ELSE "none"), "done")
    /\ UNCHANGED <<invocation, args, frames, queue, deferred>>

Exited == pc = "done" /\ UNCHANGED vars

ParseWord ==
    \/ ParseMark
    \/ ParseTerminator
    \/ ParseSubcommand
    \/ \E class \in {"LONG", "SHORT"} : ParseOption(class)
    \/ ParsePositional
    \/ NoMoreWords

Process ==
    \/ FindConfigFiles
    \/ ReadConfigFile
    \/ NoMoreConfigFiles
    \/ ProcessEnvironment
    \/ ProcessCallbacks
    \/ ProcessHelpFlags
    \/ ProcessRequirements
    \/ ProcessExtras

Next == Start \/ ParseWord \/ Process \/ Exited

(***************************************************************************)
(* The program runs: as long as it is not done it takes further steps.     *)
(* This is WF_vars(Next), because some step can be taken as long as the    *)
(* parse is not done and every step but Exited changes turn.               *)
(***************************************************************************)
Fairness == <>Done \/ []<><<TRUE>>_vars
Spec == Init /\ [][Next]_vars /\ Fairness

(***************************************************************************)
(* Properties.                                                             *)
(***************************************************************************)
Parsed == Done /\ p.thrown = "none"

\* An error ends the parse, files are read while their pass lasts, a
\* FileError waits for no pass but the callbacks and the help, and a call
\* of _parse was made by the call below it.
TypeOK ==
    /\ pc \in {"start", "words", "config_files", "read_config", "environment",
               "callbacks", "help_flags", "requirements", "extras", "done"}
    /\ p.thrown \in DOMAIN ExitCodes
    /\ p.thrown # "none" => Done
    /\ queue # <<>> => pc = "read_config" \/ p.thrown # "none"
    /\ deferred # "none" => pc \in {"callbacks", "help_flags", "done"}
    /\ \A k \in DOMAIN frames :
        /\ p.app[frames[k].app].parsed > 0
        /\ IF k = 1 THEN frames[k].app = root
                    ELSE frames[k].caller \in {None, frames[k - 1].app}

\* No word is lost and none is used twice: however the calls of
\* _parse_single, _parse_arg and _parse_positional pass the words up and
\* down the apps, a plain word is still to be read, or it is a result of one
\* option, or left over, or it was a subcommand that was entered.
Often(s, word) == Cardinality({i \in DOMAIN s : s[i] = word})
Dashed(word) == CharAt(word, 1) \in {"-", "+"}
EndsWith(s, word) ==
    Len(s) >= Len(word) /\ SubSeq(s, Len(s) - Len(word) + 1, Len(s)) = word
PlainWords ==
    {w \in Range(invocation.line) :
        ~Dashed(w) /\ \A d \in Range(invocation.line) : Dashed(d) => ~EndsWith(d, w)}
Used(word) ==
    SumFunction([i \in DOMAIN p.opt |-> Often(p.opt[i].results, word)])
    + SumFunction([a \in DOMAIN p.app |->
        Cardinality({i \in DOMAIN p.app[a].missing : p.app[a].missing[i][2] = word})
        + IF p.app[a].name = word THEN p.app[a].parsed ELSE 0])
WordsConserved ==
    pc = "words" =>
        \A w \in PlainWords : Often(invocation.line, w) = Often(args, w) + Used(w)

\* A program that goes on behind its parse has what it asked for, in every
\* app that was given, though the passes run at different times and stop at
\* the first error of any app: the counts and the values of the options are
\* as declared, nothing required is missing, no two exclude each other, and
\* nothing is left over.
RECURSIVE Selected(_)
Selected(a) == a = root \/ (p.app[a].parsed > 0 /\ Selected(p.app[a].parent))
Satisfied(i) ==
    LET o == p.opt[i]
    IN  count(o) > 0 =>
            /\ \A n \in o.needs : count(p.opt[n]) > 0
            /\ \A n \in o.excludes : count(p.opt[n]) = 0
            /\ \A v \in Range(o.validators) :
                    v.index = -1 => Range(o.results) \subseteq v.accepted
            /\ o.policy = "Throw" /\ o.expected_min > 0 =>
                    count(o) \in get_items_expected_min(o) .. get_items_expected_max(o)
RequirementsHold ==
    Parsed => \A a \in DOMAIN p.app : Selected(a) =>
        /\ \A i \in Range(p.app[a].options) :
            /\ Satisfied(i)
            /\ p.opt[i].required /\ p.app[a].name # "" => count(p.opt[i]) > 0
        /\ Len(p.app[a].parsed_subcommands) >= p.app[a].require_subcommand_min
        /\ \A s \in p.app[a].exclude_subcommands :
                ~(count_all(p, a) > 0 /\ count_all(p, s) > 0)
        /\ ~LeftOver(p, a)

\* The variables have the values of the strings, also of those that came
\* from a file or the environment after an earlier conversion.
VariablesSet ==
    Parsed => \A i \in DOMAIN p.opt :
        LET o == p.opt[i]
            kept == Reduced(o, o.results)
        IN  count(o) > 0 /\ o.convert # "none" =>
                o.value = lexical_conversion(o.convert,
                                             IF kept = <<>> THEN o.results ELSE kept).value

\* A call for help is answered: no file that is missing and nothing that is
\* required, excluded or left over comes before it.  Only an error in the
\* values does, and what a section of a configuration file requires.
HelpWins ==
    Done /\ p.app[root].help # None
    /\ count(p.opt[p.app[root].help]) > 0 =>
        /\ p.thrown # "none" /\ p.thrown # "FileError"
        /\ DOMAIN invocation.files = {} =>
            p.thrown \in {"CallForHelp", "ArgumentMismatch", "ConversionError",
                          "ValidationError", "InvalidError"}

\* What the command line says is not changed by a file, what a file says is
\* not changed by one that is read later, nor either by the environment.
KeepsResults ==
    pc \in {"read_config", "environment"} =>
        \A i \in DOMAIN p.opt :
            count(p.opt[i]) > 0 => p'.opt[i].results = p.opt[i].results
NotOverridden == [][KeepsResults]_vars

\* A section is opened inside its parent and closed before it, so that each
\* app's callbacks and requirements run for the options of its own section.
\* (A [default] section behind a nested one leaves the parents open.)
SectionsBalanced ==
    pc = "read_config" => \A path \in DOMAIN invocation.files :
        (\A line \in Range(invocation.files[path]) :
            line.kind = "section" => line.path # <<>>) =>
                OpenAtEnd(from_config(invocation.files[path])) = <<>>

\* How a parse ends is what was declared: accepted only with everything as
\* declared and the variables set, help where it was asked for, and the
\* sections of its files closed as they were opened.
EndsAsDeclared ==
    RequirementsHold /\ VariablesSet /\ HelpWins /\ SectionsBalanced

\* Every parse comes to its end: a word that nobody takes is not looked at
\* for ever.
EveryParseEnds == <>Done
=============================================================================
