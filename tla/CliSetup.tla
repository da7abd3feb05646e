------------------------------ MODULE CliSetup ------------------------------
(***************************************************************************)
(* tools/include/CLI11.hpp, class App before the parse: how a program      *)
(* builds its parser of options, flags, option groups and subcommands.     *)
(*                                                                         *)
(* A parser is [app, opt, thrown]: app and opt are functions from ids to   *)
(* the records of the apps and of the options; an app has the ids of its   *)
(* options and subcommands in their order.  An option group is a           *)
(* subcommand without a name.  None stands for the null pointer.           *)
(* Callbacks of an app, which none of the tools sets, are left out, and so *)
(* are the texts of the help.                                              *)
(***************************************************************************)
EXTENDS CliOption, TLC

None == "none"

NewApp(name, parent) ==
    [name |-> name, aliases |-> {}, parent |-> parent,
     options |-> <<>>, subcommands |-> <<>>,
     help |-> None, config |-> None, option_defaults |-> OptionDefaults,
     allow_extras |-> FALSE, prefix_command |-> FALSE, fallthrough |-> FALSE,
     validate_positionals |-> FALSE, validate_optional_arguments |-> FALSE,
     configurable |-> FALSE, config_extras |-> "ignore",
     positionals_at_end |-> FALSE, required |-> FALSE, disabled |-> FALSE,
     startup |-> "stable", silent |-> FALSE,
     require_subcommand_min |-> 0, require_subcommand_max |-> 0,
     require_option_min |-> 0, require_option_max |-> 0,
     need_options |-> {}, need_subcommands |-> {},
     exclude_options |-> {}, exclude_subcommands |-> {},
     parsed |-> 0, missing |-> <<>>, parsed_subcommands |-> <<>>]

Fail(p, error) == [p EXCEPT !.thrown = error]
\* What is done next, unless something was thrown.
After(q, Step(_)) == IF q.thrown # "none" THEN q ELSE Step(q)
SetOption(p, id, o) == [p EXCEPT !.opt = (id :> o) @@ @, !.thrown = o.thrown]
SetApp(p, a, r) == [p EXCEPT !.app = (a :> r) @@ @]

(***************************************************************************)
(* remove_option takes the option out of its app and out of the links of   *)
(* the app's other options.                                                *)
(***************************************************************************)
remove_option(p, a, id) ==
    [app |-> [p.app EXCEPT ![a].options = SelectSeq(@, LAMBDA i : i # id),
                           ![a].help = IF @ = id THEN None ELSE @],
     opt |-> [i \in DOMAIN p.opt \ {id} |->
                 IF i \in Range(p.app[a].options)
                 THEN [p.opt[i] EXCEPT !.needs = @ \ {id}, !.excludes = @ \ {id}]
                 ELSE p.opt[i]],
     thrown |-> p.thrown]

(***************************************************************************)
(* add_option with a callback only, and for a variable of a type; a name   *)
(* the app has already is refused.                                         *)
(***************************************************************************)
AddOption(p, a, id, names, convert) ==
    LET Add(o) ==
            CASE o.thrown # "none" -> Fail(p, o.thrown)
              [] o.thrown = "none" /\ \E i \in Range(p.app[a].options) :
                                            Matching(p.opt[i], o) ->
                    Fail(p, "OptionAlreadyAdded")
              [] OTHER ->
                    SetOption([p EXCEPT !.app[a].options = Append(@, id)], id, o)
    IN  Add(Option(names, convert, p.app[a].option_defaults))

add_option(p, a, id, names, type) ==
    LET Sized(o) == expected(type_size(o, type_count_min[type], type_count[type]),
                             expected_count[type])
    IN  After(AddOption(p, a, id, names, type),
              LAMBDA q : SetOption(q, id, [Sized(q.opt[id]) EXCEPT !.run_for_default = TRUE]))

(***************************************************************************)
(* _add_flag_internal: the default values of a flag are in its name, as    *)
(* {value} behind it or as ! before it; here they are given as flags.      *)
(***************************************************************************)
AddFlag(p, a, id, names, flags, convert) ==
    LET Flag(o) == [expected(multi_option_policy([o EXCEPT !.flags = flags], "TakeLast"), 0)
                    EXCEPT !.required = FALSE]
    IN  After(AddOption(p, a, id, names, convert),
              LAMBDA q : IF get_positional(q.opt[id])
                         THEN Fail(remove_option(q, a, id), "IncorrectConstruction")
                         ELSE SetOption(q, id, Flag(q.opt[id])))

\* A flag that counts, for a variable of an integral type.
add_counting_flag(p, a, id, names, flags) ==
    After(AddFlag(p, a, id, names, flags, "uint"),
          LAMBDA q : SetOption(q, id, [default_str(multi_option_policy(q.opt[id], "Sum"), "0")
                                       EXCEPT !.force_callback = TRUE]))

set_help_flag(p, a, id, names) ==
    LET q == IF p.app[a].help = None THEN p ELSE remove_option(p, a, p.app[a].help)
    IN  IF names = "" THEN q
        ELSE After(AddFlag(q, a, id, names, <<>>, "none"),
                   LAMBDA r : [r EXCEPT !.app[a].help = id, !.opt[id].configurable = FALSE])

set_config(p, a, id, names, default, required) ==
    LET q == IF p.app[a].config = None THEN p ELSE remove_option(p, a, p.app[a].config)
    IN  IF names = "" THEN [q EXCEPT !.app[a].config = None]
        ELSE After(AddOption(q, a, id, names, "none"),
                   LAMBDA r : [r EXCEPT !.app[a].config = id,
                                        !.opt[id] = [default_str(@, default) EXCEPT
                                                        !.required = @ \/ required,
                                                        !.configurable = FALSE]])

(***************************************************************************)
(* An app of its own has a help flag; a subcommand inherits that of its    *)
(* parent and part of its settings.                                        *)
(***************************************************************************)
CliApp(id) ==
    set_help_flag([app |-> id :> NewApp(id, None), opt |-> <<>>, thrown |-> "none"],
                  id, id \o " -h", "-h,--help")

Inherited == {"option_defaults", "allow_extras", "config_extras", "prefix_command",
              "fallthrough", "validate_positionals", "validate_optional_arguments",
              "configurable", "require_subcommand_max"}

SubApp(p, parent, id, name) ==
    LET new == NewApp(name, parent)
        r == [f \in DOMAIN new |->
                 IF f \in Inherited THEN p.app[parent][f] ELSE new[f]]
        q == SetApp(p, id, r)
    IN  IF p.app[parent].help = None THEN q
        ELSE set_help_flag(q, id, id \o " -h", "-h,--help")

(***************************************************************************)
(* check_name of an app, and _compare_subcommand_names: whether a          *)
(* subcommand's name is taken below base, looking into option groups.      *)
(***************************************************************************)
AppNames(p, a) == {p.app[a].name} \cup p.app[a].aliases

RECURSIVE NameTaken(_, _, _)
NameTaken(p, sub, base) ==
    /\ ~p.app[sub].disabled
    /\ \E other \in Range(p.app[base].subcommands) \ {sub} :
        /\ ~p.app[other].disabled
        /\ \/ (AppNames(p, sub) \cap AppNames(p, other)) \ {""} # {}
           \/ p.app[other].name = "" /\ NameTaken(p, sub, other)
           \/ p.app[sub].name = "" /\ NameTaken(p, other, sub)

RECURSIVE NamedParent(_, _)
NamedParent(app, a) ==
    LET parent == app[a].parent
    IN  IF app[parent].parent # None /\ app[parent].name = ""
        THEN NamedParent(app, parent) ELSE parent

add_subcommand(p, parent, id, name) ==
    LET base == IF p.app[parent].name = "" /\ p.app[parent].parent # None
                THEN NamedParent(p.app, parent) ELSE parent
    IN  IF name # "" /\ ~valid_name_string(name) THEN Fail(p, "IncorrectConstruction")
        ELSE After(SubApp(p, parent, id, name),
                   LAMBDA q : IF NameTaken(q, id, base) THEN Fail(p, "OptionAlreadyAdded")
                              ELSE [q EXCEPT !.app[parent].subcommands = Append(@, id)])

add_option_group(p, parent, id) == add_subcommand(p, parent, id, "")

(***************************************************************************)
(* The links between options and between apps.  Excluding goes both ways.  *)
(***************************************************************************)
needs(p, id, other) ==
    [p EXCEPT !.opt[id].needs = @ \cup ({other} \ {id})]

excludes(p, id, other) ==
    IF id = other THEN Fail(p, "IncorrectConstruction")
    ELSE [p EXCEPT !.opt[id].excludes = @ \cup {other},
                   !.opt[other].excludes = @ \cup {id}]

app_excludes(p, a, other) ==
    IF a = other THEN Fail(p, "OptionNotFound")
    ELSE [p EXCEPT !.app[a].exclude_subcommands = @ \cup {other},
                   !.app[other].exclude_subcommands = @ \cup {a}]

require_subcommand(p, a, value) ==
    [p EXCEPT !.app[a].require_subcommand_min = IF value < 0 THEN 0 ELSE value,
              !.app[a].require_subcommand_max = IF value < 0 THEN -value ELSE value]

require_option(p, a, value) ==
    [p EXCEPT !.app[a].require_option_min = IF value < 0 THEN 0 ELSE value,
              !.app[a].require_option_max = IF value < 0 THEN -value ELSE value]
=============================================================================
