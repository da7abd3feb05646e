--------------------------- MODULE MCCommandLine ---------------------------
(***************************************************************************)
(* The parsers of the tools with their command lines, and three parsers    *)
(* that use what the library offers beyond them: options, commands and     *)
(* configuration files.                                                    *)
(***************************************************************************)
EXTENDS ToolParsers

MCNumbers == [t \in {"-3", "-2", "-1", "0", "1", "2", "3", "4", "1000000", "2000000"} |->
                CASE t = "-3" -> -3 [] t = "-2" -> -2 [] t = "-1" -> -1
                  [] t = "0" -> 0 [] t = "1" -> 1 [] t = "2" -> 2 [] t = "3" -> 3
                  [] t = "4" -> 4 [] t = "1000000" -> 1000000
                  [] OTHER -> 2000000]
MCFiles == {"/c.yaml", "/r.root", "/s.root", "/r.root /s.root"}
\* The first names a file and, split, two others; of the others one part is none.
MCWordsOfPath ==
    "/r.root /s.root" :> <<"/r.root", "/s.root">> @@ "/s.root b" :> <<"/s.root", "b">>
    @@ "/my o.h5" :> <<"/my", "o.h5">>

Lines(parts, n) ==
    {FlattenSeq(s) : s \in UNION {[1 .. k -> parts] : k \in 0 .. n}}

Invocation(parser, line) ==
    [parser |-> parser, line |-> line, environment |-> <<>>,
     files |-> <<>>, kind |-> "free", task |-> <<>>]
Free(parser, lines) == {Invocation(parser, line) : line \in lines}

(***************************************************************************)
(* The tools: the command lines of the Python program, and those that      *)
(* leave out, exchange or repeat parts of them.                            *)
(***************************************************************************)
FrackerTasks ==
    [rootfile : {"/r.root", "/r.root /s.root", "/x.root"}, hdf_file : {"/o.h5"},
     config : {"/c.yaml"}, raw_data : BOOLEAN,
     columns : {<<>>, <<"adc">>, <<"adc", "tot">>}, compression : {"0", "3", "-1"}]
PumpTasks ==
    [output_file : {"/o.h5", "/my o.h5"},
     input_files : {<<"/r.root">>, <<"/r.root", "/s.root">>, <<"/s.root", "/x.root">>,
                    <<"/r.root /s.root">>, <<"/s.root", "/s.root b">>}]

FrackerParts ==
    {<<"-c", "/c.yaml">>, <<"-i/r.root">>, <<"-s", "adc", "tot">>, <<"-s">>,
     <<"-b", "-3">>, <<"-o">>, <<"--">>, <<"-h">>}
PumpParts ==
    {<<"-i", "/r.root", "/s.root">>, <<"-i">>, <<"-o", "/o.h5">>, <<"-b", "-3">>,
     <<"--help">>, <<"/x.root">>}

ToolInvocations ==
    {[Invocation("fracker", start_compiled_fracker(t))
        EXCEPT !.kind = "fracker", !.task = <<t>>] : t \in FrackerTasks}
    \cup {[Invocation("turbo_pump", run_turbo_pump(t))
            EXCEPT !.kind = "turbo-pump", !.task = <<t>>] : t \in PumpTasks}
    \cup Free("fracker", Lines(FrackerParts, 3))
    \cup Free("turbo_pump", Lines(PumpParts, 3))
    \cup Free("hyperslab", Lines({<<"-m">>, <<"-m3">>, <<"2">>, <<"-2">>}, 2))

(***************************************************************************)
(* Options: flags that count or are negated, a pair, a choice of two, and  *)
(* positionals.                                                            *)
(***************************************************************************)
Opts(q, a, id, names, type) == add_option(q, a, id, names, type)
options_parser ==
    LET v == add_counting_flag(CliApp(root), root, "verbose", "-v,--verbose", <<>>)
        f == AddFlag(v, root, "fast", "--fast,--slow", << <<"slow", "false">> >>, "bool")
        z == Opts(f, root, "pair", "--pair", "pair")
        g == add_option_group(z, root, "choice")
        a == Opts(g, "choice", "a", "-a", "uint")
        x == AddFlag(a, "choice", "x", "-x", <<>>, "bool")
        i == Opts(x, root, "in", "in", "string")
        l == Opts(Changed(i, "in", Required), root, "list", "--list,list", "strings")
    IN  excludes(needs(require_option(l, "choice", -1), "a", "list"), "pair", "x")

OptionWords ==
    {<<"-v">>, <<"-vx">>, <<"--slow=true">>, <<"--pair">>, <<"-a1">>, <<"--list">>,
     <<"w">>, <<"u">>, <<"--">>, <<"-1">>, <<"-h">>}

\* Positionals that are validated, and those that come last.
positionals_parser(last) ==
    LET n == Opts(CliApp(root), root, "n", "n", "uint")
        m == Changed(n, "n", LAMBDA o : check(o, -1, {"1", "2"}))
        w == Opts(m, root, "word", "word", "string")
        k == Opts(Changed(w, "word", Required), root, "k", "-k", "strings")
    IN  [k EXCEPT !.app[root].validate_positionals = TRUE,
                  !.app[root].validate_optional_arguments = last,
                  !.app[root].positionals_at_end = last]

\* Two lists of positionals without an end are refused.
invalid_parser ==
    Opts(Opts(CliApp(root), root, "p", "p", "strings"), root, "q", "q", "strings")

OptionInvocations ==
    Free("options", Lines(OptionWords, 3))
    \cup UNION {Free(name, Lines({<<"1">>, <<"w">>, <<"-k">>, <<"--">>}, 4)) :
                    name \in {"positionals", "positionals at end"}}
    \cup Free("invalid", {<<>>})

(***************************************************************************)
(* Commands: run lets its parent have what it does not know, stop is in a  *)
(* group and excludes run, sh takes all the rest.                          *)
(***************************************************************************)
commands_parser(max) ==
    LET l == Opts([CliApp(root) EXCEPT !.app[root].require_subcommand_max = max],
                  root, "-l", "-l", "strings")
        r == add_subcommand(l, root, "run", "run")
        i == Opts(r, "run", "in", "in", "string")
        k == AddFlag(Changed(i, "in", Required), "run", "-k", "-k", <<>>, "bool")
        g == add_option_group([k EXCEPT !.app["run"].fallthrough = TRUE], root, "group")
        s == add_subcommand(g, "group", "stop", "stop")
        h == add_subcommand(s, root, "sh", "sh")
        x == app_excludes([h EXCEPT !.app["sh"].prefix_command = TRUE,
                                    !.app["sh"].silent = TRUE], "stop", "run")
    IN  [x EXCEPT !.app["group"].allow_extras = max = 1]

CommandWords ==
    {<<"run">>, <<"stop">>, <<"sh">>, <<"-l">>, <<"-k">>, <<"w">>, <<"--">>,
     <<"++">>, <<"--help">>}

CommandInvocations ==
    UNION {Free(name, Lines(CommandWords, 3)) : name \in {"commands", "one command"}}
    \cup Free("commands", Lines({<<"run">>, <<"stop">>, <<"sh">>, <<"w">>,
                                         <<"-k">>}, 4))

(***************************************************************************)
(* Configuration files: options with a variable of the environment, and    *)
(* the commands a and a.b, which a file can open.                          *)
(***************************************************************************)
files_parser(extras) ==
    LET c == set_config(CliApp(root), root, "config", "--config", "a.ini", FALSE)
        d == Changed(c, "config", LAMBDA o : expected_range(o, 1, 2))
        n == Opts(d, root, "number", "--number,-n", "uint")
        m == Changed(n, "number", LAMBDA o : [o EXCEPT !.envname = "NUMBER"])
        f == AddFlag(m, root, "flag", "--flag", <<>>, "bool")
        a == add_subcommand(f, root, "a", "a")
        x == Opts(a, "a", "x", "--x", "uint")
        y == Changed(x, "x", Required)
        b == add_subcommand(y, "a", "b", "b")
    IN  [b EXCEPT !.app["a"].configurable = TRUE, !.app["b"].configurable = TRUE,
                  !.app[root].config_extras = extras]

FileLines ==
    {Section(<<"a">>), Section(<<"a", "b">>), Section(<<"c", "d">>), Section(<<>>),
     Line(<<>>, "number", <<"3">>), Line(<<"a">>, "x", <<"1">>), Line(<<>>, "x", <<"w">>),
     Line(<<>>, "flag", <<"true">>), Line(<<>>, "help", <<"true">>)}
Contents(n) == UNION {[1 .. k -> FileLines] : k \in 0 .. n}
OneFile == {"a.ini" :> lines : lines \in Contents(3)}
TwoFiles ==
    {"a.ini" :> <<Line(<<>>, "number", <<"3">>)>> @@ "b.ini" :> lines :
        lines \in Contents(1)}

WithFiles(lines, extras, all_files, environments) ==
    {[Invocation(extras, line) EXCEPT !.files = files,
                                                    !.environment = environment] :
        line \in lines, files \in all_files, environment \in environments}

Env == {"NUMBER" :> "2"}
FileInvocations ==
    WithFiles({<<>>}, "ignore", OneFile, Env)
    \cup WithFiles(Lines({<<"--config", "a.ini">>, <<"--config", "b.ini">>, <<"-h">>,
                          <<"--config", "c.ini">>, <<"--number", "1">>}, 2),
                   "error", TwoFiles, Env)
    \cup WithFiles({<<>>, <<"a">>, <<"a", "b">>}, "capture",
                   {"a.ini" :> lines : lines \in Contents(2)}, Env \cup {<<>>})

Program(name, parser) == [name |-> name, parser |-> parser]
MCParsers ==
    {Program("fracker", fracker_parser), Program("turbo_pump", turbo_pump_parser),
     Program("hyperslab", hyperslab_parser), Program("options", options_parser),
     Program("invalid", invalid_parser)}
    \cup {Program(IF last THEN "positionals at end" ELSE "positionals",
                  positionals_parser(last)) : last \in BOOLEAN}
    \cup {Program(extras, files_parser(extras)) : extras \in {"ignore", "error", "capture"}}
    \cup {Program(IF max = 0 THEN "commands" ELSE "one command",
                  commands_parser(max)) : max \in {0, 1}}

MCInvocations ==
    ToolInvocations \cup OptionInvocations \cup CommandInvocations \cup FileInvocations
=============================================================================
