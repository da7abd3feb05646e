---------------------------- MODULE ToolParsers ----------------------------
(***************************************************************************)
(* The command lines of the tools: the parsers that fracker.cc,            *)
(* turbo-pump.cc and hdf5-hyperslab-experiments.cc build, and the words    *)
(* with which datenraffinerie/analysis_utilities.py calls the first two.   *)
(* The id of an option is its name.                                        *)
(***************************************************************************)
EXTENDS CliParser

CONSTANTS
    ExistingFile,       \* the paths the validator of this name accepts
    WordsOfPath,        \* the paths with blanks, and their parts between them
    block_size          \* start_compiled_fracker's default, 2000000 there

\* An option that is changed by Configure, or added and set up by it.
Changed(q, id, Configure(_)) ==
    After(q, LAMBDA r : SetOption(r, id, Configure(r.opt[id])))
With(q, id, type, Configure(_)) ==
    Changed(add_option(q, root, id, id, type), id, Configure)

Required(o) == [o EXCEPT !.required = TRUE]
RequiredFile(o) == Required(check(o, -1, ExistingFile))
AsIs(o) == o

fracker_parser ==
    LET d == With(CliApp(root), "-d", "string", LAMBDA o : default_val(o, "null"))
        c == With(d, "-c", "string", RequiredFile)
        i == With(c, "-i", "string", RequiredFile)
        b == With(i, "-b", "uint", LAMBDA o : default_val(o, "1000000"))
        s == With(b, "-s", "strings", Required)
        o == With(s, "-o", "string", AsIs)
        z == With(o, "-p", "uint", LAMBDA x : default_val(x, "0"))
    IN  With(z, "-f", "string", LAMBDA x : default_str(x, "summary"))

turbo_pump_parser ==
    LET i == With(CliApp(root), "-i", "strings", RequiredFile)
        o == With(i, "-o", "string", Required)
        b == With(o, "-b", "size_t", LAMBDA x : default_val(x, "1000000"))
    IN  With(b, "-g", "string", LAMBDA x : default_val(x, "data"))

hyperslab_parser == With(CliApp(root), "-m", "int", AsIs)

(***************************************************************************)
(* The command lines of analysis_utilities.py: a task of the fracker is    *)
(* [rootfile, hdf_file, config, raw_data, columns, compression], one of    *)
(* the turbo-pump [output_file, input_files].                              *)
(***************************************************************************)
start_compiled_fracker(task) ==
    <<"-c", task.config, "-i", task.rootfile, "-o", task.hdf_file, "-b", block_size>>
    \o <<"-s">> \o task.columns \o <<"-p", task.compression>>
    \o <<"-f", IF task.raw_data THEN "full" ELSE "summary">>

\* What the shell makes of one part of a line, and of parts joined by blanks.
ShellWords(part) ==
    IF part \in DOMAIN WordsOfPath THEN WordsOfPath[part] ELSE <<part>>
SystemLine(parts) == FlattenSeq([n \in DOMAIN parts |-> ShellWords(parts[n])])

run_turbo_pump(task) ==
    SystemLine(<<"-o", task.output_file, "-i">> \o task.input_files)

(***************************************************************************)
(* Property: what arrives of a task that the Python program hands to a     *)
(* tool.  The fracker gets its words one by one: with columns, it accepts  *)
(* them if the files exist and the compression is a number, and its        *)
(* variables are then the parts of the task, the columns ending where the  *)
(* next option begins.  Without columns (the default of data_columns) the  *)
(* compression never arrives: "-s" takes "-p" and what follows it for two  *)
(* columns.  The turbo-pump is started by the shell: it reads and writes   *)
(* the files of the task if no path has a blank; a blank in the path of    *)
(* the output is refused, and the parts of an input's path are files of    *)
(* their own, so that others are merged if there are such.  (No part of a  *)
(* path begins with a dash.)                                               *)
(***************************************************************************)
ValueOf(id) == p.opt[id].value

FrackerGets(task) ==
    LET given == task.columns # <<>>
    IN  /\ ValueOf("-c") = <<task.config>> /\ ValueOf("-i") = <<task.rootfile>>
        /\ ValueOf("-o") = <<task.hdf_file>> /\ ValueOf("-b") = <<Numbers[block_size]>>
        /\ ValueOf("-s") = IF given THEN task.columns ELSE <<"-p", task.compression>>
        /\ ValueOf("-p") = <<Numbers[IF given THEN task.compression ELSE "0"]>>
        /\ ValueOf("-f") = <<IF task.raw_data THEN "full" ELSE "summary">>

FrackerTask(task) ==
    /\ p.thrown = "none" <=>
            /\ {task.config, task.rootfile} \subseteq ExistingFile
            /\ task.columns # <<>> => Numbers[task.compression] >= 0
    /\ p.thrown = "none" => FrackerGets(task)

PumpGets(task) ==
    /\ ValueOf("-i") = task.input_files /\ ValueOf("-o") = <<task.output_file>>
    /\ ValueOf("-b") = <<Numbers["1000000"]>> /\ ValueOf("-g") = <<"data">>

PumpTask(task) ==
    LET inputs == SystemLine(task.input_files)
        paths == {task.output_file} \cup Range(task.input_files)
        whole == paths \cap DOMAIN WordsOfPath = {}
    IN  /\ p.thrown = "none" <=>
                /\ task.output_file \notin DOMAIN WordsOfPath
                /\ Range(inputs) \subseteq ExistingFile
        /\ p.thrown = "none" => PumpGets([task EXCEPT !.input_files = inputs])
        /\ p.thrown = "none" => (PumpGets(task) <=> whole)

TaskArrives ==
    Done => \A task \in Range(invocation.task) :
        CASE invocation.kind = "fracker"    -> FrackerTask(task)
          [] invocation.kind = "turbo-pump" -> PumpTask(task)
=============================================================================
