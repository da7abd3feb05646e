-------------------------- MODULE ConfigGeneration --------------------------
(***************************************************************************)
(* datenraffinerie/config_utilities.py: the configurations of the runs of  *)
(* a procedure, one patch after the other, from the generator that         *)
(* generate_configurations returns; and their first reader,                *)
(* full_config_param_generator (gen_configurations.py).                    *)
(*                                                                         *)
(* A procedure is [default, init, calibration, dimensions, repeat, diff];  *)
(* a dimension is [patches, defaults], what build_dimension_patches makes  *)
(* of its values: for a key the patches set it and the defaults are empty, *)
(* for a template both are what it renders to.                             *)
(*                                                                         *)
(* What matters here is which dicts are the same object, as some are       *)
(* updated in place.  heap holds the dicts by name: the name of the tree   *)
(* they were made for and their path in it.  A value of theirs that is a   *)
(* dict is a reference to it.  Lists are replaced, never changed.          *)
(***************************************************************************)
EXTENDS DictUtils, SequencesExt

CONSTANT Procedures

VARIABLES
    pc,             \* "generate", "runs", "done" or "raised"
    procedure,
    heap,
    system_init_config, \* a reference, or Null
    scan_patches,
    yielded,        \* references to what the generator has yielded, in order
    taken,          \* how many of them full_config_param_generator has taken
    init_file,      \* the tree of system_init_config as generated
    files           \* the trees of the yielded, written when they are yielded

generatorVars == <<system_init_config, scan_patches, yielded, init_file, files>>
vars == <<pc, procedure, heap, generatorVars, taken>>

Nothing == Map(<<>>)

(***************************************************************************)
(* Objects.                                                                *)
(***************************************************************************)
Ref(o) == [ref |-> o]
Root(name) == Ref(<<name, <<>>>>)
IsDict(v) == Type(v) \in {{"map"}, {"ref"}}

RECURSIVE DictsIn(_, _), Stored(_, _, _), Tree(_, _), Writes(_, _, _)

\* The dicts of a tree, each with its path below p.
DictsIn(tree, p) ==
    CASE Type(tree) = {"map"} ->
            {[path |-> p, map |-> tree.map]} \cup
            UNION {DictsIn(tree.map[k], Append(p, k)) : k \in DOMAIN tree.map}
      [] Type(tree) = {"seq"} ->
            UNION {DictsIn(tree.seq[i], Append(p, ToString(i))) :
                       i \in DOMAIN tree.seq}
      [] OTHER -> {}
PathsOf(tree) == {d.path : d \in DictsIn(tree, <<>>)}

\* A node at path p as a dict of the tree called name holds it.
Stored(name, node, p) ==
    CASE Type(node) = {"map"} -> Ref(<<name, p>>)
      [] Type(node) = {"seq"} ->
            Seqn([i \in DOMAIN node.seq |->
                     Stored(name, node.seq[i], Append(p, ToString(i)))])
      [] OTHER -> node

\* New dicts for a whole tree, as deepcopy and a difference to a state make
\* them.
Objects(name, tree) ==
    LET dicts == DictsIn(tree, <<>>)
    IN  [o \in {<<name, d.path>> : d \in dicts} |->
            LET d == CHOOSE e \in dicts : e.path = o[2]
            IN  [k \in DOMAIN d.map |->
                    Stored(name, d.map[k], Append(d.path, k))]]

\* The tree a value stands for.
Tree(h, v) ==
    CASE Type(v) = {"ref"} ->
            Map([k \in DOMAIN h[v.ref] |-> Tree(h, h[v.ref][k])])
      [] Type(v) = {"seq"} ->
            Seqn([i \in DOMAIN v.seq |-> Tree(h, v.seq[i])])
      [] OTHER -> v

(***************************************************************************)
(* update_dict(o, d, in_place=True): the writes [dict, key, value] it      *)
(* makes.  A key that is new, or has a value of another type, gets the     *)
(* update's own value: a dict of the update is then a dict of o as well.   *)
(***************************************************************************)
Writes(h, o, d) ==
    UNION {
        LET new == h[d][k]
            old == IF k \in DOMAIN h[o] THEN h[o][k] ELSE Null
            Write(v) == {[dict |-> o, key |-> k, value |-> v]}
        IN  CASE Type(old) # Type(new) -> Write(new)
              [] Type(old) = {"ref"} /\ Type(new) = {"ref"} ->
                    Writes(h, old.ref, new.ref)
              [] Type(old) = {"seq"} /\ Type(new) = {"seq"} ->
                    LET kept == {i \in DOMAIN old.seq : IsDict(old.seq[i])}
                    IN  Write(Seqn([i \in DOMAIN new.seq |->
                                       IF i \in kept THEN old.seq[i]
                                                     ELSE new.seq[i]])) \cup
                        UNION {Writes(h, old.seq[i].ref, new.seq[i].ref) :
                                   i \in kept}
              [] OTHER -> Write(new) :
        k \in DOMAIN h[d]}

\* Mutant: what is updated is a copy, which is dropped.
UpdateOfACopy(h, o, d) == h

UpdateInPlace(h, o, d) ==
    LET writes == Writes(h, o.ref, d.ref)
        To(p, k) == {w \in writes : w.dict = p /\ w.key = k}
    IN  [p \in DOMAIN h |->
            [k \in DOMAIN h[p] \cup {w.key : w \in {v \in writes : v.dict = p}} |->
                IF To(p, k) = {} THEN h[p][k]
                                 ELSE (CHOOSE w \in To(p, k) : TRUE).value]]

(***************************************************************************)
(* build_scan_patches: every combination of the dimensions' patches, over  *)
(* the defaults of all dimensions.                                         *)
(***************************************************************************)
RECURSIVE build_scan_patches(_, _, _)
build_scan_patches(dims, default, current_patch) ==
    LET With(i) == IF Len(dims) > 1
                   THEN build_scan_patches(Tail(dims), default,
                            update_dict(current_patch, dims[1][i]))
                   ELSE <<update_dict(update_dict(default, current_patch), dims[1][i])>>
    IN  FlattenSeq([i \in DOMAIN dims[1] |-> With(i)])

complete_deflt(dimensions) ==
    FoldLeft(update_dict, Nothing,
             FlattenSeq([d \in DOMAIN dimensions |-> dimensions[d].defaults]))

generate_patches(dimensions) ==
    IF dimensions = <<>> THEN <<Nothing>>
    ELSE build_scan_patches([d \in DOMAIN dimensions |-> dimensions[d].patches],
                            complete_deflt(dimensions), Nothing)

(***************************************************************************)
(* The configuration that the system is to have before the first run.      *)
(***************************************************************************)
Initial(p) ==
    update_dict(p.default, IF p.calibration = Null THEN p.init
                           ELSE update_dict(p.init, p.calibration))

Init ==
    /\ pc = "generate"
    /\ procedure \in Procedures
    /\ heap = <<>>
    /\ system_init_config = Null
    /\ scan_patches = <<>>
    /\ yielded = <<>>
    /\ taken = 0
    /\ init_file = Null
    /\ files = <<>>

full_system_init_config == Tree(heap, Root("full_system_init_config"))
current_state == Tree(heap, Root("current_state"))
current_config == Tree(heap, Root("current_config"))

\* diff_dict of the default and the initial configuration: dicts both have are
\* new in the difference, others are those of the initial configuration.
InitDifference(diff) ==
    LET Known(p) == p \in PathsOf(procedure.default)
        Name(node, p) == IF Type(node) = {"map"} /\ Known(p)
                         THEN "system_init_config"
                         ELSE "full_system_init_config"
        dicts == {d \in DictsIn(diff, <<>>) : Known(d.path)}
    IN  [o \in {<<"system_init_config", d.path>> : d \in dicts} |->
            LET d == CHOOSE e \in dicts : e.path = o[2]
            IN  [k \in DOMAIN d.map |->
                    LET p == Append(d.path, k)
                    IN  Stored(Name(d.map[k], p), d.map[k], p)]]

\* current_state is a shallow copy of full_system_init_config: the dicts below
\* its keys are the same objects.  The configuration of the reader is a copy.
InitialObjects(initial, diff) ==
    LET full == Objects("full_system_init_config", initial)
        root == full[<<"full_system_init_config", <<>>>>]
    IN  full @@ <<"current_state", <<>>>> :> root
             @@ IF diff = Null THEN <<>>
                ELSE InitDifference(diff) @@
                     Objects("current_config", update_dict(procedure.default, diff))

generate_configurations ==
    LET initial == Initial(procedure)
        diff == difference(procedure.default, initial)
        patches == generate_patches(procedure.dimensions)
    IN  /\ pc = "generate"
        /\ IF initial = Raised \/ Raised \in Range(patches)
           THEN /\ pc' = "raised"
                /\ UNCHANGED <<heap, generatorVars>>
           ELSE /\ pc' = "runs"
                /\ IF procedure.diff
                   THEN /\ heap' = InitialObjects(initial, diff)
                        /\ init_file' = diff
                   ELSE /\ heap' = Objects("full_system_init_config", initial)
                        /\ init_file' = initial
                /\ system_init_config' =
                       CASE ~procedure.diff -> Root("full_system_init_config")
                         [] procedure.diff /\ diff = Null -> Null
                         [] OTHER -> Root("system_init_config")
                /\ scan_patches' = patches
                /\ UNCHANGED <<yielded, files>>
        /\ UNCHANGED <<procedure, taken>>

NextPatch == scan_patches[(Len(yielded) % Len(scan_patches)) + 1]
MoreRuns == Len(yielded) < Len(scan_patches) * procedure.repeat

(***************************************************************************)
(* One iteration of run_config_generator; the thread that draws it writes  *)
(* what it yields to the run's file before it goes on.                     *)
(***************************************************************************)
RunConfig == update_dict(full_system_init_config, NextPatch)
RunDiff == difference(current_state, RunConfig)

Yield(tree) ==
    LET name == ToString(Len(yielded) + 1)
        h == Objects(name, tree) @@ heap
    IN  /\ yielded' = Append(yielded, Root(name))
        /\ files' = Append(files, tree)
        /\ heap' = IF procedure.diff
                   THEN UpdateInPlace(h, Root("current_state"), Root(name))
                   ELSE h

YieldConfig ==
    /\ pc = "runs"
    /\ MoreRuns
    /\ IF \/ RunConfig = Raised
          \/ /\ procedure.diff
             /\ RunDiff # Null
             /\ update_dict(current_state, RunDiff) = Raised
       THEN /\ pc' = "raised"
            /\ UNCHANGED <<heap, yielded, files>>
       ELSE /\ Yield(CASE ~procedure.diff -> RunConfig
                       [] procedure.diff /\ RunDiff = Null -> Nothing
                       [] OTHER -> RunDiff)
            /\ pc' = pc
    /\ UNCHANGED <<procedure, system_init_config, scan_patches, init_file, taken>>

EndRuns ==
    /\ pc = "runs"
    /\ ~MoreRuns
    /\ pc' = "done"
    /\ UNCHANGED <<procedure, heap, generatorVars, taken>>

(***************************************************************************)
(* One iteration of full_config_param_generator, in a thread of its own:   *)
(* its configuration is updated in place with the dicts that were yielded. *)
(* main comes so far only with a system_init_config.                       *)
(***************************************************************************)
TakeConfig ==
    /\ procedure.diff /\ system_init_config # Null
    /\ taken < Len(yielded)
    /\ update_dict(current_config, Tree(heap, yielded[taken + 1])) # Raised
    /\ heap' = UpdateInPlace(heap, Root("current_config"), yielded[taken + 1])
    /\ taken' = taken + 1
    /\ UNCHANGED <<pc, procedure, generatorVars>>

Next == generate_configurations \/ YieldConfig \/ EndRuns \/ TakeConfig
Spec == Init /\ [][Next]_vars
-----------------------------------------------------------------------------
RECURSIVE LeavesOf(_)

(***************************************************************************)
(* The leaves of a tree: the paths of keys to what is no dict.             *)
(***************************************************************************)
LeavesOf(tree) ==
    IF Type(tree) # {"map"} THEN {<<>>}
    ELSE UNION {{<<k>> \o leaf : leaf \in LeavesOf(tree.map[k])} : k \in DOMAIN tree.map}
ValueAt(tree, leaf) == FoldLeft(LAMBDA node, k : node.map[k], tree, leaf)

(***************************************************************************)
(* What the system is left with by the initial configuration and the       *)
(* first n runs, when each is written over what is there.                  *)
(***************************************************************************)
Applied(n) ==
    FoldLeft(update_dict, procedure.default,
             (IF init_file = Null THEN <<>> ELSE <<init_file>>)
                 \o SubSeq(files, 1, n))
SameLeaves == \A i, j \in DOMAIN scan_patches :
                  LeavesOf(scan_patches[i]) = LeavesOf(scan_patches[j])
Specified(n) == update_dict(Initial(procedure),
                            scan_patches[((n - 1) % Len(scan_patches)) + 1])

(***************************************************************************)
(* The runs set parameters of dicts the initial configuration has, and     *)
(* that one of dicts the default has; none is in a list.                   *)
(***************************************************************************)
Knows(base, tree) == PathsOf(tree) \subseteq PathsOf(base)
KnownDicts ==
    /\ Knows(procedure.default, Initial(procedure))
    /\ \A patch \in Range(scan_patches) : Knows(Initial(procedure), patch)
    /\ \A d \in DictsIn(Initial(procedure), <<>>) :
          \A v \in Image(d.map) : Type(v) = {"seq"} => DictsIn(v, <<>>) = {}

\* The trees are dicts, and references are to dicts.
TypeOK ==
    /\ pc \in {"generate", "runs", "done", "raised"}
    /\ Len(files) = Len(yielded) /\ taken \in 0..Len(yielded)
    /\ \A v \in UNION {Image(heap[o]) : o \in DOMAIN heap} \cup Range(yielded) :
          Type(v) = {"ref"} => v.ref \in DOMAIN heap
    /\ pc = "done" => Len(yielded) = Len(scan_patches) * procedure.repeat

(***************************************************************************)
(* The difference sent to initialise the system leaves it with every leaf  *)
(* of the initial configuration, and of the default where the initial one  *)
(* says nothing, through overlay, difference and overlay again.            *)
(***************************************************************************)
InitAsSpecified ==
    pc = "runs" /\ procedure.calibration = Null =>
        LET start == Applied(0)
        IN  \A leaf \in LeavesOf(procedure.init) :
                /\ leaf \in LeavesOf(start)
                /\ ValueAt(start, leaf) = ValueAt(procedure.init, leaf)

(***************************************************************************)
(* When all patches of a scan set the same parameters, as those of keys    *)
(* do and those of templates whose default resets what they set, each run  *)
(* finds the system in the initial configuration with its own patch,       *)
(* although the differences are to a state that is updated in place        *)
(* together with the initial one (config_utilities.py:59).  With dicts     *)
(* that are new to the state this holds of the files, and only until the   *)
(* reader updates the dicts the generator has yielded.                     *)
(***************************************************************************)
RunsAsSpecified ==
    files # <<>> /\ SameLeaves /\ (KnownDicts \/ taken = 0) =>
        Applied(Len(files)) = Specified(Len(files))

(***************************************************************************)
(* When no run brings a new dict, what was yielded, and the difference     *)
(* sent to initialise the system, stay as they were written to the files,  *)
(* however far generator and reader have gone on since; and the reader's   *)
(* configuration is that of the run it has taken.                          *)
(***************************************************************************)
YieldedAsWritten ==
    KnownDicts =>
        /\ \A n \in DOMAIN yielded : Tree(heap, yielded[n]) = files[n]
        /\ Tree(heap, system_init_config) = init_file
        /\ taken > 0 /\ SameLeaves => current_config = Specified(taken)

(***************************************************************************)
(* From the first configuration to the last run, the system has what the   *)
(* procedure says.                                                         *)
(***************************************************************************)
GenerationAsSpecified ==
    TypeOK /\ InitAsSpecified /\ RunsAsSpecified /\ YieldedAsWritten

(***************************************************************************)
(* The overlay of the tools (yaml-tools.h) and that of the generator agree *)
(* on what both can read: dicts of integers and of lists of integers of    *)
(* the same length.  What the tools find to be the difference of the two   *)
(* states, where they find one without an exception, overlaid leads from   *)
(* one to the other (yaml_test.cpp:78-82 goes this way).                   *)
(***************************************************************************)
RECURSIVE BothRead(_, _)
BothRead(a, b) ==
    CASE Type(a) # Type(b) -> {Type(a), Type(b)} \cap {{"null"}} = {}
      [] Type(a) = {"map"} /\ Type(b) = {"map"} ->
            \A k \in DOMAIN a.map \cap DOMAIN b.map : BothRead(a.map[k], b.map[k])
      [] Type(a) = {"seq"} /\ Type(b) = {"seq"} ->
            /\ Len(a.seq) = Len(b.seq)
            /\ \A i \in DOMAIN a.seq : Type(a.seq[i]) = {"scalar"} /\ a.seq[i] # Scalar(NotAnInt)
                                    /\ Type(b.seq[i]) = {"scalar"} /\ b.seq[i] # Scalar(NotAnInt)
      [] OTHER -> {a, b} \cap {Scalar(NotAnInt), Null} = {}

OverlaysAgree ==
    pc = "runs" /\ MoreRuns /\ BothRead(full_system_init_config, NextPatch) =>
        LET diff == diff_dict(full_system_init_config.map, RunConfig.map)
        IN  /\ update(full_system_init_config, NextPatch) = RunConfig
            /\ diff = Null => RunConfig = full_system_init_config
            /\ diff \notin {Null, Thrown} =>
                   update(full_system_init_config, diff) = RunConfig
=============================================================================
