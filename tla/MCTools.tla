------------------------------ MODULE MCTools ------------------------------
(***************************************************************************)
(* The tools on a chip of four channels, with one parameter or two in each *)
(* kind of block and the names that occur in more than one of them.        *)
(***************************************************************************)
EXTENDS Tools

YAML == INSTANCE YamlTools
MCupdated(d1, d2) == YAML!update(d1, d2)
MCUpdateThrown == YAML!Thrown

MCBlockOrder == <<"MasterTdc", "HalfWise", "cm", "Top", "ch", "calib">>
Count(b) == CASE b = "Top" -> 1
              [] b \in {"MasterTdc", "HalfWise", "calib"} -> 2
              [] OTHER -> 4
Params(b) == CASE b = "Top" -> {"S", "EN_REF_BG"}
               [] b = "MasterTdc" -> {"EN_REF_BG", "VD"}
               [] OTHER -> {"HZ"}
Blocks == {MCBlockOrder[i] : i \in DOMAIN MCBlockOrder}
MCRegisters == UNION {{b} \X (0 .. Count(b) - 1) \X Params(b) : b \in Blocks}
MChw_prefix == [p \in {"HZ"} |-> "hw_HZ"]
MCcolumn_type == [c \in ConfigColumns |-> [class |-> "integer", size |-> 1]]

(***************************************************************************)
(* Configurations: Full gives register after register its value, Overlay   *)
(* changes a channel, a half and the chip, has no value for a channel, and *)
(* leaves out the others.                                                  *)
(***************************************************************************)
BlockRank(b) == CHOOSE i \in DOMAIN MCBlockOrder : MCBlockOrder[i] = b
Value(roc, b, n, p) ==
    100 * roc + 10 * BlockRank(b) + 2 * n + (IF p \in {"S", "VD"} THEN 1 ELSE 0)
Full(rocs) ==
    YAML!Map([name \in {roc_name(r) : r \in rocs} |->
        LET roc == CHOOSE r \in rocs : roc_name(r) = name
        IN  YAML!Map([b \in Blocks |->
                YAML!Map([n \in {ToString(k) : k \in 0 .. Count(b) - 1} |->
                    LET num == CHOOSE k \in 0 .. Count(b) - 1 : ToString(k) = n
                    IN  YAML!Map([p \in Params(b) |->
                            YAML!Scalar(Value(roc, b, num, p))])])])])
One(roc, b, n, p, node) ==
    YAML!Map(roc :> YAML!Map(b :> YAML!Map(n :> YAML!Map(p :> node))))
Overlay ==
    YAML!Map("roc_s0" :> YAML!Map(
          "ch" :> YAML!Map("1" :> YAML!Map("HZ" :> YAML!Scalar(201))
                        @@ "0" :> YAML!Map("HZ" :> YAML!Null))
       @@ "HalfWise" :> YAML!Map("1" :> YAML!Map("HZ" :> YAML!Scalar(202)))
       @@ "Top" :> YAML!Map("0" :> YAML!Map("S" :> YAML!Scalar(203)))))
Target(tree) == YAML!Map([t \in {"target"} |-> tree])

MCyamls ==
       "full1" :> Target(Full({0}))
    @@ "full2" :> Target(Full({0, 1}))
    @@ "default" :> Full({0})
    @@ "defaultTarget" :> Target(Full({0}))
    @@ "overlay" :> Target(Overlay)
    @@ "text" :> Target(One("roc_s0", "Top", "0", "S", YAML!Scalar(YAML!NotAnInt)))
    @@ "noTarget" :> Overlay

(***************************************************************************)
(* Data: every channel of one ROC or of two, or nothing.                   *)
(***************************************************************************)
EventRow(chip, half, ch, n) ==
    [chip |-> chip, half |-> half, channel |-> ch, adc |-> 900 + n]
EventRows(chips) ==
    [n \in 1 .. 10 * chips |->
        EventRow((n - 1) \div 10, ((n - 1) \div 5) % 2, (n - 1) % 5, n)]
SummaryKeys == <<<<0, 0>>, <<3, 0>>, <<1, 1>>, <<2, 100>>, <<1, 0>>>>
SummaryRows ==
    [n \in DOMAIN SummaryKeys |->
        [chip |-> 0, channel |-> SummaryKeys[n][1],
         channeltype |-> SummaryKeys[n][2],
         toa_iqr |-> 800 + n, adc_mean |-> 700 + n]]
EventTree(rows) == [t \in {"unpacker_data/hgcroc"} |-> rows]
MCroots ==
       "raw1" :> EventTree(EventRows(1))
    @@ "raw2" :> EventTree(EventRows(2))
    @@ "raw0" :> EventTree(<<>>)
    @@ "sum" :> [t \in {"runsummary/summary"} |-> SummaryRows]

MCPaths == {"h1", "h2", "h3", "m"}
ConfigSets == {<<"HZ", "S">>, <<"VD", "hw_HZ">>, <<"EN_REF_BG", "VD">>, <<"S", "S">>, <<>>}
Job(d, c, i, b, s, o, f) ==
    [d |-> d, c |-> c, i |-> i, b |-> b, s |-> s, o |-> o, f |-> f]

MCJobs ==
    {Job("null", "full1", "raw1", 3, <<"channel", "adc">> \o s, "h1", "full") :
        s \in ConfigSets}
    \cup {Job("null", "full1", "raw1", b, <<"channel", "adc", "HZ">>, "h1", "full") :
        b \in {1, 5, 11}}
    \cup {Job("default", c, "sum", 2, <<"HZ", "S", "toa_iqr", "hw_HZ">>, "h2", "summary") :
        c \in {"overlay", "text", "noTarget", "full1"}}
    \cup {Job("null", "full2", i, 4, <<"HZ", "chip", "VD", "adc">>, "h2", "full") :
        i \in {"raw2", "raw0", "raw1", "sum"}}
    \cup {Job("defaultTarget", "overlay", "raw1", 4, <<"adc", "S">>, "h3", "full"),
          Job("null", "full1", "raw2", 4, <<"adc", "VD">>, "h3", "full"),
          Job("null", "full1", "raw1", 4, <<"adc", "adc", "channel">>, "h3", "full"),
          Job("null", "nofile", "raw1", 4, <<"adc">>, "h3", "full"),
          Job("null", "full1", "raw1", 0, <<"adc">>, "h3", "full"),
          Job("null", "full1", "raw1", 4, <<"adc_mean">>, "h3", "full"),
          Job("null", "full1", "raw1", 4, <<"adc">>, "h3", ""),
          Job("null", "full1", "raw1", 4, <<"channel", "adc", "HZ", "S">>, "h2", "full")}
MCMerges ==
    {[i |-> i, o |-> o, b |-> 3, g |-> "data"] :
        i \in {<<"h1", "h2">>, <<"h2", "h3", "h1">>}, o \in {"m", "h2"}}
    \cup {[i |-> <<"h1", "h1", "h2">>, o |-> "m", b |-> b, g |-> "data"] :
              b \in {0, 1, 5, 20}}
    \cup {[i |-> <<"h1", "h1">>, o |-> "m", b |-> 4, g |-> "else"],
          [i |-> <<"h1">>, o |-> "m", b |-> 4, g |-> "data"]}
=============================================================================
