------------------------- MODULE MCConfigGeneration -------------------------
(***************************************************************************)
(* Configurations with two systems, of which the default may lack one,     *)
(* below them parameters that are integers, texts, lists or dicts.         *)
(***************************************************************************)
EXTENDS ConfigGeneration, TLC

Leaf == {Scalar(1), Scalar(2)}
List == {Seqn(<<Scalar(1), Scalar(2)>>), Seqn(<<Scalar(3)>>),
         Seqn(<<Map("a" :> Scalar(1)), Scalar(2)>>), Seqn(<<Map("a" :> Scalar(2)), Scalar(2)>>)}
Params == {Map("x" :> v) : v \in Leaf} \cup {Map("x" :> v @@ "l" :> l) : v \in {Scalar(1)}, l \in List}
          \cup {Map("x" :> Map("a" :> v)) : v \in Leaf} \cup {Map("y" :> Scalar(NotAnInt))}
Trees == {Map("t" :> p) : p \in Params} \cup {Map("d" :> Scalar(1)), Nothing}
         \cup {Map("t" :> p @@ "d" :> Map("x" :> Scalar(1))) : p \in Params}

Key(k, param, values) == [patches |-> [i \in DOMAIN values |-> Map(k :> Map(param :> values[i]))],
                          defaults |-> [i \in DOMAIN values |-> Nothing]]
Numbers == <<Scalar(1), Scalar(3), Scalar(2)>>
Template == [patches |-> <<Map("t" :> Map("x" :> Scalar(5))), Map("t" :> Map("z" :> Scalar(6)))>>,
             defaults |-> <<Map("t" :> Map("x" :> Scalar(1))), Map("t" :> Map("z" :> Scalar(1)))>>]
Open == [Template EXCEPT !.defaults = <<Nothing, Nothing>>]
Dimensions == {<<>>, <<Key("t", "x", Numbers)>>, <<Template>>, <<Open>>,
               <<Key("d", "x", SubSeq(Numbers, 1, 2)), Key("t", "y", SubSeq(Numbers, 2, 3))>>,
               <<Key("t", "l", [i \in DOMAIN Numbers |-> Seqn(<<Map("a" :> Numbers[i]), Scalar(2)>>)])>>,
               <<Key("t", "l", <<Seqn(<<Scalar(1), Scalar(2)>>), Seqn(<<Scalar(4), Scalar(2)>>)>>), Template>>}

MCProcedures ==
    {[default |-> d, init |-> i, calibration |-> c, dimensions |-> dims,
      repeat |-> 2, diff |-> diff] :
        d \in Trees, i \in Trees, c \in {Null}, dims \in Dimensions, diff \in {TRUE}}
    \cup {[default |-> d, init |-> Map("t" :> Map("x" :> Scalar(2))), calibration |-> c,
           dimensions |-> dims, repeat |-> 1, diff |-> diff] :
        d \in Trees, c \in {Null, Map("t" :> Map("x" :> Scalar(4)))},
        dims \in Dimensions, diff \in BOOLEAN}
=============================================================================
