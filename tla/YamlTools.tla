----------------------------- MODULE YamlTools -----------------------------
(***************************************************************************)
(* tools/include/yaml-tools.h with ValType = int: overlaying one YAML tree *)
(* on another, and the difference of two.                                  *)
(*                                                                         *)
(* A tree is a record with one field, named for its type:                  *)
(* [scalar |-> i], [map |-> function], [seq |-> sequence] or Null.  The    *)
(* scalar NotAnInt stands for every text that as<int>() refuses.  Thrown   *)
(* is the exception of as<int>() on what is no integer.  An element of a   *)
(* sequence is never Null.                                                 *)
(***************************************************************************)
EXTENDS Integers, Sequences

NotAnInt == -1
Scalar(i) == [scalar |-> i]
Map(f) == [map |-> f]
Seqn(s) == [seq |-> s]
Null == [null |-> TRUE]
Thrown == [thrown |-> TRUE]

Type(node) == DOMAIN node
as_int(node) == IF "scalar" \in Type(node) /\ node # Scalar(NotAnInt)
                THEN node ELSE Thrown
Throws(nodes) == Thrown \in nodes
Image(f) == {f[k] : k \in DOMAIN f}

RECURSIVE update(_, _)

(***************************************************************************)
(* update_map.  A key d1 does not have is taken over; where the types      *)
(* differ, d2 has its way unless it is Null.                               *)
(***************************************************************************)
update_mapTyped(d1, d2) ==
    LET result == [k \in DOMAIN d1 \cup DOMAIN d2 |->
                      IF k \notin DOMAIN d2 THEN d1[k]
                      ELSE IF k \notin DOMAIN d1 THEN d2[k]
                      ELSE update(d1[k], d2[k])]
    IN  IF Throws(Image(result)) THEN Thrown ELSE Map(result)
update_map(d1, d2) ==
    LET Entry(k) == IF k \notin DOMAIN d2 THEN d1[k]
                    ELSE IF k \notin DOMAIN d1 THEN d2[k]
                    ELSE IF Type(d1[k]) = Type(d2[k]) THEN update(d1[k], d2[k])
                    ELSE IF d2[k] # Null THEN d2[k] ELSE d1[k]
        result == [k \in DOMAIN d1 \cup DOMAIN d2 |-> Entry(k)]
    IN  IF Throws(Image(result)) THEN Thrown ELSE Map(result)

(***************************************************************************)
(* update_sequence.  delta is unsigned, so it is never below 0: the loop   *)
(* runs over all of d2, and the elements beyond the end of d1 are appended *)
(* by their assignment.  After the switch two elements of one type are     *)
(* compared as integers once more, whatever their type.                    *)
(***************************************************************************)
update_sequence(d1, d2) ==
    LET Element(i) ==
            IF i > Len(d2) THEN d1[i]
            ELSE IF i > Len(d1) \/ Type(d1[i]) # Type(d2[i]) THEN d2[i]
            ELSE IF Throws({update(d1[i], d2[i]), as_int(d2[i])}) THEN Thrown
            ELSE update(d1[i], d2[i])
        length == IF Len(d1) > Len(d2) THEN Len(d1) ELSE Len(d2)
        result == [i \in 1 .. length |-> Element(i)]
    IN  IF Throws(Image(result)) THEN Thrown ELSE Seqn(result)

(***************************************************************************)
(* update: d1 as it is afterwards, or Thrown.                              *)
(***************************************************************************)
update(d1, d2) ==
    CASE Type(d1) # Type(d2) -> d1
      [] Type(d1) = {"seq"} /\ Type(d2) = {"seq"} -> update_sequence(d1.seq, d2.seq)
      [] Type(d1) = {"map"} /\ Type(d2) = {"map"} -> update_map(d1.map, d2.map)
      [] Type(d1) = {"scalar"} /\ Type(d2) = {"scalar"} ->
            IF Throws({as_int(d1), as_int(d2)}) THEN Thrown ELSE d2
      [] OTHER -> d1

RECURSIVE diff_dict(_, _)

(***************************************************************************)
(* diff_sequence: all of d2 when the lengths, an integer or a map differ.  *)
(* Sequences in sequences, and elements of two types, are not looked at.   *)
(***************************************************************************)
diff_sequence(d1, d2) ==
    LET same == {i \in DOMAIN d1 : Type(d1[i]) = Type(d2[i])}
        OfType(t) == {i \in same : Type(d1[i]) = {t}}
        mapDiffs == {diff_dict(d1[i].map, d2[i].map) : i \in OfType("map")}
    IN  CASE Len(d1) # Len(d2) -> Seqn(d2)
          [] OTHER ->
              IF Throws(mapDiffs \cup {as_int(d1[i]) : i \in OfType("scalar")}
                                 \cup {as_int(d2[i]) : i \in OfType("scalar")})
              THEN Thrown
              ELSE IF mapDiffs \subseteq {Null}
                      /\ \A i \in OfType("scalar") : d1[i] = d2[i]
                   THEN Null ELSE Seqn(d2)

(***************************************************************************)
(* diff_dict: the entries of comp that root does not have, or has with     *)
(* another value.  An entry that is new or of another type is taken over   *)
(* as an integer.                                                          *)
(***************************************************************************)
diff_dict(root, comp) ==
    LET Match(k) == k \in DOMAIN root /\ Type(root[k]) = Type(comp[k])
        Potential(k) ==
            IF Match(k) /\ "map" \in Type(comp[k])
            THEN diff_dict(root[k].map, comp[k].map)
            ELSE IF Match(k) /\ "seq" \in Type(comp[k])
            THEN diff_sequence(root[k].seq, comp[k].seq)
            ELSE Null
        Found(k) == /\ Match(k)
                    /\ Type(comp[k]) # {"null"}
                    /\ "scalar" \in Type(comp[k]) => root[k] = comp[k]
                    /\ Potential(k) = Null
        Bad(k) == /\ Match(k)
                  /\ "scalar" \in Type(comp[k])
                  /\ Throws({as_int(root[k]), as_int(comp[k])})
        diff == [k \in {c \in DOMAIN comp : ~Found(c)} |->
                    IF Potential(k) = Null THEN as_int(comp[k])
                                           ELSE Potential(k)]
    IN  CASE Throws(Image(diff)) \/ \E k \in DOMAIN comp : Bad(k) -> Thrown
          [] DOMAIN diff = {} -> Null
          [] OTHER -> Map(diff)
=============================================================================
