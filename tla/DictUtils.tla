----------------------------- MODULE DictUtils -----------------------------
(***************************************************************************)
(* datenraffinerie/dict_utils.py: the overlay and the difference of two    *)
(* configurations.  Trees are those of YamlTools: Map is a dict, Seqn a    *)
(* list, Null is None; Raised is an exception.                             *)
(***************************************************************************)
EXTENDS YamlTools

Raised == [raised |-> TRUE]

RECURSIVE update_dict(_, _)

(***************************************************************************)
(* A list is updated element by element by one of its length.              *)
(***************************************************************************)
update_list(original, patch) ==
    LET elements == [i \in DOMAIN original |->
                        IF Type(original[i]) = {"map"}
                        THEN update_dict(original[i], patch[i]) ELSE patch[i]]
    IN  IF Len(original) # Len(patch) \/ Raised \in Image(elements)
        THEN Raised ELSE Seqn(elements)

update_value(original, patch) ==
    CASE Type(original) # Type(patch) -> patch
      [] Type(original) = {"map"} /\ Type(patch) = {"map"} -> update_dict(original, patch)
      [] Type(original) = {"seq"} /\ Type(patch) = {"seq"} -> update_list(original.seq, patch.seq)
      [] OTHER -> patch

update_dict(original, patch) ==
    IF {Type(original), Type(patch)} # {{"map"}} THEN Raised
    ELSE LET d1 == original.map
             d2 == patch.map
             result == [k \in DOMAIN d1 \cup DOMAIN d2 |->
                           IF k \notin DOMAIN d2 THEN d1[k]
                           ELSE IF k \notin DOMAIN d1 THEN d2[k]
                           ELSE update_value(d1[k], d2[k])]
         IN  IF Raised \in Image(result) THEN Raised ELSE Map(result)

RECURSIVE difference(_, _)

(***************************************************************************)
(* diff_dict of two dicts; without a difference it is None, not {}.        *)
(***************************************************************************)
difference(d1, d2) ==
    LET Both(k) == Type(d1.map[k]) = {"map"} /\ Type(d2.map[k]) = {"map"}
        Part(k) == IF k \in DOMAIN d1.map /\ Both(k)
                   THEN difference(d1.map[k], d2.map[k]) ELSE d2.map[k]
        Differs(k) == k \notin DOMAIN d1.map \/ IF Both(k) THEN Part(k) # Null
                                                ELSE d1.map[k] # d2.map[k]
        diff == [k \in {c \in DOMAIN d2.map : Differs(c)} |-> Part(k)]
    IN  IF DOMAIN diff = {} THEN Null ELSE Map(diff)
=============================================================================
