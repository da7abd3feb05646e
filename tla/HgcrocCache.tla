---------------------------- MODULE HgcrocCache ----------------------------
(***************************************************************************)
(* tools/hgcroc_caching.cc and .h: which configuration values belong to a  *)
(* channel of a ROC, and the cache that holds them for every channel; with *)
(* the tables that tools/utilities/generate_roc_structs.py generates from  *)
(* the register map of the chip.                                           *)
(*                                                                         *)
(* A key is <<roc, channel, type>>.  A configuration is a function from    *)
(* rocs to functions from registers <<block, number, parameter>> to        *)
(* values: the nesting of the YAML file below the roc.                     *)
(***************************************************************************)
EXTENDS Integers, Sequences, FiniteSets, SequencesExt, Sorting

CONSTANTS
    HalfChannels,    \* channels of one half of a ROC, 36 in the code
    MaxRoc,          \* the last ROC that has a name, 5 in the code
    Registers,       \* the register map: a set of <<block, number, param>>
    BlockOrder,      \* the blocks in the order the generator's set() gives
    hw_prefix        \* parameter -> its name with "hw_" in front

ASSUME ChannelAssumption == HalfChannels \in Nat \ {0} /\ MaxRoc \in Nat
ASSUME BlockAssumption ==
    /\ IsInjective(BlockOrder)
    /\ {r[1] : r \in Registers} = Range(BlockOrder)

ROC_CHAN_TYPE == 0
ROC_CALIB_CHAN_TYPE == 1
ROC_CM_CHAN_TYPE == 100
channel_types == {ROC_CHAN_TYPE, ROC_CALIB_CHAN_TYPE, ROC_CM_CHAN_TYPE}

channel_count ==
    [t \in channel_types |-> CASE t = ROC_CHAN_TYPE -> 2 * HalfChannels
                               [] t = ROC_CALIB_CHAN_TYPE -> 2
                               [] t = ROC_CM_CHAN_TYPE -> 4]

channel_type_name_to_index ==
    [ch |-> ROC_CHAN_TYPE, calib |-> ROC_CALIB_CHAN_TYPE, cm |-> ROC_CM_CHAN_TYPE]

CacheKeys(rocs) ==
    {key \in rocs \X (0 .. 2 * HalfChannels - 1) \X channel_types :
        key[2] < channel_count[key[3]]}

validate_key(key) ==
    /\ key[1] \in 0 .. MaxRoc + 1
    /\ key[2] \in 0 .. 2 * HalfChannels - 1
    /\ key[3] \in channel_types

(***************************************************************************)
(* A row of event data names a half and one of its channels: the channels  *)
(* proper, one calibration channel and two common mode channels.           *)
(***************************************************************************)
transform_keyUnscaled(key) ==
    LET channel == key[2]
        half == key[3]
    IN  IF channel < HalfChannels
        THEN <<key[1], channel + half * HalfChannels, ROC_CHAN_TYPE>>
        ELSE IF channel = HalfChannels
             THEN <<key[1], half, ROC_CALIB_CHAN_TYPE>>
             ELSE <<key[1], channel - (HalfChannels + 1) + half,
                    ROC_CM_CHAN_TYPE>>
transform_event_row_to_cache_key(key) ==
    LET channel == key[2]
        half == key[3]
    IN  IF channel < HalfChannels
        THEN <<key[1], channel + half * HalfChannels, ROC_CHAN_TYPE>>
        ELSE IF channel = HalfChannels
             THEN <<key[1], half, ROC_CALIB_CHAN_TYPE>>
             ELSE <<key[1], channel - (HalfChannels + 1) + half * 2,
                    ROC_CM_CHAN_TYPE>>

(***************************************************************************)
(* parse_block_types: a block is the chip's, a half's or a channel's by    *)
(* how often it occurs.                                                    *)
(***************************************************************************)
Numbers(block) == {r[2] : r \in {q \in Registers : q[1] = block}}
channel == {b \in Range(BlockOrder) :
               Cardinality(Numbers(b)) > 2 \/ b \in {"calib", "cm"}}
half_wise == {b \in Range(BlockOrder) \ channel : Cardinality(Numbers(b)) = 2}
global == {b \in Range(BlockOrder) : Cardinality(Numbers(b)) = 1}

\* The register map of the chip (HGCROC3_I2C_params_regmap.csv): the blocks of
\* a kind are numbered from 0 and have the same parameters; those of the three
\* kinds of channel have theirs in common, and there is one for each channel.
ASSUME RegisterMapAssumption ==
    /\ BlockOrder \in Seq(Range(BlockOrder))
    /\ channel = DOMAIN channel_type_name_to_index
    /\ IsFiniteSet(Registers)
    /\ \A b \in Range(BlockOrder) : Numbers(b) = 0 .. Cardinality(Numbers(b)) - 1
    /\ \A b \in channel :
        Numbers(b) = 0 .. channel_count[channel_type_name_to_index[b]] - 1
    /\ \A r \in Registers :
        /\ r = <<r[1], r[2], r[3]>>
        /\ r[1] = "HalfWise" => r[3] \in DOMAIN hw_prefix
        /\ \A b \in {r[1]} \cup (IF r[1] \in channel THEN channel ELSE {}) :
            \A n \in Numbers(b) : <<b, n, r[3]>> \in Registers
    /\ IsInjective(hw_prefix)

(***************************************************************************)
(* generate_yaml_lookup_key: the registers a column stands for, block      *)
(* after block, and in a block by number.                                  *)
(***************************************************************************)
ColumnName(block, param) ==
    IF block = "HalfWise" THEN hw_prefix[param] ELSE param

ConfigColumns == {ColumnName(r[1], r[3]) : r \in {q \in Registers : q[2] = 0}}

Instances(block, column) ==
    LET regs == {r \in Registers : /\ r[1] = block
                                   /\ r[2] = 0
                                   /\ ColumnName(block, r[3]) = column}
    IN  IF regs = {}
        THEN <<>>
        ELSE LET param == (CHOOSE r \in regs : TRUE)[3]
             IN  [i \in 1 .. Cardinality(Numbers(block)) |->
                     <<block, i - 1, param>>]

roc_config_key ==
    [c \in ConfigColumns |->
        FlattenSeq([i \in DOMAIN BlockOrder |-> Instances(BlockOrder[i], c)])]

(***************************************************************************)
(* The keys of the channels a block applies to.                            *)
(***************************************************************************)
generate_cache_key(roc, block, number) ==
    CASE block \in global -> CacheKeys({roc})
      [] block \in half_wise ->
            {key \in CacheKeys({roc}) :
                LET half == channel_count[key[3]] \div 2
                IN  \/ number = 0 /\ key[2] < half
                    \/ number = 1 /\ key[2] >= half}
      [] block \in channel ->
            {<<roc, number, channel_type_name_to_index[block]>>}
      [] OTHER -> {}

(***************************************************************************)
(* The registers of a key, in the order their values are appended to its   *)
(* entry of the cache; and the keys that get an entry.                     *)
(***************************************************************************)
Applies(key, r) == key \in generate_cache_key(key[1], r[1], r[2])

AppliedTo(key, regs) == AtPlaces(regs, {i \in DOMAIN regs : Applies(key, regs[i])})

filtered_columns(columns) ==
    AtPlaces(columns, {i \in DOMAIN columns : columns[i] \in ConfigColumns})

RegistersOf(key, columns) ==
    FlattenSeq([i \in DOMAIN filtered_columns(columns) |->
                   AppliedTo(key, roc_config_key[filtered_columns(columns)[i]])])

KeysWithRegisters(rocs, columns) ==
    {key \in CacheKeys(rocs) :
        \E c \in Range(columns) \cap ConfigColumns :
            \E i \in DOMAIN roc_config_key[c] : Applies(key, roc_config_key[c][i])}

(***************************************************************************)
(* generate_hgcroc_config_cache.  A register that is missing, or a ROC     *)
(* without a name, is an exception.                                        *)
(***************************************************************************)
CacheFails(config, rocs, columns) ==
    \E c \in Range(columns) \cap ConfigColumns, roc \in rocs :
        \E i \in DOMAIN roc_config_key[c] :
            LET r == roc_config_key[c][i]
            IN  /\ generate_cache_key(roc, r[1], r[2]) # {}
                /\ \/ roc \notin 0 .. MaxRoc \cap DOMAIN config
                   \/ r \notin DOMAIN config[roc]

generate_hgcroc_config_cache(config, rocs, columns) ==
    [key \in KeysWithRegisters(rocs, columns) |->
        LET regs == RegistersOf(key, columns)
        IN  [i \in DOMAIN regs |-> config[key[1]][regs[i]]]]
=============================================================================
