----------------------------- MODULE RootTools -----------------------------
(***************************************************************************)
(* tools/root-tools.cc and .h: the columns of the two trees a root file    *)
(* can have, the fields of the structures a row is read into, and the      *)
(* types of these columns in the hdf table.  A type is its class and size. *)
(***************************************************************************)
EXTENDS Integers, Sequences, SequencesExt, Sorting

Int4 == [class |-> "integer", size |-> 4]
Int2 == [class |-> "integer", size |-> 2]
Float4 == [class |-> "float", size |-> 4]

(***************************************************************************)
(* struct hgcroc_data: full data, one row per event and channel.           *)
(***************************************************************************)
hgcroc_data_entry ==
    [c \in {"event", "chip", "half", "channel", "adc", "adcm", "tot", "toa",
            "totflag", "trigtime", "trigwidth", "corruption", "bxcounter",
            "eventcounter", "orbitcounter", "errorbit", "channelsumid",
            "rawsum", "decompresssum"} |->
        IF c = "decompresssum" THEN Float4 ELSE Int4]

hgcroc_data_hdf_type ==
    [c \in DOMAIN hgcroc_data_entry |->
        IF c = "decompresssum" THEN Float4 ELSE Int4]

(***************************************************************************)
(* struct hgcroc_summary_data: one row per channel.                        *)
(***************************************************************************)
SummaryShorts ==
    {"channel", "channeltype", "adc_median", "adc_iqr", "tot_median",
     "tot_iqr", "toa_median", "toa_iqr"}
SummaryFloats ==
    {"adc_mean", "adc_stdd", "tot_mean", "tot_stdd", "tot_efficiency",
     "tot_efficiency_error", "toa_mean", "toa_stdd", "toa_efficiency",
     "toa_efficiency_error"}

hgcroc_summary_entry ==
    [c \in {"chip"} \cup SummaryShorts \cup SummaryFloats |->
        CASE c = "chip" -> Int4
          [] c \in SummaryShorts -> Int2
          [] c \in SummaryFloats -> Float4]

hgcroc_summary_hdf_type ==
    [c \in DOMAIN hgcroc_summary_entry |->
        CASE c = "chip" -> Int4
          [] c \in SummaryShorts \ {"toa_iqr"} -> Int2
          [] c \in SummaryFloats \cup {"toa_iqr"} -> Float4]

Entry(event_mode) == IF event_mode THEN hgcroc_data_entry
                                   ELSE hgcroc_summary_entry
get_hdf_type(event_mode) == IF event_mode THEN hgcroc_data_hdf_type
                                          ELSE hgcroc_summary_hdf_type

(***************************************************************************)
(* filter_measurement_columns: the requested columns that the tree has, in *)
(* the order they were requested.                                          *)
(***************************************************************************)
event_mode_data_columns ==
    {"event", "chip", "half", "channel", "adc", "adcm", "toa", "tot",
     "totflag", "trigtime", "trigwidth", "corruption", "bxcounter",
     "eventcounter", "orbitcounter"}
summary_data_columns ==
    {"chip", "channel", "channeltype", "adc_median", "adc_iqr", "tot_median",
     "tot_iqr", "toa_median", "toa_iqr", "toa_mean", "tot_mean", "adc_mean",
     "adc_stdd", "toa_stdd", "tot_stdd", "tot_efficiency",
     "tot_efficiency_error", "toa_efficiency", "toa_efficiency_error"}

filter_measurement_columns(event_mode, columns) ==
    AtPlaces(columns, {i \in DOMAIN columns :
                          columns[i] \in IF event_mode
                                         THEN event_mode_data_columns
                                         ELSE summary_data_columns})

(***************************************************************************)
(* openRootTree finds the tree of the mode, or throws.                     *)
(***************************************************************************)
openRootTree(trees, event_mode) ==
    LET name == IF event_mode THEN "unpacker_data/hgcroc"
                              ELSE "runsummary/summary"
    IN  IF name \in DOMAIN trees
        THEN [thrown |-> FALSE, rows |-> trees[name]]
        ELSE [thrown |-> TRUE, rows |-> <<>>]
=============================================================================
