---------------------------- MODULE ToolsProofs ----------------------------
(***************************************************************************)
(* Proofs about Tools: what the fracker writes, whatever the block size    *)
(* and whatever the configuration of the chip, and what turbo-pump makes   *)
(* of files.                                                               *)
(***************************************************************************)
EXTENDS Tools, SequenceLemmas

(***************************************************************************)
(* Sequences of anything: a sequence of its own items.                     *)
(***************************************************************************)
IsSeq(s) == s \in Seq(Elems(s))

\* A sequence over a set is a sequence of its own items.
LEMMA SeqIsSeq ==
    ASSUME NEW S, NEW s \in Seq(S)
    PROVE  IsSeq(s) /\ Len(s) \in Nat /\ DOMAIN s = 1..Len(s)
  <1>1. Len(s) \in Nat /\ DOMAIN s = 1..Len(s) /\ s \in [1..Len(s) -> S]
    BY LenProperties
  <1>2. s \in [1..Len(s) -> Elems(s)]
    BY <1>1 DEF Elems
  <1>3. QED
    BY <1>1, <1>2 DEF IsSeq

\* A sequence that is given by its items.
LEMMA FunctionIsSeq ==
    ASSUME NEW n \in Nat, NEW s, s = [i \in 1..n |-> s[i]]
    PROVE  IsSeq(s) /\ Len(s) = n
  <1>1. s \in [1..n -> {s[i] : i \in 1..n}]
    OBVIOUS
  <1>2. s \in Seq({s[i] : i \in 1..n}) /\ Len(s) = n
    BY <1>1, LenProperties
  <1>3. QED
    BY <1>2, SeqIsSeq

\* Length and items of a sequence of anything.
LEMMA IsSeqProperties ==
    ASSUME NEW s, IsSeq(s)
    PROVE  /\ Len(s) \in Nat /\ DOMAIN s = 1..Len(s)
           /\ s = [i \in 1..Len(s) |-> s[i]]
           /\ Len(s) = 0 <=> s = <<>>
  <1>1. s \in Seq(Elems(s))
    BY DEF IsSeq
  <1>2. QED
    BY <1>1, LenProperties, EmptySeq

\* The empty sequence is one.
LEMMA EmptyIsSeq == IsSeq(<<>>) /\ Len(<<>>) = 0
  BY EmptySeq, SeqIsSeq

\* One sequence behind another.
LEMMA ConcatIsSeq ==
    ASSUME NEW s, NEW t, IsSeq(s), IsSeq(t)
    PROVE  /\ IsSeq(s \o t) /\ Len(s \o t) = Len(s) + Len(t)
           /\ \A i \in 1..Len(s) : (s \o t)[i] = s[i]
           /\ \A i \in 1..Len(t) : (s \o t)[Len(s) + i] = t[i]
  <1> DEFINE U == Elems(s) \cup Elems(t)
  <1>1. s \in Seq(U) /\ t \in Seq(U)
    <2>1. Elems(s) \subseteq U /\ Elems(t) \subseteq U
      OBVIOUS
    <2> HIDE DEF U
    <2>2. QED
      BY <2>1, SeqMonotonic DEF IsSeq
  <1> HIDE DEF U
  <1>2. s \o t \in Seq(U) /\ Len(s \o t) = Len(s) + Len(t)
        /\ \A i \in 1..(Len(s) + Len(t)) :
              (s \o t)[i] = IF i <= Len(s) THEN s[i] ELSE t[i - Len(s)]
    BY <1>1, ConcatProperties
  <1>3. Len(s) \in Nat /\ Len(t) \in Nat
    BY <1>1, LenProperties
  <1>4. /\ \A i \in 1..Len(s) : i \in 1..(Len(s) + Len(t)) /\ i <= Len(s)
        /\ \A i \in 1..Len(t) : /\ Len(s) + i \in 1..(Len(s) + Len(t))
                                /\ ~(Len(s) + i <= Len(s))
                                /\ (Len(s) + i) - Len(s) = i
    BY <1>3
  <1>5. QED
    BY <1>2, <1>4, SeqIsSeq

\* Nothing behind or before a sequence, and three of them.
LEMMA ConcatNothing ==
    ASSUME NEW s, IsSeq(s)
    PROVE  s \o <<>> = s /\ <<>> \o s = s
  BY ConcatEmptySeq DEF IsSeq

\* Three sequences, one behind the other.
LEMMA ConcatThree ==
    ASSUME NEW s, NEW t, NEW u, IsSeq(s), IsSeq(t), IsSeq(u)
    PROVE  (s \o t) \o u = s \o (t \o u)
  <1> DEFINE U == Elems(s) \cup Elems(t) \cup Elems(u)
  <1>1. s \in Seq(U) /\ t \in Seq(U) /\ u \in Seq(U)
    <2>1. Elems(s) \subseteq U /\ Elems(t) \subseteq U /\ Elems(u) \subseteq U
      OBVIOUS
    <2> HIDE DEF U
    <2>2. QED
      BY <2>1, SeqMonotonic DEF IsSeq
  <1> HIDE DEF U
  <1>2. QED
    BY <1>1, ConcatAssociative

\* A part of a sequence, from a place on.
LEMMA PartIsSeq ==
    ASSUME NEW s, IsSeq(s), NEW a \in Nat, NEW b \in Nat, a <= b, b <= Len(s)
    PROVE  /\ IsSeq(SubSeq(s, a + 1, b)) /\ Len(SubSeq(s, a + 1, b)) = b - a
           /\ \A i \in 1..(b - a) : SubSeq(s, a + 1, b)[i] = s[a + i]
  <1>1. s \in Seq(Elems(s)) /\ Len(s) \in Nat
    BY IsSeqProperties DEF IsSeq
  <1>2. SubSeq(s, a + 1, b) = [i \in 1..(b - a) |-> s[a + i]]
    <2>1. \A i \in 1..(b - a) : i + (a + 1) - 1 = a + i
      OBVIOUS
    <2>2. SubSeq(s, a + 1, b) = [i \in 1..(1 + b - (a + 1)) |-> s[i + (a + 1) - 1]]
      OBVIOUS
    <2>3. 1 + b - (a + 1) = b - a
      OBVIOUS
    <2>4. QED
      BY <2>1, <2>2, <2>3
  <1>3. b - a \in Nat
    OBVIOUS
  <1>4. QED
    BY <1>2, <1>3, FunctionIsSeq

\* The items at some places of a sequence are a sequence of as many of its
\* items as there are places.
LEMMA AtPlacesIsSeq ==
    ASSUME NEW s, IsSeq(s), NEW places \in SUBSET (1..Len(s))
    PROVE  /\ IsSeq(AtPlaces(s, places))
           /\ \A k \in 1..Len(AtPlaces(s, places)) :
                 \E i \in places : AtPlaces(s, places)[k] = s[i]
           /\ places # {} => AtPlaces(s, places) # <<>>
           /\ Len(AtPlaces(s, places)) = Cardinality(places)
           /\ Distinct(s) => Distinct(AtPlaces(s, places))
  <1> DEFINE n == Cardinality(places)
             order == Sorted(places)
             part == AtPlaces(s, places)
  <1>1. Len(s) \in Nat
    BY IsSeqProperties
  <1>2. IsFiniteSet(places) /\ places \in SUBSET Int
    <2>1. IsFiniteSet(1..Len(s))
      BY <1>1, FS_Interval
    <2>2. IsFiniteSet(places)
      BY <2>1, FS_Subset
    <2>3. QED
      BY <1>1, <2>2
  <1>3. /\ n \in Nat /\ order \in [1..n -> places]
        /\ \A i, j \in 1..n : order[i] = order[j] => i = j
    BY <1>2, SortedIsBijection
  <1>4. part = [k \in 1..n |-> s[order[k]]]
    <2> HIDE DEF n, order
    <2>1. DOMAIN order = 1..n
      BY <1>3
    <2>2. QED
      BY <2>1 DEF AtPlaces, order
  <1>5. places # {} => n # 0
    BY <1>2, FS_EmptySet
  <1> HIDE DEF n, order, part
  <1>6. IsSeq(part) /\ Len(part) = n
    <2>1. part = [k \in 1..n |-> part[k]]
      BY <1>4
    <2>2. QED
      BY <1>3, <2>1, FunctionIsSeq
  <1>7. \A k \in 1..n : order[k] \in places /\ part[k] = s[order[k]]
    BY <1>3, <1>4
  <1>8. n # 0 => part # <<>>
    BY <1>6, EmptyIsSeq
  <1>9. Distinct(s) => Distinct(part)
    <2>1. \A k \in 1..n : order[k] \in 1..Len(s)
      BY <1>7
    <2>2. QED
      BY <1>3, <1>6, <1>7, <2>1 DEF Distinct
  <1>10. QED
    BY <1>5, <1>6, <1>7, <1>8, <1>9 DEF part, n
-----------------------------------------------------------------------------
(***************************************************************************)
(* Blocks of rows.                                                         *)
(***************************************************************************)

\* The block a row is in, and its place there.
LEMMA QuotientAndRest ==
    ASSUME NEW a \in Nat, NEW b \in Nat \ {0}, NEW q \in Nat,
           b * q <= a, a < b * q + b
    PROVE  a \div b = q /\ a % b = a - b * q
  <1>1. a \div b = q
    <2>1. (a \div b) \in Nat /\ (a \div b) * b <= a /\ a < ((a \div b) + 1) * b
      BY DivisionBounds
    <2>2. q <= a \div b
      <3>1. q * b <= a
        OBVIOUS
      <3>2. QED
        BY <3>1, DivisionLargest
    <2>3. CASE q + 1 <= a \div b
      <3>1. (q + 1) * b <= (a \div b) * b
        BY <2>1, <2>3, ProductMonotone
      <3>2. (q + 1) * b = b * q + b
        OBVIOUS
      <3>3. (q + 1) * b \in Int /\ (a \div b) * b \in Int
        BY <2>1
      <3>4. QED
        BY <2>1, <3>1, <3>2, <3>3
    <2>4. QED
      BY <2>1, <2>2, <2>3
  <1>2. a % b = a - b * (a \div b)
    OBVIOUS
  <1>3. QED
    BY <1>1, <1>2

\* Where the counters of the fracker are when a block ends: in the last block
\* exactly if it is no full one, or nothing is left for it.
LEMMA BlockEnds ==
    ASSUME NEW n \in Nat, NEW b \in Nat \ {0}, NEW k \in Nat, NEW r \in Nat,
           k < (n \div b) + 1, b * k <= r, r <= b * (k + 1), r <= n,
           ~(r < b * (k + 1) /\ r < n)
    PROVE  /\ b * (k + 1) = b * k + b /\ b * k \in Nat /\ b * k <= n
           /\ k + 1 = (n \div b) + 1 =>
                 r = n /\ n < b * k + b /\ n % b = n - b * k
           /\ k + 1 # (n \div b) + 1 =>
                 /\ r = b * k + b
                 /\ k + 1 < (n \div b) + 1
                 /\ r = n => n % b = 0
  <1> DEFINE q == n \div b
  <1>1. q \in Nat /\ q * b <= n /\ n < (q + 1) * b
    BY DivisionBounds
  <1>2. b * (k + 1) = b * k + b /\ b * k \in Nat
    OBVIOUS
  <1> HIDE DEF q
  <1>3. k <= q /\ b * k <= n
    <2>1. k <= q
      BY <1>1 DEF q
    <2>2. k * b <= q * b
      BY <1>1, <2>1, ProductMonotone
    <2>3. k * b = b * k /\ q * b \in Int
      BY <1>1
    <2>4. QED
      BY <1>1, <1>2, <2>1, <2>2, <2>3
  <1>4. ASSUME k = q
        PROVE  r = n /\ n < b * k + b /\ n % b = n - b * k
    <2>1. (q + 1) * b = b * k + b
      BY <1>1, <1>4
    <2>2. n < b * k + b
      BY <1>1, <2>1
    <2>3. r = n
      BY <1>2, <2>2
    <2>4. n % b = n - b * k
      BY <1>2, <1>3, <2>2, QuotientAndRest
    <2>5. QED
      BY <2>2, <2>3, <2>4
  <1>5. ASSUME k # q
        PROVE  r = b * k + b /\ k + 1 < q + 1 /\ (r = n => n % b = 0)
    <2>1. k + 1 <= q
      BY <1>1, <1>3, <1>5
    <2>2. (k + 1) * b <= q * b
      BY <1>1, <2>1, ProductMonotone
    <2>3. b * k + b <= n
      <3>1. (k + 1) * b = b * k + b /\ q * b \in Int
        BY <1>1
      <3>2. QED
        BY <1>1, <1>2, <2>2, <3>1
    <2>4. r = b * k + b
      BY <1>2, <2>3
    <2>5. r = n => n % b = 0
      <3>1. b * (k + 1) \in Nat /\ k + 1 \in Nat
        BY <1>2
      <3>2. ASSUME r = n
            PROVE  n % b = 0
        <4>1. b * (k + 1) <= n /\ n < b * (k + 1) + b /\ n - b * (k + 1) = 0
          BY <1>2, <2>4, <3>1, <3>2
        <4>2. QED
          BY <3>1, <4>1, QuotientAndRest
      <3>3. QED
        BY <3>2
    <2>6. QED
      BY <1>1, <2>1, <2>4, <2>5
  <1>6. k + 1 = q + 1 <=> k = q
    BY <1>1
  <1>7. QED
    BY <1>2, <1>3, <1>4, <1>5, <1>6 DEF q
-----------------------------------------------------------------------------
(***************************************************************************)
(* Types, tables and files as the tools make them.                         *)
(***************************************************************************)
IsType(type) ==
    /\ type = [members |-> type.members, size |-> type.size]
    /\ IsSeq(type.members) /\ type.members # <<>>

IsTable(table) ==
    /\ table = [type |-> table.type, chunk |-> table.chunk,
                fields |-> table.fields, rows |-> table.rows]
    /\ IsType(table.type)
    /\ IsSeq(table.rows)

IsFunction(f) == f = [x \in DOMAIN f |-> f[x]]

IsFile(file) ==
    /\ IsFunction(file)
    /\ \A g \in DOMAIN file :
        /\ IsFunction(file[g])
        /\ \A t \in DOMAIN file[g] : IsTable(file[g][t])

AreFiles(files) == IsFunction(files) /\ \A p \in DOMAIN files : IsFile(files[p])

\* A type is no invalid handle, and neither is a table.
LEMMA HandlesDiffer ==
    /\ \A type : IsType(type) => type # NoType
    /\ \A table : IsTable(table) => table # NoTable
  <1>1. ASSUME NEW type, IsType(type)
        PROVE  type # NoType
    <2>1. [members |-> type.members, size |-> type.size] # [not_a_type |-> TRUE]
      OBVIOUS
    <2>2. QED
      BY <1>1, <2>1 DEF IsType, NoType
  <1>2. ASSUME NEW table, IsTable(table)
        PROVE  table # NoTable
    <2>1. [type |-> table.type, chunk |-> table.chunk,
           fields |-> table.fields, rows |-> table.rows] # [rows |-> <<>>]
      OBVIOUS
    <2>2. QED
      BY <1>2, <2>1 DEF IsTable, NoTable
  <1>3. QED
    BY <1>1, <1>2

\* The type of a table that has columns, the second of a name left out.
LEMMA CompoundIsType ==
    ASSUME NEW names, IsSeq(names), NEW types
    PROVE  \/ create_compund_datatype(names, types) = NoType
           \/ IsType(create_compund_datatype(names, types))
  <1>1. CASE names = <<>>
    BY <1>1 DEF create_compund_datatype
  <1>2. CASE names # <<>>
    <2> DEFINE type == create_compund_datatype(names, types)
               first == {i \in DOMAIN names : \A j \in 1 .. i - 1 : names[j] # names[i]}
    <2>1. PICK columns, size :
             /\ columns = [i \in DOMAIN names |-> columns[i]]
             /\ type = [members |-> AtPlaces(columns, first), size |-> size]
      BY <1>2 DEF create_compund_datatype
    <2>2. IsSeq(columns) /\ Len(columns) = Len(names) /\ Len(names) \in Nat
      BY <2>1, IsSeqProperties, FunctionIsSeq
    <2>3. first \in SUBSET (1..Len(columns)) /\ 1 \in first
      <3>1. DOMAIN names = 1..Len(names) /\ Len(names) # 0
        BY <1>2, IsSeqProperties
      <3>2. 1 \in 1..Len(names) /\ 1..(1 - 1) = {}
        BY <2>2, <3>1
      <3>3. QED
        BY <2>2, <3>1, <3>2
    <2> HIDE DEF type, first
    <2>4. IsSeq(AtPlaces(columns, first)) /\ AtPlaces(columns, first) # <<>>
      BY <2>2, <2>3, AtPlacesIsSeq
    <2>5. type.members = AtPlaces(columns, first) /\ type.size = size
      BY <2>1
    <2>6. QED
      BY <2>1, <2>4, <2>5 DEF IsType, type
  <1>3. QED
    BY <1>1, <1>2

\* Files of which one is new.
HasNew(new, files, path, file) ==
    /\ AreFiles(new) /\ DOMAIN new = DOMAIN files \cup {path}
    /\ new[path] = file
    /\ \A p \in DOMAIN files : p # path => new[p] = files[p]

\* A file written at a path is the one that is found there.
LEMMA StoredFile ==
    ASSUME NEW files, AreFiles(files), NEW path, NEW file, IsFile(file)
    PROVE  HasNew(Stored(files, path, file), files, path, file)
  BY DEF HasNew, Stored, IsFunction, AreFiles

HasTable(file, group, name) == group \in DOMAIN file /\ name \in DOMAIN file[group]

\* A table that can be opened is one, and is there.
LEMMA OpenedTable ==
    ASSUME NEW file, IsFile(file), NEW group, NEW name
    PROVE  /\ OpenTable(file, group, name) # NoTable <=> HasTable(file, group, name)
           /\ HasTable(file, group, name) =>
                 /\ OpenTable(file, group, name) = file[group][name]
                 /\ IsTable(file[group][name])
                 /\ get_pytable_type(file, group, name) = file[group][name].type
                 /\ IsType(file[group][name].type)
           /\ ~HasTable(file, group, name) =>
                 /\ OpenTable(file, group, name).rows = <<>>
                 /\ get_pytable_type(file, group, name) = NoType
  <1>1. HasTable(file, group, name) => IsTable(file[group][name])
    BY DEF IsFile, HasTable
  <1>2. HasTable(file, group, name) => IsType(file[group][name].type)
    BY <1>1 DEF IsTable
  <1>3. HasTable(file, group, name) =>
            /\ OpenTable(file, group, name) = file[group][name]
            /\ OpenTable(file, group, name) # NoTable
    BY <1>1, HandlesDiffer DEF OpenTable, HasTable
  <1>4. ~HasTable(file, group, name) => OpenTable(file, group, name) = NoTable
    BY DEF OpenTable, HasTable
  <1>5. NoTable.rows = <<>>
    BY DEF NoTable
  <1>6. QED
    BY <1>1, <1>2, <1>3, <1>4, <1>5 DEF get_pytable_type

\* A new file has an empty table, unless it has no chunks or no columns.
LEMMA NewTable ==
    ASSUME NEW group, NEW name, NEW type, IsType(type) \/ type = NoType, NEW chunk
    PROVE  LET file == create_pytables_table(
                           create_pytables_group(create_pytables_file, group),
                           group, name, type, chunk)
           IN  /\ IsFile(file)
               /\ HasTable(file, group, name) <=> chunk # 0 /\ type # NoType
               /\ HasTable(file, group, name) =>
                     /\ file[group][name].rows = <<>>
                     /\ file[group][name].type = type
  <1> DEFINE empty == create_pytables_group(create_pytables_file, group)
             file == create_pytables_table(empty, group, name, type, chunk)
  <1>1. /\ DOMAIN empty = {group} /\ empty = [g \in {group} |-> empty[g]]
        /\ DOMAIN empty[group] = {} /\ IsFunction(empty[group])
    BY DEF create_pytables_group, create_pytables_file, IsFunction
  <1> HIDE DEF empty
  <1>2. CASE chunk = 0 \/ type = NoType
    <2>1. file = empty
      BY <1>2 DEF create_pytables_table
    <2> HIDE DEF file
    <2>2. IsFile(file) /\ ~HasTable(file, group, name)
      BY <1>1, <2>1 DEF IsFile, IsFunction, HasTable
    <2>3. QED
      BY <1>2, <2>2 DEF file, empty
  <1>3. CASE ~(chunk = 0 \/ type = NoType)
    <2> DEFINE fields == [i \in DOMAIN type.members |-> type.members[i].name]
               table == [type |-> type, chunk |-> chunk, rows |-> <<>>, fields |-> fields]
    <2>1. IsTable(table) /\ table.rows = <<>> /\ table.type = type
      <3> HIDE DEF fields
      <3>1. /\ table = [type |-> table.type, chunk |-> table.chunk,
                        fields |-> table.fields, rows |-> table.rows]
            /\ table.rows = <<>> /\ table.type = type
        OBVIOUS
      <3> HIDE DEF table
      <3>2. QED
        BY <1>3, <3>1, EmptyIsSeq DEF IsTable
    <2>2. file = [empty EXCEPT ![group] =
                     [t \in DOMAIN @ \cup {name} |-> IF t = name THEN table ELSE @[t]]]
      BY <1>3 DEF create_pytables_table
    <2> HIDE DEF table, file
    <2>3. /\ DOMAIN file = {group} /\ IsFunction(file)
          /\ file[group] = [t \in {name} |-> table]
      <3>1. [t \in DOMAIN empty[group] \cup {name} |->
                IF t = name THEN table ELSE empty[group][t]] = [t \in {name} |-> table]
        BY <1>1
      <3>2. file = [empty EXCEPT ![group] = [t \in {name} |-> table]]
        BY <2>2, <3>1
      <3>3. QED
        BY <1>1, <3>2 DEF IsFunction
    <2>4. /\ IsFile(file) /\ HasTable(file, group, name)
          /\ file[group][name].rows = <<>> /\ file[group][name].type = type
      BY <2>1, <2>3 DEF IsFile, IsFunction, HasTable
    <2>5. QED
      BY <1>3, <2>4 DEF file, empty
  <1>4. QED
    BY <1>2, <1>3

\* A file in which one table has got rows, and nothing else has changed.
HasGot(new, file, group, name, rows) ==
    /\ IsFile(new) /\ DOMAIN new = DOMAIN file
    /\ \A g, t : HasTable(new, g, t) <=> HasTable(file, g, t)
    /\ \A g, t : HasTable(file, g, t) => new[g][t].type = file[g][t].type
    /\ new[group][name].rows = file[group][name].rows \o rows

\* Rows are written behind those of one table, and nothing else changes.
LEMMA WrittenBuffer ==
    ASSUME NEW file, IsFile(file), NEW group, NEW name, HasTable(file, group, name),
           NEW buffer, IsSeq(buffer), NEW n \in Nat, n <= Len(buffer)
    PROVE  HasGot(write_buffer_to_pytable(file, group, name, n, buffer),
                  file, group, name, SubSeq(buffer, 1, n))
  <1> DEFINE new == write_buffer_to_pytable(file, group, name, n, buffer)
             old == file[group][name]
             part == SubSeq(buffer, 1, n)
             rows == old.rows \o part
             table == [old EXCEPT !.rows = rows]
             tables == [file[group] EXCEPT ![name] = table]
  <1>1. IsTable(old)
    BY OpenedTable
  <1>2. IsSeq(part)
    <2>1. 0 \in Nat /\ 0 + 1 = 1 /\ 0 <= n
      OBVIOUS
    <2>2. QED
      BY <2>1, PartIsSeq
  <1>3. IsSeq(rows)
    BY <1>1, <1>2, ConcatIsSeq DEF IsTable
  <1>4. IsTable(table) /\ table.type = old.type /\ table.rows = rows
    <2> HIDE DEF rows, old
    <2>1. /\ table.type = old.type /\ table.rows = rows
          /\ table = [type |-> table.type, chunk |-> table.chunk,
                      fields |-> table.fields, rows |-> table.rows]
      BY <1>1 DEF IsTable
    <2> HIDE DEF table
    <2>2. QED
      BY <1>1, <1>3, <2>1 DEF IsTable
  <1>5. new = [file EXCEPT ![group] = tables]
    BY DEF write_buffer_to_pytable
  <1> HIDE DEF new, table, rows
  <1>6. /\ IsFunction(tables) /\ DOMAIN tables = DOMAIN file[group]
        /\ tables[name] = table
        /\ \A t \in DOMAIN tables : t # name => tables[t] = file[group][t]
    BY DEF HasTable, IsFunction
  <1> HIDE DEF tables
  <1>7. /\ IsFunction(new) /\ DOMAIN new = DOMAIN file /\ new[group] = tables
        /\ \A g \in DOMAIN file : g # group => new[g] = file[g]
    BY <1>5 DEF HasTable, IsFunction
  <1>8. IsFile(new)
    BY <1>4, <1>6, <1>7 DEF IsFile
  <1>9. \A g, t : HasTable(new, g, t) <=> HasTable(file, g, t)
    BY <1>6, <1>7 DEF HasTable
  <1>10. \A g, t : HasTable(file, g, t) => new[g][t].type = file[g][t].type
    BY <1>4, <1>6, <1>7 DEF HasTable, old
  <1>11. new[group][name].rows = rows
    BY <1>4, <1>6, <1>7
  <1>12. QED
    BY <1>7, <1>8, <1>9, <1>10, <1>11 DEF HasGot, new, rows

\* A file with other rows in one of its tables.
WithRows(file, group, name, rows) == [file EXCEPT ![group][name].rows = rows]

\* Writing rows into a file is having them behind those that are there.
LEMMA WrittenRowsOfFile ==
    ASSUME NEW file, IsFile(file), NEW group, NEW name, HasTable(file, group, name),
           NEW rows, IsSeq(rows), NEW buffer, IsSeq(buffer)
    PROVE  /\ write_buffer_to_pytable(WithRows(file, group, name, rows),
                                      group, name, Len(buffer), buffer)
                 = WithRows(file, group, name, rows \o buffer)
           /\ WithRows(file, group, name, file[group][name].rows) = file
  <1> DEFINE old == file[group][name]
             table(r) == [old EXCEPT !.rows = r]
             tables(r) == [file[group] EXCEPT ![name] = table(r)]
             with(r) == [file EXCEPT ![group] = tables(r)]
  <1>1. IsTable(old) /\ IsFunction(file) /\ IsFunction(file[group])
    BY OpenedTable DEF IsFile, HasTable
  <1>2. \A r : WithRows(file, group, name, r) = with(r)
    BY DEF WithRows
  <1>3. SubSeq(buffer, 1, Len(buffer)) = buffer
    <2>1. buffer \in Seq(Elems(buffer))
      BY DEF IsSeq
    <2>2. QED
      BY <2>1, SubSeqFull
  <1>4. \A r : table(r).rows = r /\ \A q : [table(r) EXCEPT !.rows = q] = table(q)
    BY <1>1 DEF IsTable
  <1>5. table(old.rows) = old
    BY <1>1 DEF IsTable
  <1> HIDE DEF table
  <1>6. \A r : /\ tables(r)[name] = table(r)
               /\ \A q : [tables(r) EXCEPT ![name] = q] = [file[group] EXCEPT ![name] = q]
    BY <1>1 DEF HasTable, IsFunction
  <1>7. tables(old.rows) = file[group]
    BY <1>1, <1>5 DEF HasTable, IsFunction
  <1> HIDE DEF tables
  <1>8. \A r : /\ with(r)[group] = tables(r)
               /\ \A q : [with(r) EXCEPT ![group] = q] = [file EXCEPT ![group] = q]
    BY <1>1 DEF HasTable, IsFunction
  <1>9. with(old.rows) = file
    BY <1>1, <1>7 DEF HasTable, IsFunction
  <1> DEFINE q == rows \o buffer
  <1>10. write_buffer_to_pytable(with(rows), group, name, Len(buffer), buffer)
           = [with(rows) EXCEPT ![group] = [with(rows)[group] EXCEPT ![name] =
                [with(rows)[group][name] EXCEPT !.rows =
                    with(rows)[group][name].rows \o buffer]]]
    <2> HIDE DEF with
    <2>1. write_buffer_to_pytable(with(rows), group, name, Len(buffer), buffer)
            = [with(rows) EXCEPT ![group][name].rows =
                  with(rows)[group][name].rows \o SubSeq(buffer, 1, Len(buffer))]
      BY DEF write_buffer_to_pytable
    <2>2. QED
      BY <1>3, <2>1
  <1> HIDE DEF with
  <1>11. /\ with(rows)[group] = tables(rows)
         /\ with(rows)[group][name] = table(rows)
         /\ with(rows)[group][name].rows = rows
    BY <1>4, <1>6, <1>8
  <1>12. [tables(rows) EXCEPT ![name] = [table(rows) EXCEPT !.rows = q]] = tables(q)
    BY <1>4, <1>6 DEF tables
  <1>13. [with(rows) EXCEPT ![group] = tables(q)] = with(q)
    BY <1>8 DEF with
  <1>14. QED
    BY <1>2, <1>9, <1>10, <1>11, <1>12, <1>13

\* The blocks that are copied and the rest are the rows of the input: the
\* output gets all of them, in their order, whatever the length of a block.
LEMMA MergedTable ==
    ASSUME NEW file, IsFile(file), NEW input, IsFile(input), NEW group, NEW name,
           HasTable(file, group, name), HasTable(input, group, name),
           MergeError(file, input, group, name) = "none",
           NEW b \in Nat \ {0}
    PROVE  merge_tables(file, input, group, name, b) =
               WithRows(file, group, name,
                        file[group][name].rows \o input[group][name].rows)
  <1> DEFINE old == file[group][name].rows
             in == input[group][name].rows
             B == Len(in) \div b
             rest == Len(in) % b
             First(i) == SubSeq(in, 1, b * i)
             with(r) == WithRows(file, group, name, r)
             Written(f, buffer) ==
                write_buffer_to_pytable(f, group, name, Len(buffer), buffer)
  <1>1. IsSeq(old) /\ IsSeq(in) /\ Len(in) \in Nat /\ in \in Seq(Elems(in))
    BY OpenedTable, IsSeqProperties DEF IsTable, IsSeq
  <1>2. /\ B \in Nat /\ rest \in Nat /\ b * B + rest = Len(in)
        /\ b * B \in Nat /\ B * b = b * B
    <2>1. B \in Nat /\ B * b <= Len(in) /\ Len(in) < (B + 1) * b
      BY <1>1, DivisionBounds
    <2> HIDE DEF B, in
    <2>2. b * B \in Nat /\ B * b = b * B /\ (B + 1) * b = b * B + b
      BY <2>1
    <2>3. b * B <= Len(in) /\ Len(in) < b * B + b
      BY <2>1, <2>2
    <2>4. rest = Len(in) - b * B
      BY <1>1, <2>1, <2>3, QuotientAndRest
    <2> HIDE DEF rest
    <2>5. QED
      BY <1>1, <2>1, <2>2, <2>3, <2>4
  <1>3. \A r, buffer : IsSeq(r) /\ IsSeq(buffer) =>
            Written(with(r), buffer) = with(r \o buffer)
    BY WrittenRowsOfFile
  <1>4. with(old) = file
    BY <1>1, WrittenRowsOfFile
  <1> HIDE DEF old, in, B, rest, with, Written
  <1>5. ASSUME NEW i \in 0..B
        PROVE  b * i \in 0..Len(in)
    <2>1. i * b <= B * b
      BY <1>2, ProductMonotone
    <2>2. i * b = b * i /\ b * i \in Nat
      OBVIOUS
    <2>3. QED
      BY <1>1, <1>2, <2>1, <2>2
  <1>6. ASSUME NEW i \in 0..B
        PROVE  IsSeq(First(i))
    <2>1. b * i \in Nat /\ b * i <= Len(in) /\ 0 \in Nat /\ 0 <= b * i /\ 0 + 1 = 1
      BY <1>1, <1>5
    <2>2. QED
      BY <1>1, <2>1, PartIsSeq
  <1>7. First(0) = <<>>
    <2>1. b * 0 = 0 /\ 0 \in Int /\ 1 \in Int /\ 0 < 1
      OBVIOUS
    <2>2. QED
      BY <2>1, SubSeqEmpty
  <1>8. ASSUME NEW i \in 1..B
        PROVE  /\ IsSeq(CopyBlock(in, b, i - 1))
               /\ First(i - 1) \o CopyBlock(in, b, i - 1) = First(i)
    <2>1. i \in 0..B /\ i - 1 \in 0..B /\ (i - 1) + 1 = i
      BY <1>2
    <2>2. b * (i - 1) \in 0..Len(in) /\ b * i \in 0..Len(in)
      BY <1>5, <2>1
    <2>3. b * i = b * (i - 1) + b
      OBVIOUS
    <2>4. CopyBlock(in, b, i - 1) = SubSeq(in, b * (i - 1) + 1, b * i)
      BY <2>1 DEF CopyBlock
    <2>5. /\ b * (i - 1) \in Nat /\ b * i \in Nat /\ b * (i - 1) <= b * i
          /\ b * i <= Len(in)
      BY <1>1, <2>2, <2>3
    <2>6. IsSeq(CopyBlock(in, b, i - 1))
      <3> DEFINE from == b * (i - 1)
                 to == b * i
      <3>1. from \in Nat /\ to \in Nat /\ from <= to /\ to <= Len(in)
        BY <2>5
      <3>2. CopyBlock(in, b, i - 1) = SubSeq(in, from + 1, to)
        BY <2>4
      <3> HIDE DEF from, to
      <3>3. IsSeq(in)
        BY <1>1
      <3>4. IsSeq(SubSeq(in, from + 1, to))
        BY <3>1, <3>3, PartIsSeq
      <3>5. QED
        BY <3>2, <3>4
    <2>7. /\ 1 \in 1..Len(in) + 1 /\ b * (i - 1) \in (1 - 1)..Len(in)
          /\ b * i \in (b * (i - 1))..Len(in)
      BY <1>1, <2>5
    <2>8. QED
      BY <1>1, <2>4, <2>6, <2>7, ConcatAdjacentSubSeq
  <1> DEFINE expected == [i \in 0..B |-> with(old \o First(i))]
             Copied(f) == f = [i \in 0..B |->
                                 IF i = 0 THEN file
                                 ELSE Written(f[i - 1], CopyBlock(in, b, i - 1))]
  <1>9. expected[0] = file
    <2>1. 0 \in 0..B
      BY <1>2
    <2>2. old \o First(0) = old
      BY <1>1, <1>7, ConcatNothing
    <2>3. QED
      BY <1>4, <2>1, <2>2
  <1>10. ASSUME NEW i \in 1..B
         PROVE  /\ i \in 0..B /\ i - 1 \in 0..B
                /\ Written(expected[i - 1], CopyBlock(in, b, i - 1)) = expected[i]
    <2>1. i \in 0..B /\ i - 1 \in 0..B
      BY <1>2
    <2>2. IsSeq(old \o First(i - 1))
      BY <1>1, <1>6, <2>1, ConcatIsSeq
    <2>3. Written(with(old \o First(i - 1)), CopyBlock(in, b, i - 1))
            = with((old \o First(i - 1)) \o CopyBlock(in, b, i - 1))
      BY <1>3, <1>8, <2>2
    <2>4. (old \o First(i - 1)) \o CopyBlock(in, b, i - 1) = old \o First(i)
      <3>1. IsSeq(First(i - 1))
        BY <1>6, <2>1
      <3> HIDE DEF First
      <3>2. (old \o First(i - 1)) \o CopyBlock(in, b, i - 1)
              = old \o (First(i - 1) \o CopyBlock(in, b, i - 1))
        <4> DEFINE first == First(i - 1)
                   last == CopyBlock(in, b, i - 1)
        <4>1. IsSeq(old) /\ IsSeq(first) /\ IsSeq(last)
          BY <1>1, <1>8, <3>1
        <4> HIDE DEF first, last
        <4>2. (old \o first) \o last = old \o (first \o last)
          BY <4>1, ConcatThree
        <4>3. QED
          BY <4>2 DEF first, last
      <3>3. QED
        BY <1>8, <3>2 DEF First
    <2>5. QED
      BY <2>1, <2>3, <2>4
  <1>11. Copied(expected)
    <2>1. expected = [i \in 0..B |-> expected[i]]
      OBVIOUS
    <2> HIDE DEF expected
    <2>2. \A i \in 0..B : i = 0 \/ i \in 1..B
      BY <1>2
    <2>3. QED
      BY <1>9, <1>10, <2>1, <2>2
  <1> DEFINE copied == CHOOSE f : Copied(f)
  <1>12. Copied(copied)
    BY <1>11
  <1> HIDE DEF copied, expected
  <1>13. ASSUME NEW i \in 0..B
         PROVE  copied[i] = expected[i]
    <2> DEFINE T == {n \in Nat : n \in 0..B => copied[n] = expected[n]}
    <2>1. 0 \in T
      BY <1>9, <1>12
    <2>2. ASSUME NEW n \in Nat, n \in T
          PROVE  n + 1 \in T
      <3>1. SUFFICES ASSUME n + 1 \in 0..B
                     PROVE  copied[n + 1] = expected[n + 1]
        OBVIOUS
      <3>2. n \in 0..B /\ n + 1 \in 1..B /\ (n + 1) - 1 = n /\ n + 1 # 0
        BY <1>2, <3>1
      <3>3. copied[n] = expected[n]
        BY <2>2, <3>2
      <3>4. copied[n + 1] = Written(copied[n], CopyBlock(in, b, n))
        BY <1>12, <3>1, <3>2
      <3>5. Written(expected[n], CopyBlock(in, b, n)) = expected[n + 1]
        BY <1>10, <3>2
      <3>6. QED
        BY <3>3, <3>4, <3>5
    <2> HIDE DEF T
    <2>3. Nat \subseteq T
      BY <2>1, <2>2, NatSetInduction
    <2>4. QED
      BY <2>3 DEF T
  <1>14. /\ IsSeq(LastBlock(in, b))
         /\ First(B) \o LastBlock(in, b) = in
    <2>1. CASE rest # 0
      <3>1. LastBlock(in, b) = SubSeq(in, b * B + 1, Len(in))
        BY <1>2, <2>1 DEF LastBlock, B, rest
      <3>2. /\ b * B \in Nat /\ b * B <= Len(in) /\ Len(in) <= Len(in)
            /\ 1 \in 1..Len(in) + 1 /\ b * B \in (1 - 1)..Len(in)
            /\ Len(in) \in (b * B)..Len(in)
        BY <1>1, <1>2
      <3>3. IsSeq(LastBlock(in, b))
        BY <1>1, <3>1, <3>2, PartIsSeq
      <3>4. First(B) \o SubSeq(in, b * B + 1, Len(in)) = SubSeq(in, 1, Len(in))
        BY <1>1, <3>2, ConcatAdjacentSubSeq
      <3>5. QED
        BY <1>1, <3>1, <3>3, <3>4, SubSeqFull
    <2>2. CASE rest = 0
      <3>1. LastBlock(in, b) = <<>>
        BY <2>2 DEF LastBlock, rest
      <3>2. b * B = Len(in)
        BY <1>1, <1>2, <2>2
      <3>3. First(B) = in
        BY <1>1, <3>2, SubSeqFull
      <3>4. QED
        BY <1>1, <3>1, <3>3, EmptyIsSeq, ConcatNothing
    <2>3. QED
      BY <2>1, <2>2
  <1>15. Written(copied[B], LastBlock(in, b)) = with(old \o in)
    <2>1. B \in 0..B
      BY <1>2
    <2>2. copied[B] = with(old \o First(B)) /\ IsSeq(First(B))
      BY <1>6, <1>13, <2>1 DEF expected
    <2> HIDE DEF First
    <2>3. IsSeq(old \o First(B))
      BY <1>1, <2>2, ConcatIsSeq
    <2>4. (old \o First(B)) \o LastBlock(in, b) = old \o in
      <3>1. (old \o First(B)) \o LastBlock(in, b)
              = old \o (First(B) \o LastBlock(in, b))
        <4> DEFINE first == First(B)
                   last == LastBlock(in, b)
        <4>1. IsSeq(old) /\ IsSeq(first) /\ IsSeq(last)
          BY <1>1, <1>14, <2>2
        <4> HIDE DEF first, last
        <4>2. (old \o first) \o last = old \o (first \o last)
          BY <4>1, ConcatThree
        <4>3. QED
          BY <4>2 DEF first, last
      <3>2. First(B) \o LastBlock(in, b) = in
        BY <1>14
      <3>3. QED
        BY <3>1, <3>2
    <2>5. QED
      BY <1>3, <1>14, <2>2, <2>3, <2>4
  <1>16. merge_tables(file, input, group, name, b)
           = Written(copied[B], LastBlock(in, b))
    BY DEF merge_tables, Written, copied, B, in
  <1>17. QED
    BY <1>15, <1>16 DEF with, old, in

\* Sequences, and what is there of them when one is put behind the other.
AreSeqs(seqs, n) == \A i \in 1..n : IsSeq(seqs[i])
FlatStep(f, seqs, n) ==
    /\ f[0] = <<>>
    /\ \A i \in 1..n : f[i] = f[i - 1] \o seqs[i]
    /\ \A m \in 0..n : /\ IsSeq(f[m])
                       /\ FlattenSeq([i \in 1..m |-> seqs[i]]) = f[m]

\* Flattening is putting one sequence behind the other.
LEMMA FlattenedStepwise ==
    ASSUME NEW n \in Nat, NEW seqs, AreSeqs(seqs, n)
    PROVE  \E f : FlatStep(f, seqs, n)
  <1> DEFINE U == UNION {Elems(seqs[i]) : i \in 1..n}
             S == Seq(U)
             step == [i \in Nat |-> [x \in S |-> IF i \in 1..n THEN x \o seqs[i] ELSE x]]
  <1>1. \A i \in 1..n : seqs[i] \in S
    <2>1. SUFFICES ASSUME NEW i \in 1..n
                   PROVE  seqs[i] \in S
      OBVIOUS
    <2>2. seqs[i] \in Seq(Elems(seqs[i])) /\ Elems(seqs[i]) \subseteq U
      BY DEF AreSeqs, IsSeq
    <2> HIDE DEF U
    <2>3. QED
      BY <2>2, SeqMonotonic
  <1>2. <<>> \in S /\ \A x, y \in S : x \o y \in S
    BY ConcatProperties, EmptySeq
  <1> HIDE DEF S
  <1>3. StepsWithin(step, S)
    BY <1>1, <1>2 DEF StepsWithin
  <1>4. PICK f \in [0..n -> S] :
           f[0] = <<>> /\ \A i \in 1..n : f[i] = step[i][f[i - 1]]
    <2> HIDE DEF step
    <2>1. \E f \in [0..n -> S] : Stepwise(f, <<>>, step, n)
      BY <1>2, <1>3, StepsExist
    <2>2. QED
      BY <2>1 DEF Stepwise
  <1>5. \A i \in 1..n : f[i] = f[i - 1] \o seqs[i]
    <2>1. SUFFICES ASSUME NEW i \in 1..n
                   PROVE  f[i] = f[i - 1] \o seqs[i]
      OBVIOUS
    <2>2. i - 1 \in 0..n /\ i \in Nat
      OBVIOUS
    <2>3. f[i - 1] \in S
      BY <1>4, <2>2
    <2>4. step[i][f[i - 1]] = f[i - 1] \o seqs[i]
      BY <2>2, <2>3
    <2>5. QED
      BY <1>4, <2>4
  <1>6. ASSUME NEW m \in 0..n
        PROVE  FlattenSeq([i \in 1..m |-> seqs[i]]) = f[m]
    <2> DEFINE part == [i \in 1..m |-> seqs[i]]
    <2>1. Len(part) = m /\ \A i \in 1..m : part[i] = seqs[i]
      OBVIOUS
    <2>2. CASE m = 0
      <3>1. part = <<>>
        BY <2>2
      <3> HIDE DEF part
      <3>2. FlattenSeq(part) = part
        BY <2>1, <2>2 DEF FlattenSeq
      <3>3. QED
        BY <1>4, <2>2, <3>1, <3>2 DEF part
    <2>3. CASE m # 0
      <3> DEFINE Flat(g) == g = [i \in 1..m |->
                                    IF i = 1 THEN part[i] ELSE g[i - 1] \o part[i]]
                 first == [i \in 1..m |-> f[i]]
                 flatten == CHOOSE g : Flat(g)
      <3> HIDE DEF part
      <3>1. ASSUME NEW i \in 1..m
            PROVE  /\ i \in 1..n /\ (i # 1 => i - 1 \in 1..m)
                   /\ part[i] = seqs[i]
                   /\ f[i] = IF i = 1 THEN part[i] ELSE f[i - 1] \o part[i]
        <4>1. i \in 1..n /\ (i # 1 => i - 1 \in 1..m) /\ part[i] = seqs[i]
          BY <2>1
        <4>2. f[i] = f[i - 1] \o part[i]
          BY <1>5, <4>1
        <4>3. ASSUME i = 1
              PROVE  f[i] = part[i]
          <5>1. f[i - 1] = <<>>
            BY <1>4, <4>3
          <5>2. IsSeq(part[i])
            BY <4>1 DEF AreSeqs
          <5>3. f[i] = <<>> \o part[i]
            BY <4>2, <5>1
          <5>4. QED
            BY <5>2, <5>3, ConcatNothing
        <4>4. QED
          BY <4>1, <4>2, <4>3
      <3>2. Flat(first)
        BY <3>1
      <3>3. Flat(flatten)
        BY <3>2
      <3>4. FlattenSeq(part) = flatten[m]
        BY <2>1, <2>3 DEF FlattenSeq
      <3> HIDE DEF flatten
      <3> DEFINE T == {k \in Nat : k \in 1..m => flatten[k] = f[k]}
      <3>5. 0 \in T
        OBVIOUS
      <3>6. ASSUME NEW k \in Nat, k \in T
            PROVE  k + 1 \in T
        <4>1. SUFFICES ASSUME k + 1 \in 1..m
                       PROVE  flatten[k + 1] = f[k + 1]
          OBVIOUS
        <4>2. CASE k = 0
          <5>1. flatten[k + 1] = part[k + 1] /\ f[k + 1] = part[k + 1]
            BY <3>1, <3>3, <4>1, <4>2
          <5>2. QED
            BY <5>1
        <4>3. CASE k # 0
          <5>1. k \in 1..m /\ k + 1 # 1 /\ (k + 1) - 1 = k
            BY <4>1, <4>3
          <5>2. flatten[k] = f[k]
            BY <3>6, <5>1
          <5>3. flatten[k + 1] = flatten[k] \o part[k + 1]
            BY <3>3, <4>1, <5>1
          <5>4. f[k + 1] = f[k] \o part[k + 1]
            BY <3>1, <4>1, <5>1
          <5>5. QED
            BY <5>2, <5>3, <5>4
        <4>4. QED
          BY <4>2, <4>3
      <3> HIDE DEF T
      <3>7. Nat \subseteq T
        BY <3>5, <3>6, NatSetInduction
      <3>8. flatten[m] = f[m]
        <4>1. m \in 1..m /\ m \in Nat
          BY <2>3
        <4>2. QED
          BY <3>7, <4>1 DEF T
      <3>9. QED
        BY <3>4, <3>8 DEF part
    <2>4. QED
      BY <2>2, <2>3
  <1>7. ASSUME NEW m \in 0..n
        PROVE  IsSeq(f[m])
    <2>1. f[m] \in S
      BY <1>4
    <2>2. QED
      BY <2>1, SeqIsSeq DEF S
  <1>8. FlatStep(f, seqs, n)
    BY <1>4, <1>5, <1>6, <1>7 DEF FlatStep
  <1>9. QED
    BY <1>8
-----------------------------------------------------------------------------
(***************************************************************************)
(* The invariant.  FilesInv: what is on disk are files of tables.          *)
(* BlockInv: the buffer holds the rows of the block that were read, and    *)
(* the table those of the blocks before, except for a full one that was    *)
(* the last to be read.  PumpInv: the output goes on from the inputs that  *)
(* were merged, and has their columns.                                     *)
(***************************************************************************)
FilesInv == AreFiles(hdf)

TableThere == job.o \in DOMAIN hdf /\ HasTable(hdf[job.o], "data", "measurements")

BlockStart == job.b * block
BlockInv ==
    /\ IsSeq(m_block_buffer)
    /\ row <= job.b * (block + 1)
    /\ \A j \in 1..job.b : BlockStart + j <= row =>
          m_block_buffer[j] = MergedRow(Tree.rows[BlockStart + j])
    /\ Len(WrittenRows) = IF block > 0 /\ BlockStart = total_rows
                          THEN BlockStart - job.b ELSE BlockStart

FrackInv ==
    /\ IsSeq(data_columns) /\ IsSeq(config_columns)
    /\ table_type = NoType \/ IsType(table_type)
    /\ pc = "cache" /\ job.b # 0 /\ table_type # NoType =>
          TableThere /\ WrittenRows = <<>>
    /\ pc \in {"rows", "clean_up"} => job.b # 0 /\ TableThere
    /\ pc = "rows" => BlockInv

Name == "measurements"
OutputThere == HasTable(TP!FileAt(merge.o), merge.g, Name)
PumpInv ==
    /\ merge \in Merges /\ next \in Nat
    /\ tp_pc = "create" => Len(merge.i) > 1 /\ next = 0
    /\ tp_pc = "merge" =>
          /\ next < Len(merge.i)
          /\ merge.o # merge.i[1] /\ OutputThere => merge.b # 0
          /\ \A k \in 1..next : /\ TP!Columns(merge.i[k]) # <<>>
                                /\ TP!Columns(merge.i[k]) = TP!Columns(merge.o)
          /\ TP!RowsSoFar

ToolsInv == TypeOK /\ RowsInOrder /\ WrittenOnSuccess /\ FilesInv /\ FrackInv /\ PumpInv

FrackerInv == TypeOK /\ RowsInOrder /\ WrittenOnSuccess /\ FilesInv /\ FrackInv

\* There is always a job, and no memory is nothing.
LEMMA NoMemory ==
    /\ NoJob \in Jobs
    /\ Range(<<>>) = {} /\ DOMAIN <<>> = {}
  <1>1. NoJob \in Jobs
    BY JobsAssumption DEF NoJob
  <1>2. Range(<<>>) = {} /\ DOMAIN <<>> = {}
    BY DEF Range
  <1>3. QED
    BY <1>1, <1>2

\* It begins with nothing.
LEMMA FrackerInit ==
    ASSUME Init
    PROVE  FrackerInv
  <1>1. /\ pc \in (Ended \cup Running) \ {"cache", "rows", "clean_up"}
        /\ job \in Jobs /\ row \in Nat /\ block \in Nat /\ jobs \in 0 .. MaxJobs
    BY NoMemory, JobsAssumption DEF Init, Ended, Running
  <1>2. /\ Range(data_columns) = {} /\ Range(config_columns) = {}
        /\ DOMAIN cache = {} /\ DOMAIN hdf = {}
        /\ IsSeq(data_columns) /\ IsSeq(config_columns) /\ table_type = NoType
    BY NoMemory, EmptyIsSeq DEF Init
  <1>3. FilesInv
    <2>1. hdf = <<>>
      BY DEF Init
    <2>2. IsFunction(hdf)
      BY <1>2, <2>1 DEF IsFunction
    <2>3. QED
      BY <1>2, <2>2 DEF FilesInv, AreFiles
  <1>4. QED
    BY <1>1, <1>2, <1>3
    DEF FrackerInv, TypeOK, RowsInOrder, WrittenOnSuccess, FrackInv

\* Ending leaves nothing but the files.
LEMMA ExitKeeps ==
    ASSUME FrackerInv, NEW status \in Ended, Exit(status)
    PROVE  FrackerInv'
  <1>1. /\ pc' \in (Ended \cup Running) \ {"cache", "rows", "clean_up"}
        /\ job' \in Jobs /\ row' \in Nat /\ block' \in Nat
    BY NoMemory DEF Exit, Ended
  <1>2. jobs' \in 0 .. MaxJobs /\ DOMAIN hdf' \subseteq Paths
    BY DEF FrackerInv, TypeOK, Exit
  <1>3. /\ Range(data_columns') = {} /\ Range(config_columns') = {}
        /\ DOMAIN cache' = {}
        /\ IsSeq(data_columns') /\ IsSeq(config_columns') /\ table_type' = NoType
    BY NoMemory, EmptyIsSeq DEF Exit
  <1>4. FilesInv'
    BY DEF FrackerInv, FilesInv, Exit
  <1>5. (Range(data_columns) \cup Range(config_columns))' \subseteq
            UNION {Range(j.s) : j \in Jobs}
    BY <1>3
  <1>6. (\A key \in DOMAIN cache : validate_key(key))'
    BY <1>3
  <1>7. QED
    BY <1>1, <1>2, <1>3, <1>4, <1>5, <1>6
    DEF FrackerInv, TypeOK, RowsInOrder, WrittenOnSuccess, FrackInv

\* A step that is not at its table keeps what is decided so far.
LEMMA StartKeeps ==
    ASSUME FrackerInv, NEW j \in Jobs, Start(j)
    PROVE  FrackerInv'
  <1>1. /\ pc' \in (Ended \cup Running) \ {"cache", "rows", "clean_up"}
        /\ job' \in Jobs /\ jobs' \in 0 .. MaxJobs
    BY JobsAssumption DEF Start, Running, FrackerInv, TypeOK
  <1>2. FilesInv'
    BY DEF FrackerInv, FilesInv, Start
  <1>3. QED
    BY <1>1, <1>2
    DEF FrackerInv, TypeOK, RowsInOrder, WrittenOnSuccess, FrackInv, Start, locals, loop

\* Loading keeps the invariant.
LEMMA LoadKeeps ==
    ASSUME FrackerInv, Load \/ LoadFails
    PROVE  FrackerInv'
  <1>1. CASE Exit("failure") \/ Exit("abort")
    BY <1>1, ExitKeeps DEF Ended
  <1>2. CASE Load /\ ~(Exit("failure") \/ Exit("abort"))
    <2>1. /\ pc' \in (Ended \cup Running) \ {"cache", "rows", "clean_up"}
          /\ UNCHANGED <<job, data_columns, config_columns, table_type, cache,
                         loop, hdf, jobs>>
      BY <1>2 DEF Load, Running
    <2>2. FilesInv'
      BY <2>1 DEF FrackerInv, FilesInv
    <2>3. QED
      BY <2>1, <2>2
      DEF FrackerInv, TypeOK, RowsInOrder, WrittenOnSuccess, FrackInv, loop
  <1>3. QED
    BY <1>1, <1>2 DEF LoadFails

\* The columns of the table are sequences of columns that were asked for.
LEMMA FormatKeeps ==
    ASSUME FrackerInv, Format
    PROVE  FrackerInv'
  <1>1. CASE Exit("failure")
    BY <1>1, ExitKeeps DEF Ended
  <1>2. CASE ~Exit("failure")
    <2> DEFINE of(places) == AtPlaces(job.s, places)
    <2>1. /\ job \in Jobs /\ IsSeq(job.s)
          /\ DOMAIN job.s = 1..Len(job.s)
      <3>1. job \in Jobs /\ job.s \in Seq(Range(job.s))
        BY JobsAssumption DEF FrackerInv, TypeOK
      <3>2. QED
        BY <3>1, SeqIsSeq
    <2>2. /\ pc' = "create"
          /\ UNCHANGED <<job, table_type, cache, loop, hdf, jobs>>
      BY <1>2 DEF Format
    <2>3. ASSUME NEW places \in SUBSET (1..Len(job.s))
          PROVE  IsSeq(of(places)) /\ Range(of(places)) \subseteq Range(job.s)
      <3>1. /\ IsSeq(of(places)) /\ DOMAIN of(places) = 1..Len(of(places))
            /\ \A k \in 1..Len(of(places)) :
                  \E i \in places : of(places)[k] = job.s[i]
        BY <2>1, AtPlacesIsSeq, IsSeqProperties
      <3> HIDE DEF of
      <3>2. QED
        BY <2>1, <3>1 DEF Range
    <2>4. PICK p \in SUBSET (1..Len(job.s)) : data_columns' = of(p)
      BY <1>2, <2>1 DEF Format, filter_measurement_columns
    <2>5. PICK q \in SUBSET (1..Len(job.s)) : config_columns' = of(q)
      BY <1>2, <2>1 DEF Format
    <2>6. /\ IsSeq(data_columns') /\ IsSeq(config_columns')
          /\ Range(data_columns') \subseteq Range(job.s)
          /\ Range(config_columns') \subseteq Range(job.s)
      BY <2>3, <2>4, <2>5
    <2>7. (Range(data_columns) \cup Range(config_columns))' \subseteq
              UNION {Range(j.s) : j \in Jobs}
      BY <2>1, <2>6
    <2>8. FilesInv'
      BY <2>2 DEF FrackerInv, FilesInv
    <2>9. /\ pc' \in Ended \cup Running /\ pc' \notin {"cache", "rows", "clean_up"}
      BY <2>2 DEF Running
    <2> HIDE DEF of
    <2>10. QED
      BY <2>2, <2>6, <2>7, <2>8, <2>9
      DEF FrackerInv, TypeOK, RowsInOrder, WrittenOnSuccess, FrackInv, loop
  <1>3. QED
    BY <1>1, <1>2

\* The output is created, with an empty table where there can be one.
LEMMA CreateKeeps ==
    ASSUME FrackerInv, Create
    PROVE  FrackerInv'
  <1> DEFINE new == create_pytables_table(
                        create_pytables_group(create_pytables_file, "data"),
                        "data", Name, table_type', job.b)
  <1>1. /\ pc' = "cache"
        /\ hdf' = Stored(hdf, job.o, new)
        /\ UNCHANGED <<job, data_columns, config_columns, cache, loop, jobs>>
    BY DEF Create, EmptyFile, Name
  <1>2. job \in Jobs /\ job.o \in Paths
    BY JobsAssumption DEF FrackerInv, TypeOK
  <1>3. table_type' = NoType \/ IsType(table_type')
    <2>1. IsSeq(data_columns \o config_columns)
      BY ConcatIsSeq DEF FrackerInv, FrackInv
    <2>2. PICK types : table_type' =
             create_compund_datatype(data_columns \o config_columns, types)
      BY DEF Create, create_compound_datatype_form_columns
    <2>3. QED
      BY <2>1, <2>2, CompoundIsType
  <1>4. /\ IsFile(new)
        /\ HasTable(new, "data", Name) <=> job.b # 0 /\ table_type' # NoType
        /\ HasTable(new, "data", Name) => new["data"][Name].rows = <<>>
    BY <1>3, NewTable
  <1> HIDE DEF new
  <1>5. /\ AreFiles(hdf') /\ DOMAIN hdf' = DOMAIN hdf \cup {job.o}
        /\ hdf'[job.o] = new
    <2> DEFINE stored == Stored(hdf, job.o, new)
    <2>1. AreFiles(hdf) /\ IsFile(new)
      BY <1>4 DEF FrackerInv, FilesInv
    <2>2. HasNew(stored, hdf, job.o, new)
      BY <2>1, StoredFile
    <2>3. hdf' = stored
      BY <1>1
    <2> HIDE DEF stored
    <2>4. QED
      BY <2>2, <2>3 DEF HasNew
  <1>6. FilesInv' /\ DOMAIN hdf' \subseteq Paths
    BY <1>2, <1>5 DEF FrackerInv, FilesInv, TypeOK
  <1>7. job.b # 0 /\ table_type' # NoType => TableThere' /\ WrittenRows' = <<>>
    BY <1>1, <1>4, <1>5 DEF TableThere, WrittenRows, Name
  <1>8. pc' \in Ended \cup Running /\ pc' \notin {"rows", "clean_up"}
    BY <1>1 DEF Running
  <1>9. QED
    BY <1>1, <1>3, <1>6, <1>7, <1>8
    DEF FrackerInv, TypeOK, RowsInOrder, WrittenOnSuccess, FrackInv, loop

\* The rows of the tree are a sequence.
LEMMA TreeRows ==
    ASSUME job \in Jobs
    PROVE  IsSeq(Tree.rows) /\ total_rows \in Nat
  <1>1. job.i \in DOMAIN roots
    BY JobsAssumption
  <1>2. PICK name : \/ /\ name \in DOMAIN roots[job.i]
                       /\ Tree.rows = roots[job.i][name]
                    \/ Tree.rows = <<>>
    BY DEF Tree, openRootTree
  <1>3. IsSeq(Tree.rows)
    <2>1. CASE Tree.rows = <<>>
      BY <2>1, EmptyIsSeq
    <2>2. CASE name \in DOMAIN roots[job.i] /\ Tree.rows = roots[job.i][name]
      <3>1. Tree.rows \in Seq(Range(roots[job.i][name]))
        BY <1>1, <2>2, RootsAssumption
      <3>2. QED
        BY <3>1, SeqIsSeq
    <2>3. QED
      BY <1>2, <2>1, <2>2
  <1>4. QED
    BY <1>3, IsSeqProperties DEF total_rows

\* Without an exception only channels of ROCs that have a name get an entry.
LEMMA CachedKeysAreValid ==
    ASSUME NEW config, NEW rocs, NEW columns, ~CacheFails(config, rocs, columns),
           NEW key \in KeysWithRegisters(rocs, columns)
    PROVE  validate_key(key)
  <1>1. /\ key[1] \in rocs /\ key[2] \in 0 .. 2 * HalfChannels - 1
        /\ key[3] \in channel_types
    BY DEF KeysWithRegisters, CacheKeys
  <1>2. PICK c \in Range(columns) \cap ConfigColumns :
           \E i \in DOMAIN roc_config_key[c] : Applies(key, roc_config_key[c][i])
    BY DEF KeysWithRegisters
  <1>3. PICK i \in DOMAIN roc_config_key[c] : Applies(key, roc_config_key[c][i])
    BY <1>2
  <1>4. generate_cache_key(key[1], roc_config_key[c][i][1],
                           roc_config_key[c][i][2]) # {}
    BY <1>3 DEF Applies
  <1>5. key[1] \in 0 .. MaxRoc
    BY <1>1, <1>4 DEF CacheFails
  <1>6. key[1] \in 0 .. MaxRoc + 1
    BY <1>5, ChannelAssumption
  <1>7. QED
    BY <1>1, <1>6 DEF validate_key

\* The first block begins with an empty table and a buffer of its size.
LEMMA CacheKeeps ==
    ASSUME FrackerInv, Cache
    PROVE  FrackerInv'
  <1>1. CASE Exit("abort") \/ Exit("undefined")
    BY <1>1, ExitKeeps DEF Ended
  <1>2. CASE ~(Exit("abort") \/ Exit("undefined"))
    <2> DEFINE config == Settings(run_config)
    <2>1. /\ pc = "cache" /\ pc' = "rows"
          /\ table_type # NoType /\ job.b # 0
          /\ ~CacheFails(config, DOMAIN config, job.s)
          /\ cache' = generate_hgcroc_config_cache(config, DOMAIN config, job.s)
          /\ m_block_buffer' = [i \in 1 .. job.b |-> NoRow]
          /\ row' = 0 /\ block' = 0
          /\ UNCHANGED <<job, run_config, data_columns, config_columns,
                         table_type, hdf, jobs>>
      BY <1>2 DEF Cache
    <2> HIDE DEF config
    <2>2. job \in Jobs /\ job.b \in Nat \ {0}
      BY <2>1, JobsAssumption DEF FrackerInv, TypeOK
    <2>3. \A key \in DOMAIN cache' : validate_key(key)
      <3>1. DOMAIN cache' = KeysWithRegisters(DOMAIN config, job.s)
        BY <2>1 DEF generate_hgcroc_config_cache
      <3>2. QED
        BY <2>1, <3>1, CachedKeysAreValid
    <2>4. IsSeq(m_block_buffer') /\ Len(m_block_buffer') = job.b
      <3>1. m_block_buffer' = [i \in 1 .. job.b |-> m_block_buffer'[i]]
        BY <2>1
      <3>2. QED
        BY <2>2, <3>1, FunctionIsSeq
    <2>5. Tree' = Tree /\ total_rows' = total_rows /\ blocks' = blocks
      BY <2>1 DEF Tree, total_rows, blocks, event_mode
    <2>6. total_rows \in Nat /\ 0 < blocks
      <3>1. total_rows \in Nat /\ (total_rows \div job.b) \in Nat
        BY <2>2, TreeRows, DivisionBounds
      <3>2. QED
        BY <3>1 DEF blocks
    <2>7. TableThere /\ WrittenRows = <<>>
      BY <2>1 DEF FrackerInv, FrackInv
    <2>8. TableThere' /\ WrittenRows' = <<>> /\ Len(WrittenRows') = 0
      BY <2>1, <2>7, EmptyIsSeq DEF TableThere, WrittenRows
    <2>9. BlockStart' = 0 /\ job.b * (0 + 1) = job.b
      BY <2>1, <2>2 DEF BlockStart
    <2>10. FilesInv'
      BY <2>1 DEF FrackerInv, FilesInv
    <2>11. BlockInv'
      <3>1. row' <= job'.b * (block' + 1)
        BY <2>1, <2>2, <2>9
      <3>2. \A j \in 1..job'.b : ~(BlockStart' + j <= row')
        BY <2>1, <2>2, <2>9
      <3>3. Len(WrittenRows') = IF block' > 0 /\ BlockStart' = total_rows'
                                THEN BlockStart' - job'.b ELSE BlockStart'
        BY <2>1, <2>8, <2>9
      <3>4. QED
        BY <2>4, <3>1, <3>2, <3>3 DEF BlockInv
    <2>12. RowsInOrder'
      <3>1. DOMAIN WrittenRows' = {}
        BY <2>8, NoMemory
      <3>2. QED
        BY <2>5, <2>6, <2>8, <3>1 DEF RowsInOrder
    <2>13. TypeOK'
      <3>1. row' \in job'.b * block' .. total_rows'
        BY <2>1, <2>2, <2>5, <2>6, <2>9 DEF BlockStart
      <3>2. Len(m_block_buffer') = job'.b /\ block' < blocks'
        BY <2>1, <2>4, <2>5, <2>6
      <3>3. row' \in Nat /\ block' \in Nat
        BY <2>1
      <3>4. pc' \in Ended \cup Running
        BY <2>1 DEF Running
      <3>5. QED
        BY <2>1, <2>3, <3>1, <3>2, <3>3, <3>4 DEF FrackerInv, TypeOK
    <2>14. WrittenOnSuccess'
      BY <2>1 DEF WrittenOnSuccess
    <2>15. FrackInv'
      BY <2>1, <2>8, <2>11 DEF FrackerInv, FrackInv
    <2>16. QED
      BY <2>10, <2>12, <2>13, <2>14, <2>15 DEF FrackerInv
  <1>3. QED
    BY <1>1, <1>2

\* What a row becomes is decided before the first is read.
LEMMA SameRow ==
    ASSUME UNCHANGED <<job, data_columns, table_type, cache>>
    PROVE  /\ \A data : MergedRow(data)' = MergedRow(data)
           /\ Tree' = Tree /\ total_rows' = total_rows /\ blocks' = blocks
  <1>1. event_mode' = event_mode
    BY DEF event_mode
  <1>2. ASSUME NEW data
        PROVE  MergedRow(data)' = MergedRow(data)
    <2>1. Key(data)' = Key(data)
      BY <1>1 DEF Key
    <2>2. \A i : ConfigCell(data, i)' = ConfigCell(data, i)
      BY <2>1 DEF ConfigCell
    <2>3. \A i : DataCell(data, i)' = DataCell(data, i)
      BY <1>1 DEF DataCell
    <2>4. QED
      BY <2>2, <2>3 DEF MergedRow
  <1>3. Tree' = Tree
    BY <1>1 DEF Tree
  <1>4. QED
    BY <1>2, <1>3 DEF total_rows, blocks

\* One more row of the block is in the buffer, at its own place.
LEMMA CopyRowKeeps ==
    ASSUME FrackerInv, CopyRow
    PROVE  FrackerInv'
  <1>1. CASE Exit("undefined")
    BY <1>1, ExitKeeps DEF Ended
  <1>2. CASE ~Exit("undefined")
    <2> DEFINE place == (row % job.b) + 1
               merged == MergedRow(Tree.rows[row + 1])
    <2>1. /\ pc = "rows" /\ pc' = "rows" /\ InBlock
          /\ m_block_buffer' = [m_block_buffer EXCEPT ![place] = merged]
          /\ row' = row + 1
          /\ UNCHANGED <<job, run_config, data_columns, config_columns, table_type,
                         cache, block, hdf, jobs>>
      BY <1>2 DEF CopyRow, locals
    <2>2. /\ job \in Jobs /\ job.b \in Nat \ {0} /\ TableThere
      BY <2>1, JobsAssumption DEF FrackerInv, TypeOK, FrackInv
    <2>3. /\ BlockInv
          /\ Len(m_block_buffer) = job.b /\ block < blocks /\ row \in Nat
          /\ block \in Nat /\ row \in BlockStart .. total_rows
      BY <2>1 DEF FrackerInv, TypeOK, FrackInv, BlockStart
    <2>4. /\ total_rows \in Nat /\ BlockStart \in Nat
          /\ job.b * (block + 1) = BlockStart + job.b
      BY <2>2, <2>3, TreeRows DEF BlockStart
    <2>5. row < BlockStart + job.b /\ row < total_rows /\ BlockStart <= row
      BY <2>1, <2>3, <2>4 DEF InBlock
    <2>6. place = row - BlockStart + 1
      BY <2>2, <2>3, <2>4, <2>5, QuotientAndRest DEF BlockStart
    <2> HIDE DEF place, merged
    <2>7. place \in 1..job.b /\ BlockStart + place = row + 1
      BY <2>2, <2>3, <2>4, <2>5, <2>6
    <2>8. /\ IsSeq(m_block_buffer') /\ Len(m_block_buffer') = job.b
          /\ m_block_buffer'[place] = merged
          /\ \A j \in 1..job.b : j # place => m_block_buffer'[j] = m_block_buffer[j]
      <3>1. m_block_buffer = [j \in 1..job.b |-> m_block_buffer[j]]
        BY <2>3, IsSeqProperties DEF BlockInv
      <3>2. /\ m_block_buffer' = [j \in 1..job.b |-> m_block_buffer'[j]]
            /\ m_block_buffer'[place] = merged
            /\ \A j \in 1..job.b : j # place => m_block_buffer'[j] = m_block_buffer[j]
        BY <2>1, <2>7, <3>1
      <3>3. QED
        BY <2>2, <3>2, FunctionIsSeq
    <2>9. /\ \A data : MergedRow(data)' = MergedRow(data)
          /\ Tree' = Tree /\ total_rows' = total_rows /\ blocks' = blocks
          /\ BlockStart' = BlockStart /\ WrittenRows' = WrittenRows
          /\ TableThere'
      BY <2>1, <2>2, SameRow DEF BlockStart, WrittenRows, TableThere
    <2>10. FilesInv'
      BY <2>1 DEF FrackerInv, FilesInv
    <2>11. BlockInv'
      <3>1. ASSUME NEW j \in 1..job.b, BlockStart + j <= row + 1
            PROVE  m_block_buffer'[j] = MergedRow(Tree.rows[BlockStart + j])
        <4>1. CASE j = place
          BY <2>7, <2>8, <4>1 DEF merged
        <4>2. CASE j # place
          <5>1. BlockStart + j <= row
            BY <2>3, <2>4, <2>7, <3>1, <4>2
          <5>2. QED
            BY <2>3, <2>8, <4>2, <5>1 DEF BlockInv
        <4>3. QED
          BY <4>1, <4>2
      <3>2. \A j \in 1..job'.b : BlockStart' + j <= row' =>
               m_block_buffer'[j] = (MergedRow(Tree.rows[BlockStart + j]))'
        BY <2>1, <2>9, <3>1
      <3>3. row' <= job'.b * (block' + 1)
        BY <2>1, <2>3, <2>4, <2>5
      <3>4. Len(WrittenRows') = IF block' > 0 /\ BlockStart' = total_rows'
                                THEN BlockStart' - job'.b ELSE BlockStart'
        BY <2>1, <2>3, <2>9 DEF BlockInv
      <3>5. QED
        BY <2>8, <3>2, <3>3, <3>4 DEF BlockInv
    <2>12. RowsInOrder'
      BY <2>1, <2>9 DEF FrackerInv, RowsInOrder
    <2>13. TypeOK'
      <3>1. row' \in job'.b * block' .. total_rows'
        BY <2>1, <2>3, <2>4, <2>5, <2>9 DEF BlockStart
      <3>2. Len(m_block_buffer') = job'.b /\ block' < blocks'
        BY <2>1, <2>3, <2>8, <2>9
      <3>3. row' \in Nat /\ block' \in Nat
        BY <2>1, <2>3
      <3>4. QED
        BY <2>1, <3>1, <3>2, <3>3 DEF FrackerInv, TypeOK
    <2>14. WrittenOnSuccess'
      BY <2>1 DEF WrittenOnSuccess
    <2>15. FrackInv'
      BY <2>1, <2>2, <2>9, <2>11 DEF FrackerInv, FrackInv
    <2>16. QED
      BY <2>10, <2>12, <2>13, <2>14, <2>15 DEF FrackerInv
  <1>3. QED
    BY <1>1, <1>2

\* The rows of a block are written behind those of the blocks before; only a
\* full one that is the last to be read is left out.
LEMMA WriteBlockKeeps ==
    ASSUME FrackerInv, WriteBlock
    PROVE  FrackerInv'
  <1> DEFINE n == total_rows
             b == job.b
             count == write_row_count
             old == WrittenRows
             added == SubSeq(m_block_buffer, 1, count)
  <1>1. /\ pc = "rows" /\ ~InBlock
        /\ hdf' = [hdf EXCEPT ![job.o] = write_buffer_to_pytable(
                       hdf[job.o], "data", Name, count, m_block_buffer)]
        /\ block' = block + 1
        /\ pc' = IF InLastBlock THEN "clean_up" ELSE "rows"
        /\ UNCHANGED <<job, run_config, data_columns, config_columns, table_type,
                       cache, m_block_buffer, row, jobs>>
    BY DEF WriteBlock, locals, Name
  <1>2. job \in Jobs /\ b \in Nat \ {0} /\ TableThere
    BY <1>1, JobsAssumption DEF FrackerInv, TypeOK, FrackInv
  <1>3. /\ BlockInv
        /\ Len(m_block_buffer) = b /\ block < blocks /\ row \in Nat
        /\ block \in Nat /\ row \in BlockStart .. n
    BY <1>1 DEF FrackerInv, TypeOK, FrackInv, BlockStart
  <1>4. n \in Nat /\ blocks = (n \div b) + 1
    BY <1>2, TreeRows DEF blocks
  <1>5. /\ b * (block + 1) = BlockStart + b /\ BlockStart \in Nat /\ BlockStart <= n
        /\ InLastBlock => row = n /\ n < BlockStart + b /\ n % b = n - BlockStart
        /\ ~InLastBlock => /\ row = BlockStart + b /\ block + 1 < blocks
                           /\ row = n => n % b = 0
    <2>1. /\ b * block <= row /\ row <= b * (block + 1) /\ row <= n
          /\ ~(row < b * (block + 1) /\ row < n)
      BY <1>1, <1>3, <1>4 DEF BlockInv, InBlock, BlockStart
    <2>2. block < (n \div b) + 1
      BY <1>3, <1>4
    <2> HIDE DEF n, b
    <2>3. /\ b * (block + 1) = b * block + b /\ b * block \in Nat /\ b * block <= n
          /\ block + 1 = (n \div b) + 1 =>
                 row = n /\ n < b * block + b /\ n % b = n - b * block
          /\ block + 1 # (n \div b) + 1 =>
                 /\ row = b * block + b /\ block + 1 < (n \div b) + 1
                 /\ row = n => n % b = 0
      BY <1>2, <1>3, <1>4, <2>1, <2>2, BlockEnds
    <2>4. BlockStart = b * block /\ (InLastBlock <=> block + 1 = (n \div b) + 1)
      BY <1>4 DEF BlockStart, InLastBlock, b
    <2>5. QED
      BY <1>4, <2>3, <2>4
  <1>6. count = IF row = n THEN n % b ELSE b
    BY DEF write_row_count
  <1>7. count \in Nat /\ count <= b /\ BlockStart + count <= row
    <2>1. CASE InLastBlock
      BY <1>2, <1>3, <1>4, <1>5, <1>6, <2>1
    <2>2. CASE ~InLastBlock
      BY <1>2, <1>3, <1>4, <1>5, <1>6, <2>2
    <2>3. QED
      BY <2>1, <2>2
  <1>8. /\ hdf[job.o] \in {hdf[p] : p \in DOMAIN hdf} /\ IsFile(hdf[job.o])
        /\ IsTable(hdf[job.o]["data"][Name]) /\ IsSeq(old)
    <2>1. IsFile(hdf[job.o]) /\ job.o \in DOMAIN hdf
      BY <1>2 DEF FrackerInv, FilesInv, AreFiles, TableThere
    <2>2. IsTable(hdf[job.o]["data"][Name])
      BY <1>2, <2>1, OpenedTable DEF TableThere, Name
    <2>3. QED
      BY <2>1, <2>2 DEF IsTable, WrittenRows, Name
  <1> DEFINE new == write_buffer_to_pytable(hdf[job.o], "data", Name, count,
                                            m_block_buffer)
  <1>9. /\ IsFile(new) /\ HasTable(new, "data", Name)
        /\ new["data"][Name].rows = old \o added
    <2> DEFINE file == hdf[job.o]
               buffer == m_block_buffer
               written == write_buffer_to_pytable(file, "data", Name, count, buffer)
    <2>1. IsFile(file) /\ HasTable(file, "data", Name) /\ IsSeq(buffer)
      BY <1>2, <1>3, <1>8 DEF TableThere, Name, BlockInv
    <2>2. count \in Nat /\ count <= Len(buffer)
      BY <1>3, <1>7
    <2> HIDE DEF file, buffer, count
    <2>3. HasGot(written, file, "data", Name, SubSeq(buffer, 1, count))
      BY <2>1, <2>2, WrittenBuffer
    <2>4. /\ IsFile(written) /\ HasTable(written, "data", Name)
          /\ written["data"][Name].rows =
                file["data"][Name].rows \o SubSeq(buffer, 1, count)
      BY <2>1, <2>3 DEF HasGot
    <2> HIDE DEF written
    <2>5. old = file["data"][Name].rows /\ new = written
      BY DEF WrittenRows, Name, file, buffer, written
    <2> HIDE DEF new
    <2>6. QED
      BY <2>4, <2>5 DEF added, buffer
  <1> HIDE DEF new
  <1>10. /\ FilesInv' /\ TableThere' /\ WrittenRows' = old \o added
         /\ DOMAIN hdf' = DOMAIN hdf
    <2>1. hdf' = [hdf EXCEPT ![job.o] = new]
      BY <1>1 DEF new
    <2>2. job.o \in DOMAIN hdf
      BY <1>2 DEF TableThere
    <2>3. IsFunction(hdf) /\ \A p \in DOMAIN hdf : IsFile(hdf[p])
      BY DEF FrackerInv, FilesInv, AreFiles
    <2>4. /\ DOMAIN hdf' = DOMAIN hdf /\ IsFunction(hdf')
          /\ hdf'[job.o] = new
          /\ \A p \in DOMAIN hdf : p # job.o => hdf'[p] = hdf[p]
      BY <2>1, <2>2, <2>3 DEF IsFunction
    <2>5. FilesInv'
      BY <1>9, <2>3, <2>4 DEF FilesInv, AreFiles
    <2>6. TableThere' /\ WrittenRows' = old \o added
      BY <1>1, <1>9, <2>2, <2>4 DEF TableThere, WrittenRows, Name
    <2>7. QED
      BY <2>4, <2>5, <2>6
  <1>11. IsSeq(added) /\ Len(added) = count
         /\ \A j \in 1..count : added[j] = m_block_buffer[j]
    <2>1. 0 \in Nat /\ 0 <= count /\ count <= Len(m_block_buffer)
          /\ 0 + 1 = 1 /\ count - 0 = count /\ \A j \in 1..count : 0 + j = j
      BY <1>3, <1>7
    <2>2. IsSeq(m_block_buffer)
      BY <1>3 DEF BlockInv
    <2> HIDE DEF count
    <2>3. /\ IsSeq(SubSeq(m_block_buffer, 0 + 1, count))
          /\ Len(SubSeq(m_block_buffer, 0 + 1, count)) = count - 0
          /\ \A j \in 1..(count - 0) :
                SubSeq(m_block_buffer, 0 + 1, count)[j] = m_block_buffer[0 + j]
      BY <1>7, <2>1, <2>2, PartIsSeq
    <2>4. QED
      BY <2>1, <2>3
  <1>12. /\ IsSeq(old \o added) /\ Len(old \o added) = Len(old) + count
         /\ \A i \in 1..Len(old) : (old \o added)[i] = old[i]
         /\ \A j \in 1..count : (old \o added)[Len(old) + j] = m_block_buffer[j]
         /\ Len(old) \in Nat
         /\ DOMAIN (old \o added) = 1..(Len(old) + count)
    <2> HIDE DEF old, added, count
    <2>1. /\ IsSeq(old \o added) /\ Len(old \o added) = Len(old) + Len(added)
          /\ \A i \in 1..Len(old) : (old \o added)[i] = old[i]
          /\ \A j \in 1..Len(added) : (old \o added)[Len(old) + j] = added[j]
      BY <1>8, <1>11, ConcatIsSeq
    <2>2. Len(old) \in Nat /\ DOMAIN (old \o added) = 1..Len(old \o added)
      BY <1>8, <2>1, IsSeqProperties
    <2>3. QED
      BY <1>11, <2>1, <2>2
  <1>13. Len(old) = IF block > 0 /\ BlockStart = n THEN BlockStart - b ELSE BlockStart
    BY <1>3 DEF BlockInv
  <1>14. count # 0 => BlockStart # n
    BY <1>3, <1>4, <1>5, <1>7
  <1>15. /\ \A data : MergedRow(data)' = MergedRow(data)
         /\ Tree' = Tree /\ total_rows' = total_rows /\ blocks' = blocks
         /\ BlockStart' = BlockStart + b
    BY <1>1, <1>5, SameRow DEF BlockStart
  <1> HIDE DEF count, added
  <1>16. \A i \in DOMAIN (old \o added) : (old \o added)[i] = MergedRow(Tree.rows[i])
    <2>1. SUFFICES ASSUME NEW i \in 1..(Len(old) + count)
                   PROVE  (old \o added)[i] = MergedRow(Tree.rows[i])
      BY <1>12
    <2>2. CASE i \in 1..Len(old)
      <3>1. DOMAIN old = 1..Len(old)
        BY <1>8, IsSeqProperties
      <3>2. old[i] = MergedRow(Tree.rows[i])
        BY <1>1, <2>2, <3>1 DEF FrackerInv, RowsInOrder
      <3>3. QED
        BY <1>12, <2>2, <3>2
    <2>3. CASE i \notin 1..Len(old)
      <3> DEFINE j == i - Len(old)
      <3>1. j \in 1..count /\ i = Len(old) + j /\ count # 0
        BY <1>7, <1>12, <2>3
      <3>2. Len(old) = BlockStart
        BY <1>13, <1>14, <3>1
      <3>3. j \in 1..b /\ BlockStart + j <= row /\ i = BlockStart + j
        BY <1>2, <1>3, <1>5, <1>7, <3>1, <3>2
      <3>4. m_block_buffer[j] = MergedRow(Tree.rows[BlockStart + j])
        BY <1>3, <3>3 DEF BlockInv
      <3> HIDE DEF j
      <3>5. (old \o added)[i] = m_block_buffer[j]
        BY <1>12, <3>1
      <3>6. QED
        BY <3>3, <3>4, <3>5
    <2>4. QED
      BY <2>2, <2>3
  <1>17. Len(old) + count <= n
    BY <1>2, <1>3, <1>4, <1>5, <1>7, <1>13, <1>14
  <1>18. RowsInOrder'
    BY <1>10, <1>12, <1>15, <1>16, <1>17 DEF RowsInOrder
  <1>19. CASE InLastBlock
    <2>1. pc' = "clean_up"
      BY <1>1, <1>19
    <2>2. WrittenOnSuccess'
      <3>1. row = n /\ n % b = n - BlockStart /\ count = n % b
        BY <1>5, <1>6, <1>19
      <3>2. Len(old) + count = IF n % b = 0 /\ n > 0 THEN n - b ELSE n
        <4>1. CASE n % b = 0
          <5>1. count = 0 /\ BlockStart = n
            BY <1>4, <1>5, <3>1, <4>1
          <5>2. block > 0 <=> n > 0
            <6>1. block = 0 => BlockStart = 0
              BY <1>2 DEF BlockStart
            <6>2. block > 0 => BlockStart > 0
              <7>1. ASSUME block > 0
                    PROVE  BlockStart > 0
                <8>1. 1 * b <= block * b
                  BY <1>2, <1>3, <7>1, ProductMonotone
                <8>2. BlockStart = block * b
                  BY <1>2, <1>3 DEF BlockStart
                <8>3. QED
                  BY <1>2, <1>5, <8>1, <8>2
              <7>2. QED
                BY <7>1
            <6>3. QED
              BY <1>3, <5>1, <6>1, <6>2
          <5>3. QED
            BY <1>2, <1>4, <1>13, <4>1, <5>1, <5>2
        <4>2. CASE n % b # 0
          BY <1>4, <1>5, <1>12, <1>13, <1>14, <3>1, <4>2
        <4>3. QED
          BY <4>1, <4>2
      <3>3. Len(WrittenRows') = Len(old) + count
        BY <1>10, <1>12
      <3>4. QED
        BY <1>1, <1>15, <3>2, <3>3 DEF WrittenOnSuccess
    <2>3. TypeOK'
      BY <1>1, <1>3, <1>10, <2>1 DEF FrackerInv, TypeOK, Running
    <2>4. FrackInv'
      BY <1>1, <1>2, <1>10, <2>1 DEF FrackerInv, FrackInv
    <2>5. QED
      BY <1>10, <1>18, <2>2, <2>3, <2>4 DEF FrackerInv
  <1>20. CASE ~InLastBlock
    <2>1. pc' = "rows" /\ row = BlockStart + b /\ block + 1 < blocks
      BY <1>1, <1>5, <1>20
    <2>2. WrittenOnSuccess'
      BY <2>1 DEF WrittenOnSuccess
    <2>3. TypeOK'
      <3>1. row' \in job'.b * block' .. total_rows'
        BY <1>1, <1>3, <1>5, <1>15, <2>1 DEF BlockStart
      <3>2. Len(m_block_buffer') = job'.b /\ block' < blocks'
        BY <1>1, <1>3, <1>15, <2>1
      <3>3. row' \in Nat /\ block' \in Nat
        BY <1>1, <1>3
      <3>4. QED
        BY <1>1, <1>10, <2>1, <3>1, <3>2, <3>3 DEF FrackerInv, TypeOK, Running
    <2>4. BlockInv'
      <3>1. row' <= job'.b * (block' + 1)
        <4>1. b * (block' + 1) = b * (block + 1) + b
          BY <1>1, <1>2, <1>3
        <4>2. QED
          BY <1>1, <1>2, <1>3, <1>5, <2>1, <4>1
      <3>2. \A j \in 1..job'.b : ~(BlockStart' + j <= row')
        BY <1>1, <1>2, <1>5, <1>15, <2>1
      <3>3. Len(old) + count = IF BlockStart + b = n THEN BlockStart ELSE BlockStart + b
        <4>1. Len(old) = BlockStart
          BY <1>2, <1>3, <1>5, <1>13, <2>1
        <4>2. CASE row = n
          BY <1>5, <1>6, <1>20, <2>1, <4>1, <4>2
        <4>3. CASE row # n
          BY <1>6, <2>1, <4>1, <4>3
        <4>4. QED
          BY <4>2, <4>3
      <3>4. Len(WrittenRows') = IF block' > 0 /\ BlockStart' = total_rows'
                                THEN BlockStart' - job'.b ELSE BlockStart'
        <4>1. block' > 0 /\ (BlockStart + b) - b = BlockStart
          BY <1>1, <1>2, <1>3, <1>5
        <4>2. QED
          BY <1>1, <1>10, <1>12, <1>15, <3>3, <4>1
      <3>5. IsSeq(m_block_buffer')
        BY <1>1, <1>3 DEF BlockInv
      <3>6. QED
        BY <3>1, <3>2, <3>4, <3>5 DEF BlockInv
    <2>5. FrackInv'
      BY <1>1, <1>2, <1>10, <2>1, <2>4 DEF FrackerInv, FrackInv
    <2>6. QED
      BY <1>10, <1>18, <2>2, <2>3, <2>5 DEF FrackerInv
  <1>21. QED
    BY <1>19, <1>20

\* Every step of the fracker keeps its invariant.
LEMMA FrackerNext ==
    ASSUME FrackerInv, [Next]_vars
    PROVE  FrackerInv'
  <1>1. CASE CleanUp
    BY <1>1, ExitKeeps DEF CleanUp, Ended
  <1>2. CASE UNCHANGED vars
    <2>1. FilesInv'
      BY <1>2 DEF vars, FrackerInv, FilesInv
    <2>2. UNCHANGED <<TableThere, WrittenRows, total_rows, blocks, BlockStart>>
          /\ \A data : MergedRow(data)' = MergedRow(data)
          /\ Tree' = Tree
      BY <1>2, SameRow DEF vars, TableThere, WrittenRows, BlockStart
    <2>3. UNCHANGED BlockInv
      BY <1>2, <2>2 DEF vars, BlockInv
    <2>4. RowsInOrder' /\ WrittenOnSuccess'
      BY <1>2, <2>2 DEF vars, FrackerInv, RowsInOrder, WrittenOnSuccess
    <2>5. FrackInv'
      BY <1>2, <2>2, <2>3 DEF vars, FrackerInv, FrackInv
    <2>6. TypeOK'
      BY <1>2, <2>2 DEF vars, FrackerInv, TypeOK
    <2>7. QED
      BY <2>1, <2>4, <2>5, <2>6 DEF FrackerInv
  <1>3. QED
    BY <1>1, <1>2, StartKeeps, LoadKeeps, FormatKeeps, CreateKeeps, CacheKeeps,
       CopyRowKeeps, WriteBlockKeeps DEF Next

\* What else happens to the files leaves a fracker that has ended as it is.
LEMMA EndedKeeps ==
    ASSUME FrackerInv, pc \in Ended, UNCHANGED <<pc, job, locals, loop, jobs>>,
           FilesInv', DOMAIN hdf' \subseteq Paths
    PROVE  FrackerInv'
  <1>1. /\ pc' \in Ended \cup Running
        /\ pc' \notin {"cache", "rows", "clean_up"}
    BY DEF Ended
  <1>2. QED
    BY <1>1
    DEF FrackerInv, TypeOK, RowsInOrder, WrittenOnSuccess, FrackInv, locals, loop
-----------------------------------------------------------------------------
(***************************************************************************)
(* What turbo-pump reads in the files on disk.                             *)
(***************************************************************************)
At(files, path) == IF path \in DOMAIN files THEN files[path] ELSE NotAFile
RowsIn(files, path, group) == OpenTable(At(files, path), group, Name).rows
TypeIn(files, path, group) == get_pytable_type(At(files, path), group, Name)
ColumnsIn(files, path, group) ==
    IF TypeIn(files, path, group) = NoType THEN <<>>
    ELSE [i \in DOMAIN TypeIn(files, path, group).members |->
             TypeIn(files, path, group).members[i].name]

\* turbo-pump uses the tables as they are.
LEMMA SameTables ==
    ASSUME NEW f, NEW g, NEW n
    PROVE  /\ TP!OpenTable(f, g, n) = OpenTable(f, g, n)
           /\ TP!get_pytable_type(f, g, n) = get_pytable_type(f, g, n)
           /\ TP!Stored(f, g, n) = Stored(f, g, n)
           /\ TP!Range(f) = Range(f)
           /\ TP!NotAFile = NotAFile /\ TP!NoType = NoType
  BY Zenon DEF TP!OpenTable, OpenTable, TP!get_pytable_type, get_pytable_type,
     TP!Stored, Stored, TP!Range, Range, TP!NotAFile, NotAFile, TP!NoType, NoType,
     TP!NoTable, NoTable

\* Creating a table is the same operation in both.
LEMMA SameNewTable ==
    ASSUME NEW g, NEW n, NEW t, NEW b
    PROVE  TP!create_pytables_table(
               TP!create_pytables_group(TP!create_pytables_file, g), g, n, t, b)
             = create_pytables_table(
                   create_pytables_group(create_pytables_file, g), g, n, t, b)
  BY Zenon DEF TP!create_pytables_table, create_pytables_table,
     TP!create_pytables_group, create_pytables_group, TP!create_pytables_file,
     create_pytables_file, TP!NoTable, NoTable, TP!NoType, NoType

\* So is merging one.
LEMMA SameMerge ==
    ASSUME NEW f, NEW i, NEW g, NEW n, NEW b
    PROVE  /\ TP!MergeError(f, i, g, n) = MergeError(f, i, g, n)
           /\ TP!merge_tables(f, i, g, n, b) = merge_tables(f, i, g, n, b)
  <1>1. TP!MergeError(f, i, g, n) = MergeError(f, i, g, n)
    BY Zenon DEF TP!MergeError, MergeError, TP!OpenTable, OpenTable, TP!NoTable,
       NoTable, TP!compare_compound_data_types, compare_compound_data_types
  <1>2. TP!merge_tables(f, i, g, n, b) = merge_tables(f, i, g, n, b)
    BY Zenon DEF TP!merge_tables, merge_tables, TP!write_buffer_to_pytable,
       write_buffer_to_pytable, TP!CopyBlock, CopyBlock, TP!LastBlock, LastBlock,
       TP!MergeError, MergeError, TP!OpenTable, OpenTable, TP!NoTable, NoTable,
       TP!compare_compound_data_types, compare_compound_data_types
  <1>3. QED
    BY <1>1, <1>2

\* What it reads, before a step and after it.
LEMMA PumpReads ==
    ASSUME NEW path
    PROVE  /\ TP!FileAt(path) = At(hdf, path)
           /\ TP!RowsAt(path) = RowsIn(hdf, path, merge.g)
           /\ TP!Columns(path) = ColumnsIn(hdf, path, merge.g)
           /\ TP!FileAt(path)' = At(hdf', path)
           /\ TP!RowsAt(path)' = RowsIn(hdf', path, merge'.g)
           /\ TP!Columns(path)' = ColumnsIn(hdf', path, merge'.g)
  <1>1. TP!FileAt(path) = At(hdf, path) /\ TP!FileAt(path)' = At(hdf', path)
    BY SameTables DEF TP!FileAt, At
  <1>2. /\ TP!RowsAt(path) = RowsIn(hdf, path, merge.g)
        /\ TP!RowsAt(path)' = RowsIn(hdf', path, merge'.g)
    BY <1>1, SameTables DEF TP!RowsAt, RowsIn, Name
  <1>3. /\ TP!Columns(path) = ColumnsIn(hdf, path, merge.g)
        /\ TP!Columns(path)' = ColumnsIn(hdf', path, merge'.g)
    BY <1>1, SameTables DEF TP!Columns, ColumnsIn, TypeIn, Name
  <1>4. QED
    BY <1>1, <1>2, <1>3

\* The columns it sees after a step.
LEMMA ColumnsAfter ==
    /\ (TP!Columns(merge.o))' = ColumnsIn(hdf', merge'.o, merge'.g)
    /\ \A k : (TP!Columns(merge.i[k]))' = ColumnsIn(hdf', merge'.i[k], merge'.g)
  BY SameTables DEF TP!Columns, TP!FileAt, ColumnsIn, TypeIn, At, Name

\* So is flattening.
LEMMA SameFlattening ==
    ASSUME NEW s
    PROVE  TP!FlattenSeq(s) = FlattenSeq(s)
  BY Zenon DEF TP!FlattenSeq, FlattenSeq

\* What it has merged, before a step and after it.
LEMMA PumpFlattens ==
    /\ TP!FlatRows(merge.i, next) =
          FlattenSeq([k \in 1..next |-> RowsIn(hdf, merge.i[k], merge.g)])
    /\ (TP!FlatRows(merge.i, next))' =
          FlattenSeq([k \in 1..next' |-> RowsIn(hdf', merge'.i[k], merge'.g)])
  <1>1. TP!FlatRows(merge.i, next) =
          FlattenSeq([k \in 1..next |-> TP!RowsAt(merge.i[k])])
    BY SameFlattening DEF TP!FlatRows
  <1>2. (TP!FlatRows(merge.i, next))' =
          FlattenSeq([k \in 1..next' |-> (TP!RowsAt(merge.i[k]))'])
    BY SameFlattening DEF TP!FlatRows
  <1>3. \A path : /\ TP!RowsAt(path) = RowsIn(hdf, path, merge.g)
                  /\ TP!RowsAt(path)' = RowsIn(hdf', path, merge'.g)
    BY PumpReads
  <1>4. [k \in 1..next |-> TP!RowsAt(merge.i[k])] =
            [k \in 1..next |-> RowsIn(hdf, merge.i[k], merge.g)]
    BY <1>3
  <1>5. [k \in 1..next' |-> (TP!RowsAt(merge.i[k]))'] =
            [k \in 1..next' |-> RowsIn(hdf', merge'.i[k], merge'.g)]
    BY <1>3 DEF TP!RowsAt, TP!FileAt
  <1>6. QED
    BY <1>1, <1>2, <1>4, <1>5

\* Nothing, flattened, is nothing.
LEMMA FlatNothing == FlattenSeq(<<>>) = <<>>
  <1>1. [i \in 1..0 |-> 0] = <<>>
    OBVIOUS
  <1>2. QED
    BY <1>1 DEF FlattenSeq

\* A path names a file, or nothing that could be opened.
LEMMA FileIsThere ==
    ASSUME NEW files, AreFiles(files), NEW path
    PROVE  IsFile(At(files, path))
  <1>1. DOMAIN NotAFile = {} /\ IsFunction(NotAFile)
    BY DEF NotAFile, IsFunction
  <1>2. QED
    BY <1>1 DEF At, AreFiles, IsFile

\* What the columns are, and that a table has some.
LEMMA ColumnsOfTable ==
    ASSUME NEW files, AreFiles(files), NEW path, NEW group,
           HasTable(At(files, path), group, Name)
    PROVE  LET members == At(files, path)[group][Name].type.members
           IN  /\ IsSeq(members) /\ members # <<>>
               /\ ColumnsIn(files, path, group) =
                     [i \in DOMAIN members |-> members[i].name]
               /\ ColumnsIn(files, path, group) # <<>>
  <1> DEFINE type == At(files, path)[group][Name].type
             members == type.members
             names == [i \in DOMAIN members |-> members[i].name]
  <1>1. /\ TypeIn(files, path, group) = type /\ IsType(type)
    BY FileIsThere, OpenedTable DEF TypeIn
  <1>2. type # NoType /\ IsSeq(members) /\ members # <<>>
    BY <1>1, HandlesDiffer DEF IsType
  <1> HIDE DEF type
  <1>3. ColumnsIn(files, path, group) = names
    BY <1>1, <1>2 DEF ColumnsIn
  <1>4. names # <<>>
    <2>1. Len(members) \in Nat /\ Len(members) # 0 /\ DOMAIN members = 1..Len(members)
      BY <1>2, IsSeqProperties
    <2> HIDE DEF members
    <2>2. 1 \in DOMAIN names
      BY <2>1
    <2>3. DOMAIN <<>> = {}
      BY NoMemory
    <2>4. QED
      BY <2>2, <2>3
  <1>5. QED
    BY <1>2, <1>3, <1>4 DEF type

\* What makes merge_tables go on: both tables are there, with the same columns.
LEMMA Mergeable ==
    ASSUME NEW files, AreFiles(files), NEW o, NEW p, NEW g,
           MergeError(At(files, o), At(files, p), g, Name) = "none"
    PROVE  /\ HasTable(At(files, o), g, Name) /\ HasTable(At(files, p), g, Name)
           /\ ColumnsIn(files, p, g) # <<>>
           /\ ColumnsIn(files, p, g) = ColumnsIn(files, o, g)
  <1> DEFINE out == OpenTable(At(files, o), g, Name)
             in == OpenTable(At(files, p), g, Name)
  <1>1. /\ out # NoTable /\ in # NoTable
        /\ compare_compound_data_types(out.type, in.type)
    BY DEF MergeError
  <1>2. HasTable(At(files, o), g, Name) /\ HasTable(At(files, p), g, Name)
    BY <1>1, FileIsThere, OpenedTable
  <1> DEFINE outs == At(files, o)[g][Name].type.members
             ins == At(files, p)[g][Name].type.members
  <1>3. outs = out.type.members /\ ins = in.type.members
    BY <1>2, FileIsThere, OpenedTable
  <1>4. /\ IsSeq(outs) /\ IsSeq(ins)
        /\ ColumnsIn(files, o, g) = [i \in DOMAIN outs |-> outs[i].name]
        /\ ColumnsIn(files, p, g) = [i \in DOMAIN ins |-> ins[i].name]
        /\ ColumnsIn(files, p, g) # <<>>
    BY <1>2, ColumnsOfTable
  <1> HIDE DEF out, in
  <1>5. Len(outs) = Len(ins) /\ \A i \in DOMAIN outs : outs[i].name = ins[i].name
    BY <1>1, <1>3 DEF compare_compound_data_types
  <1> HIDE DEF outs, ins
  <1>6. DOMAIN outs = DOMAIN ins
    BY <1>4, <1>5, IsSeqProperties
  <1>7. QED
    BY <1>2, <1>4, <1>5, <1>6

\* Files of which one has got the rows of another behind its own.
OneMore(new, files, o, p, g) ==
    /\ AreFiles(new) /\ DOMAIN new = DOMAIN files
    /\ RowsIn(new, o, g) = RowsIn(files, o, g) \o RowsIn(files, p, g)
    /\ \A q : q # o => RowsIn(new, q, g) = RowsIn(files, q, g)
    /\ \A q : ColumnsIn(new, q, g) = ColumnsIn(files, q, g)

\* One input is merged: its rows come behind those of the output, and every
\* table keeps its columns.
LEMMA OneMerged ==
    ASSUME NEW files, AreFiles(files), NEW o, NEW p, NEW g, NEW b \in Nat \ {0},
           MergeError(At(files, o), At(files, p), g, Name) = "none", NEW new,
           new = [files EXCEPT ![o] = merge_tables(files[o], At(files, p), g, Name, b)]
    PROVE  OneMore(new, files, o, p, g)
  <1> DEFINE old == files[o]
             input == At(files, p)
             rows == input[g][Name].rows
             merged == merge_tables(old, input, g, Name, b)
             written == write_buffer_to_pytable(old, g, Name, Len(rows), rows)
  <1>1. /\ HasTable(At(files, o), g, Name) /\ HasTable(input, g, Name)
        /\ IsFile(At(files, o)) /\ IsFile(input)
    BY Mergeable, FileIsThere
  <1>2. o \in DOMAIN files /\ At(files, o) = old
    <2>1. ~HasTable(NotAFile, g, Name)
      BY DEF HasTable, NotAFile
    <2>2. QED
      BY <1>1, <2>1 DEF At
  <1>3. /\ IsSeq(old[g][Name].rows) /\ IsSeq(rows)
        /\ RowsIn(files, o, g) = old[g][Name].rows
        /\ RowsIn(files, p, g) = rows
    <2>1. /\ IsTable(old[g][Name]) /\ IsTable(input[g][Name])
          /\ OpenTable(old, g, Name) = old[g][Name]
          /\ OpenTable(input, g, Name) = input[g][Name]
      <3> HIDE DEF old, input
      <3>1. QED
        BY <1>1, <1>2, OpenedTable
    <2>2. QED
      BY <1>2, <2>1 DEF IsTable, RowsIn
  <1>4. MergeError(old, input, g, Name) = "none"
    BY <1>2
  <1> HIDE DEF input
  <1>5. merged = WithRows(old, g, Name, old[g][Name].rows \o rows)
    BY <1>1, <1>2, <1>4, MergedTable
  <1>6. merged = written
    BY <1>1, <1>2, <1>3, <1>5, WrittenRowsOfFile
  <1>7. HasGot(merged, old, g, Name, rows)
    <2>1. /\ Len(rows) \in Nat /\ Len(rows) <= Len(rows) /\ rows \in Seq(Elems(rows))
      BY <1>3, IsSeqProperties DEF IsSeq
    <2> HIDE DEF rows, old
    <2>2. SubSeq(rows, 1, Len(rows)) = rows
      BY <2>1, SubSeqFull
    <2>3. IsFile(old) /\ HasTable(old, g, Name) /\ IsSeq(rows)
      BY <1>1, <1>2, <1>3
    <2>4. HasGot(written, old, g, Name, SubSeq(rows, 1, Len(rows)))
      BY <2>1, <2>3, WrittenBuffer
    <2>5. QED
      BY <1>6, <2>2, <2>4
  <1>8. new = [files EXCEPT ![o] = merged]
    BY DEF input
  <1> HIDE DEF merged
  <1>9. /\ AreFiles(new) /\ DOMAIN new = DOMAIN files
        /\ At(new, o) = merged
        /\ \A q : q # o => At(new, q) = At(files, q)
    BY <1>2, <1>7, <1>8 DEF AreFiles, IsFunction, At, HasGot
  <1>10. /\ HasTable(merged, g, Name)
         /\ merged[g][Name].rows = old[g][Name].rows \o rows
         /\ merged[g][Name].type = old[g][Name].type
    BY <1>1, <1>2, <1>7 DEF HasGot
  <1>11. RowsIn(new, o, g) = merged[g][Name].rows
    <2>1. OpenTable(merged, g, Name) = merged[g][Name]
      BY <1>10 DEF OpenTable, HasTable
    <2>2. QED
      BY <1>9, <2>1 DEF RowsIn
  <1>12. \A q : q # o => /\ RowsIn(new, q, g) = RowsIn(files, q, g)
                         /\ ColumnsIn(new, q, g) = ColumnsIn(files, q, g)
    BY <1>9 DEF RowsIn, ColumnsIn, TypeIn
  <1>13. TypeIn(new, o, g) = TypeIn(files, o, g)
    <2>1. IsFile(merged)
      BY <1>7 DEF HasGot
    <2> HIDE DEF old
    <2>2. get_pytable_type(merged, g, Name) = merged[g][Name].type
      BY <1>10, <2>1, OpenedTable
    <2>3. get_pytable_type(old, g, Name) = old[g][Name].type
      BY <1>1, <1>2, OpenedTable
    <2>4. QED
      BY <1>2, <1>9, <1>10, <2>2, <2>3 DEF TypeIn
  <1>14. ColumnsIn(new, o, g) = ColumnsIn(files, o, g)
    BY <1>13 DEF ColumnsIn
  <1>15. QED
    BY <1>3, <1>9, <1>10, <1>11, <1>12, <1>14 DEF OneMore
-----------------------------------------------------------------------------
\* A merge that starts has merged nothing.
LEMMA StartMergeKeeps ==
    ASSUME PumpInv, NEW m \in Merges, TP!StartMerge(m)
    PROVE  PumpInv' /\ hdf' = hdf
  <1>1. /\ merge' = m /\ next' = 0 /\ hdf' = hdf /\ tp_pc' # "merge"
        /\ tp_pc' = "create" => ~(Len(m.i) <= 1)
    BY DEF TP!StartMerge
  <1>2. tp_pc' = "create" => Len(merge'.i) > 1
    <2>1. Len(m.i) \in Nat
      BY MergesAssumption, SeqIsSeq
    <2>2. QED
      BY <1>1, <2>1
  <1>3. QED
    BY <1>1, <1>2 DEF PumpInv

\* The output is created with an empty table, unless it is the first input.
LEMMA CreateOutputKeeps ==
    ASSUME PumpInv, FilesInv, DOMAIN hdf \subseteq Paths, TP!CreateOutput
    PROVE  PumpInv' /\ FilesInv' /\ DOMAIN hdf' \subseteq Paths
  <1> DEFINE o == merge.o
             g == merge.g
             first == merge.i[1]
             type == TypeIn(hdf, first, g)
             file == create_pytables_table(
                         create_pytables_group(create_pytables_file, g),
                         g, Name, type, merge.b)
  <1>1. /\ tp_pc = "create" /\ tp_pc' = "merge"
        /\ merge' = merge /\ next' = next
        /\ hdf' = IF o = first THEN hdf ELSE Stored(hdf, o, file)
    <2>1. TP!input_table_type = type
      BY PumpReads, SameTables DEF TP!input_table_type, TypeIn, Name
    <2>2. QED
      BY <2>1, SameTables, SameNewTable DEF TP!CreateOutput, Name
  <1>2. /\ merge \in Merges /\ Len(merge.i) > 1 /\ next = 0
        /\ o \in Paths /\ DOMAIN merge.i = 1..Len(merge.i) /\ Len(merge.i) \in Nat
    BY <1>1, MergesAssumption, SeqIsSeq DEF PumpInv
  <1>3. type = NoType \/ IsType(type)
    BY FileIsThere, OpenedTable DEF TypeIn, FilesInv
  <1> HIDE DEF type
  <1>4. /\ IsFile(file)
        /\ HasTable(file, g, Name) => merge.b # 0 /\ file[g][Name].rows = <<>>
    BY <1>3, NewTable
  <1> HIDE DEF file
  <1>5. ASSUME o # first
        PROVE  /\ AreFiles(hdf') /\ DOMAIN hdf' = DOMAIN hdf \cup {o}
               /\ At(hdf', o) = file /\ RowsIn(hdf', o, g) = <<>>
               /\ HasTable(At(hdf', o), g, Name) => merge.b # 0
    <2> DEFINE stored == Stored(hdf, o, file)
    <2>1. hdf' = stored
      BY <1>1, <1>5
    <2>2. HasNew(stored, hdf, o, file)
      <3>1. AreFiles(hdf) /\ IsFile(file)
        BY <1>4 DEF FilesInv
      <3> HIDE DEF o
      <3>2. QED
        BY <3>1, StoredFile
    <2> HIDE DEF stored, o, g
    <2>3. /\ AreFiles(stored) /\ DOMAIN stored = DOMAIN hdf \cup {o}
          /\ At(hdf', o) = file
      BY <2>1, <2>2 DEF HasNew, At
    <2>4. OpenTable(file, g, Name).rows = <<>>
      BY <1>4, OpenedTable
    <2>5. QED
      BY <1>4, <2>1, <2>3, <2>4 DEF RowsIn
  <1>6. FilesInv' /\ DOMAIN hdf' \subseteq Paths
    <2>1. CASE o = first
      BY <1>1, <2>1 DEF FilesInv
    <2>2. CASE o # first
      BY <1>2, <1>5, <2>2 DEF FilesInv
    <2>3. QED
      BY <2>1, <2>2
  <1>7. merge'.o # merge'.i[1] /\ OutputThere' => merge'.b # 0
    <2>1. OutputThere' <=> HasTable(At(hdf', merge'.o), merge'.g, Name)
      BY PumpReads DEF OutputThere
    <2>2. QED
      BY <1>1, <1>5, <2>1
  <1>8. TP!RowsSoFar'
    <2>1. SUFFICES ASSUME o \notin TP!Range(merge.i)
                   PROVE  TP!RowsAt(o)' = (TP!FlatRows(merge.i, next))'
      BY <1>1 DEF TP!RowsSoFar
    <2>2. first \in TP!Range(merge.i)
      <3>1. 1 \in DOMAIN merge.i
        BY <1>2
      <3>2. first \in Range(merge.i)
        BY <3>1 DEF Range
      <3>3. QED
        BY <3>2, SameTables
    <2>3. RowsIn(hdf', o, g) = <<>>
      BY <1>5, <2>1, <2>2
    <2>4. TP!RowsAt(o)' = <<>>
      BY <1>1, <2>3, PumpReads
    <2>5. (TP!FlatRows(merge.i, next))' = <<>>
      <3>1. (TP!FlatRows(merge.i, next))' =
                FlattenSeq([k \in 1..0 |-> RowsIn(hdf', merge.i[k], g)])
        BY <1>1, <1>2, PumpFlattens
      <3>2. [k \in 1..0 |-> RowsIn(hdf', merge.i[k], g)] = <<>>
        OBVIOUS
      <3>3. QED
        BY <3>1, <3>2, FlatNothing
    <2>6. QED
      BY <2>4, <2>5
  <1>9. QED
    BY <1>1, <1>2, <1>6, <1>7, <1>8 DEF PumpInv

\* The rows of a table that is read are a sequence.
LEMMA RowsAreSeq ==
    ASSUME NEW files, AreFiles(files), NEW path, NEW group
    PROVE  IsSeq(RowsIn(files, path, group))
  <1> DEFINE file == At(files, path)
  <1>1. IsFile(file)
    BY FileIsThere
  <1>2. RowsIn(files, path, group) = OpenTable(file, group, Name).rows
    BY DEF RowsIn
  <1> HIDE DEF file
  <1>3. CASE HasTable(file, group, Name)
    <2>1. /\ IsTable(file[group][Name])
          /\ OpenTable(file, group, Name) = file[group][Name]
      BY <1>1, <1>3, OpenedTable
    <2>2. QED
      BY <1>2, <2>1 DEF IsTable
  <1>4. CASE ~HasTable(file, group, Name)
    BY <1>1, <1>2, <1>4, OpenedTable, EmptyIsSeq
  <1>5. QED
    BY <1>3, <1>4

\* The rows of one more input come behind those of the inputs before.
LEMMA FlatOneMore ==
    ASSUME NEW n \in Nat, NEW seqs, AreSeqs(seqs, n + 1)
    PROVE  FlattenSeq([i \in 1..n + 1 |-> seqs[i]]) =
               FlattenSeq([i \in 1..n |-> seqs[i]]) \o seqs[n + 1]
  <1>1. n + 1 \in Nat /\ n \in 0..n + 1 /\ n + 1 \in 1..n + 1 /\ n + 1 \in 0..n + 1
        /\ (n + 1) - 1 = n
    OBVIOUS
  <1>2. PICK f : FlatStep(f, seqs, n + 1)
    BY <1>1, FlattenedStepwise
  <1>3. f[n + 1] = f[n] \o seqs[n + 1]
    BY <1>1, <1>2 DEF FlatStep
  <1>4. /\ FlattenSeq([i \in 1..n + 1 |-> seqs[i]]) = f[n + 1]
        /\ FlattenSeq([i \in 1..n |-> seqs[i]]) = f[n]
    BY <1>1, <1>2 DEF FlatStep
  <1>5. QED
    BY <1>3, <1>4

\* A merge that goes on has put the rows of one more input, of the same
\* columns, behind those of the inputs before.
Merged ==
    /\ next < Len(merge.i)
    /\ merge' = merge /\ next' = next + 1
    /\ tp_pc' = IF next + 1 = Len(merge.i) THEN "success" ELSE "merge"
    /\ merge.b # 0
    /\ FilesInv' /\ DOMAIN hdf' = DOMAIN hdf
    /\ \A k \in 1..next + 1 : /\ TP!Columns(merge.i[k]) # <<>>
                              /\ TP!Columns(merge.i[k]) = TP!Columns(merge.o)
    /\ \A p : ColumnsIn(hdf', p, merge.g) = ColumnsIn(hdf, p, merge.g)
    /\ TP!RowsSoFar'

\* A step of the merger stops or has merged a part.
LEMMA MergeNextMerges ==
    ASSUME PumpInv, FilesInv, TP!MergeNext
    PROVE  \/ tp_pc' \in {"abort", "failure"} /\ UNCHANGED <<hdf, merge, next>>
           \/ Merged
  <1> DEFINE o == merge.o
             g == merge.g
             p == merge.i[next + 1]
             out == IF o = merge.i[1] THEN NotAFile ELSE At(hdf, o)
             in == At(hdf, p)
             error == MergeError(out, in, g, Name)
  <1>1. /\ tp_pc = "merge" /\ merge' = merge
        /\ IF error = "none"
           THEN /\ hdf' = [hdf EXCEPT ![o] =
                              merge_tables(hdf[o], in, g, Name, merge.b)]
                /\ next' = next + 1
                /\ tp_pc' = IF next + 1 = Len(merge.i) THEN "success" ELSE "merge"
           ELSE /\ tp_pc' = IF error = "bad_alloc" THEN "abort" ELSE "failure"
                /\ UNCHANGED <<hdf, next>>
    <2>1. /\ TP!FileAt(p) = in /\ TP!FileAt(o) = At(hdf, o)
          /\ TP!NotAFile = NotAFile
      BY PumpReads, SameTables
    <2>2. TP!MergeError(out, in, g, Name) = error
      BY SameMerge
    <2>3. TP!merge_tables(hdf[o], in, g, Name, merge.b) =
              merge_tables(hdf[o], in, g, Name, merge.b)
      BY SameMerge
    <2> HIDE DEF in
    <2>4. QED
      BY <2>1, <2>2, <2>3 DEF TP!MergeNext, Name
  <1>2. CASE error # "none"
    BY <1>1, <1>2
  <1>3. CASE error = "none"
    <2>1. /\ merge \in Merges /\ next \in Nat /\ next < Len(merge.i)
          /\ merge.o # merge.i[1] /\ OutputThere => merge.b # 0
          /\ merge.b \in Nat
          /\ DOMAIN merge.i = 1..Len(merge.i) /\ Len(merge.i) \in Nat
      BY <1>1, MergesAssumption, SeqIsSeq DEF PumpInv
    <2>2. out = At(hdf, o) /\ o # merge.i[1]
      <3> HIDE DEF in
      <3>1. OpenTable(NotAFile, g, Name) = NoTable
        BY DEF OpenTable, NotAFile
      <3>2. MergeError(NotAFile, in, g, Name) # "none"
        BY <3>1 DEF MergeError
      <3>3. QED
        BY <1>3, <3>2
    <2>3. MergeError(At(hdf, o), in, g, Name) = "none" /\ AreFiles(hdf)
      BY <1>3, <2>2 DEF FilesInv
    <2>4. /\ HasTable(At(hdf, o), g, Name) /\ HasTable(in, g, Name)
          /\ ColumnsIn(hdf, p, g) # <<>>
          /\ ColumnsIn(hdf, p, g) = ColumnsIn(hdf, o, g)
      <3> HIDE DEF o, p, g
      <3>1. QED
        BY <2>3, Mergeable
    <2>5. merge.b \in Nat \ {0}
      BY <2>1, <2>2, <2>4, PumpReads DEF OutputThere
    <2>6. /\ AreFiles(hdf') /\ DOMAIN hdf' = DOMAIN hdf
          /\ RowsIn(hdf', o, g) = RowsIn(hdf, o, g) \o RowsIn(hdf, p, g)
          /\ \A q : q # o => RowsIn(hdf', q, g) = RowsIn(hdf, q, g)
          /\ \A q : ColumnsIn(hdf', q, g) = ColumnsIn(hdf, q, g)
      <3>1. hdf' = [hdf EXCEPT ![o] =
                       merge_tables(hdf[o], At(hdf, p), g, Name, merge.b)]
        BY <1>1, <1>3
      <3> HIDE DEF o, p, g
      <3>2. OneMore(hdf', hdf, o, p, g)
        BY <2>3, <2>5, <3>1, OneMerged
      <3>3. QED
        BY <3>2 DEF OneMore
    <2>7. \A q : ColumnsIn(hdf', q, merge.g) = ColumnsIn(hdf, q, merge.g)
      BY <2>6
    <2>8. ASSUME NEW k \in 1..next + 1
          PROVE  /\ TP!Columns(merge.i[k]) # <<>>
                 /\ TP!Columns(merge.i[k]) = TP!Columns(merge.o)
      <3>1. CASE k = next + 1
        BY <2>4, <3>1, PumpReads
      <3>2. CASE k # next + 1
        <4>1. k \in 1..next
          BY <2>1, <3>2
        <4>2. QED
          BY <1>1, <4>1 DEF PumpInv
      <3>3. QED
        BY <3>1, <3>2
    <2>9. TP!RowsSoFar'
      <3>1. SUFFICES ASSUME o \notin TP!Range(merge.i)
                     PROVE  TP!RowsAt(o)' = (TP!FlatRows(merge.i, next))'
        BY <1>1 DEF TP!RowsSoFar
      <3> DEFINE before == [k \in 1..next |-> RowsIn(hdf, merge.i[k], g)]
                 after == [k \in 1..next + 1 |-> RowsIn(hdf, merge.i[k], g)]
      <3>2. RowsIn(hdf, o, g) = FlattenSeq(before)
        <4>1. TP!RowsAt(o) = TP!FlatRows(merge.i, next)
          BY <1>1, <3>1 DEF PumpInv, TP!RowsSoFar
        <4>2. TP!RowsAt(o) = RowsIn(hdf, o, g)
          BY PumpReads
        <4>3. TP!FlatRows(merge.i, next) = FlattenSeq(before)
          BY PumpFlattens
        <4>4. QED
          BY <4>1, <4>2, <4>3
      <3>3. (TP!FlatRows(merge.i, next))' = FlattenSeq(after)
        <4>1. ASSUME NEW k \in 1..next + 1
              PROVE  merge.i[k] # o
          <5>1. k \in DOMAIN merge.i
            BY <2>1
          <5>2. merge.i[k] \in Range(merge.i)
            BY <5>1 DEF Range
          <5>3. QED
            BY <3>1, <5>2, SameTables
        <4>2. [k \in 1..next + 1 |-> RowsIn(hdf', merge.i[k], g)] = after
          BY <2>6, <4>1
        <4>3. QED
          BY <1>1, <1>3, <4>2, PumpFlattens
      <3>4. FlattenSeq(after) = FlattenSeq(before) \o RowsIn(hdf, p, g)
        <4> DEFINE seqs == [k \in 1..next + 1 |-> RowsIn(hdf, merge.i[k], g)]
        <4>1. \A k \in 1..next + 1 : seqs[k] = RowsIn(hdf, merge.i[k], g)
          OBVIOUS
        <4>2. \A k \in 1..next + 1 : IsSeq(RowsIn(hdf, merge.i[k], g))
          BY <2>3, RowsAreSeq
        <4>3. /\ before = [k \in 1..next |-> seqs[k]]
              /\ after = [k \in 1..next + 1 |-> seqs[k]]
              /\ seqs[next + 1] = RowsIn(hdf, p, g)
          BY <2>1
        <4>4. AreSeqs(seqs, next + 1)
          BY <4>1, <4>2 DEF AreSeqs
        <4> HIDE DEF seqs, before, after
        <4>5. FlattenSeq([k \in 1..next + 1 |-> seqs[k]]) =
                  FlattenSeq([k \in 1..next |-> seqs[k]]) \o seqs[next + 1]
          BY <2>1, <4>4, FlatOneMore
        <4>6. QED
          BY <4>3, <4>5
      <3>5. TP!RowsAt(o)' = RowsIn(hdf', o, g)
        BY <1>1, PumpReads
      <3> HIDE DEF before, after
      <3>6. QED
        BY <2>6, <3>2, <3>3, <3>4, <3>5
    <2>10. QED
      BY <1>1, <1>3, <2>1, <2>5, <2>6, <2>7, <2>8, <2>9 DEF Merged, FilesInv
  <1>4. QED
    BY <1>2, <1>3

\* Every step of turbo-pump keeps what is known of the files and of the merge.
LEMMA PumpNext ==
    ASSUME PumpInv, FilesInv, DOMAIN hdf \subseteq Paths, TP!TpNext
    PROVE  PumpInv' /\ FilesInv' /\ DOMAIN hdf' \subseteq Paths
  <1>1. ASSUME NEW m \in Merges, TP!StartMerge(m)
        PROVE  PumpInv' /\ FilesInv' /\ DOMAIN hdf' \subseteq Paths
    BY <1>1, StartMergeKeeps DEF FilesInv
  <1>2. CASE TP!CreateOutput
    BY <1>2, CreateOutputKeeps
  <1>3. CASE TP!MergeNext
    <2>1. CASE tp_pc' \in {"abort", "failure"} /\ UNCHANGED <<hdf, merge, next>>
      BY <2>1 DEF PumpInv, FilesInv
    <2>2. CASE Merged
      <3>1. /\ merge' \in Merges /\ next' \in Nat /\ tp_pc' # "create"
            /\ tp_pc' = "merge" => next' < Len(merge'.i)
        <4>1. merge \in Merges /\ next \in Nat /\ Len(merge.i) \in Nat
          BY MergesAssumption, SeqIsSeq DEF PumpInv
        <4>2. QED
          BY <2>2, <4>1 DEF Merged
      <3>2. merge'.o # merge'.i[1] /\ OutputThere' => merge'.b # 0
        BY <2>2 DEF Merged
      <3>3. (\A k \in 1..next :
                /\ TP!Columns(merge.i[k]) # <<>>
                /\ TP!Columns(merge.i[k]) = TP!Columns(merge.o))'
        <4>1. ASSUME NEW k \in 1..next + 1
              PROVE  /\ ColumnsIn(hdf', merge'.i[k], merge'.g) # <<>>
                     /\ ColumnsIn(hdf', merge'.i[k], merge'.g) =
                           ColumnsIn(hdf', merge'.o, merge'.g)
          BY <2>2, PumpReads DEF Merged
        <4>2. (TP!Columns(merge.o))' = ColumnsIn(hdf', merge'.o, merge'.g)
          BY ColumnsAfter
        <4>3. \A k : (TP!Columns(merge.i[k]))' =
                         ColumnsIn(hdf', merge'.i[k], merge'.g)
          BY ColumnsAfter
        <4>4. next' = next + 1
          BY <2>2 DEF Merged
        <4>5. QED
          BY <4>1, <4>2, <4>3, <4>4
      <3>4. TP!RowsSoFar'
        BY <2>2 DEF Merged
      <3>5. PumpInv'
        BY <3>1, <3>2, <3>3, <3>4 DEF PumpInv
      <3>6. QED
        BY <2>2, <3>5 DEF Merged
    <2>3. QED
      BY <1>3, <2>1, <2>2, MergeNextMerges
  <1>4. QED
    BY <1>1, <1>2, <1>3 DEF TP!TpNext
-----------------------------------------------------------------------------
\* The invariant holds at the start.
LEMMA ToolsInitInv ==
    ASSUME ToolsInit
    PROVE  ToolsInv
  <1>1. FrackerInv
    BY FrackerInit DEF ToolsInit
  <1>2. merge \in Merges /\ next = 0 /\ tp_pc = "start"
    BY MergesAssumption DEF ToolsInit, TP!TpInit
  <1>3. QED
    BY <1>1, <1>2 DEF ToolsInv, FrackerInv, PumpInv

\* The two programs leave each other's state alone, and keep the files.
LEMMA ToolsNextInv ==
    ASSUME ToolsInv, [ToolsNext]_toolVars
    PROVE  ToolsInv'
  <1>1. FrackerInv /\ PumpInv
    BY DEF ToolsInv, FrackerInv
  <1>2. ASSUME tp_pc \in TP!TpEnded \/ UNCHANGED hdf,
               UNCHANGED <<tp_pc, merge, next, merges>>
        PROVE  PumpInv'
    <2>1. CASE tp_pc \in TP!TpEnded
      <3>1. tp_pc' # "create" /\ tp_pc' # "merge"
        BY <1>2, <2>1 DEF TP!TpEnded
      <3>2. QED
        BY <1>1, <1>2, <3>1 DEF PumpInv
    <2>2. CASE UNCHANGED hdf
      <3>1. /\ OutputThere' = OutputThere /\ TP!RowsSoFar' = TP!RowsSoFar
            /\ (TP!Columns(merge.o))' = TP!Columns(merge.o)
            /\ \A k : (TP!Columns(merge.i[k]))' = TP!Columns(merge.i[k])
        BY <1>2, <2>2
        DEF OutputThere, TP!RowsSoFar, TP!Columns, TP!RowsAt, TP!FileAt, TP!FlatRows
      <3>2. QED
        BY <1>1, <1>2, <3>1 DEF PumpInv
    <2>3. QED
      BY <1>2, <2>1, <2>2
  <1>3. CASE FrackerStep
    <2>1. FrackerInv'
      BY <1>1, <1>3, FrackerNext DEF FrackerStep
    <2>2. PumpInv'
      BY <1>2, <1>3 DEF FrackerStep
    <2>3. QED
      BY <2>1, <2>2 DEF ToolsInv, FrackerInv
  <1>4. CASE PumpStep
    <2>1. PumpInv' /\ FilesInv' /\ DOMAIN hdf' \subseteq Paths
      BY <1>1, <1>4, PumpNext DEF PumpStep, FrackerInv, TypeOK
    <2>2. FrackerInv'
      BY <1>1, <1>4, <2>1, EndedKeeps DEF PumpStep
    <2>3. QED
      BY <2>1, <2>2 DEF ToolsInv, FrackerInv
  <1>5. CASE UNCHANGED toolVars
    <2>1. UNCHANGED vars
      BY <1>5 DEF toolVars
    <2>2. FrackerInv'
      BY <1>1, <2>1, FrackerNext
    <2>3. PumpInv'
      BY <1>2, <1>5 DEF toolVars, vars
    <2>4. QED
      BY <2>2, <2>3 DEF ToolsInv, FrackerInv
  <1>6. QED
    BY <1>3, <1>4, <1>5 DEF ToolsNext

\* What a step may do to a merge.
LEMMA MergeStep ==
    ASSUME ToolsInv, ToolsInv', ToolsNext
    PROVE  TP!MergedInOrder' /\ TP!CompleteOnSuccess
  <1>1. TP!MergedInOrder'
    BY DEF ToolsInv, PumpInv, TP!MergedInOrder
  <1>2. SUFFICES ASSUME tp_pc = "merge", tp_pc' = "success"
                 PROVE  /\ next' = Len(merge.i) /\ TP!RowsSoFar'
                        /\ \A k \in DOMAIN merge.i :
                              /\ TP!Columns(merge.i[k]) # <<>>
                              /\ TP!Columns(merge.i[k]) = TP!Columns(merge.o)
    BY <1>1 DEF TP!CompleteOnSuccess
  <1>3. TP!MergeNext
    BY <1>2 DEF ToolsNext, FrackerStep, PumpStep, TP!TpNext, TP!TpEnded,
       TP!StartMerge, TP!CreateOutput
  <1>4. Merged
    BY <1>2, <1>3, MergeNextMerges DEF ToolsInv
  <1>5. next' = Len(merge.i) /\ next + 1 = Len(merge.i)
    BY <1>2, <1>4 DEF Merged
  <1>6. DOMAIN merge.i = 1..next + 1
    BY <1>5, MergesAssumption, SeqIsSeq DEF ToolsInv, PumpInv
  <1>7. QED
    BY <1>4, <1>5, <1>6 DEF Merged

\* The invariant of the two programs, of which the others follow.
LEMMA ToolsInvHolds == ToolsSpec => []ToolsInv
  <1>1. ToolsInit => ToolsInv
    BY ToolsInitInv
  <1>2. ToolsInv /\ [ToolsNext]_toolVars => ToolsInv'
    BY ToolsNextInv
  <1>3. QED
    BY <1>1, <1>2, PTL DEF ToolsSpec

(***************************************************************************)
(* fracker.cc:191-229.  For every tree and every block size the table has  *)
(* the first rows of the tree, in their order, each with the configuration *)
(* of its own channel and none from what an earlier block left in the      *)
(* buffer; a program that ends with success has written them all, but for  *)
(* the last block where all of them are full.                              *)
(***************************************************************************)
THEOREM FrackedFileHolds == ToolsSpec => []FrackedFile
  <1>1. ToolsInv => FrackedFile
    BY DEF ToolsInv, FrackedFile
  <1>2. QED
    BY <1>1, ToolsInvHolds, PTL

(***************************************************************************)
(* turbo-pump.cc and merge_tables of hdf-utils.cc.  For any number of      *)
(* inputs and every block size the output has the rows of the inputs that  *)
(* were merged, in their order and each once, and turbo-pump ends with     *)
(* success only with all of them, of the same columns.                     *)
(***************************************************************************)
THEOREM MergedFileHolds == ToolsSpec => MergedFile
  <1>1. ToolsInv /\ ToolsInv' /\ [ToolsNext]_toolVars
            => [TP!MergedInOrder' /\ TP!CompleteOnSuccess]_(TP!tp_vars)
    <2>1. ASSUME UNCHANGED toolVars
          PROVE  UNCHANGED TP!tp_vars
      BY <2>1 DEF toolVars, vars, TP!tp_vars
    <2>2. QED
      BY <2>1, MergeStep
  <1>2. QED
    BY <1>1, ToolsInvHolds, PTL DEF ToolsSpec, MergedFile

-----------------------------------------------------------------------------
(***************************************************************************)
(* The cache.  A sequence of sequences flattened; one item at a place.     *)
(***************************************************************************)
ItemsOf(seqs, n) == UNION {Elems(seqs[i]) : i \in 1..n}
Apart(seqs, n) ==
    /\ \A i \in 1..n : Distinct(seqs[i])
    /\ \A i, j \in 1..n : i # j => Elems(seqs[i]) \cap Elems(seqs[j]) = {}

\* Sequences that have nothing in common and nothing twice give a sequence of
\* all their items that has nothing twice.
LEMMA FlatElems ==
    ASSUME NEW n \in Nat, NEW seqs, AreSeqs(seqs, n), Apart(seqs, n)
    PROVE  /\ IsSeq(FlattenSeq([i \in 1..n |-> seqs[i]]))
           /\ Elems(FlattenSeq([i \in 1..n |-> seqs[i]])) = ItemsOf(seqs, n)
           /\ Distinct(FlattenSeq([i \in 1..n |-> seqs[i]]))
  <1>1. PICK f : FlatStep(f, seqs, n)
    BY FlattenedStepwise
  <1>2. /\ f[0] = <<>>
        /\ \A i \in 1..n : f[i] = f[i - 1] \o seqs[i]
        /\ \A m \in 0..n : IsSeq(f[m])
        /\ FlattenSeq([i \in 1..n |-> seqs[i]]) = f[n]
    <2>1. n \in 0..n
      OBVIOUS
    <2>2. QED
      BY <1>1, <2>1 DEF FlatStep
  <1> DEFINE T == {m \in Nat : m \in 0..n => /\ Elems(f[m]) = ItemsOf(seqs, m)
                                             /\ Distinct(f[m])}
  <1>3. 0 \in T
    <2>1. ItemsOf(seqs, 0) = {}
      BY DEF ItemsOf
    <2>2. QED
      BY <1>2, <2>1, EmptyElems
  <1>4. ASSUME NEW m \in Nat, m \in T
        PROVE  m + 1 \in T
    <2>1. SUFFICES ASSUME m + 1 \in 0..n
                   PROVE  /\ Elems(f[m + 1]) = ItemsOf(seqs, m + 1)
                          /\ Distinct(f[m + 1])
      OBVIOUS
    <2>2. m \in 0..n /\ m + 1 \in 1..n /\ (m + 1) - 1 = m
      BY <2>1
    <2>3. f[m + 1] = f[m] \o seqs[m + 1] /\ IsSeq(f[m]) /\ IsSeq(seqs[m + 1])
      BY <1>2, <2>2 DEF AreSeqs
    <2>4. Elems(f[m]) = ItemsOf(seqs, m) /\ Distinct(f[m]) /\ Distinct(seqs[m + 1])
      BY <1>4, <2>2 DEF Apart
    <2>5. Elems(f[m]) \cap Elems(seqs[m + 1]) = {}
      <3>1. \A i \in 1..m : i \in 1..n /\ i # m + 1
        BY <2>2
      <3>2. \A i \in 1..m : Elems(seqs[i]) \cap Elems(seqs[m + 1]) = {}
        BY <2>2, <3>1 DEF Apart
      <3>3. QED
        BY <2>4, <3>2 DEF ItemsOf
    <2>6. ItemsOf(seqs, m + 1) = ItemsOf(seqs, m) \cup Elems(seqs[m + 1])
      <3>1. \A i : i \in 1..m + 1 <=> i \in 1..m \/ i = m + 1
        OBVIOUS
      <3>2. QED
        BY <3>1 DEF ItemsOf
    <2> DEFINE U == Elems(f[m]) \cup Elems(seqs[m + 1])
    <2>7. f[m] \in Seq(U) /\ seqs[m + 1] \in Seq(U)
      <3>1. Elems(f[m]) \subseteq U /\ Elems(seqs[m + 1]) \subseteq U
        OBVIOUS
      <3> HIDE DEF U
      <3>2. QED
        BY <2>3, <3>1, SeqMonotonic DEF IsSeq
    <2> HIDE DEF U
    <2>8. /\ Elems(f[m] \o seqs[m + 1]) = Elems(f[m]) \cup Elems(seqs[m + 1])
          /\ Distinct(f[m] \o seqs[m + 1])
      BY <2>4, <2>5, <2>7, ConcatElems
    <2>9. QED
      BY <2>3, <2>4, <2>6, <2>8
  <1> HIDE DEF T
  <1>5. n \in T
    BY <1>3, <1>4, NatSetInduction
  <1>6. n \in 0..n
    OBVIOUS
  <1>7. QED
    BY <1>2, <1>5, <1>6 DEF T

\* Single items, one behind the other.
LEMMA FlatSingles ==
    ASSUME NEW n \in Nat, NEW g
    PROVE  FlattenSeq([i \in 1..n |-> <<g[i]>>]) = [i \in 1..n |-> g[i]]
  <1> DEFINE seqs == [i \in 1..n |-> <<g[i]>>]
  <1>1. AreSeqs(seqs, n)
    <2>1. SUFFICES ASSUME NEW i \in 1..n
                   PROVE  IsSeq(<<g[i]>>)
      BY DEF AreSeqs
    <2>2. <<g[i]>> \in Seq({g[i]})
      OBVIOUS
    <2>3. QED
      BY <2>2, SeqIsSeq
  <1>2. \A i \in 1..n : seqs[i] = <<g[i]>>
    OBVIOUS
  <1>3. [i \in 1..n |-> seqs[i]] = seqs
    OBVIOUS
  <1> HIDE DEF seqs
  <1>4. PICK f : FlatStep(f, seqs, n)
    BY <1>1, FlattenedStepwise
  <1>5. /\ f[0] = <<>>
        /\ \A i \in 1..n : f[i] = f[i - 1] \o seqs[i]
        /\ \A m \in 0..n : IsSeq(f[m])
        /\ FlattenSeq(seqs) = f[n]
    <2>1. n \in 0..n
      OBVIOUS
    <2>2. QED
      BY <1>3, <1>4, <2>1 DEF FlatStep
  <1> DEFINE Upto(m) == [i \in 1..m |-> g[i]]
             T == {m \in Nat : m \in 0..n => f[m] = Upto(m)}
  <1>6. 0 \in T
    <2>1. Upto(0) = <<>>
      OBVIOUS
    <2>2. QED
      BY <1>5, <2>1
  <1>7. ASSUME NEW m \in Nat, m \in T
        PROVE  m + 1 \in T
    <2>1. SUFFICES ASSUME m + 1 \in 0..n
                   PROVE  f[m + 1] = Upto(m + 1)
      OBVIOUS
    <2>2. m \in 0..n /\ m + 1 \in 1..n /\ (m + 1) - 1 = m
      BY <2>1
    <2>3. f[m + 1] = f[m] \o <<g[m + 1]>> /\ IsSeq(f[m]) /\ IsSeq(<<g[m + 1]>>)
      BY <1>1, <1>2, <1>5, <2>2 DEF AreSeqs
    <2>4. f[m] = Upto(m) /\ Len(f[m]) = m
      <3>1. f[m] = Upto(m)
        BY <1>7, <2>2
      <3>2. DOMAIN f[m] = 1..m /\ DOMAIN f[m] = 1..Len(f[m]) /\ Len(f[m]) \in Nat
        BY <2>3, <3>1, IsSeqProperties
      <3>3. QED
        BY <3>1, <3>2
    <2>5. Len(<<g[m + 1]>>) = 1 /\ <<g[m + 1]>>[1] = g[m + 1] /\ 1 \in 1..1
      OBVIOUS
    <2>6. /\ IsSeq(f[m + 1]) /\ Len(f[m + 1]) = m + 1
          /\ \A i \in 1..m : f[m + 1][i] = f[m][i]
          /\ f[m + 1][m + 1] = g[m + 1]
      BY <2>3, <2>4, <2>5, ConcatIsSeq
    <2>7. \A i \in 1..m + 1 : f[m + 1][i] = g[i]
      <3>1. \A i \in 1..m : f[m + 1][i] = g[i]
        BY <2>4, <2>6
      <3>2. \A i \in 1..m + 1 : i \in 1..m \/ i = m + 1
        OBVIOUS
      <3>3. QED
        BY <2>6, <3>1, <3>2
    <2>8. f[m + 1] = [i \in 1..m + 1 |-> f[m + 1][i]]
      BY <2>6, IsSeqProperties
    <2>9. QED
      BY <2>7, <2>8
  <1> HIDE DEF T
  <1>8. n \in T
    BY <1>6, <1>7, NatSetInduction
  <1>9. n \in 0..n
    OBVIOUS
  <1>10. QED
    BY <1>5, <1>8, <1>9 DEF T, seqs

\* The item at one place.
LEMMA AtOnePlace ==
    ASSUME NEW s, NEW i \in Nat
    PROVE  AtPlaces(s, {i}) = <<s[i]>>
  <1>1. IsFiniteSet({i}) /\ Cardinality({i}) = 1 /\ {i} \in SUBSET Int
    BY FS_Singleton
  <1>2. Sorted({i}) \in [1..1 -> {i}]
    BY <1>1, SortedIsBijection
  <1>3. Sorted({i}) = [k \in 1..1 |-> i]
    BY <1>2
  <1>4. AtPlaces(s, {i}) = [k \in 1..1 |-> s[i]]
    BY <1>3 DEF AtPlaces
  <1>5. QED
    BY <1>4

(***************************************************************************)
(* The register map: what blocks there are, and the registers a column     *)
(* stands for.                                                             *)
(***************************************************************************)
Count(b) == Cardinality(Numbers(b))
Column(r) == ColumnName(r[1], r[3])

\* The registers of a block are numbered from 0.
LEMMA BlocksAreNumbered ==
    /\ \A b \in Range(BlockOrder) : /\ Count(b) \in Nat \ {0}
                                    /\ Numbers(b) = 0..Count(b) - 1
    /\ \A r \in Registers : /\ r[1] \in Range(BlockOrder)
                            /\ r[2] \in Numbers(r[1])
                            /\ r = <<r[1], r[2], r[3]>>
  <1>1. ASSUME NEW b \in Range(BlockOrder)
        PROVE  Count(b) \in Nat \ {0} /\ Numbers(b) = 0..Count(b) - 1
    <2> DEFINE regs == {q \in Registers : q[1] = b}
               number == [r \in regs |-> r[2]]
    <2>1. IsFiniteSet(regs)
      <3>1. IsFiniteSet(Registers) /\ regs \in SUBSET Registers
        BY RegisterMapAssumption
      <3> HIDE DEF regs
      <3>2. QED
        BY <3>1, FS_Subset
    <2>2. Numbers(b) = {r[2] : r \in regs}
      BY DEF Numbers
    <2>3. \E r \in regs : TRUE
      BY BlockAssumption
    <2> HIDE DEF regs
    <2>4. number \in Surjection(regs, Numbers(b))
      BY <2>2 DEF Surjection
    <2> HIDE DEF number
    <2>5. IsFiniteSet(Numbers(b))
      BY <2>1, <2>4, FS_Surjection
    <2>6. Numbers(b) # {}
      BY <2>2, <2>3
    <2>7. Count(b) \in Nat /\ Count(b) # 0
      BY <2>5, <2>6, FS_CardinalityType, FS_EmptySet DEF Count
    <2>8. Numbers(b) = 0..Count(b) - 1
      BY RegisterMapAssumption DEF Count
    <2>9. QED
      BY <2>7, <2>8
  <1>2. ASSUME NEW r \in Registers
        PROVE  /\ r[1] \in Range(BlockOrder)
               /\ r[2] \in Numbers(r[1])
               /\ r = <<r[1], r[2], r[3]>>
    <2>1. r[1] \in Range(BlockOrder)
      BY BlockAssumption
    <2>2. r[2] \in Numbers(r[1])
      BY DEF Numbers
    <2>3. r = <<r[1], r[2], r[3]>>
      BY RegisterMapAssumption
    <2>4. QED
      BY <2>1, <2>2, <2>3
  <1>3. QED
    BY <1>1, <1>2

\* How many channels there are of a type, and what type a block is of.
LEMMA ChannelTypes ==
    /\ HalfChannels \in Nat \ {0}
    /\ channel_types = {0, 1, 100}
    /\ channel_count[0] = 2 * HalfChannels
    /\ channel_count[1] = 2 /\ channel_count[100] = 4
    /\ channel_type_name_to_index["ch"] = 0
    /\ channel_type_name_to_index["calib"] = 1
    /\ channel_type_name_to_index["cm"] = 100
    /\ channel = {"ch", "calib", "cm"}
  <1>1. channel_types = {0, 1, 100} /\ HalfChannels \in Nat \ {0}
    BY ChannelAssumption
       DEF channel_types, ROC_CHAN_TYPE, ROC_CALIB_CHAN_TYPE, ROC_CM_CHAN_TYPE
  <1>2. /\ channel_count[0] = 2 * HalfChannels
        /\ channel_count[1] = 2 /\ channel_count[100] = 4
    BY <1>1 DEF channel_count, ROC_CHAN_TYPE, ROC_CALIB_CHAN_TYPE, ROC_CM_CHAN_TYPE
  <1>3. /\ channel_type_name_to_index["ch"] = 0
        /\ channel_type_name_to_index["calib"] = 1
        /\ channel_type_name_to_index["cm"] = 100
        /\ DOMAIN channel_type_name_to_index = {"ch", "calib", "cm"}
    BY DEF channel_type_name_to_index, ROC_CHAN_TYPE, ROC_CALIB_CHAN_TYPE, ROC_CM_CHAN_TYPE
  <1>4. channel = DOMAIN channel_type_name_to_index
    BY RegisterMapAssumption
  <1>5. QED
    BY <1>1, <1>2, <1>3, <1>4

\* A block is one of channels, of halves or of the chip, and the last two have
\* as many numbers as there are halves and chips.
LEMMA KindsOfBlock ==
    ASSUME NEW b \in Range(BlockOrder)
    PROVE  /\ b \in channel => b \notin global /\ b \notin half_wise /\ b # "HalfWise"
           /\ b \in half_wise => b \notin global /\ b \notin channel /\ Numbers(b) = {0, 1}
           /\ b \in global => Numbers(b) = {0}
           /\ b \notin channel => b \in global \/ b \in half_wise
  <1>1. Count(b) \in Nat \ {0} /\ Numbers(b) = 0..Count(b) - 1
    BY BlocksAreNumbered
  <1>2. b \in channel => Count(b) # 1 /\ b # "HalfWise"
    <2>1. SUFFICES ASSUME b \in channel
                   PROVE  Count(b) # 1 /\ b # "HalfWise"
      OBVIOUS
    <2>2. b \in {"ch", "calib", "cm"}
      BY <2>1, ChannelTypes
    <2>3. Numbers(b) = 0..channel_count[channel_type_name_to_index[b]] - 1
      BY <2>1, RegisterMapAssumption
    <2>4. channel_count[channel_type_name_to_index[b]] \in {2 * HalfChannels, 2, 4}
      BY <2>2, ChannelTypes
    <2> DEFINE n == channel_count[channel_type_name_to_index[b]]
    <2>5. n \in Nat /\ n >= 2
      BY <2>4, ChannelTypes
    <2> HIDE DEF n
    <2>6. 1 \in 0..n - 1
      BY <2>5
    <2>7. 1 \in Numbers(b)
      BY <2>3, <2>6 DEF n
    <2>8. QED
      BY <1>1, <2>2, <2>7
  <1>3. b \in channel <=> Count(b) > 2 \/ b \in {"calib", "cm"}
    BY DEF channel, Count
  <1>4. b \in half_wise <=> b \notin channel /\ Count(b) = 2
    BY DEF half_wise, Count
  <1>5. b \in global <=> Count(b) = 1
    BY DEF global, Count
  <1>6. Count(b) = 1 => Numbers(b) = {0}
    BY <1>1
  <1>7. Count(b) = 2 => Numbers(b) = {0, 1}
    BY <1>1
  <1>8. Count(b) = 1 \/ Count(b) = 2 \/ Count(b) > 2
    BY <1>1
  <1>9. ~(Count(b) = 1 /\ Count(b) = 2)
    OBVIOUS
  <1>10. QED
    BY <1>2, <1>3, <1>4, <1>5, <1>6, <1>7, <1>8, <1>9

\* The half of the chip the channel of a key is in.
HalfOfKey(key) == IF key[2] < channel_count[key[3]] \div 2 THEN 0 ELSE 1

\* Which registers apply to a key: all of the chip's, those of its half, the
\* ones of its channel.
LEMMA WhatApplies ==
    ASSUME NEW key, key \in CacheKeys({key[1]}), NEW r \in Registers
    PROVE  /\ r[1] \in global => Applies(key, r)
           /\ r[1] \in half_wise => (Applies(key, r) <=> r[2] = HalfOfKey(key))
           /\ r[1] \in channel =>
                 (Applies(key, r) <=>
                     key = <<key[1], r[2], channel_type_name_to_index[r[1]]>>)
  <1>1. r[1] \in Range(BlockOrder) /\ r[2] \in Numbers(r[1])
    BY BlocksAreNumbered
  <1> DEFINE keys == CacheKeys({key[1]})
             b == r[1]
  <1>2. Applies(key, r) <=> key \in generate_cache_key(key[1], b, r[2])
    BY DEF Applies
  <1>3. CASE b \in global
    <2>1. generate_cache_key(key[1], b, r[2]) = keys /\ b \notin channel /\ b \notin half_wise
      BY <1>1, <1>3, KindsOfBlock DEF generate_cache_key
    <2>2. QED
      BY <1>2, <2>1
  <1>4. CASE b \in half_wise
    <2>1. b \notin global /\ b \notin channel /\ r[2] \in {0, 1}
      BY <1>1, <1>4, KindsOfBlock
    <2> DEFINE half == channel_count[key[3]] \div 2
    <2>2. key \in generate_cache_key(key[1], b, r[2]) <=>
              \/ r[2] = 0 /\ key[2] < half
              \/ r[2] = 1 /\ key[2] >= half
      BY <1>4, <2>1 DEF generate_cache_key
    <2>3. key[2] \in Int /\ half \in Int
      <3>1. key[2] \in 0 .. 2 * HalfChannels - 1 /\ key[3] \in channel_types
        BY DEF CacheKeys
      <3>2. channel_count[key[3]] \in Nat
        BY <3>1, ChannelTypes
      <3>3. QED
        BY <3>1, <3>2, ChannelTypes
    <2>4. HalfOfKey(key) = IF key[2] < half THEN 0 ELSE 1
      BY DEF HalfOfKey
    <2> HIDE DEF half
    <2>5. key[2] >= half <=> ~(key[2] < half)
      BY <2>3
    <2>6. QED
      BY <1>2, <2>1, <2>2, <2>4, <2>5
  <1>5. CASE b \in channel
    <2>1. b \notin global /\ b \notin half_wise
      BY <1>1, <1>5, KindsOfBlock
    <2>2. generate_cache_key(key[1], b, r[2]) =
              {<<key[1], r[2], channel_type_name_to_index[b]>>}
      BY <1>5, <2>1 DEF generate_cache_key
    <2>3. QED
      BY <1>2, <2>1, <2>2
  <1>6. QED
    BY <1>3, <1>4, <1>5

\* The registers of a block in a column are of one parameter.
LEMMA OneParameter ==
    ASSUME NEW r \in Registers, NEW q \in Registers, r[1] = q[1], Column(r) = Column(q)
    PROVE  r[3] = q[3]
  <1>1. CASE r[1] = "HalfWise"
    <2>1. r[3] \in DOMAIN hw_prefix /\ q[3] \in DOMAIN hw_prefix
      BY <1>1, RegisterMapAssumption
    <2>2. hw_prefix[r[3]] = hw_prefix[q[3]]
      BY <1>1 DEF Column, ColumnName
    <2>3. QED
      BY <2>1, <2>2, RegisterMapAssumption DEF IsInjective
  <1>2. CASE r[1] # "HalfWise"
    BY <1>2 DEF Column, ColumnName
  <1>3. QED
    BY <1>1, <1>2

\* What Plain says of one column.
PlainColumn(c) ==
    Cardinality({r[1] : r \in {q \in Registers :
                    ColumnName(q[1], q[3]) = c}} \ channel)
    + (IF \E r \in Registers : r[1] \in channel /\ r[3] = c
       THEN 1 ELSE 0) = 1

\* The registers of a plain column are of channels or of one other block, and
\* all of one parameter.
LEMMA OneKind ==
    ASSUME NEW c, PlainColumn(c),
           NEW r \in Registers, NEW q \in Registers, Column(r) = c, Column(q) = c
    PROVE  /\ r[3] = q[3]
           /\ \/ r[1] \in channel /\ q[1] \in channel /\ r[3] = c
              \/ r[1] = q[1] /\ r[1] \notin channel
  <1> DEFINE others == {t[1] : t \in {u \in Registers :
                                        ColumnName(u[1], u[3]) = c}} \ channel
             ofChannel == \E t \in Registers : t[1] \in channel /\ t[3] = c
  <1>1. Cardinality(others) + (IF ofChannel THEN 1 ELSE 0) = 1
    BY DEF PlainColumn
  <1>2. r[1] \notin channel => r[1] \in others
    BY DEF Column
  <1>3. q[1] \notin channel => q[1] \in others
    BY DEF Column
  <1>4. /\ r[1] \in channel => r[3] = c /\ ofChannel
        /\ q[1] \in channel => q[3] = c /\ ofChannel
    <2>1. \A t \in Registers : t[1] \in channel => ColumnName(t[1], t[3]) = t[3]
      <3>1. "HalfWise" \notin channel
        BY ChannelTypes
      <3>2. QED
        BY <3>1 DEF ColumnName
    <2>2. QED
      BY <2>1 DEF Column
  <1>5. IsFiniteSet(others)
    <2>1. IsFiniteSet(Range(BlockOrder))
      <3>1. /\ Len(BlockOrder) \in Nat
            /\ BlockOrder \in [1..Len(BlockOrder) -> Range(BlockOrder)]
        BY RegisterMapAssumption, LenProperties
      <3>2. BlockOrder \in Surjection(1..Len(BlockOrder), Range(BlockOrder))
        BY <3>1 DEF Surjection, Range
      <3>3. IsFiniteSet(1..Len(BlockOrder))
        BY <3>1, FS_Interval
      <3>4. QED
        BY <3>2, <3>3, FS_Surjection
    <2>2. others \in SUBSET Range(BlockOrder)
      BY BlocksAreNumbered
    <2> HIDE DEF others
    <2>3. QED
      BY <2>1, <2>2, FS_Subset
  <1> HIDE DEF others, ofChannel
  <1>6. Cardinality(others) \in Nat
    BY <1>5, FS_CardinalityType
  <1>7. CASE ofChannel
    <2>1. Cardinality(others) = 0
      BY <1>1, <1>6, <1>7
    <2>2. others = {}
      BY <1>5, <2>1, FS_EmptySet
    <2>3. QED
      BY <1>2, <1>3, <1>4, <2>2
  <1>8. CASE ~ofChannel
    <2>1. Cardinality(others) = 1
      BY <1>1, <1>6, <1>8
    <2>2. PICK b : others = {b}
      BY <1>5, <2>1, FS_Singleton
    <2>3. r[1] = q[1] /\ r[1] \notin channel
      BY <1>2, <1>3, <1>4, <1>8, <2>2
    <2>4. r[3] = q[3]
      BY <2>3, OneParameter
    <2>5. QED
      BY <2>3, <2>4
  <1>9. QED
    BY <1>7, <1>8

\* One register of a plain column applies to a key.
LEMMA OneApplies ==
    ASSUME NEW c \in ConfigColumns, PlainColumn(c), NEW key, key \in CacheKeys({key[1]})
    PROVE  /\ \E r \in Registers : Column(r) = c /\ Applies(key, r)
           /\ \A r, q \in Registers :
                 Column(r) = c /\ Column(q) = c /\ Applies(key, r) /\ Applies(key, q)
                    => r = q
  <1>1. /\ key[2] \in 0 .. 2 * HalfChannels - 1 /\ key[3] \in channel_types
        /\ key[2] < channel_count[key[3]] /\ key = <<key[1], key[2], key[3]>>
    BY DEF CacheKeys
  <1>2. PICK s \in Registers : Column(s) = c
    BY DEF ConfigColumns, Column
  <1>3. /\ s[1] \in Range(BlockOrder) /\ s[2] \in Numbers(s[1])
        /\ s = <<s[1], s[2], s[3]>>
    BY BlocksAreNumbered
  <1>4. \A b \in {s[1]} \cup (IF s[1] \in channel THEN channel ELSE {}) :
            \A n \in Numbers(b) : <<b, n, s[3]>> \in Registers
    BY RegisterMapAssumption
  <1>5. HalfOfKey(key) \in {0, 1}
    BY DEF HalfOfKey
  <1>6. \E r \in Registers : Column(r) = c /\ Applies(key, r)
    <2>1. CASE s[1] \in global
      BY <1>2, <2>1, WhatApplies
    <2>2. CASE s[1] \in half_wise
      <3> DEFINE r == <<s[1], HalfOfKey(key), s[3]>>
      <3>1. Numbers(s[1]) = {0, 1}
        BY <1>3, <2>2, KindsOfBlock
      <3>2. r \in Registers
        BY <1>4, <1>5, <3>1
      <3>3. r[1] = s[1] /\ r[2] = HalfOfKey(key) /\ r[3] = s[3]
        OBVIOUS
      <3> HIDE DEF r
      <3>4. Applies(key, r)
        BY <2>2, <3>2, <3>3, WhatApplies
      <3>5. Column(r) = c
        BY <1>2, <3>3 DEF Column
      <3>6. QED
        BY <3>2, <3>4, <3>5
    <2>3. CASE s[1] \in channel
      <3>1. PICK b \in channel : channel_type_name_to_index[b] = key[3]
        BY <1>1, ChannelTypes
      <3> DEFINE r == <<b, key[2], s[3]>>
      <3>2. Numbers(b) = 0..channel_count[key[3]] - 1
        BY <3>1, RegisterMapAssumption
      <3>3. key[2] \in Numbers(b)
        <4>1. channel_count[key[3]] \in Nat
          BY <1>1, ChannelTypes
        <4>2. QED
          BY <1>1, <3>2, <4>1, ChannelTypes
      <3>4. r \in Registers
        BY <1>4, <2>3, <3>3
      <3>5. r[1] = b /\ r[2] = key[2] /\ r[3] = s[3]
        OBVIOUS
      <3> HIDE DEF r
      <3>6. Applies(key, r)
        BY <1>1, <3>1, <3>4, <3>5, WhatApplies
      <3>7. Column(r) = c
        <4>1. b # "HalfWise" /\ s[1] # "HalfWise"
          BY <2>3, ChannelTypes
        <4>2. QED
          BY <1>2, <3>5, <4>1 DEF Column, ColumnName
      <3>8. QED
        BY <3>4, <3>6, <3>7
    <2>4. QED
      BY <1>3, <2>1, <2>2, <2>3, KindsOfBlock
  <1>7. ASSUME NEW r \in Registers, NEW q \in Registers,
               Column(r) = c, Column(q) = c, Applies(key, r), Applies(key, q)
        PROVE  r = q
    <2>1. /\ r[3] = q[3]
          /\ \/ r[1] \in channel /\ q[1] \in channel
             \/ r[1] = q[1] /\ r[1] \notin channel
      BY <1>7, OneKind
    <2>2. /\ r[1] \in Range(BlockOrder) /\ r[2] \in Numbers(r[1])
          /\ q[2] \in Numbers(q[1])
          /\ r = <<r[1], r[2], r[3]>> /\ q = <<q[1], q[2], q[3]>>
      BY BlocksAreNumbered
    <2>3. CASE r[1] \in channel /\ q[1] \in channel
      <3>1. /\ key = <<key[1], r[2], channel_type_name_to_index[r[1]]>>
            /\ key = <<key[1], q[2], channel_type_name_to_index[q[1]]>>
        BY <1>7, <2>3, WhatApplies
      <3>2. /\ r[2] = q[2]
            /\ channel_type_name_to_index[r[1]] = channel_type_name_to_index[q[1]]
        BY <3>1
      <3>3. r[1] = q[1]
        BY <2>3, <3>2, ChannelTypes
      <3>4. QED
        BY <2>1, <2>2, <3>2, <3>3
    <2>4. CASE r[1] = q[1] /\ r[1] \notin channel
      <3>1. r[1] \in global \/ r[1] \in half_wise
        BY <2>2, <2>4, KindsOfBlock
      <3>2. CASE r[1] \in global
        <4>1. Numbers(r[1]) = {0}
          BY <2>2, <3>2, KindsOfBlock
        <4>2. r[2] = q[2]
          BY <2>2, <2>4, <4>1
        <4>3. QED
          BY <2>1, <2>2, <2>4, <4>2
      <3>3. CASE r[1] \in half_wise
        <4>1. r[2] = HalfOfKey(key) /\ q[2] = HalfOfKey(key)
          BY <1>7, <2>4, <3>3, WhatApplies
        <4>2. QED
          BY <2>1, <2>2, <2>4, <4>1
      <3>4. QED
        BY <3>1, <3>2, <3>3
    <2>5. QED
      BY <2>1, <2>3, <2>4
  <1>8. QED
    BY <1>6, <1>7

\* The instances of a block are its registers in the column, each once.
LEMMA InstancesOfBlock ==
    ASSUME NEW b \in Range(BlockOrder), NEW c
    PROVE  /\ IsSeq(Instances(b, c)) /\ Distinct(Instances(b, c))
           /\ Elems(Instances(b, c)) = {r \in Registers : r[1] = b /\ Column(r) = c}
  <1> DEFINE all == {r \in Registers : r[1] = b /\ Column(r) = c}
             regs == {r \in Registers : /\ r[1] = b
                                        /\ r[2] = 0
                                        /\ ColumnName(b, r[3]) = c}
             param == (CHOOSE r \in regs : TRUE)[3]
             n == Count(b)
             given == [i \in 1..n |-> <<b, i - 1, param>>]
  <1>1. Instances(b, c) = IF regs = {} THEN <<>> ELSE given
    BY DEF Instances, Count
  <1>2. n \in Nat \ {0} /\ Numbers(b) = 0..n - 1 /\ 0 \in 0..n - 1
    BY BlocksAreNumbered
  <1>3. ASSUME NEW r \in all
        PROVE  /\ r = <<b, r[2], r[3]>> /\ r[2] \in 0..n - 1
               /\ \A k \in 0..n - 1 : <<b, k, r[3]>> \in all
    <2>1. r \in Registers /\ r[1] = b /\ Column(r) = c
      OBVIOUS
    <2>2. r = <<b, r[2], r[3]>> /\ r[2] \in 0..n - 1
      BY <1>2, <2>1, BlocksAreNumbered
    <2>3. ASSUME NEW k \in 0..n - 1
          PROVE  <<b, k, r[3]>> \in all
      <3>1. <<b, k, r[3]>> \in Registers
        BY <1>2, <2>1, RegisterMapAssumption
      <3>2. <<b, k, r[3]>>[1] = b /\ <<b, k, r[3]>>[3] = r[3]
        OBVIOUS
      <3>3. QED
        BY <2>1, <3>1, <3>2 DEF Column
    <2>4. QED
      BY <2>2, <2>3
  <1>4. regs \subseteq all
    BY DEF Column
  <1>5. regs = {} => all = {}
    <2>1. SUFFICES ASSUME NEW r \in all
                   PROVE  regs # {}
      OBVIOUS
    <2>2. <<b, 0, r[3]>> \in all
      BY <1>2, <1>3
    <2>3. <<b, 0, r[3]>> \in regs
      BY <2>2 DEF Column
    <2>4. QED
      BY <2>3
  <1>6. CASE regs = {}
    BY <1>1, <1>5, <1>6, EmptyElems, EmptyIsSeq
  <1>7. CASE regs # {}
    <2>1. PICK s \in regs : s[3] = param
      BY <1>7
    <2>2. s \in all
      BY <1>4
    <2> HIDE DEF param
    <2>3. IsSeq(given) /\ Len(given) = n
      <3>1. given = [i \in 1..n |-> given[i]]
        OBVIOUS
      <3> HIDE DEF given
      <3>2. QED
        BY <1>2, <3>1, FunctionIsSeq
    <2>4. \A i \in 1..n : given[i] = <<b, i - 1, param>>
      OBVIOUS
    <2>5. \A i \in 1..n : i - 1 \in 0..n - 1
      BY <1>2
    <2>6. \A k \in 0..n - 1 : k + 1 \in 1..n /\ (k + 1) - 1 = k
      BY <1>2
    <2> HIDE DEF given, n
    <2>7. Distinct(given)
      <3>1. SUFFICES ASSUME NEW i \in 1..n, NEW j \in 1..n, given[i] = given[j]
                     PROVE  i = j
        BY <2>3 DEF Distinct
      <3>2. <<b, i - 1, param>>[2] = <<b, j - 1, param>>[2]
        BY <2>4, <3>1
      <3>3. i - 1 = j - 1
        BY <3>2
      <3>4. QED
        BY <3>3
    <2>8. ASSUME NEW i \in 1..n
          PROVE  given[i] \in all
      BY <1>3, <2>1, <2>2, <2>4, <2>5
    <2>9. ASSUME NEW r \in all
          PROVE  \E i \in 1..n : given[i] = r
      <3>1. r[3] = param
        <4>1. r \in Registers /\ s \in Registers /\ r[1] = s[1] /\ Column(r) = Column(s)
          BY <2>2
        <4>2. QED
          BY <2>1, <4>1, OneParameter
      <3>2. r = <<b, r[2], param>> /\ r[2] \in 0..n - 1
        BY <1>3, <3>1
      <3>3. r[2] + 1 \in 1..n /\ given[r[2] + 1] = <<b, r[2], param>>
        BY <2>4, <2>6, <3>2
      <3>4. QED
        BY <3>2, <3>3
    <2> HIDE DEF all
    <2>10. Elems(given) = all
      BY <2>3, <2>8, <2>9 DEF Elems
    <2>11. QED
      BY <1>1, <1>7, <2>3, <2>7, <2>10 DEF all
  <1>8. QED
    BY <1>6, <1>7

\* A column stands for the registers of its name, each once.
LEMMA RegistersOfColumn ==
    ASSUME NEW c \in ConfigColumns
    PROVE  /\ IsSeq(roc_config_key[c]) /\ Distinct(roc_config_key[c])
           /\ Elems(roc_config_key[c]) = {r \in Registers : Column(r) = c}
  <1> DEFINE n == Len(BlockOrder)
             seqs == [i \in 1..n |-> Instances(BlockOrder[i], c)]
  <1>1. /\ n \in Nat /\ DOMAIN BlockOrder = 1..n
        /\ \A i \in 1..n : BlockOrder[i] \in Range(BlockOrder)
        /\ \A i, j \in 1..n : i # j => BlockOrder[i] # BlockOrder[j]
        /\ \A b \in Range(BlockOrder) : \E i \in 1..n : BlockOrder[i] = b
    <2>1. n \in Nat /\ DOMAIN BlockOrder = 1..n
      BY RegisterMapAssumption, LenProperties
    <2>2. QED
      BY <2>1, BlockAssumption DEF IsInjective, Range
  <1>2. roc_config_key[c] = FlattenSeq([i \in 1..n |-> Instances(BlockOrder[i], c)])
    BY <1>1 DEF roc_config_key
  <1>3. \A i \in 1..n : seqs[i] = Instances(BlockOrder[i], c)
    OBVIOUS
  <1>4. roc_config_key[c] = FlattenSeq([i \in 1..n |-> seqs[i]])
    <2>1. [i \in 1..n |-> seqs[i]] = [i \in 1..n |-> Instances(BlockOrder[i], c)]
      OBVIOUS
    <2> HIDE DEF seqs, n
    <2>2. QED
      BY <1>2, <2>1
  <1> HIDE DEF seqs, n
  <1>5. \A i \in 1..n : /\ IsSeq(seqs[i]) /\ Distinct(seqs[i])
                        /\ Elems(seqs[i]) = {r \in Registers : /\ r[1] = BlockOrder[i]
                                                               /\ Column(r) = c}
    BY <1>1, <1>3, InstancesOfBlock
  <1>6. AreSeqs(seqs, n)
    BY <1>5 DEF AreSeqs
  <1>7. Apart(seqs, n)
    <2>1. ASSUME NEW i \in 1..n, NEW j \in 1..n, i # j
          PROVE  Elems(seqs[i]) \cap Elems(seqs[j]) = {}
      <3>1. BlockOrder[i] # BlockOrder[j]
        BY <1>1, <2>1
      <3>2. /\ \A r \in Elems(seqs[i]) : r[1] = BlockOrder[i]
            /\ \A r \in Elems(seqs[j]) : r[1] = BlockOrder[j]
        BY <1>5
      <3>3. QED
        BY <3>1, <3>2
    <2>2. QED
      BY <1>5, <2>1 DEF Apart
  <1>8. ItemsOf(seqs, n) = {r \in Registers : Column(r) = c}
    <2>1. ItemsOf(seqs, n) \subseteq {r \in Registers : Column(r) = c}
      BY <1>5 DEF ItemsOf
    <2>2. ASSUME NEW r \in Registers, Column(r) = c
          PROVE  r \in ItemsOf(seqs, n)
      <3>1. PICK i \in 1..n : BlockOrder[i] = r[1]
        BY <1>1, BlocksAreNumbered
      <3>2. r \in Elems(seqs[i])
        BY <1>5, <2>2, <3>1
      <3>3. QED
        BY <3>2 DEF ItemsOf
    <2>3. QED
      BY <2>1, <2>2
  <1>9. QED
    BY <1>1, <1>4, <1>6, <1>7, <1>8, FlatElems

\* Of the registers of a plain column one applies to a key.
LEMMA OneIsTaken ==
    ASSUME NEW c \in ConfigColumns, PlainColumn(c), NEW key, key \in CacheKeys({key[1]})
    PROVE  \E r \in Registers : /\ Column(r) = c /\ Applies(key, r)
                                /\ AppliedTo(key, roc_config_key[c]) = <<r>>
  <1> DEFINE regs == roc_config_key[c]
             n == Len(regs)
             places == {i \in DOMAIN regs : Applies(key, regs[i])}
  <1>1. /\ IsSeq(regs) /\ Distinct(regs)
        /\ Elems(regs) = {r \in Registers : Column(r) = c}
    BY RegistersOfColumn
  <1>2. n \in Nat /\ DOMAIN regs = 1..n
    BY <1>1, IsSeqProperties
  <1>3. PICK r \in Registers : Column(r) = c /\ Applies(key, r)
    BY OneApplies
  <1> HIDE DEF regs
  <1>4. PICK i \in 1..n : regs[i] = r
    BY <1>1, <1>3 DEF Elems
  <1>5. ASSUME NEW j \in places
        PROVE  j = i
    <2>1. j \in 1..n /\ Applies(key, regs[j])
      BY <1>2
    <2>2. regs[j] \in Registers /\ Column(regs[j]) = c
      BY <1>1, <2>1 DEF Elems
    <2>3. regs[j] = r
      BY <1>3, <2>1, <2>2, OneApplies
    <2>4. QED
      BY <1>1, <1>4, <2>1, <2>3 DEF Distinct
  <1>6. places = {i}
    BY <1>2, <1>3, <1>4, <1>5
  <1>7. AppliedTo(key, regs) = <<r>>
    <2>1. AppliedTo(key, regs) = AtPlaces(regs, places)
      BY DEF AppliedTo
    <2> HIDE DEF places
    <2>2. i \in Nat
      BY <1>2
    <2>3. QED
      BY <1>4, <1>6, <2>1, <2>2, AtOnePlace
  <1>8. QED
    BY <1>3, <1>7 DEF regs

\* With plain columns the entry of a key has a value for each configuration
\* column, in their order, and that of the register that applies to the key.
LEMMA RegistersOfKey ==
    ASSUME NEW columns, IsSeq(filtered_columns(columns)),
           \A i \in 1..Len(filtered_columns(columns)) :
              /\ filtered_columns(columns)[i] \in ConfigColumns
              /\ PlainColumn(filtered_columns(columns)[i]),
           NEW key, key \in CacheKeys({key[1]})
    PROVE  /\ DOMAIN RegistersOf(key, columns) = 1..Len(filtered_columns(columns))
           /\ \A i \in 1..Len(filtered_columns(columns)) :
                 /\ RegistersOf(key, columns)[i] \in Registers
                 /\ Column(RegistersOf(key, columns)[i]) = filtered_columns(columns)[i]
                 /\ Applies(key, RegistersOf(key, columns)[i])
  <1> DEFINE cols == filtered_columns(columns)
             n == Len(cols)
             Fits(r, c) == /\ Column(r) = c /\ Applies(key, r)
                           /\ AppliedTo(key, roc_config_key[c]) = <<r>>
             g == [i \in 1..n |-> CHOOSE r \in Registers : Fits(r, cols[i])]
  <1>1. n \in Nat /\ DOMAIN cols = 1..n
    BY IsSeqProperties
  <1>2. ASSUME NEW i \in 1..n
        PROVE  g[i] \in Registers /\ Fits(g[i], cols[i])
    <2>1. cols[i] \in ConfigColumns /\ PlainColumn(cols[i])
      OBVIOUS
    <2> HIDE DEF cols, n
    <2>2. \E r \in Registers : Fits(r, cols[i])
      BY <2>1, OneIsTaken
    <2>3. g[i] = CHOOSE r \in Registers : Fits(r, cols[i])
      OBVIOUS
    <2> HIDE DEF Fits, g
    <2>4. QED
      BY <2>2, <2>3
  <1>3. RegistersOf(key, columns) =
            FlattenSeq([i \in 1..n |-> AppliedTo(key, roc_config_key[cols[i]])])
    BY <1>1 DEF RegistersOf
  <1> HIDE DEF cols, n, g
  <1>4. [i \in 1..n |-> AppliedTo(key, roc_config_key[cols[i]])] = [i \in 1..n |-> <<g[i]>>]
    BY <1>2
  <1>5. RegistersOf(key, columns) = [i \in 1..n |-> g[i]]
    BY <1>1, <1>3, <1>4, FlatSingles
  <1>6. QED
    BY <1>2, <1>5 DEF cols, n

(***************************************************************************)
(* The overlay.  A node of the overlaid tree is not there, or that of one  *)
(* tree where the other has nothing to say, or both overlaid.              *)
(***************************************************************************)
Over(nodes, d, d1, d2) ==
    \/ d = Missing
    \/ d = d1 /\ d2 \in {Missing, Null}
    \/ d = d2
    \/ /\ d1 \in nodes /\ d2 \in nodes /\ DOMAIN d1 = DOMAIN d2
       /\ d = updated(d1, d2) /\ d # UpdateThrown

\* What is not there, or has no value, has nothing below.
LEMMA NothingBelow ==
    /\ DOMAIN Missing = {"missing"} /\ DOMAIN Null = {"null"}
    /\ \A key : Child(Missing, key) = Missing /\ Child(Null, key) = Missing
  <1>1. DOMAIN Missing = {"missing"} /\ DOMAIN Null = {"null"}
    BY DEF Missing, Null
  <1>2. {"missing"} # {"map"} /\ {"null"} # {"map"}
    OBVIOUS
  <1>3. QED
    BY <1>1, <1>2 DEF Child

\* The entries of an overlaid tree are overlaid, too.
LEMMA OverBelow ==
    ASSUME NEW nodes \in SUBSET Nodes, NEW d, NEW d1, NEW d2, Over(nodes, d, d1, d2),
           NEW key
    PROVE  Over(Below(nodes), Child(d, key), Child(d1, key), Child(d2, key))
  <1>1. CASE d = Missing
    BY <1>1, NothingBelow DEF Over
  <1>2. CASE d = d1 /\ d2 \in {Missing, Null}
    BY <1>2, NothingBelow DEF Over
  <1>3. CASE d = d2
    BY <1>3 DEF Over
  <1>4. CASE /\ d1 \in nodes /\ d2 \in nodes /\ DOMAIN d1 = DOMAIN d2
             /\ d = updated(d1, d2) /\ d # UpdateThrown
    <2>1. /\ DOMAIN d = DOMAIN d1
          /\ DOMAIN d1 = {"map"} =>
                /\ DOMAIN d.map = DOMAIN d1.map \cup DOMAIN d2.map
                /\ \A k \in DOMAIN d1.map \ DOMAIN d2.map : d.map[k] = d1.map[k]
                /\ \A k \in DOMAIN d2.map \ DOMAIN d1.map : d.map[k] = d2.map[k]
                /\ \A k \in DOMAIN d1.map \cap DOMAIN d2.map :
                    IF DOMAIN d1.map[k] = DOMAIN d2.map[k]
                    THEN /\ d.map[k] = updated(d1.map[k], d2.map[k])
                         /\ d.map[k] # UpdateThrown
                    ELSE d.map[k] = IF d2.map[k] # Null THEN d2.map[k]
                                                        ELSE d1.map[k]
      <3>1. d1 \in Nodes /\ d2 \in Nodes
        BY <1>4
      <3>2. QED
        BY <1>4, <3>1, UpdatedAssumption
    <2>2. CASE DOMAIN d1 # {"map"}
      BY <1>4, <2>1, <2>2 DEF Child, Over
    <2>3. CASE DOMAIN d1 = {"map"}
      <3>1. /\ Child(d, key) = IF key \in DOMAIN d.map THEN d.map[key] ELSE Missing
            /\ Child(d1, key) = IF key \in DOMAIN d1.map THEN d1.map[key] ELSE Missing
            /\ Child(d2, key) = IF key \in DOMAIN d2.map THEN d2.map[key] ELSE Missing
        BY <1>4, <2>1, <2>3 DEF Child
      <3>2. CASE key \notin DOMAIN d1.map /\ key \notin DOMAIN d2.map
        BY <2>1, <2>3, <3>1, <3>2 DEF Over
      <3>3. CASE key \in DOMAIN d1.map \ DOMAIN d2.map
        BY <2>1, <2>3, <3>1, <3>3 DEF Over
      <3>4. CASE key \in DOMAIN d2.map \ DOMAIN d1.map
        BY <2>1, <2>3, <3>1, <3>4 DEF Over
      <3>5. CASE key \in DOMAIN d1.map \cap DOMAIN d2.map
        <4>1. /\ Child(d, key) = d.map[key]
              /\ Child(d1, key) = d1.map[key] /\ Child(d2, key) = d2.map[key]
          BY <2>1, <2>3, <3>1, <3>5
        <4>2. d1.map[key] \in Below(nodes) /\ d2.map[key] \in Below(nodes)
          <5>1. ASSUME NEW node \in nodes, DOMAIN node = {"map"}, key \in DOMAIN node.map
                PROVE  node.map[key] \in Below(nodes)
            <6> DEFINE maps == {m \in nodes : DOMAIN m = {"map"}}
                       below(n) == {n.map[k] : k \in DOMAIN n.map}
            <6>1. node \in maps /\ node.map[key] \in below(node)
              BY <5>1
            <6>2. Below(nodes) = nodes \cup UNION {below(n) : n \in maps}
              BY DEF Below
            <6> HIDE DEF maps, below
            <6>3. QED
              BY <6>1, <6>2
          <5>2. QED
            BY <1>4, <2>3, <3>5, <5>1
        <4>3. IF DOMAIN d1.map[key] = DOMAIN d2.map[key]
              THEN /\ d.map[key] = updated(d1.map[key], d2.map[key])
                   /\ d.map[key] # UpdateThrown
              ELSE d.map[key] = IF d2.map[key] # Null THEN d2.map[key] ELSE d1.map[key]
          BY <2>1, <2>3, <3>5
        <4>4. QED
          BY <4>1, <4>2, <4>3 DEF Over
      <3>6. QED
        BY <3>2, <3>3, <3>4, <3>5
    <2>4. QED
      BY <2>2, <2>3
  <1>5. QED
    BY <1>1, <1>2, <1>3, <1>4 DEF Over

\* The integer an overlaid node is: that of the second tree, where it has a
\* value, and else that of the first.
LEMMA OverInteger ==
    ASSUME NEW d, NEW d1, NEW d2, Over(Nodes, d, d1, d2), IsInteger(d)
    PROVE  d = IF d2 \notin {Missing, Null} THEN d2 ELSE d1
  <1>1. DOMAIN d = {"scalar"}
    BY DEF IsInteger
  <1>2. d \notin {Missing, Null}
    BY <1>1, NothingBelow
  <1>3. CASE /\ d1 \in Nodes /\ d2 \in Nodes /\ DOMAIN d1 = DOMAIN d2
             /\ d = updated(d1, d2) /\ d # UpdateThrown
    <2>1. DOMAIN d = DOMAIN d1 /\ (DOMAIN d1 = {"scalar"} /\ DOMAIN d2 = {"scalar"} => d = d2)
      BY <1>3, UpdatedAssumption
    <2>2. d = d2
      BY <1>1, <1>3, <2>1
    <2>3. QED
      BY <1>2, <2>2
  <1>4. QED
    BY <1>2, <1>3 DEF Over

\* The value of a register in the overlaid trees.
LEMMA OverlaidSetting ==
    ASSUME NEW d1 \in Trees, NEW d2 \in Trees, updated(d1, d2) # UpdateThrown,
           NEW roc, NEW r, IsInteger(Setting(updated(d1, d2), roc, r))
    PROVE  Setting(updated(d1, d2), roc, r) =
               IF Setting(d2, roc, r) \notin {Missing, Null}
               THEN Setting(d2, roc, r) ELSE Setting(d1, roc, r)
  <1> DEFINE N1 == Below(Trees)
             N2 == Below(N1)
             N3 == Below(N2)
  <1>1. /\ Trees \subseteq N1 /\ N1 \subseteq N2 /\ N2 \subseteq N3
        /\ N3 \subseteq Nodes /\ Below(N3) = Nodes
    BY DEF Below, Nodes
  <1> HIDE DEF N2, N3
  <1> DEFINE d == updated(d1, d2)
             k1 == roc_name(roc)
  <1>2. Over(N1, Child(d, k1), Child(d1, k1), Child(d2, k1))
    <2>1. Trees \in SUBSET Nodes /\ d1 \in Nodes /\ d2 \in Nodes
      BY <1>1
    <2>2. CASE DOMAIN d1 = DOMAIN d2
      <3>1. Over(Trees, d, d1, d2)
        BY <2>2 DEF Over
      <3>2. QED
        BY <2>1, <3>1, OverBelow
    <2>3. CASE DOMAIN d1 # DOMAIN d2
      <3>1. d = d1
        BY <2>1, <2>3, UpdatedAssumption
      <3>2. Child(d1, k1) = Missing \/ Child(d2, k1) = Missing
        BY <2>3 DEF Child
      <3>3. QED
        BY <3>1, <3>2 DEF Over
    <2>4. QED
      BY <2>2, <2>3
  <1> HIDE DEF N1, d, k1
  <1> DEFINE B(node) == Child(Child(node, k1), r[1])
             C(node) == Child(B(node), ToString(r[2]))
             D(node) == Child(C(node), r[3])
  <1>3. Over(N2, B(d), B(d1), B(d2))
    <2>1. N1 \in SUBSET Nodes
      BY <1>1
    <2>2. QED
      BY <1>2, <2>1, OverBelow DEF N2
  <1> HIDE DEF B
  <1>4. Over(N3, C(d), C(d1), C(d2))
    <2>1. N2 \in SUBSET Nodes
      BY <1>1
    <2>2. QED
      BY <1>3, <2>1, OverBelow DEF N3
  <1> HIDE DEF C
  <1>5. Over(Nodes, D(d), D(d1), D(d2))
    <2>1. N3 \in SUBSET Nodes
      BY <1>1
    <2>2. Over(Below(N3), D(d), D(d1), D(d2))
      BY <1>4, <2>1, OverBelow
    <2>3. QED
      BY <1>1, <2>2
  <1> HIDE DEF D
  <1>6. \A node : Setting(node, roc, r) = D(node)
    BY DEF Setting, D, C, B, k1
  <1>7. IsInteger(D(d))
    BY <1>6 DEF d
  <1>8. D(d) = IF D(d2) \notin {Missing, Null} THEN D(d2) ELSE D(d1)
    BY <1>5, <1>7, OverInteger
  <1>9. QED
    BY <1>6, <1>8 DEF d

\* What is read from the tree the program works with is what its files say.
LEMMA ReadAsConfigured ==
    ASSUME job.c \in DOMAIN yamls, job.d \in DOMAIN yamls \cup {"null"},
           Overlaid # UpdateThrown,
           NEW roc, NEW r, IsInteger(Setting(Overlaid, roc, r))
    PROVE  Setting(Overlaid, roc, r).scalar = Configured(roc, r)
  <1> DEFINE overlay_config == Child(yamls[job.c], "target")
  <1>1. CASE job.d = "null"
    BY <1>1 DEF Overlaid, Configured
  <1>2. CASE job.d # "null"
    <2>1. Overlaid = updated(yamls[job.d], overlay_config)
      BY <1>2 DEF Overlaid
    <2>2. yamls[job.d] \in Trees /\ overlay_config \in Trees
      BY <1>2 DEF Trees
    <2> HIDE DEF overlay_config
    <2>3. Setting(Overlaid, roc, r) =
              IF Setting(overlay_config, roc, r) \notin {Missing, Null}
              THEN Setting(overlay_config, roc, r) ELSE Setting(yamls[job.d], roc, r)
      BY <2>1, <2>2, OverlaidSetting
    <2>4. QED
      BY <1>2, <2>3 DEF Configured, overlay_config
  <1>3. QED
    BY <1>1, <1>2

\* The half of a channel by its number among those of its type.
LEMMA HalfByNumber ==
    ASSUME NEW half \in Nat \ {0}, NEW i \in Nat, i < 2 * half
    PROVE  /\ (2 * half) \div 2 = half
           /\ i \div half = IF i < half THEN 0 ELSE 1
  <1>1. (2 * half) \div 2 = half
    OBVIOUS
  <1>2. CASE i < half
    <2>1. half * 0 <= i /\ i < half * 0 + half
      BY <1>2
    <2>2. i \div half = 0
      BY <2>1, QuotientAndRest
    <2>3. QED
      BY <1>1, <1>2, <2>2
  <1>3. CASE ~(i < half)
    <2>1. half * 1 <= i /\ i < half * 1 + half
      BY <1>3
    <2>2. i \div half = 1
      BY <2>1, QuotientAndRest
    <2>3. QED
      BY <1>1, <1>3, <2>2
  <1>4. QED
    BY <1>2, <1>3

\* A row of the data that names its channel as the unpacker does.
IsRow(data) ==
    event_mode => data["half"] \in {0, 1} /\ data["channel"] \in 0 .. HalfChannels + 2

\* The key of a row names its channel as the blocks of the chip are numbered.
LEMMA KeyOfChannel ==
    ASSUME NEW data, IsRow(data), NEW rocs, Key(data) \in CacheKeys(rocs)
    PROVE  /\ Key(data)[1] = data["chip"] /\ data["chip"] \in rocs
           /\ Key(data) \in CacheKeys({data["chip"]})
           /\ HalfOfKey(Key(data)) = HalfOf(data)
           /\ Key(data) = <<data["chip"], IndexOf(data),
                            channel_type_name_to_index[BlockOf(data)]>>
  <1> DEFINE key == Key(data)
             H == HalfChannels
             ch == data["channel"]
             half == data["half"]
  <1>1. /\ key[1] \in rocs /\ key[2] \in 0 .. 2 * H - 1 /\ key[3] \in channel_types
        /\ key[2] < channel_count[key[3]]
        /\ key \in rocs \X (0 .. 2 * H - 1) \X channel_types
    BY DEF CacheKeys
  <1>2. H \in Nat \ {0}
    BY ChannelTypes
  <1>3. key[1] = data["chip"] => data["chip"] \in rocs /\ key \in CacheKeys({data["chip"]})
    <2> HIDE DEF key
    <2>1. SUFFICES ASSUME key[1] = data["chip"]
                   PROVE  key \in CacheKeys({data["chip"]})
      BY <1>1
    <2>2. key \in {data["chip"]} \X (0 .. 2 * H - 1) \X channel_types
      BY <1>1, <2>1
    <2>3. QED
      BY <1>1, <2>2 DEF CacheKeys
  <1>4. CASE ~event_mode
    <2>1. key = <<data["chip"], ch, data["channeltype"]>>
      BY <1>4 DEF Key
    <2> DEFINE t == data["channeltype"]
    <2>2. key[1] = data["chip"] /\ key[2] = ch /\ key[3] = t
      BY <2>1
    <2> HIDE DEF key, ch, t
    <2>3. t \in {0, 1, 100} /\ ch \in Nat /\ ch < channel_count[t]
      BY <1>1, <2>2, ChannelTypes
    <2>4. PICK h \in Nat \ {0} : channel_count[t] = 2 * h
      <3>1. CASE t = 0
        BY <3>1, ChannelTypes
      <3>2. CASE t = 1
        BY <3>2, ChannelTypes
      <3>3. CASE t = 100
        BY <3>3, ChannelTypes
      <3>4. QED
        BY <2>3, <3>1, <3>2, <3>3
    <2>5. (2 * h) \div 2 = h /\ ch \div h = IF ch < h THEN 0 ELSE 1
      BY <2>3, <2>4, HalfByNumber
    <2>6. HalfOf(data) = ch \div (channel_count[t] \div 2)
      BY <1>4 DEF HalfOf, ch, t
    <2>7. HalfOfKey(key) = IF ch < channel_count[t] \div 2 THEN 0 ELSE 1
      BY <2>2 DEF HalfOfKey
    <2>8. HalfOfKey(key) = HalfOf(data)
      BY <2>4, <2>5, <2>6, <2>7
    <2>9. IndexOf(data) = ch
      BY <1>4 DEF IndexOf, ch
    <2>10. channel_type_name_to_index[BlockOf(data)] = t
      <3>1. BlockOf(data) = IF t = 0 THEN "ch" ELSE IF t = 1 THEN "calib" ELSE "cm"
        BY <1>4 DEF BlockOf, t, ROC_CHAN_TYPE, ROC_CALIB_CHAN_TYPE
      <3>2. QED
        BY <2>3, <3>1, ChannelTypes
    <2>11. QED
      BY <1>3, <2>1, <2>2, <2>8, <2>9, <2>10 DEF key, ch, t
  <1>5. CASE event_mode
    <2>1. half \in {0, 1} /\ ch \in 0 .. H + 2
      BY <1>5 DEF IsRow
    <2>2. key = transform_event_row_to_cache_key(<<data["chip"], ch, half>>)
      BY <1>5 DEF Key
    <2>3. HalfOf(data) = half
      BY <1>5 DEF HalfOf
    <2>4. CASE ch < H
      <3> DEFINE n == ch + half * H
      <3>1. key = <<data["chip"], n, 0>>
        BY <2>2, <2>4 DEF transform_event_row_to_cache_key, ROC_CHAN_TYPE
      <3>2. IndexOf(data) = ch + H * half /\ BlockOf(data) = "ch"
        <4>1. ch # H
          BY <1>2, <2>1, <2>4
        <4>2. IndexOf(data) = ch + H * half
          BY <1>5, <2>4, <4>1, Zenon DEF IndexOf
        <4>3. BlockOf(data) = "ch"
          BY <1>5, <2>4, <4>1, Zenon DEF BlockOf
        <4>4. QED
          BY <4>2, <4>3
      <3>3. n = ch + H * half
        BY <1>2, <2>1
      <3>4. key[1] = data["chip"] /\ key[2] = n /\ key[3] = 0
        BY <3>1
      <3>5. HalfOfKey(key) = IF n < channel_count[0] \div 2 THEN 0 ELSE 1
        BY <3>4 DEF HalfOfKey
      <3>6. channel_count[0] \div 2 = H
        BY <1>2, ChannelTypes
      <3>7. n < H <=> half = 0
        <4>1. half = 0 => n = ch
          BY <1>2, <2>1
        <4>2. half = 1 => n = ch + H
          BY <1>2, <2>1
        <4>3. QED
          BY <1>2, <2>1, <2>4, <4>1, <4>2
      <3>8. HalfOfKey(key) = HalfOf(data)
        BY <2>1, <2>3, <3>5, <3>6, <3>7
      <3>9. QED
        BY <1>3, <3>1, <3>2, <3>3, <3>4, <3>8, ChannelTypes
    <2>5. CASE ch = H
      <3>1. key = <<data["chip"], half, 1>>
        BY <1>2, <2>2, <2>5 DEF transform_event_row_to_cache_key, ROC_CALIB_CHAN_TYPE
      <3>2. IndexOf(data) = half /\ BlockOf(data) = "calib"
        BY <1>2, <1>5, <2>5 DEF IndexOf, BlockOf
      <3>3. key[1] = data["chip"] /\ key[2] = half /\ key[3] = 1
        BY <3>1
      <3>4. HalfOfKey(key) = IF half < channel_count[1] \div 2 THEN 0 ELSE 1
        BY <3>3 DEF HalfOfKey
      <3>5. HalfOfKey(key) = HalfOf(data)
        BY <2>1, <2>3, <3>4, ChannelTypes
      <3>6. QED
        BY <1>3, <3>1, <3>2, <3>3, <3>5, ChannelTypes
    <2>6. CASE ch > H
      <3> DEFINE n == ch - (H + 1) + half * 2
      <3>1. key = <<data["chip"], n, 100>>
        BY <1>2, <2>1, <2>2, <2>6 DEF transform_event_row_to_cache_key, ROC_CM_CHAN_TYPE
      <3>2. IndexOf(data) = ch - H - 1 + 2 * half /\ BlockOf(data) = "cm"
        BY <1>2, <1>5, <2>1, <2>6 DEF IndexOf, BlockOf
      <3>3. n = ch - H - 1 + 2 * half
        BY <1>2, <2>1
      <3>4. key[1] = data["chip"] /\ key[2] = n /\ key[3] = 100
        BY <3>1
      <3>5. HalfOfKey(key) = IF n < channel_count[100] \div 2 THEN 0 ELSE 1
        BY <3>4 DEF HalfOfKey
      <3>6. n < 2 <=> half = 0
        BY <1>2, <2>1, <2>6
      <3>7. channel_count[100] \div 2 = 2
        BY ChannelTypes
      <3>8. HalfOfKey(key) = HalfOf(data)
        BY <2>1, <2>3, <3>5, <3>6, <3>7
      <3>9. QED
        BY <1>3, <3>1, <3>2, <3>3, <3>4, <3>8, ChannelTypes
    <2>7. QED
      BY <1>2, <2>1, <2>4, <2>5, <2>6
  <1>6. QED
    BY <1>4, <1>5

\* The registers that govern the channel of a row apply to its key.
LEMMA GoverningApplies ==
    ASSUME NEW data, IsRow(data), NEW rocs, Key(data) \in CacheKeys(rocs),
           NEW column, NEW r \in Governing(data, column)
    PROVE  r \in Registers /\ Column(r) = column /\ Applies(Key(data), r)
  <1>1. /\ r \in Registers /\ Column(r) = column
        /\ \/ r[1] \in global
           \/ r[1] \in half_wise /\ r[2] = HalfOf(data)
           \/ r[1] = BlockOf(data) /\ r[2] = IndexOf(data)
    BY DEF Governing, Column
  <1>2. /\ Key(data)[1] = data["chip"] /\ Key(data) \in CacheKeys({data["chip"]})
        /\ HalfOfKey(Key(data)) = HalfOf(data)
        /\ Key(data) = <<data["chip"], IndexOf(data),
                         channel_type_name_to_index[BlockOf(data)]>>
    BY KeyOfChannel
  <1>3. BlockOf(data) \in channel
    <2>1. BlockOf(data) \in {"ch", "calib", "cm"}
      BY DEF BlockOf
    <2>2. QED
      BY <2>1, ChannelTypes
  <1>4. QED
    BY <1>1, <1>2, <1>3, WhatApplies

(***************************************************************************)
(* The second invariant: what the program read and made of it so far, and  *)
(* that every row it took had an entry.                                    *)
(***************************************************************************)
Loaded ==
    /\ job.c \in DOMAIN yamls /\ job.d \in DOMAIN yamls \cup {"null"}
    /\ Overlaid # UpdateThrown /\ run_config = Overlaid

Formatted ==
    /\ data_columns = filter_measurement_columns(event_mode, job.s)
    /\ config_columns = AtPlaces(job.s, {i \in DOMAIN job.s :
                                            job.s[i] \in DOMAIN column_type})

Typed == table_type = create_compound_datatype_form_columns(
                          data_columns, config_columns, event_mode)

Filled ==
    LET config == Settings(run_config)
    IN  /\ table_type # NoType
        /\ ~CacheFails(config, DOMAIN config, job.s)
        /\ cache = generate_hgcroc_config_cache(config, DOMAIN config, job.s)

RowsHaveEntries ==
    Len(table_type.members) > Len(data_columns) =>
        \A i \in 1..row : Key(Tree.rows[i]) \in DOMAIN cache

ConfigInv ==
    /\ pc \in {"format", "create", "cache", "rows", "clean_up"} => Loaded
    /\ pc \in {"create", "cache", "rows", "clean_up"} => Formatted
    /\ pc \in {"cache", "rows", "clean_up"} => Typed
    /\ pc \in {"rows", "clean_up"} => Filled /\ RowsHaveEntries
    /\ pc = "clean_up" => row = total_rows

\* While nothing of it changes, what is read and made of it stays the same.
LEMMA SameConfig ==
    ASSUME UNCHANGED job
    PROVE  /\ UNCHANGED run_config => (Loaded <=> Loaded')
           /\ UNCHANGED <<data_columns, config_columns>> =>
                 /\ Formatted <=> Formatted'
                 /\ UNCHANGED table_type => (Typed <=> Typed')
           /\ UNCHANGED <<run_config, table_type, cache>> => (Filled <=> Filled')
           /\ UNCHANGED <<data_columns, table_type, cache, row>> =>
                 (RowsHaveEntries <=> RowsHaveEntries')
           /\ total_rows' = total_rows
  <1>1. UNCHANGED <<Overlaid, event_mode, Tree>>
    BY DEF Overlaid, event_mode, Tree
  <1>2. \A data : Key(data)' = Key(data)
    BY <1>1 DEF Key
  <1>3. UNCHANGED run_config => (Loaded <=> Loaded')
    BY <1>1 DEF Loaded
  <1>4. UNCHANGED <<data_columns, config_columns>> => (Formatted <=> Formatted')
    BY <1>1 DEF Formatted
  <1>5. UNCHANGED <<data_columns, config_columns, table_type>> => (Typed <=> Typed')
    BY <1>1 DEF Typed
  <1>6. UNCHANGED <<run_config, table_type, cache>> => (Filled <=> Filled')
    BY DEF Filled
  <1>7. UNCHANGED <<data_columns, table_type, cache, row>> =>
           (RowsHaveEntries <=> RowsHaveEntries')
    BY <1>1, <1>2 DEF RowsHaveEntries
  <1>8. total_rows' = total_rows
    BY <1>1 DEF total_rows
  <1>9. QED
    BY <1>3, <1>4, <1>5, <1>6, <1>7, <1>8

\* A program that is not between its steps has read nothing.
LEMMA NothingRead ==
    ASSUME pc' \in Ended \cup {"load"}
    PROVE  ConfigInv'
  BY DEF ConfigInv, Ended

\* The rest of a step of main: the overlay, the columns, the type, the cache.
LEMMA SetUpConfig ==
    ASSUME ConfigInv, Load \/ Format \/ Create \/ Cache
    PROVE  ConfigInv'
  <1>1. CASE pc' \in Ended
    BY <1>1, NothingRead
  <1>2. CASE Load /\ pc' \notin Ended
    <2>1. /\ pc' = "format" /\ run_config' = Overlaid /\ Overlaid # UpdateThrown
          /\ job.c \in DOMAIN yamls /\ job.d \in DOMAIN yamls \cup {"null"}
          /\ job' = job
      BY <1>2 DEF Load, Exit, Ended
    <2>2. Overlaid' = Overlaid
      BY <2>1 DEF Overlaid
    <2>3. QED
      BY <2>1, <2>2 DEF ConfigInv, Loaded
  <1>3. CASE Format /\ pc' \notin Ended
    <2>1. /\ pc = "format" /\ pc' = "create" /\ UNCHANGED <<job, run_config>>
          /\ data_columns' = filter_measurement_columns(event_mode, job.s)
          /\ config_columns' = AtPlaces(job.s, {i \in DOMAIN job.s :
                                                  job.s[i] \in DOMAIN column_type})
      BY <1>3 DEF Format, Exit, Ended
    <2>2. event_mode' = event_mode
      BY <2>1 DEF event_mode
    <2>3. Formatted'
      BY <2>1, <2>2 DEF Formatted
    <2>4. Loaded'
      BY <2>1, SameConfig DEF ConfigInv
    <2>5. QED
      BY <2>1, <2>3, <2>4 DEF ConfigInv
  <1>4. CASE Create
    <2>1. /\ pc = "create" /\ pc' = "cache"
          /\ UNCHANGED <<job, run_config, data_columns, config_columns>>
          /\ table_type' = create_compound_datatype_form_columns(
                               data_columns, config_columns, event_mode)
      BY <1>4 DEF Create
    <2>2. event_mode' = event_mode
      BY <2>1 DEF event_mode
    <2>3. Typed'
      BY <2>1, <2>2 DEF Typed
    <2>4. Loaded' /\ Formatted'
      BY <2>1, SameConfig DEF ConfigInv
    <2>5. QED
      BY <2>1, <2>3, <2>4 DEF ConfigInv
  <1>5. CASE Cache /\ pc' \notin Ended
    <2> DEFINE config == Settings(run_config)
    <2>1. /\ pc = "cache" /\ pc' = "rows" /\ row' = 0
          /\ table_type # NoType
          /\ ~CacheFails(config, DOMAIN config, job.s)
          /\ cache' = generate_hgcroc_config_cache(config, DOMAIN config, job.s)
          /\ UNCHANGED <<job, run_config, data_columns, config_columns, table_type>>
      BY <1>5 DEF Cache, Exit, Ended
    <2>2. Filled'
      BY <2>1 DEF Filled
    <2>3. RowsHaveEntries'
      BY <2>1 DEF RowsHaveEntries
    <2>4. Loaded' /\ Formatted' /\ Typed'
      BY <2>1, SameConfig DEF ConfigInv
    <2>5. QED
      BY <2>1, <2>2, <2>3, <2>4 DEF ConfigInv
  <1>6. QED
    BY <1>1, <1>2, <1>3, <1>4, <1>5

\* Only a row with an entry is taken, and after the last block all of them are.
LEMMA RowsKeepConfig ==
    ASSUME ConfigInv, FrackerInv, CopyRow \/ WriteBlock
    PROVE  ConfigInv'
  <1>1. CASE pc' \in Ended
    BY <1>1, NothingRead
  <1>2. CASE CopyRow /\ pc' \notin Ended
    <2>1. /\ pc = "rows" /\ pc' = "rows" /\ row' = row + 1
          /\ Len(table_type.members) > Len(data_columns) =>
                Key(Tree.rows[row + 1]) \in DOMAIN cache
          /\ UNCHANGED <<job, run_config, data_columns, config_columns, table_type, cache>>
      BY <1>2 DEF CopyRow, Exit, Ended, locals
    <2>2. Loaded' /\ Formatted' /\ Typed' /\ Filled'
      BY <2>1, SameConfig DEF ConfigInv
    <2>3. RowsHaveEntries'
      <3>1. UNCHANGED Tree /\ \A data : Key(data)' = Key(data)
        BY <2>1 DEF Tree, Key, event_mode
      <3>2. row \in Nat /\ RowsHaveEntries
        BY <2>1 DEF FrackerInv, TypeOK, ConfigInv
      <3>3. \A i \in 1..row + 1 : i \in 1..row \/ i = row + 1
        BY <3>2
      <3>4. QED
        BY <2>1, <3>1, <3>2, <3>3 DEF RowsHaveEntries
    <2>4. QED
      BY <2>1, <2>2, <2>3 DEF ConfigInv
  <1>3. CASE WriteBlock
    <2>1. /\ pc = "rows" /\ pc' = IF InLastBlock THEN "clean_up" ELSE "rows"
          /\ ~InBlock
          /\ UNCHANGED <<job, run_config, data_columns, config_columns, table_type,
                         cache, row>>
      BY <1>3 DEF WriteBlock, locals
    <2>2. Loaded' /\ Formatted' /\ Typed' /\ Filled' /\ RowsHaveEntries'
      BY <2>1, SameConfig DEF ConfigInv
    <2>3. InLastBlock => row = total_rows
      <3>1. /\ job \in Jobs /\ job.b \in Nat \ {0} /\ BlockInv
            /\ block < blocks /\ row \in Nat /\ block \in Nat
            /\ row \in job.b * block .. total_rows
        BY <2>1, JobsAssumption DEF FrackerInv, TypeOK, FrackInv
      <3>2. total_rows \in Nat /\ blocks = (total_rows \div job.b) + 1
        BY <3>1, TreeRows DEF blocks
      <3>3. /\ block < (total_rows \div job.b) + 1
            /\ job.b * block <= row /\ row <= job.b * (block + 1) /\ row <= total_rows
            /\ ~(row < job.b * (block + 1) /\ row < total_rows)
        BY <2>1, <3>1, <3>2 DEF BlockInv, InBlock
      <3>4. block + 1 = (total_rows \div job.b) + 1 => row = total_rows
        BY <3>1, <3>2, <3>3, BlockEnds
      <3>5. QED
        BY <3>2, <3>4 DEF InLastBlock
    <2>4. total_rows' = total_rows
      BY <2>1, SameConfig
    <2>5. QED
      BY <2>1, <2>2, <2>3, <2>4 DEF ConfigInv
  <1>4. QED
    BY <1>1, <1>2, <1>3

\* Every step of the two programs keeps it.
LEMMA ToolsNextConfig ==
    ASSUME ToolsInv, ConfigInv, [ToolsNext]_toolVars
    PROVE  ConfigInv'
  <1>1. ASSUME UNCHANGED <<pc, job, locals, loop>>
        PROVE  ConfigInv'
    <2>1. UNCHANGED <<pc, job, run_config, data_columns, config_columns, table_type,
                      cache, row>>
      BY <1>1 DEF locals, loop
    <2>2. QED
      BY <2>1, SameConfig DEF ConfigInv
  <1>2. CASE FrackerStep
    <2>1. FrackerInv /\ Next
      BY <1>2 DEF FrackerStep, ToolsInv, FrackerInv
    <2>2. \/ pc' \in Ended \cup {"load"}
          \/ Load \/ Format \/ Create \/ Cache \/ CopyRow \/ WriteBlock
      BY <2>1 DEF Next, Start, LoadFails, CleanUp, Exit, Ended
    <2>3. QED
      BY <2>1, <2>2, NothingRead, SetUpConfig, RowsKeepConfig
  <1>3. CASE PumpStep
    BY <1>1, <1>3 DEF PumpStep
  <1>4. CASE UNCHANGED toolVars
    BY <1>1, <1>4 DEF toolVars, vars, locals, loop
  <1>5. QED
    BY <1>2, <1>3, <1>4 DEF ToolsNext

\* The invariant of what was read.
LEMMA ConfigInvHolds == ToolsSpec => []ConfigInv
  <1>1. ToolsInit => ConfigInv
    BY DEF ToolsInit, Init, ConfigInv
  <1>2. ToolsInv /\ ConfigInv /\ [ToolsNext]_toolVars => ConfigInv'
    BY ToolsNextConfig
  <1>3. QED
    BY <1>1, <1>2, ToolsInvHolds, PTL DEF ToolsSpec

\* A type has a member for each column, where none is there twice.
LEMMA MemberForEach ==
    ASSUME NEW names, IsSeq(names), Distinct(names), NEW types,
           create_compund_datatype(names, types) # NoType
    PROVE  /\ IsSeq(create_compund_datatype(names, types).members)
           /\ Len(create_compund_datatype(names, types).members) = Len(names)
  <1> DEFINE type == create_compund_datatype(names, types)
             first == {i \in DOMAIN names : \A j \in 1 .. i - 1 : names[j] # names[i]}
  <1>1. names # <<>>
    BY DEF create_compund_datatype
  <1>2. PICK columns, size :
           /\ columns = [i \in DOMAIN names |-> columns[i]]
           /\ type = [members |-> AtPlaces(columns, first), size |-> size]
    BY <1>1 DEF create_compund_datatype
  <1>3. /\ Len(names) \in Nat /\ DOMAIN names = 1..Len(names)
        /\ IsSeq(columns) /\ Len(columns) = Len(names)
    BY <1>2, IsSeqProperties, FunctionIsSeq
  <1>4. first = 1..Len(names)
    <2>1. ASSUME NEW i \in 1..Len(names), NEW j \in 1 .. i - 1
          PROVE  names[j] # names[i]
      <3>1. j \in 1..Len(names) /\ j # i
        BY <1>3
      <3>2. QED
        BY <3>1 DEF Distinct
    <2>2. QED
      BY <1>3, <2>1
  <1>5. IsFiniteSet(first) /\ Cardinality(first) = Len(names)
    <2> DEFINE len == Len(names)
    <2>1. len \in Int /\ 1 \in Int /\ len \in Nat
      BY <1>3
    <2> HIDE DEF len, first
    <2>2. /\ IsFiniteSet(1..len)
          /\ Cardinality(1..len) = (IF 1 > len THEN 0 ELSE len - 1 + 1)
      BY <2>1, FS_Interval
    <2>3. Cardinality(1..len) = len
      BY <2>1, <2>2
    <2>4. first = 1..len
      BY <1>4 DEF len
    <2>5. QED
      BY <2>2, <2>3, <2>4 DEF len
  <1> HIDE DEF first, type
  <1>6. /\ IsSeq(AtPlaces(columns, first))
        /\ Len(AtPlaces(columns, first)) = Len(names)
    <2>1. first \in SUBSET (1..Len(columns))
      BY <1>3, <1>4
    <2>2. QED
      BY <1>3, <1>5, <2>1, AtPlacesIsSeq
  <1>7. type.members = AtPlaces(columns, first)
    BY <1>2
  <1>8. QED
    BY <1>6, <1>7 DEF type

\* The members of the table are the columns of the data and, behind them,
\* those of the configuration, which all are plain.
LEMMA MembersOfTable ==
    ASSUME job \in Jobs, Formatted, Typed, table_type # NoType, Plain(job.s)
    PROVE  /\ IsSeq(data_columns) /\ IsSeq(config_columns)
           /\ DOMAIN table_type.members = 1..Len(data_columns) + Len(config_columns)
           /\ Len(table_type.members) = Len(data_columns) + Len(config_columns)
           /\ config_columns = filtered_columns(job.s)
           /\ \A c \in 1..Len(config_columns) :
                 /\ config_columns[c] \in ConfigColumns \cap Range(job.s)
                 /\ PlainColumn(config_columns[c])
  <1> DEFINE s == job.s
             measured == IF event_mode THEN event_mode_data_columns
                                       ELSE summary_data_columns
             ofData == {i \in DOMAIN s : s[i] \in measured}
             ofConfig == {i \in DOMAIN s : s[i] \in ConfigColumns}
  <1>1. IsSeq(s) /\ Len(s) \in Nat /\ DOMAIN s = 1..Len(s)
    BY JobsAssumption, SeqIsSeq
  <1>2. Distinct(s)
    BY <1>1 DEF Plain, IsInjective, Distinct
  <1>3. /\ data_columns = AtPlaces(s, ofData)
        /\ config_columns = AtPlaces(s, ofConfig)
    BY ColumnsAssumption DEF Formatted, filter_measurement_columns
  <1>4. config_columns = filtered_columns(s)
    BY <1>3 DEF filtered_columns
  <1>5. /\ IsSeq(data_columns) /\ Distinct(data_columns)
        /\ \A k \in 1..Len(data_columns) : data_columns[k] \in measured
    <2> HIDE DEF measured
    <2>1. ofData \in SUBSET (1..Len(s))
      BY <1>1
    <2>2. \A i \in ofData : s[i] \in measured
      OBVIOUS
    <2> HIDE DEF ofData, s
    <2>3. QED
      BY <1>1, <1>2, <1>3, <2>1, <2>2, AtPlacesIsSeq
  <1>6. /\ IsSeq(config_columns) /\ Distinct(config_columns)
        /\ \A k \in 1..Len(config_columns) : config_columns[k] \in ConfigColumns \cap Range(s)
    <2>1. ofConfig \in SUBSET (1..Len(s))
      BY <1>1
    <2>2. \A i \in ofConfig : s[i] \in ConfigColumns \cap Range(s)
      BY DEF Range
    <2> HIDE DEF ofConfig, s
    <2>3. QED
      BY <1>1, <1>2, <1>3, <2>1, <2>2, AtPlacesIsSeq
  <1> HIDE DEF ofData, ofConfig
  <1>7. \A c \in 1..Len(config_columns) : PlainColumn(config_columns[c])
    <2>1. \A c \in Range(s) \cap ConfigColumns : PlainColumn(c)
      BY DEF Plain, PlainColumn
    <2>2. QED
      BY <1>6, <2>1
  <1> DEFINE names == data_columns \o config_columns
  <1>8. /\ IsSeq(names) /\ Distinct(names)
        /\ Len(names) = Len(data_columns) + Len(config_columns)
    <2>1. IsSeq(names) /\ Len(names) = Len(data_columns) + Len(config_columns)
      BY <1>5, <1>6, ConcatIsSeq
    <2>2. Elems(data_columns) \cap Elems(config_columns) = {}
      <3>1. measured \cap ConfigColumns = {}
        BY ColumnsAssumption
      <3> HIDE DEF measured, s
      <3>2. QED
        BY <1>5, <1>6, <3>1 DEF Elems
    <2> DEFINE U == Elems(data_columns) \cup Elems(config_columns)
    <2>3. Elems(data_columns) \subseteq U /\ Elems(config_columns) \subseteq U
      OBVIOUS
    <2> HIDE DEF U
    <2>4. data_columns \in Seq(U) /\ config_columns \in Seq(U)
      BY <1>5, <1>6, <2>3, SeqMonotonic DEF IsSeq
    <2>5. Distinct(names)
      BY <1>5, <1>6, <2>2, <2>4, ConcatElems
    <2>6. QED
      BY <2>1, <2>5
  <1>9. PICK types : table_type = create_compund_datatype(names, types)
    BY DEF Typed, create_compound_datatype_form_columns
  <1> HIDE DEF names, s
  <1>10. IsSeq(table_type.members) /\ Len(table_type.members) = Len(names)
    BY <1>8, <1>9, MemberForEach
  <1>11. DOMAIN table_type.members = 1..Len(names)
    BY <1>10, IsSeqProperties
  <1>12. QED
    BY <1>4, <1>5, <1>6, <1>7, <1>8, <1>10, <1>11 DEF s

\* A value in the cache: that of the register the column and the key name, as
\* the files of the run say.
LEMMA CachedValue ==
    ASSUME Loaded, Filled, NEW key \in DOMAIN cache,
           NEW r \in Registers, Column(r) \in ConfigColumns \cap Range(job.s),
           Applies(key, r)
    PROVE  Settings(run_config)[key[1]][r] = Configured(key[1], r)
  <1> DEFINE config == Settings(run_config)
             roc == key[1]
             c == Column(r)
  <1>1. DOMAIN cache = KeysWithRegisters(DOMAIN config, job.s)
    BY DEF Filled, generate_hgcroc_config_cache
  <1>2. roc \in DOMAIN config
    <2>1. key \in CacheKeys(DOMAIN config)
      BY <1>1 DEF KeysWithRegisters
    <2> HIDE DEF config
    <2>2. QED
      BY <2>1 DEF CacheKeys
  <1>3. PICK i \in DOMAIN roc_config_key[c] : roc_config_key[c][i] = r
    <2>1. r \in Elems(roc_config_key[c]) /\ IsSeq(roc_config_key[c])
      BY RegistersOfColumn
    <2> HIDE DEF c
    <2>2. QED
      BY <2>1, IsSeqProperties DEF Elems
  <1>4. generate_cache_key(roc, r[1], r[2]) # {}
    BY DEF Applies
  <1>5. r \in DOMAIN config[roc]
    <2>1. ~CacheFails(config, DOMAIN config, job.s)
      BY DEF Filled
    <2> HIDE DEF config, roc, c
    <2>2. c \in Range(job.s) \cap ConfigColumns
      BY DEF c
    <2>3. QED
      BY <1>2, <1>3, <1>4, <2>1, <2>2 DEF CacheFails
  <1>6. config[roc] = [q \in {t \in Registers : IsInteger(Setting(run_config, roc, t))} |->
                           Setting(run_config, roc, q).scalar]
    BY <1>2 DEF Settings
  <1>7. /\ IsInteger(Setting(run_config, roc, r))
        /\ config[roc][r] = Setting(run_config, roc, r).scalar
    <2> HIDE DEF config, roc
    <2>1. QED
      BY <1>5, <1>6
  <1>8. Setting(Overlaid, roc, r).scalar = Configured(roc, r)
    BY <1>7, ReadAsConfigured DEF Loaded
  <1>9. QED
    BY <1>7, <1>8 DEF Loaded

\* A row of the tree is one of the unpacker's.
LEMMA RowsOfTree ==
    ASSUME job \in Jobs, NEW i \in 1..total_rows
    PROVE  IsRow(Tree.rows[i])
  <1>1. SUFFICES ASSUME event_mode
                 PROVE  /\ Tree.rows[i]["half"] \in {0, 1}
                        /\ Tree.rows[i]["channel"] \in 0 .. HalfChannels + 2
    BY DEF IsRow
  <1>2. IsSeq(Tree.rows) /\ i \in DOMAIN Tree.rows
    BY TreeRows, IsSeqProperties DEF total_rows
  <1>3. Tree.rows # <<>>
    BY <1>2
  <1>4. /\ "unpacker_data/hgcroc" \in DOMAIN roots[job.i]
        /\ Tree.rows = roots[job.i]["unpacker_data/hgcroc"]
    BY <1>1, <1>3 DEF Tree, openRootTree
  <1>5. Tree.rows[i] \in Range(roots[job.i]["unpacker_data/hgcroc"])
    BY <1>2, <1>4 DEF Range
  <1>6. job.i \in DOMAIN roots
    BY JobsAssumption
  <1>7. QED
    BY <1>4, <1>5, <1>6, RootsAssumption

\* When the program ends with success, the configuration in every row is that
\* of the row's channel.
LEMMA RowsAreConfigured ==
    ASSUME ToolsInv, ConfigInv
    PROVE  ConfigOfItsChannel
  <1>1. SUFFICES ASSUME pc = "clean_up", Plain(job.s),
                        NEW i \in DOMAIN WrittenRows, NEW c \in DOMAIN config_columns,
                        NEW r \in Governing(Tree.rows[i], config_columns[c])
                 PROVE  WrittenRows[i][Len(data_columns) + c] =
                            Configured(Tree.rows[i]["chip"], r)
    BY DEF ConfigOfItsChannel
  <1> DEFINE data == Tree.rows[i]
             key == Key(data)
             m == Len(data_columns)
             n == Len(config_columns)
             config == Settings(run_config)
             regs == RegistersOf(key, job.s)
  <1>2. /\ job \in Jobs /\ Loaded /\ Formatted /\ Typed /\ Filled
        /\ RowsHaveEntries /\ row = total_rows /\ table_type # NoType
    BY <1>1 DEF ConfigInv, ToolsInv, TypeOK, Filled
  <1>3. WrittenRows[i] = MergedRow(data) /\ i \in 1..total_rows
    <2>1. TableThere /\ FilesInv /\ Len(WrittenRows) <= total_rows
          /\ WrittenRows[i] = MergedRow(data)
      BY <1>1 DEF ToolsInv, FrackInv, RowsInOrder
    <2>2. IsSeq(WrittenRows)
      <3>1. IsFile(hdf[job.o]) /\ HasTable(hdf[job.o], "data", Name)
        BY <2>1 DEF FilesInv, AreFiles, TableThere, Name
      <3>2. IsTable(hdf[job.o]["data"][Name])
        BY <3>1, OpenedTable
      <3>3. QED
        BY <3>2 DEF IsTable, WrittenRows, Name
    <2>3. i \in 1..Len(WrittenRows) /\ Len(WrittenRows) \in Nat /\ total_rows \in Nat
      BY <1>1, <1>2, <2>2, IsSeqProperties, TreeRows
    <2>4. i \in 1..total_rows
      BY <2>1, <2>3
    <2>5. QED
      BY <2>1, <2>4
  <1>4. /\ m \in Nat /\ n \in Nat /\ DOMAIN config_columns = 1..n /\ c \in 1..n
        /\ DOMAIN table_type.members = 1..m + n /\ Len(table_type.members) = m + n
        /\ IsSeq(config_columns) /\ config_columns = filtered_columns(job.s)
        /\ \A k \in 1..n : /\ config_columns[k] \in ConfigColumns \cap Range(job.s)
                           /\ PlainColumn(config_columns[k])
    <2>1. /\ IsSeq(data_columns) /\ IsSeq(config_columns)
          /\ DOMAIN table_type.members = 1..m + n
          /\ Len(table_type.members) = m + n
          /\ config_columns = filtered_columns(job.s)
          /\ \A k \in 1..n : /\ config_columns[k] \in ConfigColumns \cap Range(job.s)
                             /\ PlainColumn(config_columns[k])
      BY <1>1, <1>2, MembersOfTable
    <2>2. m \in Nat /\ n \in Nat /\ DOMAIN config_columns = 1..n
      BY <2>1, IsSeqProperties
    <2>3. QED
      BY <1>1, <2>1, <2>2
  <1>5. key \in DOMAIN cache
    <2>1. Len(table_type.members) > m
      BY <1>4
    <2>2. QED
      BY <1>2, <1>3, <2>1 DEF RowsHaveEntries
  <1>6. /\ DOMAIN cache = KeysWithRegisters(DOMAIN config, job.s)
        /\ cache[key] = [j \in DOMAIN regs |-> config[key[1]][regs[j]]]
    BY <1>2, <1>5 DEF Filled, generate_hgcroc_config_cache
  <1>7. key \in CacheKeys(DOMAIN config)
    BY <1>5, <1>6 DEF KeysWithRegisters
  <1>8. IsRow(data)
    BY <1>2, <1>3, RowsOfTree
  <1> HIDE DEF data, key, m, n, config, regs
  <1>9. /\ key[1] = data["chip"] /\ key \in CacheKeys({key[1]})
        /\ r \in Registers /\ Column(r) = config_columns[c] /\ Applies(key, r)
    <2>1. Key(data)[1] = data["chip"] /\ Key(data) \in CacheKeys({data["chip"]})
      BY <1>7, <1>8, KeyOfChannel DEF key
    <2>2. r \in Governing(data, config_columns[c])
      BY <1>1 DEF data
    <2>3. r \in Registers /\ Column(r) = config_columns[c] /\ Applies(Key(data), r)
      BY <1>7, <1>8, <2>2, GoverningApplies DEF key
    <2>4. QED
      BY <2>1, <2>3 DEF key
  <1>10. /\ DOMAIN regs = 1..n
         /\ regs[c] \in Registers /\ Column(regs[c]) = config_columns[c]
         /\ Applies(key, regs[c])
    <2>1. /\ DOMAIN RegistersOf(key, job.s) = 1..Len(filtered_columns(job.s))
          /\ \A k \in 1..Len(filtered_columns(job.s)) :
                /\ RegistersOf(key, job.s)[k] \in Registers
                /\ Column(RegistersOf(key, job.s)[k]) = filtered_columns(job.s)[k]
                /\ Applies(key, RegistersOf(key, job.s)[k])
      <3>1. IsSeq(filtered_columns(job.s))
        BY <1>4
      <3>2. \A k \in 1..Len(filtered_columns(job.s)) :
               /\ filtered_columns(job.s)[k] \in ConfigColumns
               /\ PlainColumn(filtered_columns(job.s)[k])
        BY <1>4 DEF n
      <3>3. QED
        BY <1>9, <3>1, <3>2, RegistersOfKey
    <2>2. QED
      BY <1>4, <2>1 DEF regs, n
  <1>11. regs[c] = r
    <2>1. config_columns[c] \in ConfigColumns /\ PlainColumn(config_columns[c])
      BY <1>4
    <2>2. QED
      BY <1>9, <1>10, <2>1, OneApplies
  <1>12. config[key[1]][r] = Configured(key[1], r)
    <2>1. Column(r) \in ConfigColumns \cap Range(job.s)
      BY <1>4, <1>9
    <2>2. QED
      BY <1>2, <1>5, <1>9, <2>1, CachedValue DEF config
  <1>13. MergedRow(data)[m + c] = cache[key][c]
    <2>1. m + c \in DOMAIN table_type.members /\ ~(m + c <= m) /\ (m + c) - m = c
      <3>1. m \in Nat /\ n \in Nat /\ c \in 1..n
        BY <1>4
      <3>2. DOMAIN table_type.members = 1 .. m + n
        BY <1>4
      <3>3. m + c \in 1 .. m + n /\ ~(m + c <= m) /\ (m + c) - m = c
        BY <3>1
      <3>4. QED
        BY <3>2, <3>3
    <2>2. MergedRow(data)[m + c] = ConfigCell(data, c)
      BY <2>1 DEF MergedRow, m
    <2>3. c \in DOMAIN cache[key]
      BY <1>4, <1>6, <1>10
    <2>4. QED
      BY <2>2, <2>3 DEF ConfigCell, key
  <1>14. cache[key][c] = config[key[1]][regs[c]]
    BY <1>4, <1>6, <1>10
  <1>15. QED
    BY <1>3, <1>9, <1>11, <1>12, <1>13, <1>14 DEF data, m

(***************************************************************************)
(* fracker.cc and hgcroc_caching.cc.  For every register map of the chip's *)
(* shape, every tree, default and overlay: with plain columns each value   *)
(* of the configuration in the table of a program that ends with success   *)
(* is the one the run's files give to the register of that name that       *)
(* governs the channel of the row.                                         *)
(***************************************************************************)
THEOREM ConfigOfItsChannelHolds == ToolsSpec => []ConfigOfItsChannel
  <1>1. ToolsInv /\ ConfigInv => ConfigOfItsChannel
    BY RowsAreConfigured
  <1>2. QED
    BY <1>1, ToolsInvHolds, ConfigInvHolds, PTL
=============================================================================
