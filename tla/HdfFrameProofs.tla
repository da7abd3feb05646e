--------------------------- MODULE HdfFrameProofs ---------------------------
(***************************************************************************)
(* Proofs about HdfFrame: what a frame is stays true of every file, for    *)
(* any files, blocks and rows, when the callers write the blocks in turn.  *)
(***************************************************************************)
EXTENDS HdfFrame, SequenceLemmas

(***************************************************************************)
(* The invariant, file by file.                                            *)
(***************************************************************************)
Blocks(f) == 1 .. Len(f.values)
Size(f, k) == Len(Rows(f, k))
FirstSize(f) == IF Len(f.values) = 0 THEN 0 ELSE Size(f, 1)

\* A frame as the code builds it.
Built(f) ==
    /\ f \in Frame
    /\ f.nblocks - Len(f.values) \in {0, 1}
    /\ Len(f.items) = Len(f.values)
\* No block is ahead of an earlier one.
Descending(f) ==
    \A k, l \in Blocks(f) : k < l => Size(f, k) >= Size(f, l)
\* The axis numbers the rows of the first block.
Indexed(f) == f.axis1 = Index(FirstSize(f))
\* The j-th rows of all blocks are one row.
Joined(f) ==
    \A k, l \in Blocks(f) : \A j \in 1 .. Size(f, k) :
        j <= Size(f, l) => Rows(f, k)[j] = Rows(f, l)[j]
\* Rows that a later block still misses were written by the caller here, and
\* are named so: what makes up for them will have the same names.
Own(p, f) ==
    \A k, l \in Blocks(f) : \A j \in 1 .. Size(f, k) :
        Size(f, l) < j => Rows(f, k)[j] = <<p, j>>
\* All blocks have the same length.
Even(f) == \A k \in Blocks(f) : Size(f, k) = FirstSize(f)

Sound(f) == Built(f) /\ Descending(f) /\ Indexed(f)
Whole(p, f) == Joined(f) /\ Own(p, f)

FrameInv ==
    /\ DOMAIN files \subseteq Paths /\ failed \subseteq DOMAIN files
    /\ files = [p \in DOMAIN files |-> files[p]]
    /\ layout \in Layouts
    /\ \A p \in DOMAIN files : Sound(files[p])
    /\ \A p \in DOMAIN files \ failed : Whole(p, files[p])

(***************************************************************************)
(* The loops over the blocks are recursive functions: they exist.          *)
(***************************************************************************)
IsCopied(c, group, in) ==
    c = [k \in 0 .. Len(in.values) |->
            IF k = 0 THEN set_up_file(group) ELSE CopyBlock(c[k - 1], in, k)]
IsAppended(c, out, in) ==
    c = [k \in 0 .. Len(in.values) |->
            IF k = 0 THEN out
            ELSE IF Reached(out, in, k)
            THEN AppendBlock(c[k - 1], in, Len(out.axis1), k)
            ELSE c[k - 1]]

\* The loop of create_merge_output_file is a function of the block.
LEMMA CopiedExists ==
    ASSUME NEW group, NEW in, Len(in.values) \in Nat
    PROVE  \E c : /\ IsCopied(c, group, in)
                  /\ create_merge_output_file(group, in) = c[Len(in.values)]
  <1> DEFINE a == set_up_file(group)
             step(x, k) == CopyBlock(x, in, k)
             T == {n \in Nat : \E c : c = [k \in 0 .. n |->
                                   IF k = 0 THEN a ELSE step(c[k - 1], k)]}
  <1>1. Nat \subseteq T
    <2> HIDE DEF a, step
    <2>1. 0 \in T
      <3> DEFINE c == [k \in {0} |-> a]
      <3>1. 0 .. 0 = {0}
        OBVIOUS
      <3>2. c = [k \in 0 .. 0 |-> IF k = 0 THEN a ELSE step(c[k - 1], k)]
        BY <3>1
      <3>3. QED
        BY <3>2
    <2>2. ASSUME NEW n \in Nat, n \in T
          PROVE  n + 1 \in T
      <3>1. PICK c : c = [k \in 0 .. n |-> IF k = 0 THEN a ELSE step(c[k - 1], k)]
        BY <2>2
      <3> DEFINE d == [k \in 0 .. (n + 1) |-> IF k = n + 1 THEN step(c[n], n + 1) ELSE c[k]]
      <3>2. /\ n + 1 \in Nat /\ n \in 0 .. n /\ 0 # n + 1 /\ (n + 1) - 1 = n
            /\ n \in 0 .. (n + 1) /\ n # n + 1
            /\ \A k \in 0 .. (n + 1) : k # n + 1 => k \in 0 .. n
            /\ \A k \in 0 .. n : k # 0 => k - 1 \in 0 .. n /\ k - 1 \in 0 .. (n + 1)
                                          /\ k - 1 # n + 1
        OBVIOUS
      <3>3. ASSUME NEW k \in 0 .. (n + 1)
            PROVE  d[k] = IF k = 0 THEN a ELSE step(d[k - 1], k)
        <4>1. CASE k = n + 1
          <5>1. d[k] = step(c[n], n + 1) /\ d[n] = c[n]
            BY <3>2, <4>1
          <5>2. QED
            BY <5>1, <4>1, <3>2
        <4>2. CASE k # n + 1
          <5>1. k \in 0 .. n /\ d[k] = c[k]
            BY <3>2, <4>2
          <5>2. c[k] = IF k = 0 THEN a ELSE step(c[k - 1], k)
            BY <3>1, <5>1
          <5>3. k # 0 => d[k - 1] = c[k - 1]
            BY <3>2, <5>1
          <5>4. QED
            BY <5>1, <5>2, <5>3
        <4>3. QED
          BY <4>1, <4>2
      <3>4. d = [k \in 0 .. (n + 1) |-> IF k = 0 THEN a ELSE step(d[k - 1], k)]
        <4>1. d = [k \in 0 .. (n + 1) |-> d[k]]
          OBVIOUS
        <4> HIDE DEF d
        <4>2. QED
          BY <4>1, <3>3
      <3> HIDE DEF d
      <3>5. QED
        BY <3>2, <3>4
    <2> HIDE DEF T
    <2>3. QED
      BY <2>1, <2>2, NatSetInduction
  <1>2. \E c : IsCopied(c, group, in)
    BY <1>1 DEF IsCopied
  <1>3. PICK c : IsCopied(c, group, in) /\ create_merge_output_file(group, in) = c[Len(in.values)]
    BY <1>2 DEF create_merge_output_file, IsCopied
  <1>4. QED
    BY <1>3

\* So is that of append_file.
LEMMA AppendedExists ==
    ASSUME NEW out, NEW in, Len(in.values) \in Nat
    PROVE  \E c : /\ IsAppended(c, out, in)
                  /\ Appended(out, in) = c[Len(in.values)]
  <1> DEFINE a == out
             step(x, k) == IF Reached(out, in, k)
                           THEN AppendBlock(x, in, Len(out.axis1), k) ELSE x
             T == {n \in Nat : \E c : c = [k \in 0 .. n |->
                                   IF k = 0 THEN a ELSE step(c[k - 1], k)]}
  <1>1. Nat \subseteq T
    <2> HIDE DEF a, step
    <2>1. 0 \in T
      <3> DEFINE c == [k \in {0} |-> a]
      <3>1. 0 .. 0 = {0}
        OBVIOUS
      <3>2. c = [k \in 0 .. 0 |-> IF k = 0 THEN a ELSE step(c[k - 1], k)]
        BY <3>1
      <3>3. QED
        BY <3>2
    <2>2. ASSUME NEW n \in Nat, n \in T
          PROVE  n + 1 \in T
      <3>1. PICK c : c = [k \in 0 .. n |-> IF k = 0 THEN a ELSE step(c[k - 1], k)]
        BY <2>2
      <3> DEFINE d == [k \in 0 .. (n + 1) |-> IF k = n + 1 THEN step(c[n], n + 1) ELSE c[k]]
      <3>2. /\ n + 1 \in Nat /\ n \in 0 .. n /\ 0 # n + 1 /\ (n + 1) - 1 = n
            /\ n \in 0 .. (n + 1) /\ n # n + 1
            /\ \A k \in 0 .. (n + 1) : k # n + 1 => k \in 0 .. n
            /\ \A k \in 0 .. n : k # 0 => k - 1 \in 0 .. n /\ k - 1 \in 0 .. (n + 1)
                                          /\ k - 1 # n + 1
        OBVIOUS
      <3>3. ASSUME NEW k \in 0 .. (n + 1)
            PROVE  d[k] = IF k = 0 THEN a ELSE step(d[k - 1], k)
        <4>1. CASE k = n + 1
          <5>1. d[k] = step(c[n], n + 1) /\ d[n] = c[n]
            BY <3>2, <4>1
          <5>2. QED
            BY <5>1, <4>1, <3>2
        <4>2. CASE k # n + 1
          <5>1. k \in 0 .. n /\ d[k] = c[k]
            BY <3>2, <4>2
          <5>2. c[k] = IF k = 0 THEN a ELSE step(c[k - 1], k)
            BY <3>1, <5>1
          <5>3. k # 0 => d[k - 1] = c[k - 1]
            BY <3>2, <5>1
          <5>4. QED
            BY <5>1, <5>2, <5>3
        <4>3. QED
          BY <4>1, <4>2
      <3>4. d = [k \in 0 .. (n + 1) |-> IF k = 0 THEN a ELSE step(d[k - 1], k)]
        <4>1. d = [k \in 0 .. (n + 1) |-> d[k]]
          OBVIOUS
        <4> HIDE DEF d
        <4>2. QED
          BY <4>1, <3>3
      <3> HIDE DEF d
      <3>5. QED
        BY <3>2, <3>4
    <2> HIDE DEF T
    <2>3. QED
      BY <2>1, <2>2, NatSetInduction
  <1>2. \E c : IsAppended(c, out, in)
    BY <1>1 DEF IsAppended
  <1>3. PICK c : IsAppended(c, out, in) /\ Appended(out, in) = c[Len(in.values)]
    BY <1>2 DEF Appended, IsAppended
  <1>4. QED
    BY <1>3

(***************************************************************************)
(* Parts of a frame.                                                       *)
(***************************************************************************)
\* The types of what a frame has.
LEMMA BuiltParts ==
    ASSUME NEW f, Built(f)
    PROVE  /\ Len(f.values) \in Nat /\ Blocks(f) = DOMAIN f.values
           /\ f.nblocks \in Nat /\ f.axis1 \in Seq(Nat)
           /\ f.values \in Seq(Block)
           /\ \A k \in Blocks(f) : /\ f.values[k] \in Block
                                   /\ Rows(f, k) \in Seq(Row)
                                   /\ Size(f, k) \in Nat
                                   /\ DOMAIN Rows(f, k) = 1 .. Size(f, k)
           /\ FirstSize(f) \in Nat
  <1>1. f.values \in Seq(Block) /\ f.nblocks \in Nat /\ f.axis1 \in Seq(Nat)
    BY DEF Built, Frame
  <1>2. Len(f.values) \in Nat /\ Blocks(f) = DOMAIN f.values
    BY <1>1, LenProperties DEF Blocks
  <1>3. \A k \in Blocks(f) : f.values[k] \in Block
    BY <1>1, ElementOfSeq DEF Blocks
  <1>4. \A k \in Blocks(f) : Rows(f, k) \in Seq(Row)
    BY <1>3 DEF Rows, Block
  <1>5. \A k \in Blocks(f) : Size(f, k) \in Nat /\ DOMAIN Rows(f, k) = 1 .. Size(f, k)
    BY <1>4, LenProperties DEF Size
  <1>6. FirstSize(f) \in Nat
    BY <1>2, <1>5 DEF FirstSize, Blocks
  <1>7. QED
    BY <1>1, <1>2, <1>3, <1>4, <1>5, <1>6

\* The first block is the longest.
LEMMA LongestIsFirst ==
    ASSUME NEW f, Built(f), Descending(f)
    PROVE  Longest(f) = FirstSize(f)
  <1> DEFINE S == {Len(Rows(f, k)) : k \in DOMAIN f.values}
  <1>1. S = {Size(f, k) : k \in Blocks(f)}
    BY BuiltParts DEF Size
  <1>2. CASE Len(f.values) = 0
    <2>1. S = {}
      BY <1>1, <1>2 DEF Blocks
    <2>2. QED
      BY <1>2, <2>1 DEF Longest, Highest, FirstSize
  <1>3. CASE Len(f.values) # 0
    <2>1. 1 \in Blocks(f) /\ \A k \in Blocks(f) : k \in Nat /\ (k = 1 \/ 1 < k)
      BY <1>3, BuiltParts DEF Blocks
    <2>2. \A k \in Blocks(f) : Size(f, 1) >= Size(f, k)
      BY <2>1, BuiltParts DEF Descending
    <2>3. S \subseteq Nat /\ Size(f, 1) \in S /\ \A y \in S : y <= Size(f, 1)
      BY <1>1, <2>1, <2>2, BuiltParts
    <2> HIDE DEF S
    <2>4. Highest(S) \in S /\ \A y \in S : y <= Highest(S)
      <3>1. \E x \in S : \A y \in S : y <= x
        BY <2>3
      <3>2. S # {}
        BY <2>3
      <3>3. Highest(S) = CHOOSE x \in S : \A y \in S : y <= x
        BY <3>2, Zenon DEF Highest
      <3>4. QED
        BY <3>1, <3>3, Zenon
    <2>5. Highest(S) = Size(f, 1)
      <3>1. Highest(S) <= Size(f, 1) /\ Size(f, 1) <= Highest(S)
        BY <2>3, <2>4
      <3>2. Highest(S) \in Nat /\ Size(f, 1) \in Nat
        BY <2>3, <2>4
      <3>3. QED
        BY <3>1, <3>2
    <2>6. QED
      BY <1>3, <2>5 DEF Longest, FirstSize, S
  <1>4. QED
    BY <1>2, <1>3

(***************************************************************************)
(* The axis.                                                               *)
(***************************************************************************)
\* An index is a sequence of numbers.
LEMMA IndexType ==
    ASSUME NEW n \in Nat
    PROVE  Index(n) \in Seq(Nat) /\ Len(Index(n)) = n
  BY DEF Index

\* Going on counting from the end of an index.
LEMMA IndexGoesOn ==
    ASSUME NEW n \in Nat, NEW m \in Nat
    PROVE  Index(n) \o [i \in 1 .. m |-> n + i - 1] = Index(n + m)
  <1> DEFINE t == [i \in 1 .. m |-> n + i - 1]
             u == Index(n) \o t
  <1>1. Index(n) \in Seq(Nat) /\ Len(Index(n)) = n
    BY IndexType
  <1>2. t \in Seq(Int) /\ Len(t) = m
    OBVIOUS
  <1>3. Index(n) \in Seq(Int)
    BY <1>1 DEF Index
  <1>4. /\ u \in Seq(Int) /\ Len(u) = n + m
        /\ \A i \in 1 .. (n + m) : u[i] = IF i <= n THEN Index(n)[i] ELSE t[i - n]
    <2> DEFINE s == Index(n)
    <2>1. s \in Seq(Int) /\ Len(s) = n
      BY <1>1, <1>3
    <2> HIDE DEF s, t
    <2>2. /\ s \o t \in Seq(Int) /\ Len(s \o t) = n + m
          /\ \A i \in 1 .. (n + m) : (s \o t)[i] = IF i <= n THEN s[i] ELSE t[i - n]
      BY <1>2, <2>1, ConcatProperties
    <2>3. QED
      BY <2>2 DEF s
  <1>5. \A i \in 1 .. (n + m) : u[i] = i - 1
    <2> HIDE DEF u
    <2>1. \A i \in 1 .. (n + m) : i <= n => i \in 1 .. n /\ Index(n)[i] = i - 1
      BY DEF Index
    <2>2. \A i \in 1 .. (n + m) : ~(i <= n) => i - n \in 1 .. m /\ t[i - n] = i - 1
      OBVIOUS
    <2> HIDE DEF t
    <2>3. QED
      BY <1>4, <2>1, <2>2
  <1>6. u = [i \in 1 .. (n + m) |-> u[i]]
    <2> HIDE DEF u
    <2>1. QED
      BY <1>4
  <1> HIDE DEF u
  <1>7. u = Index(n + m)
    BY <1>5, <1>6 DEF Index
  <1>8. QED
    BY <1>7 DEF u

\* A write at the end of the axis goes on counting.
LEMMA AxisExtended ==
    ASSUME NEW n \in Nat, NEW m \in Nat
    PROVE  AxisAfterWrite(Index(n), n, m) = Index(n + m)
  <1> DEFINE t == [i \in 1 .. (n + m) - Len(Index(n)) |->
                     IF Len(Index(n)) + m <= n + m /\ i <= m
                     THEN Len(Index(n)) + i - 1 ELSE FILL]
  <1>1. Len(Index(n)) = n /\ (n + m) - n = m
    BY IndexType
  <1>2. t = [i \in 1 .. m |-> n + i - 1]
    BY <1>1
  <1>3. AxisAfterWrite(Index(n), n, m) = Index(n) \o t
    BY DEF AxisAfterWrite
  <1>4. QED
    BY <1>2, <1>3, IndexGoesOn

\* A write that does not reach the end of the axis leaves it alone.
LEMMA AxisKept ==
    ASSUME NEW n \in Nat, NEW start \in Nat, NEW m \in Nat, start + m <= n
    PROVE  AxisAfterWrite(Index(n), start, m) = Index(n)
  <1> DEFINE t == [i \in 1 .. (start + m) - Len(Index(n)) |->
                     IF Len(Index(n)) + m <= start + m /\ i <= m
                     THEN Len(Index(n)) + i - 1 ELSE FILL]
  <1>1. Len(Index(n)) = n /\ Index(n) \in Seq(Nat) /\ 1 .. ((start + m) - n) = {}
    BY IndexType
  <1>2. t = <<>>
    BY <1>1
  <1>3. AxisAfterWrite(Index(n), start, m) = Index(n) \o t
    BY DEF AxisAfterWrite
  <1> HIDE DEF t
  <1>4. QED
    BY <1>1, <1>2, <1>3, ConcatEmptySeq

\* extend_axis1 numbers as far as it is asked to.
LEMMA AxisAppended ==
    ASSUME NEW n \in Nat, NEW m \in Nat
    PROVE  extend_axis1(Index(n), m) = Index(IF m <= n THEN n ELSE m)
  <1>1. Len(Index(n)) = n
    BY IndexType
  <1>2. CASE m <= n
    BY <1>1, <1>2 DEF extend_axis1
  <1>3. CASE ~(m <= n)
    <2>1. m - n \in Nat /\ n + (m - n) = m
      BY <1>3
    <2>2. extend_axis1(Index(n), m) = Index(n) \o [i \in 1 .. m - n |-> n + i - 1]
      BY <1>1, <1>3 DEF extend_axis1
    <2>3. Index(n) \o [i \in 1 .. m - n |-> n + i - 1] = Index(n + (m - n))
      BY <2>1, IndexGoesOn
    <2>4. QED
      BY <1>3, <2>1, <2>2, <2>3
  <1>4. QED
    BY <1>2, <1>3

(***************************************************************************)
(* What the operations do to the parts of a frame.                         *)
(***************************************************************************)
\* A frame with more rows in one block and another axis.
Extended(f, k, data, axis) ==
    [f EXCEPT !.axis1 = axis, !.values[k].rows = Rows(f, k) \o data]
\* What that leaves as it was.
Grown(g, f, k, data, axis) ==
    /\ Built(g)
    /\ g.group = f.group /\ g.nblocks = f.nblocks /\ g.items = f.items
    /\ Len(g.values) = Len(f.values)
    /\ \A j \in Blocks(f) :
         Rows(g, j) = IF j = k THEN Rows(f, k) \o data ELSE Rows(f, j)
    /\ g.axis1 = axis

\* A frame extended so is built, and the other blocks are as they were.
LEMMA ExtendEffect ==
    ASSUME NEW f, Built(f), NEW k \in Blocks(f), NEW data \in Seq(Row),
           NEW axis \in Seq(Nat)
    PROVE  Grown(Extended(f, k, data, axis), f, k, data, axis)
  <1> DEFINE rows == Rows(f, k) \o data
             block == [f.values[k] EXCEPT !.rows = rows]
             values == [f.values EXCEPT ![k] = block]
             g == Extended(f, k, data, axis)
  <1>1. f \in Frame /\ f.values \in Seq(Block) /\ f.values[k] \in Block
    BY BuiltParts DEF Built
  <1>2. rows \in Seq(Row)
    BY BuiltParts, ConcatProperties
  <1>3. block \in Block /\ block.rows = rows
    <2> HIDE DEF rows
    <2>1. QED
      BY <1>1, <1>2 DEF Block
  <1>4. g = [f EXCEPT !.axis1 = axis, !.values = values]
    BY <1>1 DEF Extended, Frame
  <1> HIDE DEF block, rows
  <1>5. values \in Seq(Block) /\ Len(values) = Len(f.values)
        /\ \A j \in Blocks(f) : values[j] = IF j = k THEN block ELSE f.values[j]
    <2>1. k \in 1 .. Len(f.values) /\ DOMAIN f.values = 1 .. Len(f.values)
      BY <1>1, LenProperties DEF Blocks
    <2>2. values \in Seq(Block) /\ Len(values) = Len(f.values)
      BY <1>1, <1>3, <2>1, ExceptSeq
    <2>3. \A j \in Blocks(f) : values[j] = IF j = k THEN block ELSE f.values[j]
      BY <2>1 DEF Blocks
    <2>4. QED
      BY <2>2, <2>3
  <1> HIDE DEF values, g
  <1>6. g.group = f.group /\ g.nblocks = f.nblocks /\ g.items = f.items
        /\ g.values = values /\ g.axis1 = axis /\ g \in Frame
    BY <1>1, <1>4, <1>5 DEF Frame
  <1>7. Built(g)
    BY <1>5, <1>6 DEF Built
  <1>8. \A j \in Blocks(f) : Rows(g, j) = IF j = k THEN rows ELSE Rows(f, j)
    BY <1>3, <1>5, <1>6 DEF Rows
  <1>9. QED
    BY <1>5, <1>6, <1>7, <1>8 DEF g, rows, Grown

\* write_to_block adds rows to one block and sees to the axis.
LEMMA WriteEffect ==
    ASSUME NEW f, Built(f), NEW k \in Blocks(f), NEW data \in Seq(Row),
           AxisAfterWrite(f.axis1, Size(f, k), Len(data)) \in Seq(Nat)
    PROVE  Grown(write_to_block(f, k, data), f, k, data,
                 AxisAfterWrite(f.axis1, Size(f, k), Len(data)))
  <1> DEFINE axis == AxisAfterWrite(f.axis1, Size(f, k), Len(data))
  <1>1. write_to_block(f, k, data) = Extended(f, k, data, axis)
    BY DEF write_to_block, Extended, Built, Frame, Rows, Size
  <1> HIDE DEF axis
  <1>2. axis \in Seq(Nat)
    BY DEF axis
  <1>3. QED
    BY <1>1, <1>2, ExtendEffect DEF axis

\* append_file adds the rows of a block of its input.
LEMMA AppendEffect ==
    ASSUME NEW f, Built(f), NEW k \in Blocks(f), NEW in, Rows(in, k) \in Seq(Row),
           NEW dim, extend_axis1(f.axis1, dim + Size(in, k)) \in Seq(Nat)
    PROVE  Grown(AppendBlock(f, in, dim, k), f, k, Rows(in, k),
                 extend_axis1(f.axis1, dim + Size(in, k)))
  <1> DEFINE axis == extend_axis1(f.axis1, dim + Size(in, k))
  <1>1. AppendBlock(f, in, dim, k) = Extended(f, k, Rows(in, k), axis)
    BY DEF AppendBlock, Extended, Built, Frame, Rows, Size
  <1> HIDE DEF axis
  <1>2. axis \in Seq(Nat)
    BY DEF axis
  <1>3. QED
    BY <1>1, <1>2, ExtendEffect DEF axis

\* add_block adds a block without rows.
LEMMA AddEffect ==
    ASSUME NEW f, Built(f), Complete(f), NEW type \in Types, NEW columns \in Seq(Column)
    PROVE  LET g == add_block(f, type, columns)
           IN  /\ Built(g) /\ Complete(g)
               /\ g.group = f.group /\ g.axis1 = f.axis1
               /\ Len(g.values) = Len(f.values) + 1
               /\ \A j \in Blocks(f) : Rows(g, j) = Rows(f, j)
               /\ Rows(g, Len(f.values) + 1) = <<>>
  <1> DEFINE block == [type |-> type, columns |-> Len(columns), rows |-> <<>>]
             items == Append(f.items, columns)
             values == Append(f.values, block)
             axis0 == f.axis0 \o columns
             g == add_block(f, type, columns)
             n == Len(f.values)
  <1>1. f \in Frame /\ f.values \in Seq(Block) /\ f.items \in Seq(Seq(Column))
        /\ f.axis0 \in Seq(Column) /\ Len(f.items) = n /\ f.nblocks = n /\ n \in Nat
    BY BuiltParts DEF Built, Frame, Complete
  <1>2. block \in Block
    BY LenProperties DEF Block
  <1>3. axis0 \in Seq(Column)
    BY <1>1, ConcatProperties
  <1>4. g = [f EXCEPT !.nblocks = f.nblocks + 1, !.items = items, !.axis0 = axis0,
                      !.values = values]
    BY <1>1 DEF add_block, extend_axis0, Frame
  <1>5. items \in Seq(Seq(Column)) /\ Len(items) = n + 1
    BY <1>1, AppendProperties
  <1>6. values \in Seq(Block) /\ Len(values) = n + 1 /\ values[n + 1] = block
        /\ \A j \in 1 .. n : values[j] = f.values[j]
    <2> HIDE DEF block
    <2>1. QED
      BY <1>1, <1>2, AppendProperties
  <1>7. block.rows = <<>>
    OBVIOUS
  <1> HIDE DEF block, items, values, axis0, g
  <1>8. g.group = f.group /\ g.nblocks = n + 1 /\ g.items = items
        /\ g.values = values /\ g.axis1 = f.axis1 /\ g \in Frame
    <2>1. n + 1 \in Nat /\ f.nblocks + 1 = n + 1
      BY <1>1
    <2> HIDE DEF n
    <2>2. g = [f EXCEPT !.nblocks = n + 1, !.items = items, !.axis0 = axis0,
                        !.values = values]
      BY <1>4, <2>1
    <2>3. QED
      BY <1>1, <1>3, <1>5, <1>6, <2>1, <2>2 DEF Frame
  <1>9. Built(g) /\ Complete(g)
    BY <1>5, <1>6, <1>8 DEF Built, Complete
  <1>10. (\A j \in Blocks(f) : Rows(g, j) = Rows(f, j)) /\ Rows(g, n + 1) = <<>>
    BY <1>6, <1>7, <1>8 DEF Rows, Blocks
  <1>11. QED
    BY <1>6, <1>8, <1>9, <1>10 DEF g

(***************************************************************************)
(* A write in turn.                                                        *)
(***************************************************************************)
\* The caller's turn is at block k, with m rows.
InTurn(f, k, m) ==
    IF k = 1 THEN Size(f, 1) = Size(f, Len(f.values))
             ELSE m = Size(f, k - 1) - Size(f, k)

\* The sizes of the blocks before a turn.
LEMMA TurnSizes ==
    ASSUME NEW f, Built(f), Descending(f), NEW k \in Blocks(f), NEW m \in Nat,
           InTurn(f, k, m)
    PROVE  /\ 1 \in Blocks(f) /\ FirstSize(f) = Size(f, 1)
           /\ \A j \in Blocks(f) : Size(f, j) <= Size(f, 1)
           /\ k = 1 => \A j \in Blocks(f) : Size(f, j) = Size(f, 1)
           /\ k # 1 => /\ k - 1 \in Blocks(f) /\ Size(f, k) + m = Size(f, k - 1)
                       /\ \A j \in Blocks(f) : j < k => Size(f, j) >= Size(f, k) + m
  <1> DEFINE n == Len(f.values)
  <1>1. n \in Nat /\ \A j \in Blocks(f) : Size(f, j) \in Nat
    BY BuiltParts
  <1>2. k \in 1 .. n /\ 1 \in 1 .. n /\ n \in 1 .. n /\ n # 0
    BY <1>1 DEF Blocks
  <1>3. \A j \in 1 .. n : j = 1 \/ 1 < j
    BY <1>1
  <1>4. \A j \in Blocks(f) : Size(f, j) <= Size(f, 1)
    BY <1>1, <1>2, <1>3 DEF Descending, Blocks
  <1>5. ASSUME k = 1
        PROVE  \A j \in Blocks(f) : Size(f, j) = Size(f, 1)
    <2>1. Size(f, n) = Size(f, 1)
      BY <1>5 DEF InTurn
    <2>2. \A j \in 1 .. n : j = n \/ j < n
      BY <1>1
    <2>3. \A j \in Blocks(f) : Size(f, j) >= Size(f, n)
      BY <1>1, <1>2, <2>2 DEF Descending, Blocks
    <2>4. QED
      BY <1>1, <1>2, <1>4, <2>1, <2>3 DEF Blocks
  <1>6. ASSUME k # 1
        PROVE  /\ k - 1 \in Blocks(f) /\ Size(f, k) + m = Size(f, k - 1)
               /\ \A j \in Blocks(f) : j < k => Size(f, j) >= Size(f, k) + m
    <2>1. k - 1 \in 1 .. n /\ \A j \in 1 .. n : j < k => j = k - 1 \/ j < k - 1
      BY <1>1, <1>2, <1>6
    <2>2. Size(f, k) \in Nat /\ Size(f, k - 1) \in Nat
      BY <1>1, <2>1 DEF Blocks
    <2>3. Size(f, k) + m = Size(f, k - 1)
      BY <1>6, <2>2 DEF InTurn
    <2>4. \A j \in Blocks(f) : j < k => Size(f, j) >= Size(f, k - 1)
      BY <1>1, <2>1, <2>2 DEF Descending, Blocks
    <2>5. QED
      BY <2>1, <2>3, <2>4 DEF Blocks
  <1>7. QED
    BY <1>2, <1>4, <1>5, <1>6 DEF FirstSize, Blocks

\* The axis stays an index of the longest block.
LEMMA TurnAxis ==
    ASSUME NEW f, Sound(f), NEW k \in Blocks(f), NEW m \in Nat, InTurn(f, k, m)
    PROVE  AxisAfterWrite(f.axis1, Size(f, k), m)
               = Index(IF k = 1 THEN Size(f, 1) + m ELSE Size(f, 1))
  <1>1. Built(f) /\ Descending(f) /\ f.axis1 = Index(FirstSize(f))
    BY DEF Sound, Indexed
  <1>2. /\ 1 \in Blocks(f) /\ FirstSize(f) = Size(f, 1) /\ Size(f, k) \in Nat
        /\ Size(f, 1) \in Nat
        /\ k # 1 => k - 1 \in Blocks(f) /\ Size(f, k) + m = Size(f, k - 1)
                    /\ Size(f, k - 1) <= Size(f, 1)
    BY <1>1, TurnSizes, BuiltParts
  <1>3. CASE k = 1
    BY <1>1, <1>2, <1>3, AxisExtended
  <1>4. CASE k # 1
    <2>1. Size(f, k) + m <= Size(f, 1)
      BY <1>2, <1>4
    <2>2. QED
      BY <1>1, <1>2, <1>4, <2>1, AxisKept
  <1>5. QED
    BY <1>3, <1>4

\* What a write in turn leaves of the sizes.
LEMMA TurnEffect ==
    ASSUME NEW f, Sound(f), NEW k \in Blocks(f), NEW data \in Seq(Row),
           InTurn(f, k, Len(data))
    PROVE  LET g == write_to_block(f, k, data)
           IN  /\ Built(g) /\ Blocks(g) = Blocks(f)
               /\ g.group = f.group /\ g.nblocks = f.nblocks
               /\ g.axis1 = Index(IF k = 1 THEN Size(f, 1) + Len(data) ELSE Size(f, 1))
               /\ \A j \in Blocks(f) :
                    /\ Rows(g, j) = IF j = k THEN Rows(f, k) \o data ELSE Rows(f, j)
                    /\ Size(g, j) = IF j = k THEN Size(f, k) + Len(data) ELSE Size(f, j)
  <1> DEFINE m == Len(data)
             g == write_to_block(f, k, data)
             last == IF k = 1 THEN Size(f, 1) + m ELSE Size(f, 1)
             axis == AxisAfterWrite(f.axis1, Size(f, k), m)
  <1>1. Built(f) /\ m \in Nat /\ data \in Seq(Row)
    BY LenProperties DEF Sound
  <1>2. axis = Index(last)
    BY <1>1, TurnAxis
  <1>3. last \in Nat
    BY <1>1, TurnSizes, BuiltParts DEF Sound
  <1>4. axis \in Seq(Nat)
    BY <1>2, <1>3, IndexType
  <1>5. /\ Built(g)
        /\ g.group = f.group /\ g.nblocks = f.nblocks
        /\ Len(g.values) = Len(f.values)
        /\ \A j \in Blocks(f) : Rows(g, j) = IF j = k THEN Rows(f, k) \o data ELSE Rows(f, j)
        /\ g.axis1 = axis
    BY <1>1, <1>4, WriteEffect DEF Grown
  <1> HIDE DEF g, axis, last
  <1>6. Blocks(g) = Blocks(f)
    BY <1>5 DEF Blocks
  <1>7. \A j \in Blocks(f) : Size(g, j) = IF j = k THEN Size(f, k) + m ELSE Size(f, j)
    <2>1. Len(Rows(f, k) \o data) = Size(f, k) + m
      BY <1>1, BuiltParts, ConcatProperties DEF Size
    <2>2. QED
      BY <1>5, <2>1 DEF Size
  <1>8. QED
    BY <1>2, <1>5, <1>6, <1>7 DEF g, last

\* A write in turn keeps what the axis and the sizes say.
LEMMA TurnKeepsSound ==
    ASSUME NEW f, Sound(f), NEW k \in Blocks(f), NEW data \in Seq(Row),
           InTurn(f, k, Len(data))
    PROVE  Sound(write_to_block(f, k, data))
  <1> DEFINE m == Len(data)
             g == write_to_block(f, k, data)
  <1>1. /\ Built(g) /\ Blocks(g) = Blocks(f)
        /\ g.axis1 = Index(IF k = 1 THEN Size(f, 1) + m ELSE Size(f, 1))
        /\ \A j \in Blocks(f) :
              Size(g, j) = IF j = k THEN Size(f, k) + m ELSE Size(f, j)
    BY TurnEffect
  <1> HIDE DEF g
  <1>2. Built(f) /\ Descending(f) /\ m \in Nat
    BY LenProperties DEF Sound
  <1>3. /\ 1 \in Blocks(f)
        /\ k = 1 => \A j \in Blocks(f) : Size(f, j) = Size(f, 1)
        /\ k # 1 => \A j \in Blocks(f) : j < k => Size(f, j) >= Size(f, k) + m
    BY <1>2, TurnSizes
  <1>4. Descending(g)
    <2>1. SUFFICES ASSUME NEW i \in Blocks(f), NEW j \in Blocks(f), i < j
                   PROVE  Size(g, i) >= Size(g, j)
      BY <1>1 DEF Descending
    <2>2. /\ Size(f, i) \in Nat /\ Size(f, j) \in Nat /\ Size(f, k) \in Nat
          /\ Size(f, i) >= Size(f, j)
          /\ i \in Nat /\ j \in Nat /\ i >= 1 /\ i # j
      BY <1>2, <2>1, BuiltParts DEF Descending, Blocks
    <2>3. CASE j = k
      <3>1. k # 1 /\ i # k
        BY <2>1, <2>2, <2>3
      <3>2. Size(f, i) >= Size(f, k) + m
        BY <1>3, <2>1, <2>3, <3>1
      <3>3. QED
        BY <1>1, <2>3, <3>1, <3>2
    <2>4. CASE i = k
      BY <1>1, <1>2, <2>2, <2>4
    <2>5. CASE i # k /\ j # k
      BY <1>1, <2>2, <2>5
    <2>6. QED
      BY <2>3, <2>4, <2>5
  <1>5. FirstSize(g) = IF k = 1 THEN Size(f, 1) + m ELSE Size(f, 1)
    <2>1. FirstSize(g) = Size(g, 1)
      BY <1>1, <1>3 DEF FirstSize, Blocks
    <2>2. QED
      BY <1>1, <1>3, <2>1
  <1>6. QED
    BY <1>1, <1>4, <1>5 DEF Sound, Indexed, g

\* The rows a caller writes to the file at path p.
Data(p, f, k, m) == [j \in 1 .. m |-> <<p, Size(f, k) + j>>]

\* A write in turn keeps rows together.
LEMMA TurnKeepsWhole ==
    ASSUME NEW p, NEW f, Sound(f), Whole(p, f), NEW k \in Blocks(f), NEW m \in Nat,
           InTurn(f, k, m), Data(p, f, k, m) \in Seq(Row)
    PROVE  Whole(p, write_to_block(f, k, Data(p, f, k, m)))
  <1> DEFINE data == Data(p, f, k, m)
             g == write_to_block(f, k, data)
  <1>1. data \in Seq(Row) /\ Len(data) = m /\ \A j \in 1 .. m : data[j] = <<p, Size(f, k) + j>>
    BY DEF Data
  <1> HIDE DEF data
  <1>2. /\ Built(g) /\ Blocks(g) = Blocks(f)
        /\ \A j \in Blocks(f) :
             /\ Rows(g, j) = IF j = k THEN Rows(f, k) \o data ELSE Rows(f, j)
             /\ Size(g, j) = IF j = k THEN Size(f, k) + m ELSE Size(f, j)
    BY <1>1, TurnEffect
  <1> HIDE DEF g
  <1>3. Built(f) /\ Descending(f)
    BY DEF Sound
  <1>4. \A j \in Blocks(f) : Size(f, j) \in Nat
    BY <1>3, BuiltParts
  <1>5. \A i \in 1 .. (Size(f, k) + m) :
            Rows(g, k)[i] = IF i <= Size(f, k) THEN Rows(f, k)[i] ELSE <<p, i>>
    <2>1. SUFFICES ASSUME NEW i \in 1 .. (Size(f, k) + m)
                   PROVE  (Rows(f, k) \o data)[i]
                              = IF i <= Size(f, k) THEN Rows(f, k)[i] ELSE <<p, i>>
      BY <1>2
    <2>2. (Rows(f, k) \o data)[i] = IF i <= Size(f, k) THEN Rows(f, k)[i]
                                                       ELSE data[i - Size(f, k)]
      <3>1. Rows(f, k) \in Seq(Row) /\ Len(Rows(f, k)) = Size(f, k)
        BY <1>3, BuiltParts DEF Size
      <3>2. i \in 1 .. (Len(Rows(f, k)) + Len(data))
        BY <1>1, <3>1
      <3>3. QED
        BY <1>1, <3>1, <3>2, ConcatProperties
    <2>3. ~(i <= Size(f, k)) => /\ i - Size(f, k) \in 1 .. m
                                /\ Size(f, k) + (i - Size(f, k)) = i
      BY <1>4
    <2>4. QED
      BY <1>1, <2>2, <2>3
  <1>6. \* Every row of the block written to is the row of another block, or new.
        \A l \in Blocks(f) : l # k =>
           \A i \in 1 .. (Size(f, k) + m) : i <= Size(f, l) => Rows(g, k)[i] = Rows(f, l)[i]
    <2>1. SUFFICES ASSUME NEW l \in Blocks(f), l # k, NEW i \in 1 .. (Size(f, k) + m),
                          i <= Size(f, l)
                   PROVE  Rows(g, k)[i] = Rows(f, l)[i]
      OBVIOUS
    <2>2. i \in 1 .. Size(f, l) /\ i \in Nat
      BY <1>4, <2>1
    <2>3. CASE i <= Size(f, k)
      BY <1>5, <2>2, <2>3 DEF Whole, Joined
    <2>4. CASE ~(i <= Size(f, k))
      <3>1. Size(f, k) < i
        BY <1>4, <2>2, <2>4
      <3>2. Rows(f, l)[i] = <<p, i>>
        BY <2>2, <3>1 DEF Whole, Own
      <3>3. QED
        BY <1>5, <2>4, <3>2
    <2>5. QED
      BY <2>3, <2>4
  <1>7. Joined(g)
    <2>1. SUFFICES ASSUME NEW i \in Blocks(f), NEW l \in Blocks(f),
                          NEW j \in 1 .. Size(g, i), j <= Size(g, l)
                   PROVE  Rows(g, i)[j] = Rows(g, l)[j]
      BY <1>2 DEF Joined
    <2>2. CASE i = l
      BY <2>2
    <2>3. CASE i = k /\ l # k
      BY <1>2, <1>6, <2>1, <2>3
    <2>4. CASE i # k /\ l = k
      <3>1. j \in 1 .. (Size(f, k) + m) /\ j <= Size(f, i)
        BY <1>2, <1>4, <2>1, <2>4
      <3>2. QED
        BY <1>2, <1>6, <2>4, <3>1
    <2>5. CASE i # k /\ l # k
      BY <1>2, <2>1, <2>5 DEF Whole, Joined
    <2>6. QED
      BY <2>2, <2>3, <2>4, <2>5
  <1>8. Own(p, g)
    <2>1. SUFFICES ASSUME NEW i \in Blocks(f), NEW l \in Blocks(f),
                          NEW j \in 1 .. Size(g, i), Size(g, l) < j
                   PROVE  Rows(g, i)[j] = <<p, j>>
      BY <1>2 DEF Own
    <2>2. j \in Nat /\ Size(f, l) \in Nat /\ Size(f, l) < j
      BY <1>2, <1>4, <2>1
    <2>3. CASE i # k
      BY <1>2, <2>1, <2>2, <2>3 DEF Whole, Own
    <2>4. CASE i = k
      <3>1. j \in 1 .. (Size(f, k) + m)
        BY <1>2, <2>1, <2>4
      <3>2. CASE j <= Size(f, k)
        <4>1. j \in 1 .. Size(f, k)
          BY <1>4, <2>2, <3>1, <3>2
        <4>2. Rows(f, k)[j] = <<p, j>>
          BY <2>2, <4>1 DEF Whole, Own
        <4>3. QED
          BY <1>5, <2>4, <3>1, <3>2, <4>2
      <3>3. CASE ~(j <= Size(f, k))
        BY <1>5, <2>4, <3>1, <3>3
      <3>4. QED
        BY <3>2, <3>3
    <2>5. QED
      BY <2>3, <2>4
  <1>9. QED
    BY <1>7, <1>8 DEF Whole, g, data

(***************************************************************************)
(* The loop of create_merge_output_file.                                   *)
(***************************************************************************)
\* The output after k blocks.
CopiedTo(g, group, in, k) ==
    /\ Built(g) /\ Complete(g) /\ g.group = group
    /\ Len(g.values) = k
    /\ \A j \in 1 .. k : Rows(g, j) = Rows(in, j)
    /\ g.axis1 = Index(IF k = 0 THEN 0 ELSE Size(in, 1))

\* A file that was just set up has no blocks.
LEMMA EmptyFrame ==
    ASSUME NEW group \in Groups
    PROVE  LET g == set_up_file(group)
           IN  /\ Built(g) /\ Complete(g) /\ g.group = group
               /\ Len(g.values) = 0 /\ g.axis1 = Index(0)
  BY DEF set_up_file, Built, Complete, Frame, Index

\* One block more is copied, with the axis as long as the first.
LEMMA CopyStep ==
    ASSUME NEW group, NEW in, Sound(in), NEW k \in Blocks(in), NEW x,
           CopiedTo(x, group, in, k - 1)
    PROVE  CopiedTo(CopyBlock(x, in, k), group, in, k)
  <1> DEFINE y == add_block(x, in.values[k].type, in.items[k])
             m == Size(in, k)
             g == CopyBlock(x, in, k)
  <1>1. /\ Built(in) /\ Descending(in) /\ in.values[k].type \in Types
        /\ in.items[k] \in Seq(Column) /\ Rows(in, k) \in Seq(Row) /\ m \in Nat
        /\ k \in Nat \ {0} /\ k - 1 \in Nat /\ (k - 1) + 1 = k
        /\ \A j \in 1 .. k : j = k \/ j \in 1 .. (k - 1)
        /\ 1 \in Blocks(in) /\ Size(in, 1) \in Nat /\ (k = 1 \/ 1 < k)
    <2>1. Built(in) /\ Descending(in)
      BY DEF Sound
    <2>2. k \in 1 .. Len(in.values) /\ Len(in.values) \in Nat
      BY <2>1, BuiltParts DEF Blocks
    <2>3. in.values[k].type \in Types
      BY <2>1, BuiltParts DEF Block
    <2>4. in.items[k] \in Seq(Column)
      BY <2>1, <2>2, ElementOfSeq DEF Built, Frame
    <2>5. 1 \in Blocks(in)
      BY <2>2 DEF Blocks
    <2>6. Rows(in, k) \in Seq(Row) /\ m \in Nat /\ Size(in, 1) \in Nat
      BY <2>1, <2>5, BuiltParts
    <2>7. /\ k \in Nat \ {0} /\ k - 1 \in Nat /\ (k - 1) + 1 = k
          /\ (k = 1 \/ 1 < k)
          /\ \A j \in 1 .. k : j = k \/ j \in 1 .. (k - 1)
      BY <2>2
    <2>8. QED
      BY <2>1, <2>3, <2>4, <2>5, <2>6, <2>7
  <1>2. /\ Built(y) /\ Complete(y) /\ y.group = group /\ y.axis1 = x.axis1
        /\ Len(y.values) = k
        /\ \A j \in 1 .. (k - 1) : Rows(y, j) = Rows(in, j)
        /\ Rows(y, k) = <<>>
    <2>1. Built(x) /\ Complete(x) /\ Len(x.values) = k - 1 /\ x.group = group
          /\ \A j \in 1 .. (k - 1) : Rows(x, j) = Rows(in, j)
      BY DEF CopiedTo
    <2> HIDE DEF CopiedTo
    <2>2. /\ Built(y) /\ Complete(y)
          /\ y.group = x.group /\ y.axis1 = x.axis1
          /\ Len(y.values) = Len(x.values) + 1
          /\ \A j \in Blocks(x) : Rows(y, j) = Rows(x, j)
          /\ Rows(y, Len(x.values) + 1) = <<>>
      BY <1>1, <2>1, AddEffect
    <2> HIDE DEF y
    <2>3. QED
      BY <1>1, <2>1, <2>2 DEF Blocks
  <1>3. g = write_to_block(y, k, Rows(in, k))
    BY DEF CopyBlock
  <1> HIDE DEF y, g
  <1>4. k \in Blocks(y) /\ Size(y, k) = 0
    BY <1>1, <1>2 DEF Blocks, Size
  <1>5. AxisAfterWrite(y.axis1, 0, m) = Index(Size(in, 1))
    <2>1. CASE k = 1
      <3>1. y.axis1 = Index(0)
        BY <1>2, <2>1 DEF CopiedTo
      <3>2. AxisAfterWrite(Index(0), 0, m) = Index(0 + m)
        BY <1>1, AxisExtended
      <3>3. QED
        BY <1>1, <2>1, <3>1, <3>2
    <2>2. CASE k # 1
      <3>1. y.axis1 = Index(Size(in, 1))
        BY <1>1, <1>2, <2>2 DEF CopiedTo
      <3>2. 0 + m <= Size(in, 1)
        BY <1>1, <2>2 DEF Descending
      <3>3. QED
        BY <1>1, <3>1, <3>2, AxisKept
    <2>3. QED
      BY <2>1, <2>2
  <1>6. AxisAfterWrite(y.axis1, Size(y, k), Len(Rows(in, k))) = Index(Size(in, 1))
    BY <1>4, <1>5 DEF Size
  <1>7. Index(Size(in, 1)) \in Seq(Nat)
    BY <1>1, IndexType
  <1>8. /\ Built(g)
        /\ g.group = y.group /\ g.nblocks = y.nblocks
        /\ Len(g.values) = Len(y.values)
        /\ \A j \in Blocks(y) :
             Rows(g, j) = IF j = k THEN Rows(y, k) \o Rows(in, k) ELSE Rows(y, j)
        /\ g.axis1 = Index(Size(in, 1))
    <2>1. AxisAfterWrite(y.axis1, Size(y, k), Len(Rows(in, k))) \in Seq(Nat)
      BY <1>6, <1>7
    <2>2. Grown(g, y, k, Rows(in, k), Index(Size(in, 1)))
      BY <1>1, <1>2, <1>3, <1>4, <1>6, <2>1, WriteEffect
    <2>3. QED
      BY <2>2 DEF Grown
  <1>9. <<>> \o Rows(in, k) = Rows(in, k)
    BY <1>1, ConcatEmptySeq
  <1>10. \A j \in 1 .. k : Rows(g, j) = Rows(in, j)
    <2>1. \A j \in 1 .. k : j \in Blocks(y)
      BY <1>2 DEF Blocks
    <2>2. QED
      BY <1>1, <1>2, <1>8, <1>9, <2>1
  <1>11. QED
    BY <1>1, <1>2, <1>8, <1>10 DEF CopiedTo, Complete, g

\* The file of a merge has the rows of its first input.
LEMMA CopyLoop ==
    ASSUME NEW group \in Groups, NEW in, Sound(in)
    PROVE  CopiedTo(create_merge_output_file(group, in), group, in, Len(in.values))
  <1> DEFINE n == Len(in.values)
  <1>1. n \in Nat /\ Blocks(in) = 1 .. n
    BY BuiltParts DEF Sound, Blocks
  <1>2. PICK c : IsCopied(c, group, in) /\ create_merge_output_file(group, in) = c[n]
    BY <1>1, CopiedExists
  <1> HIDE DEF n
  <1>3. \A k \in 0 .. n : c[k] = IF k = 0 THEN set_up_file(group)
                                 ELSE CopyBlock(c[k - 1], in, k)
    BY <1>2 DEF IsCopied, n
  <1> DEFINE T == {k \in Nat : k <= n => CopiedTo(c[k], group, in, k)}
  <1>4. 0 \in T
    <2>1. c[0] = set_up_file(group)
      BY <1>1, <1>3
    <2>2. CopiedTo(set_up_file(group), group, in, 0)
      BY EmptyFrame DEF CopiedTo
    <2>3. QED
      BY <2>1, <2>2
  <1>5. ASSUME NEW k \in Nat, k \in T
        PROVE  k + 1 \in T
    <2>1. SUFFICES ASSUME k + 1 <= n
                   PROVE  CopiedTo(c[k + 1], group, in, k + 1)
      OBVIOUS
    <2>2. k <= n /\ k + 1 \in 1 .. n /\ k + 1 \in 0 .. n /\ k + 1 # 0 /\ (k + 1) - 1 = k
      BY <1>1, <2>1
    <2>3. c[k + 1] = CopyBlock(c[k], in, k + 1)
      BY <1>3, <2>2
    <2>4. CopiedTo(c[k], group, in, (k + 1) - 1)
      BY <1>5, <2>2
    <2>5. k + 1 \in Blocks(in)
      BY <1>1, <2>2
    <2>6. QED
      BY <2>3, <2>4, <2>5, CopyStep
  <1> HIDE DEF T
  <1>6. n \in T
    BY <1>1, <1>4, <1>5, NatSetInduction
  <1>7. QED
    BY <1>1, <1>2, <1>6 DEF T, n

(***************************************************************************)
(* The loop of append_file.                                                *)
(***************************************************************************)
\* Whether append_file extends block j among the first k.
Takes(out, in, k, j) == j <= k /\ Reached(out, in, j)
\* The output after k blocks.
AppendedTo(g, out, in, k) ==
    /\ Built(g) /\ g.group = out.group
    /\ Len(g.values) = Len(out.values)
    /\ \A j \in Blocks(out) :
         Rows(g, j) = IF Takes(out, in, k, j) THEN Rows(out, j) \o Rows(in, j)
                                              ELSE Rows(out, j)
    /\ g.axis1 = Index(IF Takes(out, in, k, 1) THEN FirstSize(out) + Size(in, 1)
                                               ELSE FirstSize(out))

\* Files whose blocks append_file compares.
Comparable(out, in) ==
    /\ Sound(out) /\ Sound(in)
    /\ Len(out.values) = Len(in.values)

\* A block is reached only if the first one was.
LEMMA ReachedFirst ==
    ASSUME NEW out, NEW in, NEW k \in Nat \ {0}, Reached(out, in, k)
    PROVE  \A j \in 1 .. k : Reached(out, in, j)
  BY DEF Reached

\* One block more is checked, and extended when it was reached.
LEMMA AppendStep ==
    ASSUME NEW out, NEW in, Comparable(out, in), NEW k \in Blocks(in), NEW x,
           AppendedTo(x, out, in, k - 1)
    PROVE  AppendedTo(IF Reached(out, in, k)
                      THEN AppendBlock(x, in, Len(out.axis1), k) ELSE x, out, in, k)
  <1> DEFINE m == Size(in, k)
             n == FirstSize(out)
             dim == Len(out.axis1)
  <1>1. /\ Built(in) /\ Descending(in) /\ Built(out) /\ out.axis1 = Index(n)
        /\ Blocks(in) = Blocks(out) /\ Len(out.values) = Len(in.values)
    BY DEF Comparable, Sound, Indexed, Blocks
  <1>2. k \in 1 .. Len(in.values) /\ Len(in.values) \in Nat
    BY <1>1, BuiltParts DEF Blocks
  <1>3. /\ k \in Nat \ {0} /\ 1 \in 1 .. k /\ (k = 1 \/ 1 < k)
        /\ \A j \in Blocks(in) : (j <= k <=> j = k \/ j <= k - 1) /\ ~(k <= k - 1)
        /\ 1 \in Blocks(in)
    BY <1>1, <1>2 DEF Blocks
  <1>4. /\ n \in Nat /\ m \in Nat /\ Rows(in, k) \in Seq(Row) /\ Size(in, 1) \in Nat
        /\ m <= Size(in, 1)
    <2>1. n \in Nat /\ m \in Nat /\ Rows(in, k) \in Seq(Row) /\ Size(in, 1) \in Nat
      BY <1>1, <1>3, BuiltParts
    <2>2. m <= Size(in, 1)
      BY <1>1, <1>3, <2>1 DEF Descending
    <2>3. QED
      BY <2>1, <2>2
  <1>5. dim = n
    BY <1>1, <1>4, IndexType
  <1>6. CASE ~Reached(out, in, k)
    <2>1. \A j \in Blocks(out) : Takes(out, in, k, j) <=> Takes(out, in, k - 1, j)
      BY <1>1, <1>3, <1>6 DEF Takes
    <2>2. QED
      BY <1>1, <1>3, <1>6, <2>1 DEF AppendedTo
  <1>7. CASE Reached(out, in, k)
    <2> DEFINE g == AppendBlock(x, in, dim, k)
               old == IF Takes(out, in, k - 1, 1) THEN n + Size(in, 1) ELSE n
    <2>1. /\ Built(x) /\ x.group = out.group /\ Len(x.values) = Len(out.values)
          /\ Blocks(x) = Blocks(out) /\ x.axis1 = Index(old)
          /\ \A j \in Blocks(out) :
               Rows(x, j) = IF Takes(out, in, k - 1, j) THEN Rows(out, j) \o Rows(in, j)
                                                        ELSE Rows(out, j)
      BY DEF AppendedTo, Blocks
    <2>2. Reached(out, in, 1)
      BY <1>3, <1>7, ReachedFirst
    <2>3. Takes(out, in, k, 1) /\ Takes(out, in, k, k) /\ ~Takes(out, in, k - 1, k)
          /\ \A j \in Blocks(out) : j # k =>
                 (Takes(out, in, k, j) <=> Takes(out, in, k - 1, j))
      BY <1>1, <1>3, <1>7, <2>2 DEF Takes
    <2>4. extend_axis1(Index(old), dim + m) = Index(n + Size(in, 1))
      <3>1. CASE k = 1
        <4>1. old = n
          BY <2>3, <3>1
        <4>2. extend_axis1(Index(n), n + m) = Index(IF n + m <= n THEN n ELSE n + m)
          BY <1>4, AxisAppended
        <4>3. (IF n + m <= n THEN n ELSE n + m) = n + m
          BY <1>4
        <4>4. QED
          BY <1>5, <3>1, <4>1, <4>2, <4>3
      <3>2. CASE k # 1
        <4>1. old = n + Size(in, 1)
          <5>1. 1 \in Blocks(out) /\ 1 # k
            BY <1>1, <1>3, <3>2
          <5>2. QED
            BY <2>3, <5>1
        <4>2. dim + m \in Nat /\ old \in Nat /\ dim + m <= old
          BY <1>4, <1>5, <4>1
        <4>3. extend_axis1(Index(old), dim + m) = Index(old)
          <5> HIDE DEF old
          <5>1. QED
            BY <4>2, AxisAppended
        <4>4. QED
          BY <4>1, <4>3
      <3>3. QED
        BY <3>1, <3>2
    <2>5. Index(n + Size(in, 1)) \in Seq(Nat)
      BY <1>4, IndexType
    <2> HIDE DEF n, m, dim, old
    <2>6. Grown(g, x, k, Rows(in, k), Index(n + Size(in, 1)))
      <3>1. extend_axis1(x.axis1, dim + Size(in, k)) = Index(n + Size(in, 1))
        BY <2>1, <2>4 DEF m
      <3>2. k \in Blocks(x)
        BY <1>1, <2>1
      <3>3. QED
        BY <1>4, <2>1, <2>5, <3>1, <3>2, AppendEffect
    <2> HIDE DEF g
    <2>7. \A j \in Blocks(out) :
             Rows(g, j) = IF Takes(out, in, k, j) THEN Rows(out, j) \o Rows(in, j)
                                                  ELSE Rows(out, j)
      <3>1. SUFFICES ASSUME NEW j \in Blocks(out)
                     PROVE  Rows(g, j) = IF Takes(out, in, k, j)
                                         THEN Rows(out, j) \o Rows(in, j) ELSE Rows(out, j)
        OBVIOUS
      <3>2. Rows(g, j) = IF j = k THEN Rows(x, k) \o Rows(in, k) ELSE Rows(x, j)
        BY <2>1, <2>6 DEF Grown
      <3>3. QED
        BY <2>1, <2>3, <3>1, <3>2
    <2>8. AppendedTo(g, out, in, k)
      BY <2>1, <2>3, <2>6, <2>7 DEF AppendedTo, Grown, n
    <2>9. QED
      BY <1>7, <2>8 DEF g, dim
  <1>8. QED
    BY <1>6, <1>7

\* append_file extends the blocks that are reached.
LEMMA AppendLoop ==
    ASSUME NEW out, NEW in, Comparable(out, in)
    PROVE  AppendedTo(Appended(out, in), out, in, Len(in.values))
  <1> DEFINE n == Len(in.values)
             step(x, k) == IF Reached(out, in, k)
                           THEN AppendBlock(x, in, Len(out.axis1), k) ELSE x
  <1>1. n \in Nat /\ Blocks(in) = 1 .. n
    BY BuiltParts DEF Sound, Blocks, Comparable
  <1>2. PICK c : IsAppended(c, out, in) /\ Appended(out, in) = c[n]
    BY <1>1, AppendedExists
  <1> HIDE DEF n
  <1>3. \A k \in 0 .. n : c[k] = IF k = 0 THEN out ELSE step(c[k - 1], k)
    BY <1>2 DEF IsAppended, n
  <1> HIDE DEF step
  <1> DEFINE T == {k \in Nat : k <= n => AppendedTo(c[k], out, in, k)}
  <1>4. 0 \in T
    <2>1. c[0] = out
      BY <1>1, <1>3
    <2>2. Built(out) /\ out.axis1 = Index(FirstSize(out))
      BY DEF Comparable, Sound, Indexed
    <2>3. /\ \A j \in Blocks(out) : ~Takes(out, in, 0, j)
          /\ ~Takes(out, in, 0, 1)
      BY <2>2, BuiltParts DEF Takes, Blocks
    <2>4. AppendedTo(out, out, in, 0)
      BY <2>2, <2>3 DEF AppendedTo
    <2>5. QED
      BY <2>1, <2>4
  <1>5. ASSUME NEW k \in Nat, k \in T
        PROVE  k + 1 \in T
    <2>1. SUFFICES ASSUME k + 1 <= n
                   PROVE  AppendedTo(c[k + 1], out, in, k + 1)
      OBVIOUS
    <2>2. k <= n /\ k + 1 \in 1 .. n /\ k + 1 \in 0 .. n /\ k + 1 # 0 /\ (k + 1) - 1 = k
      BY <1>1, <2>1
    <2>3. c[k + 1] = step(c[k], k + 1)
      BY <1>3, <2>2
    <2>4. AppendedTo(c[k], out, in, (k + 1) - 1)
      BY <1>5, <2>2
    <2>5. k + 1 \in Blocks(in)
      BY <1>1, <2>2
    <2>6. AppendedTo(step(c[k], k + 1), out, in, k + 1)
      BY <2>4, <2>5, AppendStep DEF step
    <2>7. QED
      BY <2>3, <2>6
  <1> HIDE DEF T
  <1>6. n \in T
    BY <1>1, <1>4, <1>5, NatSetInduction
  <1>7. QED
    BY <1>1, <1>2, <1>6 DEF T, n

(***************************************************************************)
(* The files a merge leaves.                                               *)
(***************************************************************************)
\* The file of a merge is as sound as its input.
LEMMA CopiedIsSound ==
    ASSUME NEW group \in Groups, NEW in, Sound(in)
    PROVE  Sound(create_merge_output_file(group, in))
  <1> DEFINE g == create_merge_output_file(group, in)
             n == Len(in.values)
  <1>1. CopiedTo(g, group, in, n)
    BY CopyLoop
  <1> HIDE DEF g
  <1>2. n \in Nat /\ Blocks(in) = 1 .. n /\ Blocks(g) = 1 .. n /\ Len(g.values) = n
    BY <1>1, BuiltParts DEF Sound, Blocks, CopiedTo
  <1>3. \A k \in Blocks(g) : Size(g, k) = Size(in, k)
    BY <1>1, <1>2 DEF CopiedTo, Size
  <1>4. Descending(g)
    BY <1>2, <1>3 DEF Descending, Sound
  <1>5. FirstSize(g) = IF n = 0 THEN 0 ELSE Size(in, 1)
    <2>1. n # 0 => 1 \in Blocks(g)
      BY <1>2
    <2>2. QED
      BY <1>2, <1>3, <2>1 DEF FirstSize
  <1>6. QED
    BY <1>1, <1>4, <1>5 DEF Sound, Indexed, CopiedTo, g

\* With blocks of one length no rows are missing.
LEMMA EvenIsOwn ==
    ASSUME NEW p, NEW f, Built(f), Even(f)
    PROVE  Own(p, f)
  <1>1. FirstSize(f) \in Nat
    BY BuiltParts
  <1>2. QED
    BY <1>1 DEF Even, Own

\* With blocks of one length its rows belong together as those of the input.
LEMMA CopiedIsWhole ==
    ASSUME NEW p, NEW group \in Groups, NEW in, Sound(in), Joined(in), Even(in)
    PROVE  Whole(p, create_merge_output_file(group, in))
  <1> DEFINE g == create_merge_output_file(group, in)
             n == Len(in.values)
  <1>1. CopiedTo(g, group, in, n)
    BY CopyLoop
  <1>2. Sound(g)
    BY CopiedIsSound
  <1> HIDE DEF g
  <1>3. n \in Nat /\ Blocks(in) = 1 .. n /\ Blocks(g) = 1 .. n
        /\ Len(g.values) = Len(in.values)
    BY <1>1, BuiltParts DEF Sound, Blocks, CopiedTo
  <1>4. \A k \in Blocks(g) : Rows(g, k) = Rows(in, k) /\ Size(g, k) = Size(in, k)
    BY <1>1, <1>3 DEF CopiedTo, Size
  <1>5. Joined(g)
    BY <1>3, <1>4 DEF Joined
  <1>6. Even(g)
    <2>1. n # 0 => 1 \in Blocks(g)
      BY <1>3
    <2>2. FirstSize(g) = FirstSize(in)
      BY <1>3, <1>4, <2>1 DEF FirstSize
    <2>3. QED
      BY <1>3, <1>4, <2>2 DEF Even
  <1>7. QED
    BY <1>2, <1>5, <1>6, EvenIsOwn DEF Whole, Sound, g

\* The sizes of the blocks append_file leaves.
LEMMA AppendedSizes ==
    ASSUME NEW out, NEW in, Comparable(out, in), NEW j \in Blocks(out)
    PROVE  /\ Size(out, j) \in Nat /\ Size(in, j) \in Nat
           /\ Rows(out, j) \in Seq(Row) /\ Rows(in, j) \in Seq(Row)
           /\ Size(Appended(out, in), j)
                 = IF Reached(out, in, j) THEN Size(out, j) + Size(in, j) ELSE Size(out, j)
           /\ Rows(Appended(out, in), j)
                 = IF Reached(out, in, j) THEN Rows(out, j) \o Rows(in, j) ELSE Rows(out, j)
  <1> DEFINE g == Appended(out, in)
             n == Len(in.values)
  <1>1. AppendedTo(g, out, in, n)
    BY AppendLoop
  <1> HIDE DEF g
  <1>2. Built(out) /\ Built(in) /\ j \in Blocks(in) /\ j <= n
    <2>1. Built(out) /\ Built(in) /\ Len(out.values) = n
      BY DEF Comparable, Sound
    <2>2. QED
      BY <2>1, BuiltParts DEF Blocks
  <1>3. /\ Size(out, j) \in Nat /\ Size(in, j) \in Nat
        /\ Rows(out, j) \in Seq(Row) /\ Rows(in, j) \in Seq(Row)
    BY <1>2, BuiltParts
  <1>4. Rows(g, j) = IF Reached(out, in, j) THEN Rows(out, j) \o Rows(in, j)
                                            ELSE Rows(out, j)
    BY <1>1, <1>2 DEF AppendedTo, Takes
  <1>5. Len(Rows(out, j) \o Rows(in, j)) = Size(out, j) + Size(in, j)
    BY <1>3, ConcatProperties DEF Size
  <1>6. Size(g, j) = IF Reached(out, in, j) THEN Size(out, j) + Size(in, j)
                                            ELSE Size(out, j)
    BY <1>4, <1>5 DEF Size
  <1>7. QED
    BY <1>3, <1>4, <1>6 DEF g

\* append_file extends the first blocks only, so none gets ahead of an earlier
\* one, and the axis follows the first.
LEMMA AppendedIsSound ==
    ASSUME NEW out, NEW in, Comparable(out, in)
    PROVE  Sound(Appended(out, in))
  <1> DEFINE g == Appended(out, in)
             n == Len(in.values)
  <1>1. AppendedTo(g, out, in, n)
    BY AppendLoop
  <1>2. \A j \in Blocks(out) :
           /\ Size(out, j) \in Nat /\ Size(in, j) \in Nat
           /\ Size(g, j) = IF Reached(out, in, j) THEN Size(out, j) + Size(in, j)
                                                  ELSE Size(out, j)
    BY AppendedSizes
  <1> HIDE DEF g
  <1>3. /\ Built(out) /\ Descending(out) /\ Descending(in)
        /\ Len(out.values) = n /\ n \in Nat
        /\ Blocks(out) = 1 .. n /\ Blocks(in) = 1 .. n /\ Blocks(g) = 1 .. n
        /\ Len(g.values) = n
    BY <1>1, BuiltParts DEF Comparable, Sound, Blocks, AppendedTo
  <1>4. Descending(g)
    <2>1. SUFFICES ASSUME NEW k \in 1 .. n, NEW l \in 1 .. n, k < l
                   PROVE  Size(g, k) >= Size(g, l)
      BY <1>3 DEF Descending
    <2>2. Size(out, k) >= Size(out, l) /\ Size(in, k) >= Size(in, l)
      BY <1>3, <2>1 DEF Descending
    <2>3. Reached(out, in, l) => Reached(out, in, k)
      <3>1. l \in Nat \ {0} /\ k \in 1 .. l
        BY <1>3, <2>1
      <3>2. QED
        BY <3>1, ReachedFirst
    <2>4. QED
      BY <1>2, <1>3, <2>2, <2>3
  <1>5. g.axis1 = Index(FirstSize(g))
    <2>1. CASE n = 0
      <3>1. ~Takes(out, in, n, 1)
        BY <2>1 DEF Takes
      <3>2. QED
        BY <1>1, <1>3, <2>1, <3>1 DEF AppendedTo, FirstSize
    <2>2. CASE n # 0
      <3>1. 1 \in 1 .. n /\ 1 <= n
        BY <1>3, <2>2
      <3>2. Takes(out, in, n, 1) <=> Reached(out, in, 1)
        BY <3>1 DEF Takes
      <3>3. FirstSize(g) = Size(g, 1) /\ FirstSize(out) = Size(out, 1)
        BY <1>3, <2>2 DEF FirstSize
      <3>4. QED
        BY <1>1, <1>2, <1>3, <3>1, <3>2, <3>3 DEF AppendedTo
    <2>3. QED
      BY <2>1, <2>2
  <1>6. QED
    BY <1>1, <1>4, <1>5 DEF Sound, Indexed, AppendedTo, g

\* When every block fits, the rows of the input follow those of the output in
\* every block alike.
LEMMA AppendedIsWhole ==
    ASSUME NEW p, NEW out, NEW in, Comparable(out, in),
           Joined(out), Joined(in), Even(out), Even(in),
           \A k \in DOMAIN in.values : BlockFits(out, in, k)
    PROVE  Whole(p, Appended(out, in))
  <1> DEFINE g == Appended(out, in)
             n == Len(in.values)
             a == FirstSize(out)
             b == FirstSize(in)
  <1>1. AppendedTo(g, out, in, n) /\ Sound(g)
    BY AppendLoop, AppendedIsSound
  <1>2. /\ Built(out) /\ Built(in) /\ n \in Nat /\ Len(g.values) = n
        /\ Len(out.values) = n
        /\ Blocks(out) = 1 .. n /\ Blocks(in) = 1 .. n /\ Blocks(g) = 1 .. n
        /\ DOMAIN in.values = 1 .. n
        /\ a \in Nat /\ b \in Nat
    <2> HIDE DEF g
    <2>1. QED
      BY <1>1, BuiltParts DEF Comparable, Sound, Blocks, AppendedTo
  <1>3. \A k \in 1 .. n : Reached(out, in, k)
    <2>1. \A k \in 1 .. n : \A j \in 1 .. k : j \in 1 .. n
      BY <1>2
    <2>2. QED
      BY <1>2, <2>1 DEF Reached
  <1>4. \A k \in 1 .. n : /\ Rows(g, k) = Rows(out, k) \o Rows(in, k)
                          /\ Size(g, k) = a + b
                          /\ Len(Rows(out, k)) = a /\ Len(Rows(in, k)) = b
                          /\ Rows(out, k) \in Seq(Row) /\ Rows(in, k) \in Seq(Row)
    BY <1>2, <1>3, AppendedSizes DEF Even, Size
  <1> HIDE DEF g, a, b
  <1>5. \A k \in 1 .. n : \A j \in 1 .. (a + b) :
            Rows(g, k)[j] = IF j <= a THEN Rows(out, k)[j] ELSE Rows(in, k)[j - a]
    <2>1. SUFFICES ASSUME NEW k \in 1 .. n, NEW j \in 1 .. (a + b)
                   PROVE  Rows(g, k)[j] = IF j <= a THEN Rows(out, k)[j]
                                                    ELSE Rows(in, k)[j - a]
      OBVIOUS
    <2> DEFINE s == Rows(out, k)
               t == Rows(in, k)
    <2>2. s \in Seq(Row) /\ t \in Seq(Row) /\ Len(s) = a /\ Len(t) = b
          /\ Rows(g, k) = s \o t
      BY <1>4
    <2> HIDE DEF s, t
    <2>3. (s \o t)[j] = IF j <= a THEN s[j] ELSE t[j - a]
      BY <2>2, ConcatProperties
    <2>4. QED
      BY <2>2, <2>3 DEF s, t
  <1>6. \A j \in 1 .. (a + b) : (j <= a => j \in 1 .. a) /\ (~(j <= a) => j - a \in 1 .. b)
    BY <1>2
  <1>7. \A k, l \in 1 .. n : /\ \A j \in 1 .. a : Rows(out, k)[j] = Rows(out, l)[j]
                             /\ \A j \in 1 .. b : Rows(in, k)[j] = Rows(in, l)[j]
    <2>1. \A k \in 1 .. n : Size(out, k) = a /\ Size(in, k) = b
      BY <1>4 DEF Size
    <2>2. (\A j \in 1 .. a : j <= a) /\ (\A j \in 1 .. b : j <= b)
      BY <1>2
    <2>3. QED
      BY <1>2, <2>1, <2>2 DEF Joined
  <1>8. Joined(g)
    <2>1. SUFFICES ASSUME NEW k \in 1 .. n, NEW l \in 1 .. n, NEW j \in 1 .. (a + b)
                   PROVE  Rows(g, k)[j] = Rows(g, l)[j]
      BY <1>2, <1>4 DEF Joined
    <2>2. QED
      BY <1>5, <1>6, <1>7
  <1>9. Even(g)
    <2>1. n # 0 => 1 \in 1 .. n
      BY <1>2
    <2>2. n # 0 => FirstSize(g) = a + b
      BY <1>2, <1>4, <2>1 DEF FirstSize
    <2>3. \A k \in 1 .. n : n # 0
      BY <1>2
    <2>4. QED
      BY <1>2, <1>4, <2>2, <2>3 DEF Even
  <1>10. QED
    BY <1>1, <1>8, <1>9, EvenIsOwn DEF Whole, Sound, g

(***************************************************************************)
(* The invariant of the files.                                             *)
(***************************************************************************)
LEMMA FrameInvInit ==
    ASSUME Init
    PROVE  FrameInv
  <1>1. DOMAIN files = {}
    BY DEF Init
  <1>2. files = [p \in DOMAIN files |-> files[p]]
    BY <1>1 DEF Init
  <1>3. QED
    BY <1>1, <1>2 DEF Init, FrameInv

\* A step that stores a sound file, whole or tainted, keeps the invariant.
LEMMA StoreKeeps ==
    ASSUME FrameInv, NEW path \in Paths, NEW f, Store(path, f), Sound(f),
           failed \subseteq failed', failed' \subseteq failed \cup {path},
           path \notin failed' => Whole(path, f), layout' = layout
    PROVE  FrameInv'
  <1>1. files' = [p \in DOMAIN files \cup {path} |-> IF p = path THEN f ELSE files[p]]
    BY DEF Store
  <1>2. /\ DOMAIN files' = DOMAIN files \cup {path} /\ files'[path] = f
        /\ \A p \in DOMAIN files : p # path => files'[p] = files[p]
    BY <1>1
  <1>3. files' = [p \in DOMAIN files' |-> files'[p]]
    BY <1>1
  <1>4. DOMAIN files' \subseteq Paths /\ failed' \subseteq DOMAIN files' /\ layout' \in Layouts
    BY <1>2 DEF FrameInv
  <1>5. \A p \in DOMAIN files' : Sound(files'[p])
    BY <1>2 DEF FrameInv
  <1>6. \A p \in DOMAIN files' \ failed' : Whole(p, files'[p])
    BY <1>2 DEF FrameInv
  <1>7. QED
    BY <1>3, <1>4, <1>5, <1>6 DEF FrameInv

\* A frame without blocks, or whose blocks have no rows, has nothing to keep.
LEMMA NoRows ==
    ASSUME NEW p, NEW f, Built(f), f.axis1 = Index(0),
           \A k \in Blocks(f) : Size(f, k) = 0
    PROVE  Sound(f) /\ Whole(p, f)
  <1>1. FirstSize(f) = 0
    <2>1. Len(f.values) # 0 => 1 \in Blocks(f)
      BY BuiltParts DEF Blocks
    <2>2. QED
      BY <2>1 DEF FirstSize
  <1>2. Descending(f)
    BY DEF Descending
  <1>3. \A k \in Blocks(f) : 1 .. Size(f, k) = {}
    OBVIOUS
  <1>4. QED
    BY <1>1, <1>2, <1>3 DEF Sound, Indexed, Whole, Joined, Own

\* A file that was just set up has nothing to keep.
LEMMA EmptyIsSound ==
    ASSUME NEW p, NEW group \in Groups
    PROVE  Sound(set_up_file(group)) /\ Whole(p, set_up_file(group))
  <1> DEFINE g == set_up_file(group)
  <1>1. Built(g) /\ Len(g.values) = 0 /\ g.axis1 = Index(0)
    BY EmptyFrame
  <1> HIDE DEF g
  <1>2. Blocks(g) = {}
    BY <1>1 DEF Blocks
  <1>3. Sound(g) /\ Whole(p, g)
    BY <1>1, <1>2, NoRows
  <1>4. QED
    BY <1>3 DEF g

\* set_up_file begins a frame.
LEMMA SetUpKeeps ==
    ASSUME FrameInv, NEW path \in Paths, NEW group \in Groups, SetUp(path, group)
    PROVE  FrameInv'
  <1>1. Sound(set_up_file(group)) /\ Whole(path, set_up_file(group))
    BY EmptyIsSound
  <1>2. Store(path, set_up_file(group)) /\ failed' = failed /\ layout' = layout
    BY DEF SetUp
  <1>3. QED
    BY <1>1, <1>2, StoreKeeps

\* add_block adds a block or, with a name that does not fit, only its count.
LEMMA AddBlockKeeps ==
    ASSUME FrameInv, NEW path \in Paths, AddBlock(path)
    PROVE  FrameInv'
  <1> DEFINE f == files[path]
             block == layout[path][f.nblocks + 1]
             added == add_block(f, block[1], block[2])
             counted == [f EXCEPT !.nblocks = @ + 1]
             fits == \A i \in DOMAIN block[2] : FitsString(block[2][i])
  <1>1. /\ path \in DOMAIN files /\ Complete(f) /\ Longest(f) = 0
        /\ f.nblocks < Len(layout[path])
        /\ Store(path, IF fits THEN added ELSE counted)
        /\ failed' = failed /\ layout' = layout
    BY DEF AddBlock
  <1>2. Sound(f) /\ Built(f) /\ Descending(f)
    BY <1>1 DEF FrameInv, Sound
  <1>3. block[1] \in Types /\ block[2] \in Seq(Column)
    <2>1. layout[path] \in Seq(Types \X Seq(Column))
      BY LayoutsAssumption DEF FrameInv
    <2>2. f.nblocks + 1 \in 1 .. Len(layout[path])
      BY <1>1, <1>2, <2>1, BuiltParts, LenProperties
    <2>3. block \in Types \X Seq(Column)
      BY <2>1, <2>2, ElementOfSeq
    <2>4. QED
      BY <2>3
  <1>4. f.axis1 = Index(0) /\ \A k \in Blocks(f) : Size(f, k) = 0
    <2>1. FirstSize(f) = 0
      BY <1>1, <1>2, LongestIsFirst
    <2>2. ASSUME NEW k \in Blocks(f)
          PROVE  Size(f, k) = 0
      <3>1. /\ k \in Nat /\ (k = 1 \/ 1 < k) /\ 1 \in Blocks(f) /\ Len(f.values) # 0
        BY <1>2, <2>2, BuiltParts DEF Blocks
      <3>2. Size(f, 1) = 0
        BY <2>1, <3>1 DEF FirstSize
      <3>3. Size(f, k) \in Nat /\ Size(f, 1) >= Size(f, k)
        BY <1>2, <3>1, BuiltParts DEF Descending
      <3>4. QED
        BY <3>2, <3>3
    <2>3. QED
      BY <1>2, <2>1, <2>2 DEF Sound, Indexed
  <1> HIDE DEF f, block, fits
  <1>5. CASE fits
    <2>1. /\ Built(added) /\ added.axis1 = f.axis1
          /\ Len(added.values) = Len(f.values) + 1
          /\ \A j \in Blocks(f) : Rows(added, j) = Rows(f, j)
          /\ Rows(added, Len(f.values) + 1) = <<>>
      BY <1>1, <1>2, <1>3, AddEffect
    <2> HIDE DEF added
    <2>2. \A j \in Blocks(added) : j \in Blocks(f) \/ j = Len(f.values) + 1
      BY <1>2, <2>1, BuiltParts DEF Blocks
    <2>3. \A j \in Blocks(added) : Size(added, j) = 0
      BY <1>4, <2>1, <2>2 DEF Size
    <2>4. Sound(added) /\ Whole(path, added)
      BY <1>4, <2>1, <2>3, NoRows
    <2>5. QED
      BY <1>1, <1>5, <2>4, StoreKeeps
  <1>6. CASE ~fits
    <2>1. /\ counted \in Frame /\ counted.values = f.values /\ counted.axis1 = f.axis1
          /\ counted.items = f.items /\ counted.nblocks = f.nblocks + 1
      <3> DEFINE n == f.nblocks + 1
      <3>1. f \in Frame /\ n \in Nat
        BY <1>2, BuiltParts DEF Built
      <3>2. counted = [f EXCEPT !.nblocks = n]
        BY <3>1 DEF Frame
      <3> HIDE DEF n, counted
      <3>3. /\ counted \in Frame /\ counted.values = f.values /\ counted.axis1 = f.axis1
            /\ counted.items = f.items /\ counted.nblocks = n
        BY <3>1, <3>2 DEF Frame
      <3>4. QED
        BY <3>3 DEF n
    <2> HIDE DEF counted
    <2>2. Built(counted)
      <3>1. f.nblocks = Len(f.values) /\ f.nblocks \in Nat /\ Len(f.items) = Len(f.values)
        BY <1>1, <1>2, BuiltParts DEF Complete, Built
      <3>2. counted.nblocks - Len(counted.values) = 1
        BY <2>1, <3>1
      <3>3. QED
        BY <2>1, <3>1, <3>2 DEF Built
    <2>3. Blocks(counted) = Blocks(f) /\ \A k \in Blocks(f) : Size(counted, k) = 0
      BY <1>4, <2>1 DEF Blocks, Size, Rows
    <2>4. Sound(counted) /\ Whole(path, counted)
      BY <1>4, <2>1, <2>2, <2>3, NoRows
    <2>5. QED
      BY <1>1, <1>6, <2>4, StoreKeeps
  <1>7. QED
    BY <1>5, <1>6

\* write_to_block, called in turn.
LEMMA WriteKeeps ==
    ASSUME Lockstep, FrameInv, NEW path \in Paths, NEW k, NEW n \in 1 .. MaxRows,
           WriteToBlock(path, k, n)
    PROVE  FrameInv'
  <1> DEFINE f == files[path]
             data == Data(path, f, k, n)
  <1>1. /\ path \in DOMAIN files /\ k \in DOMAIN f.values /\ MayWrite(f, k, n)
        /\ Len(Rows(f, k)) + n <= MaxRows
        /\ Store(path, write_to_block(f, k,
                           [j \in 1 .. n |-> <<path, Len(Rows(f, k)) + j>>]))
        /\ failed' = failed /\ layout' = layout
    BY DEF WriteToBlock
  <1>2. Sound(f) /\ (path \notin failed => Whole(path, f))
    BY <1>1 DEF FrameInv
  <1> HIDE DEF f
  <1>3. k \in Blocks(f) /\ n \in Nat /\ Size(f, k) \in Nat /\ MaxRows \in Nat
    BY <1>1, <1>2, BuiltParts, RowsAssumption DEF Sound
  <1>4. Store(path, write_to_block(f, k, data))
    BY <1>1 DEF Data, Size
  <1>5. data \in Seq(Row) /\ Len(data) = n
    <2>1. \A j \in 1 .. n : Size(f, k) + j \in 1 .. MaxRows
      BY <1>1, <1>3 DEF Size
    <2>2. \A j \in 1 .. n : <<path, Size(f, k) + j>> \in Row
      BY <2>1 DEF Row
    <2>3. data \in [1 .. n -> Row]
      BY <2>2 DEF Data
    <2>4. QED
      BY <1>3, <2>3
  <1>6. InTurn(f, k, n)
    BY <1>1 DEF MayWrite, InTurn, Size
  <1> HIDE DEF data
  <1>7. Sound(write_to_block(f, k, data))
    BY <1>2, <1>3, <1>5, <1>6, TurnKeepsSound
  <1>8. path \notin failed' => Whole(path, write_to_block(f, k, data))
    BY <1>1, <1>2, <1>3, <1>5, <1>6, TurnKeepsWhole DEF data
  <1>9. QED
    BY <1>1, <1>4, <1>7, <1>8, StoreKeeps

\* A file at rest whose appends did not fail has blocks of one length.
LEMMA RestIsEven ==
    ASSUME Lockstep, FrameInv, NEW path \in DOMAIN files \ failed, AtRest(path)
    PROVE  Joined(files[path]) /\ Even(files[path])
  <1> DEFINE f == files[path]
  <1>1. Built(f) /\ Descending(f) /\ Joined(f)
    BY DEF FrameInv, Sound, Whole
  <1>2. \A k \in DOMAIN f.values : Len(Rows(f, k)) = Longest(f)
    BY DEF AtRest
  <1> HIDE DEF f
  <1>3. Longest(f) = FirstSize(f) /\ Blocks(f) = DOMAIN f.values
    BY <1>1, LongestIsFirst, BuiltParts
  <1>4. Even(f)
    BY <1>2, <1>3 DEF Even, Size
  <1>5. QED
    BY <1>1, <1>4 DEF f

\* create_merge_output_file, from a file at rest.
LEMMA CreateKeeps ==
    ASSUME Lockstep, FrameInv, NEW out \in Paths, NEW in \in Paths, NEW group \in Groups,
           CreateMergeOutput(out, group, in)
    PROVE  FrameInv'
  <1> DEFINE g == create_merge_output_file(group, files[in])
  <1>1. /\ in \in DOMAIN files /\ AtRest(in) /\ layout' = layout
        /\ Store(out, IF CanOpen(in, "data") THEN g ELSE set_up_file(group))
        /\ failed' = IF in \in failed THEN failed \cup {out} ELSE failed
    BY DEF CreateMergeOutput, Taint
  <1>2. Sound(files[in])
    BY <1>1 DEF FrameInv
  <1>3. Sound(g)
    BY <1>2, CopiedIsSound
  <1>4. out \notin failed' => Whole(out, g)
    <2>1. SUFFICES ASSUME out \notin failed'
                   PROVE  Whole(out, g)
      OBVIOUS
    <2>2. Joined(files[in]) /\ Even(files[in])
      BY <1>1, <2>1, RestIsEven
    <2>3. QED
      BY <1>2, <2>2, CopiedIsWhole
  <1> HIDE DEF g
  <1>5. CASE CanOpen(in, "data")
    BY <1>1, <1>3, <1>4, <1>5, StoreKeeps
  <1>6. CASE ~CanOpen(in, "data")
    <2>1. Sound(set_up_file(group)) /\ Whole(out, set_up_file(group))
      BY EmptyIsSound
    <2>2. QED
      BY <1>1, <1>6, <2>1, StoreKeeps
  <1>7. QED
    BY <1>5, <1>6

\* append_file, whether all blocks fit or it throws at one.
LEMMA AppendKeeps ==
    ASSUME Lockstep, FrameInv, NEW out \in Paths, NEW in \in Paths, NEW group \in Groups,
           AppendFile(out, group, in)
    PROVE  FrameInv'
  <1> DEFINE o == files[out]
             i == files[in]
             g == Appended(o, i)
             fit == \A k \in DOMAIN i.values : BlockFits(o, i, k)
             opened == /\ CanOpen(out, group) /\ CanOpen(in, group)
                       /\ Complete(o) /\ Complete(i) /\ SameBlockCount(o, i)
  <1>1. /\ AtRest(out) /\ AtRest(in) /\ layout' = layout
        /\ IF opened
           THEN /\ Store(out, g)
                /\ failed' = IF fit THEN (IF in \in failed THEN failed \cup {out} ELSE failed)
                                    ELSE failed \cup {out}
           ELSE UNCHANGED <<files, failed>>
    BY DEF AppendFile, Taint
  <1>2. CASE ~opened
    <2>1. UNCHANGED <<files, layout, failed>>
      BY <1>1, <1>2
    <2>2. QED
      BY <2>1 DEF FrameInv, Sound, Whole, Built, Descending, Indexed, Joined, Own,
                  Blocks, Size, FirstSize, Rows
  <1>3. CASE opened
    <2>1. out \in DOMAIN files /\ in \in DOMAIN files
      BY <1>3 DEF CanOpen
    <2>2. Comparable(o, i)
      BY <1>3, <2>1 DEF FrameInv, Comparable, Complete, SameBlockCount
    <2>3. Sound(g)
      BY <2>2, AppendedIsSound
    <2>4. out \notin failed' => Whole(out, g)
      <3>1. SUFFICES ASSUME out \notin failed'
                     PROVE  Whole(out, g)
        OBVIOUS
      <3>2. fit /\ in \notin failed /\ out \notin failed
        BY <1>1, <1>3, <3>1
      <3>3. Joined(o) /\ Even(o) /\ Joined(i) /\ Even(i)
        BY <1>1, <2>1, <3>2, RestIsEven
      <3>4. QED
        BY <2>2, <3>2, <3>3, AppendedIsWhole
    <2>5. /\ Store(out, g) /\ layout' = layout
          /\ failed \subseteq failed' /\ failed' \subseteq failed \cup {out}
      BY <1>1, <1>3
    <2> HIDE DEF g
    <2>6. QED
      BY <2>3, <2>4, <2>5, StoreKeeps
  <1>4. QED
    BY <1>2, <1>3

\* Every step keeps the invariant.
LEMMA FrameInvStep ==
    ASSUME Lockstep, FrameInv, [Next]_vars
    PROVE  FrameInv'
  <1>1. CASE UNCHANGED vars
    BY <1>1 DEF vars, FrameInv, Sound, Whole, Built, Descending, Indexed, Joined, Own,
                Blocks, Size, FirstSize, Rows
  <1>2. ASSUME NEW path \in Paths, NEW group \in Groups, SetUp(path, group)
        PROVE  FrameInv'
    BY <1>2, SetUpKeeps
  <1>3. ASSUME NEW path \in Paths, AddBlock(path)
        PROVE  FrameInv'
    BY <1>3, AddBlockKeeps
  <1>4. ASSUME NEW path \in Paths, NEW k \in 1 .. 2, NEW n \in 1 .. MaxRows,
               WriteToBlock(path, k, n)
        PROVE  FrameInv'
    BY <1>4, WriteKeeps
  <1>5. ASSUME NEW out \in Paths, NEW in \in Paths, NEW group \in Groups,
               CreateMergeOutput(out, group, in)
        PROVE  FrameInv'
    BY <1>5, CreateKeeps
  <1>6. ASSUME NEW out \in Paths, NEW in \in Paths, NEW group \in Groups,
               AppendFile(out, group, in)
        PROVE  FrameInv'
    BY <1>6, AppendKeeps
  <1>7. QED
    BY <1>1, <1>2, <1>3, <1>4, <1>5, <1>6 DEF Next

(***************************************************************************)
(* The theorems.                                                           *)
(***************************************************************************)
LEMMA FrameInvGives ==
    ASSUME FrameInv
    PROVE  FrameOK /\ AxisIsIndex
  <1>1. \A p \in DOMAIN files : Sound(files[p]) /\ Built(files[p]) /\ Descending(files[p])
    BY DEF FrameInv, Sound
  <1>2. \A p \in DOMAIN files :
           /\ DOMAIN files[p].values = Blocks(files[p])
           /\ \A k \in Blocks(files[p]) : /\ DOMAIN Rows(files[p], k) = 1 .. Size(files[p], k)
                                          /\ Size(files[p], k) \in Nat
    BY <1>1, BuiltParts
  <1>3. TypeOK
    BY <1>1 DEF FrameInv, TypeOK, Built
  <1>4. RowsTogether
    <2>1. SUFFICES ASSUME NEW p \in DOMAIN files \ failed,
                          NEW k \in Blocks(files[p]), NEW l \in Blocks(files[p]),
                          NEW j \in (1 .. Size(files[p], k)) \cap (1 .. Size(files[p], l))
                   PROVE  Rows(files[p], k)[j] = Rows(files[p], l)[j]
      BY <1>2 DEF RowsTogether
    <2>2. j <= Size(files[p], l)
      BY <1>2
    <2>3. QED
      BY <2>2 DEF FrameInv, Whole, Joined
  <1>5. EarlierBlocksLonger
    BY <1>1, <1>2 DEF EarlierBlocksLonger, Descending, Size
  <1>6. AxisIsIndex
    BY <1>1, LongestIsFirst DEF AxisIsIndex, Sound, Indexed
  <1>7. QED
    BY <1>3, <1>4, <1>5, <1>6 DEF FrameOK

\* The invariant holds of every file at any time.
LEMMA FrameInvHolds ==
    ASSUME Lockstep
    PROVE  Spec => []FrameInv
  <1>1. Init => FrameInv
    BY FrameInvInit
  <1>2. FrameInv /\ [Next]_vars => FrameInv'
    BY FrameInvStep
  <1>3. QED
    BY <1>1, <1>2, PTL DEF Spec

\* A caller that writes the blocks of its files in turn finds frames in them,
\* whatever it merges and whichever append_file throws: rows that belong
\* together in every block, and no block ahead of an earlier one.
THEOREM FrameOKHolds ==
    ASSUME Lockstep
    PROVE  Spec => []FrameOK
  <1>1. FrameInv => FrameOK
    BY FrameInvGives
  <1>2. QED
    BY <1>1, FrameInvHolds, PTL

\* axis1 numbers the rows of the longest block, whether write_to_block or
\* extend_axis1 extended it last.
THEOREM AxisIsIndexHolds ==
    ASSUME Lockstep
    PROVE  Spec => []AxisIsIndex
  <1>1. FrameInv => AxisIsIndex
    BY FrameInvGives
  <1>2. QED
    BY <1>1, FrameInvHolds, PTL
=============================================================================
