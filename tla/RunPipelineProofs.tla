------------------------- MODULE RunPipelineProofs -------------------------
(***************************************************************************)
(* Proofs about RunPipeline: for any number of runs, any configurations of *)
(* theirs, any pool of workers and any files that are kept, a run is       *)
(* passed from thread to thread without being lost or passed on twice.     *)
(***************************************************************************)
EXTENDS RunPipeline, SequenceLemmas

-----------------------------------------------------------------------------
(* Configurations.                                                         *)

\* Run 0 is a run, and the configurations overlaid are configurations.
LEMMA ConfigTypes ==
    /\ 0 \in Runs /\ RunCount \in Nat \ {0}
    /\ \A r \in Runs : RunConfig[r] \in Config
    /\ \A r \in Runs : Before(r) \in Config
    /\ \A c \in Config, r \in Runs : Update(c, r) \in Config
    /\ \A c \in Config : c # NoConfig
    /\ RunConfig[RunCount - 1] \in Config
  <1>1. 0 \in Runs /\ RunCount \in Nat \ {0}
    BY RunCountAssumption DEF Runs
  <1>2. \A r \in Runs : RunConfig[r] \in Config
    BY ConfigAssumption
  <1>3. ASSUME NEW r \in Runs
        PROVE  Before(r) \in Config
    <2>1. r # 0 => r - 1 \in Runs
      BY RunCountAssumption DEF Runs
    <2>2. QED
      BY <1>2, <2>1, ConfigAssumption DEF Before
  <1>4. ASSUME NEW c \in Config, NEW r \in Runs
        PROVE  Update(c, r) \in Config
    <2>1. RunConfig[r] \in [Params -> Values] /\ c \in [Params -> Values]
      BY <1>2 DEF Config
    <2>2. QED
      BY <2>1 DEF Update, Config
  <1>5. RunCount - 1 \in Runs
    BY <1>1 DEF Runs
  <1>6. QED
    BY <1>1, <1>2, <1>3, <1>4, <1>5, ConfigAssumption

\* A patch overlaid on the configuration before its run gives the run's.
LEMMA PatchIsDifference ==
    ASSUME NEW r \in Runs
    PROVE  Update(Before(r), r) = RunConfig[r]
  <1>1. Before(r) \in [Params -> Values] /\ RunConfig[r] \in [Params -> Values]
    BY ConfigTypes DEF Config
  <1>2. \A p \in Params : Update(Before(r), r)[p] = RunConfig[r][p]
    BY DEF Update, Patch
  <1>3. Update(Before(r), r) = [p \in Params |-> Update(Before(r), r)[p]]
    BY DEF Update
  <1>4. QED
    BY <1>1, <1>2, <1>3

-----------------------------------------------------------------------------
(* The chunks of the pool.                                                 *)

\* A chunk has at least one item.
LEMMA ChunkSizeType ==
    ASSUME NEW n \in Nat \ {0}
    PROVE  ChunkSize(n) \in Nat \ {0}
  <1> DEFINE c == Cardinality(Workers)
  <1>1. c \in Nat \ {0}
    BY WorkersAssumption, FS_CardinalityType, FS_EmptySet
  <1> HIDE DEF c
  <1>2. 4 * c \in Nat \ {0} /\ n + 4 * c - 1 \in Nat
    BY <1>1
  <1>3. 1 <= (n + 4 * c - 1) \div (4 * c)
    <2>1. 1 * (4 * c) <= n + 4 * c - 1
      BY <1>1
    <2>2. QED
      BY <1>2, <2>1, DivisionLargest
  <1>4. (n + 4 * c - 1) \div (4 * c) \in Nat
    BY <1>2, DivisionBounds
  <1>5. QED
    BY <1>3, <1>4 DEF ChunkSize, c

\* Where chunk i of the list s begins and ends.
FirstOf(s, i) == ChunkFirst(i, ChunkSize(Len(s)))
LastOf(s, i) == ChunkLast(i, ChunkSize(Len(s)), Len(s))

\* A list is cut in chunks that begin one after the other's end.
LEMMA ChunkItems ==
    ASSUME NEW s \in Seq(Runs), s # <<>>
    PROVE  /\ ChunksOf(s) \in Seq(Seq(Runs))
           /\ ChunkSize(Len(s)) \in Nat \ {0} /\ Len(s) \in Nat \ {0}
           /\ Len(ChunksOf(s)) \in Nat
           /\ Len(ChunksOf(s))
                = (Len(s) + ChunkSize(Len(s)) - 1) \div ChunkSize(Len(s))
           /\ \A i \in 1..Len(ChunksOf(s)) :
                 /\ FirstOf(s, i) \in 1..Len(s)
                 /\ LastOf(s, i) \in FirstOf(s, i)..Len(s)
                 /\ \A j \in 1..Len(ChunksOf(s)) :
                       i < j => LastOf(s, i) < FirstOf(s, j)
                 /\ ChunksOf(s)[i] \in Seq(Runs)
                 /\ Len(ChunksOf(s)[i]) = LastOf(s, i) - FirstOf(s, i) + 1
                 /\ \A k \in 1..Len(ChunksOf(s)[i]) :
                       /\ ChunksOf(s)[i][k] = s[FirstOf(s, i) + k - 1]
                       /\ FirstOf(s, i) + k - 1 \in FirstOf(s, i)..LastOf(s, i)
  <1> DEFINE n == Len(s)
             size == ChunkSize(n)
             count == (n + size - 1) \div size
             first(i) == FirstOf(s, i)
             last(i) == LastOf(s, i)
             c == ChunksOf(s)
  <1>1. n \in Nat \ {0} /\ s \in [1..n -> Runs]
    BY EmptySeq, LenProperties
  <1>2. size \in Nat \ {0}
    BY <1>1, ChunkSizeType
  <1>3. count \in Nat
    BY <1>1, <1>2, DivisionBounds
  <1>4. c = [i \in 1..count |-> SubSeq(s, first(i), last(i))]
    BY <1>1 DEF ChunksOf, ChunkFirst, ChunkLast, FirstOf, LastOf
  <1> HIDE DEF n, size, count, c
  <1>5. ASSUME NEW i \in 1..count
        PROVE  /\ first(i) \in 1..n /\ last(i) \in first(i)..n
               /\ \A j \in 1..count : i < j => last(i) < first(j)
    <2>1. i \in 1..((n + size - 1) \div size)
      BY DEF count
    <2>2. /\ first(i) \in 1..n /\ last(i) \in first(i)..n
          /\ \A j \in Int : i < j => last(i) < first(j)
      BY <1>1, <1>2, <2>1, ChunkBounds DEF FirstOf, LastOf, n, size
    <2>3. \A j \in 1..count : j \in Int
      BY <1>3
    <2>4. QED
      BY <2>2, <2>3
  <1>6. ASSUME NEW i \in 1..count
        PROVE  /\ c[i] \in Seq(Runs)
               /\ Len(c[i]) = last(i) - first(i) + 1
               /\ \A k \in 1..Len(c[i]) : /\ c[i][k] = s[first(i) + k - 1]
                                          /\ first(i) + k - 1 \in first(i)..last(i)
    <2> DEFINE f == first(i)
               l == last(i)
    <2>1. f \in Int /\ l \in Int /\ f <= l /\ 1 <= f /\ l <= n
      BY <1>1, <1>5
    <2>2. c[i] = SubSeq(s, f, l)
      BY <1>4
    <2> HIDE DEF f, l
    <2>3. \A k \in f..l : s[k] \in Runs
      BY <1>1, <2>1
    <2>4. /\ SubSeq(s, f, l) \in Seq(Runs)
          /\ Len(SubSeq(s, f, l)) = l - f + 1
          /\ \A k \in 1..(l - f + 1) : SubSeq(s, f, l)[k] = s[f + k - 1]
      BY <2>1, <2>3, SubSeqProperties
    <2>5. \A k \in 1..(l - f + 1) : f + k - 1 \in f..l
      BY <2>1
    <2>6. QED
      BY <2>2, <2>4, <2>5 DEF f, l
  <1>7. Len(c) = count /\ c \in Seq(Seq(Runs))
    <2>1. c \in [1..count -> Seq(Runs)]
      BY <1>4, <1>6
    <2>2. QED
      BY <1>3, <2>1, SeqDef, LenProperties
  <1>8. QED
    BY <1>1, <1>2, <1>3, <1>5, <1>6, <1>7 DEF n, size, count, c

\* Cutting a list of distinct runs puts each of them in one chunk, once.
LEMMA ChunksPartition ==
    ASSUME NEW s \in Seq(Runs), s # <<>>, Distinct(s)
    PROVE  /\ ChunksOf(s) \in Seq(Seq(Runs))
           /\ \A i \in 1..Len(ChunksOf(s)) : Distinct(ChunksOf(s)[i])
           /\ \A i, j \in 1..Len(ChunksOf(s)) : i # j =>
                 Elems(ChunksOf(s)[i]) \cap Elems(ChunksOf(s)[j]) = {}
           /\ \A r : r \in Elems(s) <=> \E i \in 1..Len(ChunksOf(s)) :
                                           r \in Elems(ChunksOf(s)[i])
  <1> DEFINE n == Len(s)
             first(i) == FirstOf(s, i)
             last(i) == LastOf(s, i)
             size == ChunkSize(n)
             c == ChunksOf(s)
             count == Len(c)
  <1>1. /\ n \in Nat \ {0} /\ size \in Nat \ {0} /\ count \in Nat
        /\ c \in Seq(Seq(Runs)) /\ count = (n + size - 1) \div size
    BY ChunkItems
  <1>2. ASSUME NEW i \in 1..count
        PROVE  /\ first(i) \in 1..n /\ last(i) \in first(i)..n
               /\ \A j \in 1..count : i < j => last(i) < first(j)
               /\ c[i] \in Seq(Runs)
               /\ Len(c[i]) = last(i) - first(i) + 1
               /\ \A k \in 1..Len(c[i]) : /\ c[i][k] = s[first(i) + k - 1]
                                          /\ first(i) + k - 1 \in first(i)..last(i)
    BY ChunkItems
  <1> HIDE DEF n, size, count, c
  <1>3. ASSUME NEW i \in 1..count
        PROVE  Elems(c[i]) = {s[k] : k \in first(i)..last(i)}
    <2>1. first(i) \in Int /\ last(i) \in Int
      BY <1>1, <1>2
    <2>2. \A k \in first(i)..last(i) :
             /\ k - first(i) + 1 \in 1..Len(c[i])
             /\ first(i) + (k - first(i) + 1) - 1 = k
      BY <1>2, <2>1
    <2>3. ASSUME NEW k \in first(i)..last(i)
          PROVE  s[k] \in Elems(c[i])
      <3>1. c[i][k - first(i) + 1] = s[k]
        <4> DEFINE j == k - first(i) + 1
        <4>1. j \in 1..Len(c[i]) /\ first(i) + j - 1 = k
          BY <2>2
        <4>2. c[i][j] = s[first(i) + j - 1]
          <5> HIDE DEF j
          <5>1. QED
            BY <1>2, <4>1
        <4>3. QED
          BY <4>1, <4>2
      <3>2. QED
        BY <2>2, <3>1 DEF Elems
    <2>4. ASSUME NEW x \in Elems(c[i])
          PROVE  \E k \in first(i)..last(i) : x = s[k]
      BY <1>2 DEF Elems
    <2>5. QED
      BY <2>3, <2>4
  <1>4. ASSUME NEW i \in 1..count
        PROVE  Distinct(c[i])
    <2> SUFFICES ASSUME NEW k \in 1..Len(c[i]), NEW l \in 1..Len(c[i]),
                        c[i][k] = c[i][l]
                 PROVE  k = l
      BY DEF Distinct
    <2>1. first(i) + k - 1 \in 1..n /\ first(i) + l - 1 \in 1..n
      <3>1. \A m \in first(i)..last(i) : m \in 1..n
        BY <1>1, <1>2
      <3>2. QED
        BY <1>2, <3>1
    <2>2. s[first(i) + k - 1] = s[first(i) + l - 1]
      BY <1>2
    <2>3. first(i) + k - 1 = first(i) + l - 1
      BY <2>1, <2>2 DEF Distinct, n
    <2>4. first(i) \in Int /\ k \in Int /\ l \in Int
      BY <1>1, <1>2
    <2>5. QED
      BY <2>3, <2>4
  <1>5. ASSUME NEW i \in 1..count, NEW j \in 1..count, i < j
         PROVE  Elems(c[i]) \cap Elems(c[j]) = {}
    <2>1. /\ Elems(c[i]) = {s[k] : k \in first(i)..last(i)}
          /\ Elems(c[j]) = {s[k] : k \in first(j)..last(j)}
      BY <1>3
    <2>2. ASSUME NEW k \in first(i)..last(i), NEW l \in first(j)..last(j)
          PROVE  s[k] # s[l]
      <3>1. /\ first(i) \in 1..n /\ last(i) \in first(i)..n
            /\ first(j) \in 1..n /\ last(j) \in first(j)..n
            /\ last(i) < first(j)
        BY <1>2, <1>5
      <3>2. k \in 1..n /\ l \in 1..n /\ k < l
        BY <1>1, <3>1
      <3>3. QED
        BY <3>2 DEF Distinct, n
    <2>3. QED
      BY <2>1, <2>2
  <1>6. \A i, j \in 1..count : i # j => Elems(c[i]) \cap Elems(c[j]) = {}
    <2>1. \A i, j \in 1..count : i # j => i < j \/ j < i
      BY <1>1
    <2>2. QED
      BY <1>5, <2>1
  <1>7. ASSUME NEW r
         PROVE  r \in Elems(s) <=> \E i \in 1..count : r \in Elems(c[i])
    <2>1. ASSUME NEW k \in 1..n, r = s[k]
          PROVE  \E i \in 1..count : r \in Elems(c[i])
      <3>1. PICK i \in 1..count : k \in first(i)..last(i)
        BY <1>1, ChunkOfItem DEF FirstOf, LastOf, n, size
      <3>2. QED
        BY <1>3, <2>1, <3>1
    <2>2. ASSUME NEW i \in 1..count, NEW k \in first(i)..last(i), r = s[k]
          PROVE  r \in Elems(s)
      <3>1. k \in 1..n
        BY <1>1, <1>2
      <3>2. QED
        BY <2>2, <3>1 DEF Elems, n
    <2>3. r \in Elems(s) <=> \E k \in 1..n : r = s[k]
      BY DEF Elems, n
    <2>4. ASSUME NEW i \in 1..count, r \in Elems(c[i])
          PROVE  r \in Elems(s)
      <3>1. PICK k \in first(i)..last(i) : r = s[k]
        <4>1. Elems(c[i]) = {s[k] : k \in first(i)..last(i)}
          BY <1>3
        <4>2. QED
          BY <2>4, <4>1
      <3>2. QED
        BY <2>2, <3>1
    <2>5. QED
      BY <2>1, <2>3, <2>4
  <1>8. QED
    BY <1>1, <1>4, <1>6, <1>7 DEF c, count

\* Cutting a list of consecutive numbers gives consecutive chunks of them.
LEMMA ChunksChained ==
    ASSUME NEW s \in Seq(Runs), s # <<>>, Consecutive(s, 0)
    PROVE  Chained(ChunksOf(s), 0)
  <1> DEFINE n == Len(s)
             size == ChunkSize(n)
             c == ChunksOf(s)
             count == Len(c)
  <1>1. n \in Nat \ {0} /\ size \in Nat \ {0} /\ count \in Nat
    BY ChunkItems
  <1>2. ASSUME NEW i \in 1..count
        PROVE  /\ FirstOf(s, i) \in 1..n /\ LastOf(s, i) \in FirstOf(s, i)..n
               /\ c[i] \in Seq(Runs)
               /\ Len(c[i]) = LastOf(s, i) - FirstOf(s, i) + 1
               /\ \A k \in 1..Len(c[i]) :
                     /\ c[i][k] = s[FirstOf(s, i) + k - 1]
                     /\ FirstOf(s, i) + k - 1 \in FirstOf(s, i)..LastOf(s, i)
    BY ChunkItems
  <1> HIDE DEF c, count, size
  <1>3. ASSUME NEW i \in 1..count
        PROVE  /\ Len(c[i]) \in Nat \ {0} /\ c[i][1] = FirstOf(s, i) - 1
               /\ c[i] # <<>> /\ Consecutive(c[i], c[i][1])
    <2> DEFINE f == FirstOf(s, i)
               l == LastOf(s, i)
    <2>1. f \in Int /\ l \in Int /\ 1 <= f /\ f <= l /\ l <= n
      BY <1>1, <1>2
    <2>2. /\ Len(c[i]) = l - f + 1
          /\ \A k \in 1..(l - f + 1) : c[i][k] = s[f + k - 1]
      BY <1>2
    <2> HIDE DEF f, l
    <2>3. ASSUME NEW k \in 1..(l - f + 1)
          PROVE  c[i][k] = f - 1 + k - 1
      <3>1. f + k - 1 \in 1..n /\ k \in Int
        BY <1>1, <2>1
      <3>2. s[f + k - 1] = 0 + (f + k - 1) - 1
        BY <3>1 DEF Consecutive
      <3>3. QED
        BY <2>1, <2>2, <3>1, <3>2
    <2>4. l - f + 1 \in Nat \ {0} /\ 1 \in 1..(l - f + 1)
      BY <2>1
    <2>5. c[i][1] = f - 1
      BY <2>1, <2>3, <2>4
    <2>6. Consecutive(c[i], c[i][1])
      BY <2>2, <2>3, <2>5 DEF Consecutive
    <2>7. c[i] # <<>>
      BY <2>2, <2>4
    <2>8. QED
      BY <2>2, <2>4, <2>5, <2>6, <2>7 DEF f
  <1>4. ASSUME NEW j \in 1..(count - 1)
        PROVE  c[j + 1][1] = c[j][1] + Len(c[j])
    <2>1. j \in 1..count /\ j + 1 \in 1..count /\ j \in Int
      BY <1>1
    <2>2. /\ c[j + 1][1] = FirstOf(s, j + 1) - 1
          /\ c[j][1] = FirstOf(s, j) - 1
          /\ Len(c[j]) = LastOf(s, j) - FirstOf(s, j) + 1
          /\ FirstOf(s, j) \in Int /\ LastOf(s, j) \in Int
          /\ FirstOf(s, j + 1) \in Int /\ FirstOf(s, j + 1) <= n
      BY <1>1, <1>2, <1>3, <2>1
    <2>3. LastOf(s, j) = FirstOf(s, j + 1) - 1
      <3>1. j * size \in Int /\ (j + 1) - 1 = j
        BY <1>1, <2>1
      <3>2. FirstOf(s, j + 1) = j * size + 1
        BY <3>1 DEF FirstOf, ChunkFirst, size, n
      <3>3. j * size < n
        BY <1>1, <2>2, <3>1, <3>2
      <3>4. LastOf(s, j) = j * size
        BY <3>3 DEF LastOf, ChunkLast, size, n
      <3>5. QED
        BY <3>1, <3>2, <3>4
    <2>4. QED
      BY <2>2, <2>3
  <1>5. ASSUME c # <<>>
        PROVE  c[1][1] = 0
    <2>1. count # 0
      BY <1>5, ChunkItems, EmptySeq DEF c, count
    <2>2. 1 \in 1..count
      BY <1>1, <2>1
    <2>3. FirstOf(s, 1) = 1
      BY <1>1 DEF FirstOf, ChunkFirst, size, n
    <2>4. QED
      BY <1>3, <2>2, <2>3
  <1>6. QED
    BY <1>3, <1>4, <1>5 DEF Chained, c, count

(***************************************************************************)
(* Types.                                                                  *)
(***************************************************************************)
\* Initially every variable has its type.
LEMMA TypeInit == Init => TypeOK
  <1> SUFFICES ASSUME Init PROVE TypeOK
    OBVIOUS
  <1>1. raw_data \in [Runs -> Config \cup {NoConfig}]
    BY ConfigTypes DEF Init
  <1>2. next_patch \in 0..RunCount
    BY RunCountAssumption DEF Init
  <1>3. worker \in [Workers -> Seq(Runs)] /\ full_config \in [Runs -> Config \cup {NoConfig}]
    BY DEF Init
  <1>4. gen_pc \in {"none", "check", "get", "pool", "done"} /\ program \in Programs
    BY DEF Init
  <1>5. run \in Runs /\ device \in Config /\ current_config \in Config
    BY ConfigTypes, ConfigAssumption DEF Init
  <1>6. /\ patch_queue \in Seq(Runs) /\ listed \in Seq(Runs)
        /\ chunks \in Seq(Seq(Runs)) /\ run_queue \in Seq(Runs)
        /\ acquired_data \in Seq(Runs)
    BY DEF Init
  <1>7. /\ patch_gen_done \in BOOLEAN /\ full_conf_gen_done \in BOOLEAN
        /\ daq_done \in BOOLEAN /\ stop \in BOOLEAN
    BY DEF Init
  <1>8. daq_pc \in {"connect", "check", "get", "measure", "done", "failed", "dead"}
    BY DEF Init
  <1>9. QED
    BY <1>1, <1>2, <1>3, <1>4, <1>5, <1>6, <1>7, <1>8 DEF TypeOK

\* The items of the queues are runs, and cutting the list gives tasks.
LEMMA QueueTypes ==
    ASSUME TypeOK
    PROVE  /\ next_patch < RunCount => /\ next_patch \in Runs
                                       /\ next_patch + 1 \in 0..RunCount
           /\ next_patch \in Nat /\ RunCount \in Nat
  BY RunCountAssumption DEF TypeOK, Runs

\* The threads that prepare the runs keep the types.
LEMMA PrepareType ==
    ASSUME TypeOK, Distinct(listed),
           PatchThread \/ GenThread \/ (\E w \in Workers : Worker(w))
    PROVE  TypeOK'
  <1> USE DEF vars, patchVars, genVars, queueVars, daqVars
  <1>1. CASE PutPatch
    <2>1. next_patch' \in 0..RunCount /\ patch_queue' \in Seq(Runs)
      BY <1>1, QueueTypes, AppendElems DEF PutPatch, TypeOK
    <2>2. QED
      BY <1>1, <2>1 DEF PutPatch, TypeOK
  <1>2. CASE PatchesDone
    BY <1>2 DEF PatchesDone, TypeOK
  <1>3. CASE GenCheck
    <2>1. chunks' \in Seq(Seq(Runs))
      <3>1. chunks \in Seq(Seq(Runs)) /\ listed \in Seq(Runs)
        BY DEF TypeOK
      <3>2. ChunksOf(listed) \in Seq(Seq(Runs))
        <4>1. CASE listed = <<>>
          <5>1. ChunksOf(listed) = <<>>
            BY <4>1 DEF ChunksOf
          <5>2. QED
            BY <5>1
        <4>2. CASE listed # <<>>
          BY <3>1, <4>2, ChunksPartition
        <4>3. QED
          BY <4>1, <4>2
      <3>3. QED
        BY <1>3, <3>1, <3>2 DEF GenCheck
    <2>2. gen_pc' \in {"get", "pool"}
      BY <1>3 DEF GenCheck
    <2>3. QED
      BY <1>3, <2>1, <2>2 DEF GenCheck, TypeOK
  <1>4. CASE GenGet
    <2>1. /\ Head(patch_queue) \in Runs
          /\ patch_queue' \in Seq(Runs)
          /\ listed' \in Seq(Runs)
      BY <1>4, HeadTailElems, AppendElems DEF GenGet, TypeOK
    <2>2. current_config' \in Config
      BY <1>4, <2>1, ConfigTypes DEF GenGet, TypeOK
    <2>3. QED
      BY <1>4, <2>1, <2>2 DEF GenGet, TypeOK
  <1>5. CASE PoolDone
    BY <1>5 DEF PoolDone, TypeOK
  <1>6. ASSUME NEW w \in Workers, TakeChunk(w)
        PROVE  TypeOK'
    <2>1. Head(chunks) \in Seq(Runs) /\ chunks' \in Seq(Seq(Runs))
      BY <1>6, HeadTailElems DEF TakeChunk, TypeOK
    <2>2. worker' \in [Workers -> Seq(Runs)]
      BY <1>6, <2>1 DEF TakeChunk, TypeOK
    <2>3. QED
      BY <1>6, <2>1, <2>2 DEF TakeChunk, TypeOK
  <1>7. ASSUME NEW w \in Workers, WriteOutFullConfig(w)
        PROVE  TypeOK'
    <2>1. worker[w] \in Seq(Runs) /\ worker[w] # <<>>
      BY <1>7 DEF WriteOutFullConfig, TypeOK
    <2>2. Head(worker[w]) \in Runs /\ Tail(worker[w]) \in Seq(Runs)
      BY <2>1, HeadTailElems
    <2>3. worker' \in [Workers -> Seq(Runs)]
      BY <1>7, <2>2 DEF WriteOutFullConfig, TypeOK
    <2>4. full_config' \in [Runs -> Config \cup {NoConfig}]
      BY <1>7, <2>2 DEF WriteOutFullConfig, TypeOK
    <2>5. run_queue' \in Seq(Runs)
      BY <1>7, <2>2, AppendElems DEF WriteOutFullConfig, TypeOK
    <2>6. QED
      BY <1>7, <2>3, <2>4, <2>5 DEF WriteOutFullConfig, TypeOK
  <1>8. QED
    BY <1>1, <1>2, <1>3, <1>4, <1>5, <1>6, <1>7
       DEF PatchThread, GenThread, Worker

\* So do the reader of acquire-data and the acquisition.
LEMMA AcquireType ==
    ASSUME TypeOK, MainThread \/ KeyboardInterrupt \/ DaqThread
    PROVE  TypeOK'
  <1> USE DEF vars, patchVars, genVars, queueVars, daqVars
  <1>1. CASE ReadPatch
    <2>1. next_patch' \in 0..RunCount /\ run_queue' \in Seq(Runs)
      BY <1>1, QueueTypes, AppendElems DEF ReadPatch, TypeOK
    <2>2. QED
      BY <1>1, <2>1 DEF ReadPatch, TypeOK
  <1>2. CASE AllPatchesRead
    BY <1>2 DEF AllPatchesRead, TypeOK
  <1>3. CASE KeyboardInterrupt
    BY <1>3 DEF KeyboardInterrupt, TypeOK
  <1>4. CASE Connect
    BY <1>4 DEF Connect, TypeOK
  <1>5. CASE DaqCheck
    BY <1>5 DEF DaqCheck, TypeOK
  <1>6. CASE DaqGet
    <2>1. run' \in Runs /\ run_queue' \in Seq(Runs)
      BY <1>6, HeadTailElems DEF DaqGet, TypeOK
    <2>2. QED
      BY <1>6, <2>1 DEF DaqGet, TypeOK
  <1>7. run \in Runs /\ Update(device, run) \in Config
    BY ConfigTypes DEF TypeOK
  <1>8. acquired_data' = Append(acquired_data, run) => acquired_data' \in Seq(Runs)
    BY <1>7, AppendElems DEF TypeOK
  <1>9. raw_data' = [raw_data EXCEPT ![run] = Update(device, run)]
          => raw_data' \in [Runs -> Config \cup {NoConfig}]
    BY <1>7 DEF TypeOK
  <1>10. CASE Measure
    <2>1. device' = Update(device, run)
          /\ raw_data' = [raw_data EXCEPT ![run] = Update(device, run)]
      BY <1>10 DEF Measure
    <2>2. QED
      BY <1>7, <1>8, <1>9, <1>10, <2>1 DEF Measure, TypeOK
  <1>11. CASE MeasureFails
    <2>1. device' \in Config
      BY <1>7, <1>11 DEF MeasureFails, TypeOK
    <2>2. raw_data' \in [Runs -> Config \cup {NoConfig}]
      BY <1>9, <1>11 DEF MeasureFails, TypeOK
    <2>3. QED
      BY <1>11, <2>1, <2>2 DEF MeasureFails, TypeOK
  <1>12. CASE Skip
    BY <1>7, <1>8, <1>12 DEF Skip, TypeOK
  <1>13. QED
    BY <1>1, <1>2, <1>3, <1>4, <1>5, <1>6, <1>10, <1>11, <1>12
       DEF MainThread, DaqThread

\* Nothing is changed by a stuttering step.
LEMMA StutterType ==
    ASSUME TypeOK, UNCHANGED vars
    PROVE  TypeOK'
  BY DEF vars, patchVars, genVars, queueVars, daqVars, TypeOK
(***************************************************************************)
(* Where the runs are.                                                     *)
(***************************************************************************)
InChunks == {r \in Runs : \E i \in 1..Len(chunks) : r \in Elems(chunks[i])}
InWorkers == {r \in Runs : \E w \in Workers : r \in Elems(worker[w])}
InHand == IF daq_pc \in {"measure", "failed"} THEN {run} ELSE {}
Passed == Elems(run_queue) \cup InHand \cup Elems(acquired_data)

\* The runs handed to the pool, or read from disk.
Expected == IF FromDisk THEN 0..(next_patch - 1)
            ELSE IF gen_pc \in {"check", "get"} THEN {} ELSE Runs

\* The patches come in the order of the runs.
PatchInv ==
    /\ ~FromDisk => /\ gen_pc # "none"
                    /\ next_patch = Len(listed) + Len(patch_queue)
                    /\ \A i \in 1..Len(listed) : listed[i] = i - 1
                    /\ \A i \in 1..Len(patch_queue) :
                          patch_queue[i] = Len(listed) + i - 1
    /\ patch_gen_done => next_patch = RunCount

\* The pool has work only between the end of the patches and its own, and
\* the event that it is done is true to its name.
PoolInv ==
    /\ FromDisk => gen_pc = "none" /\ listed = <<>>
    /\ gen_pc # "pool" => /\ chunks = <<>>
                          /\ \A w \in Workers : worker[w] = <<>>
    /\ full_conf_gen_done => \/ gen_pc = "done"
                             \/ FromDisk /\ next_patch = RunCount

\* No run is twice in one place ...
OnceInv ==
    /\ \A i \in 1..Len(chunks) : Distinct(chunks[i])
    /\ \A i, j \in 1..Len(chunks) :
          i # j => Elems(chunks[i]) \cap Elems(chunks[j]) = {}
    /\ \A w \in Workers : Distinct(worker[w])
    /\ \A v, w \in Workers :
          v # w => Elems(worker[v]) \cap Elems(worker[w]) = {}
    /\ Distinct(run_queue)
    /\ Distinct(acquired_data)

\* ... nor in two places, and every run expected is somewhere.
PlacesInv ==
    /\ InChunks \cap InWorkers = {}
    /\ (InChunks \cup InWorkers) \cap Passed = {}
    /\ Elems(run_queue) \cap InHand = {}
    /\ Elems(run_queue) \cap Elems(acquired_data) = {}
    /\ InHand \cap Elems(acquired_data) = {}
    /\ InChunks \cup InWorkers \cup Passed = Expected

\* Only the loop of acquire-data is interrupted.
StopInv == stop => FromDisk

\* The acquisition ends by itself only when the pool is done and the queue
\* empty; nothing is put in the queue after that.
EndInv == daq_pc = "done" /\ ~stop => full_conf_gen_done /\ run_queue = <<>>

\* A run passed on by the pool has its full configuration.
FilesInv == FromDisk \/ \A r \in Passed : full_config[r] # NoConfig

\* As long as all runs came in order, the target has the configuration of
\* the last one: the patch of the next is the difference to it.
TargetInv ==
    daq_pc # "failed" /\ InOrder(Len(acquired_data)) =>
        device = Before(Len(acquired_data))

FlowInv == /\ TypeOK /\ PatchInv /\ PoolInv /\ OnceInv /\ PlacesInv
           /\ StopInv /\ EndInv /\ FilesInv /\ TargetInv

\* The raw file of a run passed on is there: taken now, or kept.
RawInv ==
    /\ \A r \in Kept : raw_data[r] # NoConfig
    /\ \A r \in Elems(acquired_data) : raw_data[r] # NoConfig
    /\ MeasuredAsConfiguredInOrder

PipelineInv == FlowInv /\ RawInv
-----------------------------------------------------------------------------
\* Every part of the invariant holds initially.
LEMMA FlowInit == Init => FlowInv /\ RawInv
  <1> SUFFICES ASSUME Init PROVE FlowInv /\ RawInv
    OBVIOUS
  <1>1. TypeOK
    BY TypeInit
  <1>2. PatchInv
    BY DEF Init, PatchInv
  <1>3. PoolInv
    BY DEF Init, PoolInv
  <1>4. /\ chunks = <<>> /\ run_queue = <<>> /\ acquired_data = <<>>
        /\ \A w \in Workers : worker[w] = <<>>
    BY DEF Init
  <1>5. OnceInv
    BY <1>4, EmptyElems DEF OnceInv
  <1>6. InChunks = {} /\ InWorkers = {} /\ Passed = {} /\ InHand = {}
    <2>1. daq_pc = "connect"
      BY DEF Init
    <2>2. QED
      BY <1>4, <2>1, EmptyElems DEF InChunks, InWorkers, Passed, InHand
  <1>7. Expected = {}
    <2>1. next_patch = 0 /\ (FromDisk \/ gen_pc = "check")
      BY DEF Init
    <2>2. QED
      BY <2>1 DEF Expected
  <1>8. PlacesInv
    BY <1>4, <1>6, <1>7, EmptyElems DEF PlacesInv
  <1>9. StopInv /\ EndInv /\ FilesInv /\ TargetInv
    <2>1. stop = FALSE /\ daq_pc = "connect"
      BY DEF Init
    <2>2. device = Before(0) /\ Len(acquired_data) = 0
      BY <1>4 DEF Init, Before
    <2>3. QED
      BY <1>6, <2>1, <2>2 DEF StopInv, EndInv, FilesInv, TargetInv
  <1>10. \A r \in Kept : raw_data[r] # NoConfig
    BY ConfigTypes, KeptAssumption DEF Init
  <1>11. RawInv
    BY <1>4, <1>10, EmptyElems DEF RawInv, MeasuredAsConfiguredInOrder
  <1>12. QED
    BY <1>1, <1>2, <1>3, <1>5, <1>8, <1>9, <1>11 DEF FlowInv

-----------------------------------------------------------------------------
(* The patches and the pool.                                               *)

\* The generator lists no run twice.
LEMMA ListedDistinct ==
    ASSUME TypeOK, PatchInv, PoolInv
    PROVE  Distinct(listed)
  <1>1. CASE FromDisk
    BY <1>1, EmptyElems DEF PoolInv
  <1>2. CASE ~FromDisk
    <2>1. Len(listed) \in Nat
      BY LenProperties DEF TypeOK
    <2>2. \A i \in 1..Len(listed) : listed[i] = i - 1
      BY <1>2 DEF PatchInv
    <2>3. QED
      BY <2>1, <2>2 DEF Distinct
  <1>3. QED
    BY <1>1, <1>2

\* When the pool is started the generator has listed every run.
LEMMA ListedIsAll ==
    ASSUME TypeOK, PatchInv, ~FromDisk, patch_gen_done, patch_queue = <<>>
    PROVE  listed # <<>> /\ Elems(listed) = Runs
  <1>1. Len(listed) \in Nat /\ Len(patch_queue) = 0
    BY LenProperties DEF TypeOK
  <1>2. Len(listed) = RunCount
    BY <1>1 DEF PatchInv, TypeOK
  <1>3. \A i \in 1..RunCount : listed[i] = i - 1
    BY <1>2 DEF PatchInv
  <1>4. ASSUME NEW r \in Runs
        PROVE  r \in Elems(listed)
    <2>1. r + 1 \in 1..RunCount /\ (r + 1) - 1 = r
      BY RunCountAssumption DEF Runs
    <2>2. listed[r + 1] = r
      BY <1>3, <2>1
    <2>3. QED
      BY <1>2, <2>1, <2>2 DEF Elems
  <1>5. Elems(listed) \subseteq Runs
    BY ElemsType DEF TypeOK
  <1>6. QED
    BY <1>2, <1>4, <1>5, RunCountAssumption

\* The patches stay in order from the thread that writes them to the list.
LEMMA PatchStep ==
    ASSUME TypeOK, PatchInv, PoolInv, [Next]_vars
    PROVE  PatchInv'
  <1> USE DEF patchVars, genVars, queueVars, daqVars
  <1> DEFINE m == Len(listed)
             n == Len(patch_queue)
  <1>1. m \in Nat /\ n \in Nat /\ next_patch \in Nat /\ RunCount \in Nat
    BY LenProperties, RunCountAssumption DEF TypeOK
  <1>2. CASE PutPatch
    <2>1. /\ ~FromDisk /\ ~FromDisk' /\ gen_pc' = gen_pc
          /\ listed' = listed /\ next_patch' = next_patch + 1
          /\ patch_queue' = Append(patch_queue, next_patch)
          /\ patch_gen_done' = patch_gen_done /\ next_patch < RunCount
      BY <1>2 DEF PutPatch, FromDisk
    <2>2. ~patch_gen_done
      BY <1>1, <2>1 DEF PatchInv
    <2>3. /\ Len(patch_queue') = n + 1 /\ patch_queue'[n + 1] = next_patch
          /\ \A i \in 1..n : patch_queue'[i] = patch_queue[i]
      BY <2>1, AppendProperties DEF TypeOK
    <2>4. next_patch = m + n /\ \A i \in 1..n : patch_queue[i] = m + i - 1
      BY <2>1 DEF PatchInv
    <2>5. ASSUME NEW i \in 1..(n + 1)
          PROVE  patch_queue'[i] = m + i - 1
      <3>1. i \in 1..n \/ i = n + 1
        BY <1>1
      <3>2. QED
        BY <1>1, <2>3, <2>4, <3>1
    <2>6. next_patch + 1 = m + (n + 1)
      BY <1>1, <2>4
    <2>7. QED
      BY <2>1, <2>2, <2>3, <2>5, <2>6 DEF PatchInv
  <1>3. CASE PatchesDone
    BY <1>3 DEF PatchesDone, PatchInv, FromDisk
  <1>4. CASE GenCheck
    <2>1. UNCHANGED <<program, patchVars, listed>> /\ gen_pc' # "none"
      BY <1>4 DEF GenCheck
    <2>2. QED
      BY <2>1 DEF PatchInv, FromDisk
  <1>5. CASE GenGet
    <2>1. /\ FromDisk' = FromDisk /\ gen_pc' = "check"
          /\ next_patch' = next_patch /\ patch_gen_done' = patch_gen_done
          /\ patch_queue # <<>> /\ patch_queue' = Tail(patch_queue)
          /\ listed' = Append(listed, Head(patch_queue))
      BY <1>5 DEF GenGet, FromDisk
    <2>2. ~FromDisk
      BY <1>5 DEF GenGet, PoolInv
    <2>3. /\ Head(patch_queue) = patch_queue[1] /\ n \in Nat \ {0}
          /\ Head(patch_queue) \in Runs
          /\ Len(patch_queue') = n - 1
          /\ \A i \in 1..(n - 1) : patch_queue'[i] = patch_queue[i + 1]
      BY <2>1, HeadTailElems DEF TypeOK
    <2>4. /\ Len(listed') = m + 1 /\ listed'[m + 1] = Head(patch_queue)
          /\ \A i \in 1..m : listed'[i] = listed[i]
      BY <2>1, <2>3, AppendProperties DEF TypeOK
    <2>5. /\ next_patch = m + n
          /\ \A i \in 1..m : listed[i] = i - 1
          /\ \A i \in 1..n : patch_queue[i] = m + i - 1
      BY <2>2 DEF PatchInv
    <2>6. ASSUME NEW i \in 1..(m + 1)
          PROVE  listed'[i] = i - 1
      <3>1. i \in 1..m \/ i = m + 1
        BY <1>1
      <3>2. listed'[m + 1] = (m + 1) - 1
        BY <1>1, <2>3, <2>4, <2>5
      <3>3. QED
        BY <2>4, <2>5, <3>1, <3>2
    <2>7. ASSUME NEW i \in 1..(n - 1)
          PROVE  patch_queue'[i] = (m + 1) + i - 1
      <3>1. i + 1 \in 1..n /\ i \in Int
        BY <2>3
      <3>2. patch_queue'[i] = m + (i + 1) - 1
        BY <2>3, <2>5, <3>1
      <3>3. QED
        BY <1>1, <3>1, <3>2
    <2>8. next_patch = (m + 1) + (n - 1)
      BY <1>1, <2>3, <2>5
    <2>9. patch_gen_done => next_patch = RunCount
      BY DEF PatchInv
    <2>10. QED
      BY <2>1, <2>3, <2>4, <2>6, <2>7, <2>8, <2>9 DEF PatchInv
  <1>6. CASE PoolDone
    <2>1. UNCHANGED <<program, patchVars, listed>> /\ gen_pc' # "none"
      BY <1>6 DEF PoolDone
    <2>2. QED
      BY <2>1 DEF PatchInv, FromDisk
  <1>7. ASSUME NEW w \in Workers, Worker(w)
        PROVE  PatchInv'
    <2>1. UNCHANGED <<program, patchVars, listed, gen_pc>>
      BY <1>7 DEF Worker, TakeChunk, WriteOutFullConfig
    <2>2. QED
      BY <2>1 DEF PatchInv, FromDisk
  <1>8. CASE ReadPatch
    <2>1. FromDisk' /\ patch_gen_done' = patch_gen_done
          /\ next_patch' = next_patch + 1 /\ next_patch < RunCount
      BY <1>8 DEF ReadPatch, Reading, FromDisk
    <2>2. ~patch_gen_done
      BY <1>1, <2>1 DEF PatchInv
    <2>3. QED
      BY <2>1, <2>2 DEF PatchInv
  <1>9. CASE AllPatchesRead \/ KeyboardInterrupt \/ DaqThread \/ UNCHANGED vars
    <2>1. UNCHANGED <<program, patchVars, gen_pc, listed>>
      BY <1>9 DEF AllPatchesRead, KeyboardInterrupt, DaqThread, Connect,
                  DaqCheck, DaqGet, Measure, MeasureFails, Skip, vars
    <2>2. QED
      BY <2>1 DEF PatchInv, FromDisk
  <1>10. QED
    BY <1>2, <1>3, <1>4, <1>5, <1>6, <1>7, <1>8, <1>9
       DEF Next, PatchThread, GenThread, MainThread

\* The event of the pool is set once its tasks are taken and done.
LEMMA PoolStep ==
    ASSUME TypeOK, PatchInv, PoolInv, [Next]_vars
    PROVE  PoolInv'
  <1> USE DEF patchVars, genVars, queueVars, daqVars
  <1>1. CASE PutPatch
    <2>1. ~FromDisk
      BY <1>1 DEF PutPatch
    <2>2. QED
      BY <1>1, <2>1 DEF PutPatch, PoolInv, FromDisk
  <1>2. CASE PatchesDone
    BY <1>2 DEF PatchesDone, PoolInv, FromDisk
  <1>3. CASE GenCheck
    <2>1. ~FromDisk /\ ~FromDisk' /\ gen_pc = "check"
      BY <1>3 DEF GenCheck, PoolInv, FromDisk
    <2>2. ~full_conf_gen_done /\ ~full_conf_gen_done'
      BY <1>3, <2>1 DEF GenCheck, PoolInv
    <2>3. gen_pc' # "pool" => chunks' = chunks
      BY <1>3 DEF GenCheck
    <2>4. worker' = worker
      BY <1>3 DEF GenCheck
    <2>5. QED
      BY <2>1, <2>2, <2>3, <2>4 DEF PoolInv
  <1>4. CASE GenGet
    BY <1>4 DEF GenGet, PoolInv, FromDisk
  <1>5. CASE PoolDone
    BY <1>5 DEF PoolDone, PoolInv, FromDisk
  <1>6. ASSUME NEW w \in Workers, TakeChunk(w)
        PROVE  PoolInv'
    BY <1>6 DEF TakeChunk, PoolInv, FromDisk
  <1>7. ASSUME NEW w \in Workers, WriteOutFullConfig(w)
        PROVE  PoolInv'
    BY <1>7 DEF WriteOutFullConfig, PoolInv, FromDisk
  <1>8. CASE ReadPatch
    <2>1. FromDisk /\ FromDisk' /\ next_patch < RunCount
      BY <1>8 DEF ReadPatch, Reading, FromDisk
    <2>2. UNCHANGED <<gen_pc, listed, chunks, worker, full_conf_gen_done>>
      BY <1>8 DEF ReadPatch
    <2>3. ~full_conf_gen_done
      BY <2>1, QueueTypes DEF PoolInv
    <2>4. QED
      BY <2>1, <2>2, <2>3 DEF PoolInv
  <1>9. CASE AllPatchesRead
    BY <1>9 DEF AllPatchesRead, Reading, PoolInv, FromDisk
  <1>10. CASE KeyboardInterrupt \/ DaqThread \/ UNCHANGED vars
    <2>1. /\ UNCHANGED <<program, gen_pc, listed, chunks, worker>>
          /\ UNCHANGED <<full_conf_gen_done, next_patch>>
      BY <1>10 DEF KeyboardInterrupt, DaqThread, Connect,
                   DaqCheck, DaqGet, Measure, MeasureFails, Skip, vars
    <2>2. QED
      BY <2>1 DEF PoolInv, FromDisk
  <1>11. QED
    BY <1>1, <1>2, <1>3, <1>4, <1>5, <1>6, <1>7, <1>8, <1>9, <1>10
       DEF Next, PatchThread, GenThread, MainThread, Worker
-----------------------------------------------------------------------------
(* Where the runs are, move by move.                                       *)

\* The items of a task are runs, as are those of the queues.
LEMMA PlaceTypes ==
    ASSUME TypeOK
    PROVE  /\ \A i \in 1..Len(chunks) : /\ chunks[i] \in Seq(Runs)
                                        /\ Elems(chunks[i]) \subseteq Runs
           /\ \A w \in Workers : /\ worker[w] \in Seq(Runs)
                                 /\ Elems(worker[w]) \subseteq Runs
           /\ Elems(run_queue) \subseteq Runs
           /\ Elems(acquired_data) \subseteq Runs
           /\ run \in Runs
  <1>1. /\ chunks \in Seq(Seq(Runs)) /\ worker \in [Workers -> Seq(Runs)]
        /\ run_queue \in Seq(Runs) /\ acquired_data \in Seq(Runs) /\ run \in Runs
    BY DEF TypeOK
  <1>2. \A i \in 1..Len(chunks) : chunks[i] \in Seq(Runs)
    BY <1>1, LenProperties
  <1>3. \A w \in Workers : worker[w] \in Seq(Runs)
    BY <1>1
  <1>4. QED
    BY <1>1, <1>2, <1>3, ElemsType

\* A step that leaves the queues alone moves no run.
LEMMA NothingMoves ==
    ASSUME OnceInv, PlacesInv,
           UNCHANGED <<chunks, worker, run_queue, acquired_data>>,
           InHand' = InHand, Expected' = Expected
    PROVE  /\ OnceInv' /\ PlacesInv'
           /\ Passed' = Passed
  <1>1. OnceInv'
    BY DEF OnceInv
  <1>2. InChunks' = InChunks /\ InWorkers' = InWorkers /\ Passed' = Passed
    BY DEF InChunks, InWorkers, Passed
  <1>3. PlacesInv'
    BY <1>2 DEF PlacesInv
  <1>4. QED
    BY <1>1, <1>2, <1>3

\* The list is cut in chunks: every run is in the pool, and nowhere else.
LEMMA CutMove ==
    ASSUME TypeOK, PatchInv, PoolInv, OnceInv, PlacesInv,
           gen_pc = "check", patch_gen_done, patch_queue = <<>>,
           chunks' = ChunksOf(listed), gen_pc' = "pool", UNCHANGED program,
           UNCHANGED <<worker, run_queue, acquired_data, daq_pc, run>>
    PROVE  /\ OnceInv' /\ PlacesInv'
           /\ Passed' = Passed
  <1>1. ~FromDisk /\ ~FromDisk'
    BY DEF PoolInv, FromDisk
  <1>2. /\ listed # <<>> /\ Elems(listed) = Runs
        /\ Distinct(listed) /\ listed \in Seq(Runs)
    BY <1>1, ListedDistinct, ListedIsAll DEF TypeOK
  <1>3. /\ \A i \in 1..Len(chunks') : Distinct(chunks'[i])
        /\ \A i, j \in 1..Len(chunks') : i # j =>
               Elems(chunks'[i]) \cap Elems(chunks'[j]) = {}
        /\ \A r : r \in Runs <=> \E i \in 1..Len(chunks') : r \in Elems(chunks'[i])
    BY <1>2, ChunksPartition
  <1>4. OnceInv'
    BY <1>3 DEF OnceInv
  <1>5. InChunks' = Runs
    BY <1>3 DEF InChunks, Runs
  <1>6. InWorkers = {} /\ InWorkers' = {}
    <2>1. \A w \in Workers : worker[w] = <<>>
      BY DEF PoolInv
    <2>2. QED
      BY <2>1, EmptyElems DEF InWorkers
  <1>7. InHand' = InHand
    BY DEF InHand
  <1>8. Passed' = Passed
    BY <1>7 DEF Passed
  <1>9. Passed = {}
    BY <1>1 DEF PlacesInv, Expected
  <1>10. Expected' = Runs
    BY <1>1 DEF Expected, Runs
  <1>11. PlacesInv'
    BY <1>5, <1>6, <1>7, <1>8, <1>9, <1>10 DEF PlacesInv
  <1>12. QED
    BY <1>4, <1>8, <1>11

\* A worker takes a chunk: its runs go from the pool to the worker.
LEMMA TakeMove ==
    ASSUME TypeOK, OnceInv, PlacesInv, NEW w \in Workers, TakeChunk(w)
    PROVE  /\ OnceInv' /\ PlacesInv'
           /\ Passed' = Passed
  <1> DEFINE c == Head(chunks)
             n == Len(chunks)
  <1>1. /\ chunks # <<>> /\ chunks \in Seq(Seq(Runs)) /\ chunks' = Tail(chunks)
        /\ worker[w] = <<>> /\ worker \in [Workers -> Seq(Runs)]
        /\ worker' = [worker EXCEPT ![w] = c]
        /\ UNCHANGED <<run_queue, acquired_data, daq_pc, run, gen_pc, program,
                       next_patch>>
    BY DEF TakeChunk, TypeOK, patchVars, daqVars, queueVars
  <1>2. /\ n \in Nat \ {0} /\ c = chunks[1] /\ Len(chunks') = n - 1
        /\ \A i \in 1..(n - 1) : chunks'[i] = chunks[i + 1]
    BY <1>1, HeadTailElems
  <1>3. /\ 1 \in 1..n
        /\ \A i \in 1..(n - 1) : i + 1 \in 1..n /\ i + 1 # 1
        /\ \A i, j \in 1..(n - 1) : i # j => i + 1 # j + 1
        /\ \A i \in 1..n : i = 1 \/ (i - 1 \in 1..(n - 1) /\ (i - 1) + 1 = i)
    BY <1>2
  <1>4. Distinct(c) /\ \A i \in 1..(n - 1) : Elems(chunks'[i]) \cap Elems(c) = {}
    <2>1. /\ Distinct(chunks[1])
          /\ \A i \in 1..n : i # 1 => Elems(chunks[i]) \cap Elems(chunks[1]) = {}
      BY <1>3 DEF OnceInv
    <2>2. ASSUME NEW i \in 1..(n - 1)
          PROVE  Elems(chunks[i + 1]) \cap Elems(chunks[1]) = {}
      BY <1>3, <2>1
    <2>3. QED
      BY <1>2, <2>1, <2>2
  <1>5. worker'[w] = c /\ \A v \in Workers : v # w => worker'[v] = worker[v]
    BY <1>1
  <1>6. Elems(c) \subseteq InChunks
    <2>1. Elems(c) \subseteq Runs
      BY <1>2, <1>3, PlaceTypes
    <2>2. QED
      BY <1>2, <1>3, <2>1 DEF InChunks
  <1> HIDE DEF c, n
  <1>7. \A v \in Workers : Elems(worker[v]) \subseteq InWorkers
    BY PlaceTypes DEF InWorkers
  <1>8. OnceInv'
    <2>1. \A i \in 1..Len(chunks') : Distinct(chunks'[i])
      BY <1>2, <1>3 DEF OnceInv, n
    <2>2. ASSUME NEW i \in 1..(n - 1), NEW j \in 1..(n - 1), i # j
          PROVE  Elems(chunks'[i]) \cap Elems(chunks'[j]) = {}
      <3>1. /\ i + 1 \in 1..Len(chunks) /\ j + 1 \in 1..Len(chunks)
            /\ i + 1 # j + 1
        BY <1>3, <2>2 DEF n
      <3>2. Elems(chunks[i + 1]) \cap Elems(chunks[j + 1]) = {}
        BY <3>1 DEF OnceInv
      <3>3. QED
        BY <1>2, <3>2
    <2>3. \A v \in Workers : Distinct(worker'[v])
      BY <1>4, <1>5 DEF OnceInv
    <2>4. \A v \in Workers : Elems(worker[v]) \cap Elems(c) = {}
      BY <1>6, <1>7 DEF PlacesInv
    <2>5. ASSUME NEW u \in Workers, NEW v \in Workers, u # v
          PROVE  Elems(worker'[u]) \cap Elems(worker'[v]) = {}
      <3>1. Elems(worker[u]) \cap Elems(worker[v]) = {}
        BY <2>5 DEF OnceInv
      <3>2. QED
        BY <1>5, <2>4, <2>5, <3>1
    <2>6. Distinct(run_queue') /\ Distinct(acquired_data')
      BY <1>1 DEF OnceInv
    <2>7. QED
      BY <1>2, <2>1, <2>2, <2>3, <2>5, <2>6 DEF OnceInv
  <1>9. InChunks = InChunks' \cup Elems(c) /\ InChunks' \cap Elems(c) = {}
    <2>1. ASSUME NEW r \in InChunks
          PROVE  r \in InChunks' \cup Elems(c)
      <3>1. PICK i \in 1..n : r \in Elems(chunks[i])
        BY <2>1 DEF InChunks, n
      <3>2. CASE i = 1
        BY <1>2, <3>1, <3>2
      <3>3. CASE i # 1
        <4>1. i - 1 \in 1..(n - 1) /\ r \in Elems(chunks'[i - 1])
          BY <1>2, <1>3, <3>1, <3>3
        <4>2. QED
          BY <1>2, <2>1, <4>1 DEF InChunks, Runs
      <3>4. QED
        BY <3>2, <3>3
    <2>2. ASSUME NEW r \in InChunks'
          PROVE  r \in InChunks /\ r \notin Elems(c)
      <3>1. PICK i \in 1..(n - 1) : r \in Elems(chunks'[i])
        BY <1>2, <2>2 DEF InChunks, n
      <3>2. r \in Runs
        BY <2>2 DEF InChunks, Runs
      <3>3. i + 1 \in 1..Len(chunks) /\ r \in Elems(chunks[i + 1])
        BY <1>2, <1>3, <3>1 DEF n
      <3>4. QED
        BY <1>4, <3>1, <3>2, <3>3 DEF InChunks
    <2>3. QED
      BY <1>6, <2>1, <2>2
  <1>10. InWorkers' = InWorkers \cup Elems(c)
    <2>1. ASSUME NEW r \in InWorkers'
          PROVE  r \in InWorkers \cup Elems(c)
      <3>1. PICK v \in Workers : r \in Elems(worker'[v])
        BY <2>1 DEF InWorkers
      <3>2. QED
        BY <1>5, <1>7, <3>1
    <2>2. ASSUME NEW r \in InWorkers \cup Elems(c)
          PROVE  r \in InWorkers'
      <3>1. r \in Runs
        BY <1>6, <2>2 DEF InWorkers, InChunks
      <3>2. \E v \in Workers : r \in Elems(worker'[v])
        <4>1. CASE r \in Elems(c)
          BY <1>5, <4>1
        <4>2. CASE r \in InWorkers
          <5>1. PICK v \in Workers : r \in Elems(worker[v])
            BY <4>2 DEF InWorkers
          <5>2. v # w
            BY <1>1, <5>1, EmptyElems
          <5>3. QED
            BY <1>5, <5>1, <5>2
        <4>3. QED
          BY <2>2, <4>1, <4>2
      <3>3. QED
        BY <3>1, <3>2 DEF InWorkers, Runs
    <2>3. QED
      BY <2>1, <2>2
  <1>11. InHand' = InHand /\ Passed' = Passed /\ Expected' = Expected
    BY <1>1 DEF InHand, Passed, Expected, FromDisk, Runs
  <1>12. PlacesInv'
    BY <1>1, <1>9, <1>10, <1>11 DEF PlacesInv
  <1>13. QED
    BY <1>8, <1>11, <1>12
\* A worker has written a full configuration: the run goes to the queue.
LEMMA WriteMove ==
    ASSUME TypeOK, OnceInv, PlacesInv,
           NEW w \in Workers, WriteOutFullConfig(w)
    PROVE  /\ OnceInv' /\ PlacesInv'
           /\ Passed' = Passed \cup {Head(worker[w])}
           /\ Head(worker[w]) \in Runs
  <1> DEFINE r == Head(worker[w])
             t == Tail(worker[w])
  <1>1. /\ worker[w] # <<>> /\ worker[w] \in Seq(Runs)
        /\ worker \in [Workers -> Seq(Runs)]
        /\ worker' = [worker EXCEPT ![w] = t]
        /\ run_queue \in Seq(Runs) /\ run_queue' = Append(run_queue, r)
        /\ UNCHANGED <<chunks, acquired_data, daq_pc, run, gen_pc, program,
                       next_patch>>
    BY DEF WriteOutFullConfig, TypeOK, patchVars, daqVars
  <1>2. /\ r \in Runs /\ Elems(worker[w]) = {r} \cup Elems(t)
        /\ Distinct(t) /\ r \notin Elems(t)
    <2>1. Distinct(worker[w])
      BY DEF OnceInv
    <2>2. QED
      BY <1>1, <2>1, HeadTailElems
  <1>3. worker'[w] = t /\ \A v \in Workers : v # w => worker'[v] = worker[v]
    BY <1>1
  <1> HIDE DEF r, t
  <1>4. r \in InWorkers
    BY <1>2 DEF InWorkers
  <1>5. /\ r \notin Elems(run_queue) /\ r \notin InHand
        /\ r \notin Elems(acquired_data) /\ r \notin InChunks
    BY <1>4 DEF PlacesInv, Passed
  <1>6. /\ Elems(run_queue') = Elems(run_queue) \cup {r}
        /\ Distinct(run_queue')
    <2>1. Distinct(run_queue)
      BY DEF OnceInv
    <2>2. QED
      BY <1>1, <1>2, <1>5, <2>1, AppendElems
  <1>7. ASSUME NEW v \in Workers
        PROVE  /\ Elems(worker'[v]) \subseteq Elems(worker[v])
               /\ Distinct(worker'[v]) /\ r \notin Elems(worker'[v])
    <2>1. CASE v = w
      BY <1>2, <1>3, <2>1
    <2>2. CASE v # w
      <3>1. Distinct(worker[v]) /\ Elems(worker[v]) \cap Elems(worker[w]) = {}
        BY <2>2 DEF OnceInv
      <3>2. QED
        BY <1>2, <1>3, <2>2, <3>1
    <2>3. QED
      BY <2>1, <2>2
  <1>8. OnceInv'
    <2>1. ASSUME NEW u \in Workers, NEW v \in Workers, u # v
          PROVE  Elems(worker'[u]) \cap Elems(worker'[v]) = {}
      <3>1. Elems(worker[u]) \cap Elems(worker[v]) = {}
        BY <2>1 DEF OnceInv
      <3>2. QED
        BY <1>7, <3>1
    <2>2. Distinct(acquired_data') /\ UNCHANGED chunks
      BY <1>1 DEF OnceInv
    <2>3. QED
      BY <1>6, <1>7, <2>1, <2>2 DEF OnceInv
  <1>9. InWorkers = InWorkers' \cup {r} /\ r \notin InWorkers'
    <2>1. ASSUME NEW q \in InWorkers
          PROVE  q \in InWorkers' \cup {r}
      <3>1. PICK v \in Workers : q \in Elems(worker[v])
        BY <2>1 DEF InWorkers
      <3>2. q = r \/ q \in Elems(worker'[v])
        BY <1>2, <1>3, <3>1
      <3>3. QED
        BY <2>1, <3>2 DEF InWorkers, Runs
    <2>2. ASSUME NEW q \in InWorkers'
          PROVE  q \in InWorkers /\ q # r
      <3>1. PICK v \in Workers : q \in Elems(worker'[v])
        BY <2>2 DEF InWorkers
      <3>2. q \in Elems(worker[v]) /\ q # r
        BY <1>7, <3>1
      <3>3. QED
        BY <2>2, <3>2 DEF InWorkers, Runs
    <2>3. QED
      BY <1>4, <2>1, <2>2
  <1>10. InHand' = InHand /\ InChunks' = InChunks /\ Expected' = Expected
    BY <1>1 DEF InHand, InChunks, Expected, FromDisk, Runs
  <1>11. Passed' = Passed \cup {r}
    BY <1>1, <1>6, <1>10 DEF Passed
  <1>12. PlacesInv'
    <2>1. /\ (InChunks' \cup InWorkers') \cap Passed' = {}
          /\ InChunks' \cap InWorkers' = {}
          /\ InChunks' \cup InWorkers' \cup Passed' = Expected'
      BY <1>5, <1>9, <1>10, <1>11 DEF PlacesInv
    <2>2. /\ Elems(run_queue') \cap InHand' = {}
          /\ Elems(run_queue') \cap Elems(acquired_data') = {}
          /\ InHand' \cap Elems(acquired_data') = {}
      BY <1>1, <1>5, <1>6, <1>10 DEF PlacesInv
    <2>3. QED
      BY <2>1, <2>2 DEF PlacesInv
  <1>13. QED
    BY <1>2, <1>8, <1>11, <1>12 DEF r

\* The reader of acquire-data puts the next run, one not seen before.
LEMMA ReadMove ==
    ASSUME TypeOK, OnceInv, PlacesInv, ReadPatch
    PROVE  /\ OnceInv' /\ PlacesInv'
           /\ Passed' = Passed \cup {next_patch}
  <1> DEFINE r == next_patch
  <1>1. /\ FromDisk /\ FromDisk' /\ r < RunCount /\ next_patch' = r + 1
        /\ run_queue \in Seq(Runs) /\ run_queue' = Append(run_queue, r)
        /\ UNCHANGED <<chunks, worker, acquired_data, daq_pc, run>>
    BY DEF ReadPatch, Reading, FromDisk, TypeOK, patchVars, genVars, daqVars
  <1>2. r \in Runs /\ r \in Nat /\ r \notin 0..(r - 1) /\ 0..((r + 1) - 1) = 0..(r - 1) \cup {r}
    BY <1>1, QueueTypes
  <1>3. Expected = 0..(r - 1) /\ Expected' = Expected \cup {r}
    BY <1>1, <1>2 DEF Expected
  <1>4. r \notin InChunks \cup InWorkers \cup Passed
    BY <1>2, <1>3 DEF PlacesInv
  <1>5. r \notin Elems(run_queue) /\ r \notin InHand /\ r \notin Elems(acquired_data)
    BY <1>4 DEF Passed
  <1>6. Elems(run_queue') = Elems(run_queue) \cup {r} /\ Distinct(run_queue')
    <2>1. Distinct(run_queue)
      BY DEF OnceInv
    <2>2. QED
      BY <1>1, <1>2, <1>5, <2>1, AppendElems
  <1> HIDE DEF r
  <1>7. OnceInv'
    BY <1>1, <1>6 DEF OnceInv
  <1>8. /\ InHand' = InHand /\ InChunks' = InChunks /\ InWorkers' = InWorkers
        /\ Passed' = Passed \cup {r}
    BY <1>1, <1>6 DEF InHand, InChunks, InWorkers, Passed
  <1>9. PlacesInv'
    <2>1. /\ (InChunks' \cup InWorkers') \cap Passed' = {}
          /\ InChunks' \cap InWorkers' = {}
          /\ InChunks' \cup InWorkers' \cup Passed' = Expected'
      BY <1>3, <1>4, <1>8 DEF PlacesInv
    <2>2. /\ Elems(run_queue') \cap InHand' = {}
          /\ Elems(run_queue') \cap Elems(acquired_data') = {}
          /\ InHand' \cap Elems(acquired_data') = {}
      BY <1>1, <1>5, <1>6, <1>8 DEF PlacesInv
    <2>3. QED
      BY <2>1, <2>2 DEF PlacesInv
  <1>10. QED
    BY <1>7, <1>8, <1>9 DEF r

\* The acquisition takes the run at the head of the queue.
LEMMA GetMove ==
    ASSUME TypeOK, OnceInv, PlacesInv, DaqGet
    PROVE  /\ OnceInv' /\ PlacesInv'
           /\ Passed' = Passed
  <1> DEFINE r == Head(run_queue)
  <1>1. /\ run_queue # <<>> /\ run_queue \in Seq(Runs)
        /\ run' = r /\ run_queue' = Tail(run_queue)
        /\ daq_pc = "get" /\ daq_pc' = "measure"
        /\ UNCHANGED <<chunks, worker, acquired_data, gen_pc, program, next_patch>>
    BY DEF DaqGet, TypeOK, patchVars, genVars
  <1>2. /\ Elems(run_queue) = {r} \cup Elems(run_queue')
        /\ Distinct(run_queue') /\ r \notin Elems(run_queue')
    <2>1. Distinct(run_queue)
      BY DEF OnceInv
    <2>2. QED
      BY <1>1, <2>1, HeadTailElems
  <1> HIDE DEF r
  <1>3. InHand = {} /\ InHand' = {r}
    BY <1>1 DEF InHand
  <1>4. OnceInv'
    BY <1>1, <1>2 DEF OnceInv
  <1>5. /\ InChunks' = InChunks /\ InWorkers' = InWorkers /\ Expected' = Expected
    BY <1>1 DEF InChunks, InWorkers, Expected, FromDisk
  <1>6. Passed' = Passed
    BY <1>1, <1>2, <1>3 DEF Passed
  <1>7. PlacesInv'
    BY <1>1, <1>2, <1>3, <1>5, <1>6 DEF PlacesInv
  <1>8. QED
    BY <1>4, <1>6, <1>7

\* The run measured, or skipped, is passed on.
LEMMA PassMove ==
    ASSUME TypeOK, OnceInv, PlacesInv, Measure \/ Skip
    PROVE  /\ OnceInv' /\ PlacesInv'
           /\ Passed' = Passed
           /\ run \notin Elems(acquired_data)
           /\ Elems(acquired_data') = Elems(acquired_data) \cup {run}
  <1>1. /\ daq_pc = "measure" /\ daq_pc' = "check"
        /\ acquired_data \in Seq(Runs) /\ run \in Runs
        /\ acquired_data' = Append(acquired_data, run)
        /\ UNCHANGED <<chunks, worker, run_queue, run, gen_pc, program, next_patch>>
    BY DEF Measure, Skip, TypeOK, patchVars, genVars, queueVars
  <1>2. InHand = {run} /\ InHand' = {}
    BY <1>1 DEF InHand
  <1>3. run \notin Elems(acquired_data) /\ run \notin Elems(run_queue)
    BY <1>2 DEF PlacesInv
  <1>4. /\ Elems(acquired_data') = Elems(acquired_data) \cup {run}
        /\ Distinct(acquired_data')
    <2>1. Distinct(acquired_data)
      BY DEF OnceInv
    <2>2. QED
      BY <1>1, <1>3, <2>1, AppendElems
  <1>5. OnceInv'
    BY <1>1, <1>4 DEF OnceInv
  <1>6. /\ InChunks' = InChunks /\ InWorkers' = InWorkers /\ Expected' = Expected
    BY <1>1 DEF InChunks, InWorkers, Expected, FromDisk
  <1>7. Passed' = Passed
    BY <1>1, <1>2, <1>4 DEF Passed
  <1>8. PlacesInv'
    BY <1>1, <1>2, <1>3, <1>4, <1>6, <1>7 DEF PlacesInv
  <1>9. QED
    BY <1>3, <1>4, <1>5, <1>7, <1>8
-----------------------------------------------------------------------------
(* Every step keeps the invariant.                                         *)

\* No step loses a run, passes it on twice, or passes it on without its file.
LEMMA PlacesStep ==
    ASSUME FlowInv, [Next]_vars
    PROVE  OnceInv' /\ PlacesInv' /\ FilesInv'
  <1> USE DEF FlowInv
  <1> USE DEF patchVars, genVars, queueVars, daqVars
  <1>1. ASSUME UNCHANGED <<chunks, worker, run_queue, acquired_data>>,
               InHand' = InHand, Expected' = Expected,
               UNCHANGED <<program, full_config>>
        PROVE  OnceInv' /\ PlacesInv' /\ FilesInv'
    BY <1>1, NothingMoves DEF FilesInv, FromDisk
  <1>2. CASE PutPatch
    BY <1>1, <1>2 DEF PutPatch, InHand, Expected, FromDisk, Runs
  <1>3. CASE PatchesDone
    BY <1>1, <1>3 DEF PatchesDone, InHand, Expected, FromDisk, Runs
  <1>4. CASE GenCheck
    <2>1. CASE ~patch_gen_done \/ patch_queue # <<>>
      <3>1. UNCHANGED <<chunks, worker, run_queue, acquired_data, program,
                        full_config, next_patch, daq_pc, run>>
        BY <1>4, <2>1 DEF GenCheck
      <3>2. gen_pc = "check" /\ gen_pc' = "get"
        BY <1>4, <2>1 DEF GenCheck
      <3>3. QED
        BY <1>1, <3>1, <3>2 DEF InHand, Expected, FromDisk, Runs
    <2>2. CASE patch_gen_done /\ patch_queue = <<>>
      <3>1. UNCHANGED <<worker, run_queue, acquired_data, program,
                        full_config, daq_pc, run>>
        BY <1>4 DEF GenCheck
      <3>2. gen_pc = "check" /\ gen_pc' = "pool" /\ chunks' = ChunksOf(listed)
        BY <1>4, <2>2 DEF GenCheck
      <3>3. QED
        BY <2>2, <3>1, <3>2, CutMove DEF FilesInv, FromDisk
    <2>3. QED
      BY <2>1, <2>2 DEF TypeOK
  <1>5. CASE GenGet
    BY <1>1, <1>5 DEF GenGet, InHand, Expected, FromDisk, Runs
  <1>6. CASE PoolDone
    BY <1>1, <1>6 DEF PoolDone, InHand, Expected, FromDisk, Runs
  <1>7. ASSUME NEW w \in Workers, TakeChunk(w)
        PROVE  OnceInv' /\ PlacesInv' /\ FilesInv'
    <2>1. UNCHANGED <<program, full_config>>
      BY <1>7 DEF TakeChunk
    <2>2. QED
      BY <1>7, <2>1, TakeMove DEF FilesInv, FromDisk
  <1>8. ASSUME NEW w \in Workers, WriteOutFullConfig(w)
        PROVE  OnceInv' /\ PlacesInv' /\ FilesInv'
    <2> DEFINE r == Head(worker[w])
    <2>1. /\ OnceInv' /\ PlacesInv'
          /\ Passed' = Passed \cup {r} /\ r \in Runs
      BY <1>8, WriteMove
    <2>2. /\ full_config' = [full_config EXCEPT ![r] = current_config]
          /\ UNCHANGED program
      BY <1>8 DEF WriteOutFullConfig
    <2> HIDE DEF r
    <2>3. /\ full_config \in [Runs -> Config \cup {NoConfig}]
          /\ current_config # NoConfig
      BY ConfigTypes DEF TypeOK
    <2>4. \A q \in Runs : full_config'[q] = IF q = r THEN current_config ELSE full_config[q]
      BY <2>2, <2>3
    <2>5. Passed \subseteq Runs
      BY PlaceTypes DEF Passed, InHand
    <2>6. FilesInv'
      BY <2>1, <2>2, <2>3, <2>4, <2>5 DEF FilesInv, FromDisk
    <2>7. QED
      BY <2>1, <2>6
  <1>9. CASE ReadPatch
    <2>1. FromDisk'
      BY <1>9 DEF ReadPatch, Reading, FromDisk
    <2>2. QED
      BY <1>9, <2>1, ReadMove DEF FilesInv
  <1>10. CASE AllPatchesRead
    BY <1>1, <1>10 DEF AllPatchesRead, InHand, Expected, FromDisk, Runs
  <1>11. CASE KeyboardInterrupt
    BY <1>1, <1>11 DEF KeyboardInterrupt, InHand, Expected, FromDisk, Runs
  <1>12. CASE Connect
    BY <1>1, <1>12 DEF Connect, InHand, Expected, FromDisk, Runs
  <1>13. CASE DaqCheck
    BY <1>1, <1>13 DEF DaqCheck, InHand, Expected, FromDisk, Runs
  <1>14. CASE DaqGet
    <2>1. UNCHANGED <<program, full_config>>
      BY <1>14 DEF DaqGet
    <2>2. QED
      BY <1>14, <2>1, GetMove DEF FilesInv, FromDisk
  <1>15. CASE Measure \/ Skip
    <2>1. UNCHANGED <<program, full_config>>
      BY <1>15 DEF Measure, Skip
    <2>2. QED
      BY <1>15, <2>1, PassMove DEF FilesInv, FromDisk
  <1>16. CASE MeasureFails
    BY <1>1, <1>16 DEF MeasureFails, InHand, Expected, FromDisk, Runs
  <1>17. CASE UNCHANGED vars
    BY <1>1, <1>17 DEF vars, InHand, Expected, FromDisk, Runs
  <1>18. QED
    BY <1>2, <1>3, <1>4, <1>5, <1>6, <1>7, <1>8, <1>9, <1>10, <1>11, <1>12,
       <1>13, <1>14, <1>15, <1>16, <1>17
       DEF Next, PatchThread, GenThread, Worker, MainThread, DaqThread

\* Nothing is put in the queue once its producer has said that it is done.
LEMMA EndStep ==
    ASSUME FlowInv, [Next]_vars
    PROVE  StopInv' /\ EndInv'
  <1> USE DEF FlowInv
  <1> USE DEF patchVars, genVars, queueVars, daqVars
  <1>1. CASE PatchThread \/ GenThread \/ UNCHANGED vars
    <2>1. /\ UNCHANGED <<program, stop, daq_pc, run_queue>>
          /\ full_conf_gen_done => full_conf_gen_done'
      BY <1>1 DEF PatchThread, GenThread, PutPatch, PatchesDone, GenCheck,
                  GenGet, PoolDone, vars
    <2>2. QED
      BY <2>1 DEF StopInv, EndInv, FromDisk
  <1>2. ASSUME NEW w \in Workers, TakeChunk(w)
        PROVE  StopInv' /\ EndInv'
    <2>1. UNCHANGED <<program, stop, daq_pc, run_queue, full_conf_gen_done>>
      BY <1>2 DEF TakeChunk
    <2>2. QED
      BY <2>1 DEF StopInv, EndInv, FromDisk
  <1>3. ASSUME NEW w \in Workers, WriteOutFullConfig(w)
        PROVE  StopInv' /\ EndInv'
    <2>1. UNCHANGED <<program, stop, daq_pc>> /\ worker[w] # <<>>
      BY <1>3 DEF WriteOutFullConfig
    <2>2. gen_pc = "pool" /\ ~full_conf_gen_done
      BY <2>1 DEF PoolInv
    <2>3. QED
      BY <2>1, <2>2 DEF StopInv, EndInv, FromDisk
  <1>4. CASE ReadPatch
    <2>1. UNCHANGED <<program, stop, daq_pc>> /\ FromDisk /\ next_patch < RunCount
      BY <1>4 DEF ReadPatch, Reading
    <2>2. ~full_conf_gen_done
      BY <2>1, QueueTypes DEF PoolInv
    <2>3. QED
      BY <2>1, <2>2 DEF StopInv, EndInv, FromDisk
  <1>5. CASE AllPatchesRead
    BY <1>5 DEF AllPatchesRead, StopInv, EndInv, FromDisk
  <1>6. CASE KeyboardInterrupt
    BY <1>6 DEF KeyboardInterrupt, Reading, StopInv, EndInv, FromDisk
  <1>7. CASE DaqCheck
    BY <1>7 DEF DaqCheck, StopInv, EndInv, FromDisk
  <1>8. CASE Connect \/ DaqGet \/ Measure \/ MeasureFails \/ Skip
    <2>1. UNCHANGED <<program, stop>> /\ daq_pc' # "done"
      BY <1>8 DEF Connect, DaqGet, Measure, MeasureFails, Skip
    <2>2. QED
      BY <2>1 DEF StopInv, EndInv, FromDisk
  <1>9. QED
    BY <1>1, <1>2, <1>3, <1>4, <1>5, <1>6, <1>7, <1>8
       DEF Next, MainThread, DaqThread, Worker

\* Appending a run keeps those before it.
LEMMA OrderOfMore ==
    ASSUME TypeOK, NEW r \in Runs, acquired_data' = Append(acquired_data, r)
    PROVE  /\ Len(acquired_data) \in Nat
           /\ Len(acquired_data') = Len(acquired_data) + 1
           /\ \A k \in 1..Len(acquired_data) : acquired_data'[k] = acquired_data[k]
           /\ \A k \in 0..Len(acquired_data) : InOrder(k)' <=> InOrder(k)
           /\ InOrder(Len(acquired_data))' => /\ InOrder(Len(acquired_data))
                                              /\ r = Len(acquired_data)
                                              /\ r \notin Kept
  <1> DEFINE n == Len(acquired_data)
  <1>1. /\ n \in Nat /\ Len(acquired_data') = n + 1
        /\ acquired_data'[n + 1] = r
        /\ \A k \in 1..n : acquired_data'[k] = acquired_data[k]
    BY AppendProperties, LenProperties DEF TypeOK
  <1> HIDE DEF n
  <1>2. ASSUME NEW k \in 0..n
        PROVE  InOrder(k)' <=> InOrder(k)
    <2>1. \A i \in 1..k : i \in 1..n
      BY <1>1
    <2>2. QED
      BY <1>1, <2>1 DEF InOrder
  <1>3. ASSUME \A i \in 1..(n + 1) : acquired_data'[i] = i - 1 /\ i - 1 \notin Kept
        PROVE  InOrder(n) /\ r = n /\ r \notin Kept
    <2>1. n + 1 \in 1..(n + 1) /\ (n + 1) - 1 = n /\ \A i \in 1..n : i \in 1..(n + 1)
      BY <1>1
    <2>2. r = n /\ r \notin Kept
      BY <1>1, <1>3, <2>1
    <2>3. InOrder(n)
      BY <1>1, <1>3, <2>1 DEF InOrder
    <2>4. QED
      BY <2>2, <2>3
  <1>4. InOrder(Len(acquired_data))' => InOrder(n) /\ r = n /\ r \notin Kept
    BY <1>1, <1>3 DEF InOrder
  <1>5. QED
    BY <1>1, <1>2, <1>4 DEF n

\* A run measured in its turn is measured with its configuration.
LEMMA TargetStep ==
    ASSUME FlowInv, [Next]_vars
    PROVE  TargetInv'
  <1> USE DEF FlowInv
  <1> USE DEF patchVars, genVars, queueVars, daqVars
  <1>1. ASSUME UNCHANGED <<device, acquired_data>>,
               daq_pc' = "failed" \/ daq_pc # "failed" \/ daq_pc' = daq_pc
        PROVE  TargetInv'
    BY <1>1 DEF TargetInv, InOrder
  <1>2. CASE PatchThread \/ GenThread \/ MainThread \/ KeyboardInterrupt
             \/ (\E w \in Workers : Worker(w)) \/ UNCHANGED vars
    <2>1. UNCHANGED <<device, acquired_data, daq_pc>>
      BY <1>2 DEF PatchThread, GenThread, MainThread, Worker, PutPatch,
                  PatchesDone, GenCheck, GenGet, PoolDone, TakeChunk,
                  WriteOutFullConfig, ReadPatch, AllPatchesRead,
                  KeyboardInterrupt, vars
    <2>2. QED
      BY <1>1, <2>1
  <1>3. CASE Connect \/ DaqCheck \/ DaqGet
    <2>1. UNCHANGED <<device, acquired_data>> /\ daq_pc # "failed"
      BY <1>3 DEF Connect, DaqCheck, DaqGet
    <2>2. QED
      BY <1>1, <2>1
  <1>4. CASE MeasureFails
    BY <1>4 DEF MeasureFails, TargetInv
  <1>5. CASE Measure
    <2> DEFINE n == Len(acquired_data)
    <2>1. /\ daq_pc # "failed" /\ run \in Runs
          /\ acquired_data' = Append(acquired_data, run)
          /\ device' = Update(device, run)
      BY <1>5 DEF Measure, TypeOK
    <2>2. n \in Nat /\ Len(acquired_data') = n + 1
      BY <2>1, OrderOfMore
    <2>3. ASSUME InOrder(Len(acquired_data))'
          PROVE  device' = Before(n + 1)
      <3>1. InOrder(n) /\ run = n
        BY <2>1, <2>3, OrderOfMore
      <3>2. device = Before(run)
        BY <2>1, <3>1 DEF TargetInv
      <3>3. device' = RunConfig[run]
        BY <2>1, <3>2, PatchIsDifference
      <3>4. Before(n + 1) = RunConfig[n]
        BY <2>2 DEF Before
      <3>5. QED
        BY <3>1, <3>3, <3>4
    <2>4. QED
      BY <2>2, <2>3 DEF TargetInv
  <1>6. CASE Skip
    <2>1. /\ run \in Runs /\ run \in Kept
          /\ acquired_data' = Append(acquired_data, run)
      BY <1>6 DEF Skip, TypeOK
    <2>2. ~InOrder(Len(acquired_data))'
      BY <2>1, OrderOfMore
    <2>3. QED
      BY <2>2 DEF TargetInv
  <1>7. QED
    BY <1>2, <1>3, <1>4, <1>5, <1>6 DEF Next, DaqThread
\* The raw file of an acquired run is never written again.
LEMMA RawStep ==
    ASSUME FlowInv, RawInv, [Next]_vars
    PROVE  RawInv'
  <1> USE DEF FlowInv
  <1> USE DEF patchVars, genVars, queueVars, daqVars
  <1>1. CASE UNCHANGED <<raw_data, acquired_data>>
    BY <1>1 DEF RawInv, MeasuredAsConfiguredInOrder, InOrder
  <1>2. CASE ~UNCHANGED <<raw_data, acquired_data>>
    <2> DEFINE n == Len(acquired_data)
    <2>1. Measure \/ MeasureFails \/ Skip
      BY <1>2 DEF Next, PatchThread, GenThread, MainThread, Worker, DaqThread,
                  PutPatch, PatchesDone, GenCheck, GenGet, PoolDone, TakeChunk,
                  WriteOutFullConfig, ReadPatch, AllPatchesRead,
                  KeyboardInterrupt, Connect, DaqCheck, DaqGet, vars
    <2>2. /\ run \in Runs /\ run \notin Elems(acquired_data)
          /\ Update(device, run) \in Config /\ Update(device, run) # NoConfig
          /\ raw_data \in [Runs -> Config \cup {NoConfig}]
      <3>1. daq_pc = "measure"
        BY <2>1 DEF Measure, MeasureFails, Skip
      <3>2. InHand = {run}
        BY <3>1 DEF InHand
      <3>3. QED
        BY <3>2, ConfigTypes DEF TypeOK, PlacesInv
    <2>3. \/ UNCHANGED raw_data
          \/ raw_data' = [raw_data EXCEPT ![run] = Update(device, run)]
      BY <2>1 DEF Measure, MeasureFails, Skip
    <2>4. /\ \A r \in Runs : r # run => raw_data'[r] = raw_data[r]
          /\ raw_data'[run] \in {raw_data[run], Update(device, run)}
      BY <2>2, <2>3
    <2>5. \A r \in Kept : raw_data'[r] # NoConfig
      <3>1. \A r \in Kept : r \in Runs /\ raw_data[r] # NoConfig
        BY KeptAssumption DEF RawInv
      <3>2. QED
        BY <2>2, <2>4, <3>1
    <2>6. \A r \in Elems(acquired_data) : raw_data'[r] = raw_data[r]
      BY <2>2, <2>4, PlaceTypes
    <2>7. ASSUME NEW k \in 1..n, InOrder(k)
          PROVE  raw_data'[k - 1] = RunConfig[k - 1]
      <3>1. n \in Nat
        BY LenProperties DEF TypeOK
      <3>2. k \in 1..k
        BY <3>1
      <3>3. acquired_data[k] = k - 1
        BY <2>7, <3>2 DEF InOrder
      <3>4. k - 1 \in Elems(acquired_data)
        BY <3>3 DEF Elems
      <3>5. raw_data[k - 1] = RunConfig[k - 1]
        BY <2>7 DEF RawInv, MeasuredAsConfiguredInOrder
      <3>6. QED
        BY <2>6, <3>4, <3>5
    <2>8. CASE MeasureFails
      <3>1. acquired_data' = acquired_data
        BY <2>8 DEF MeasureFails
      <3>2. MeasuredAsConfiguredInOrder'
        BY <2>7, <3>1 DEF MeasuredAsConfiguredInOrder, InOrder
      <3>3. \A r \in Elems(acquired_data)' : raw_data'[r] # NoConfig
        BY <2>6, <3>1 DEF RawInv
      <3>4. QED
        BY <2>5, <3>2, <3>3 DEF RawInv
    <2>9. CASE Measure \/ Skip
      <3>1. /\ acquired_data' = Append(acquired_data, run)
            /\ Elems(acquired_data') = Elems(acquired_data) \cup {run}
        BY <2>9, PassMove DEF Measure, Skip
      <3>2. /\ n \in Nat /\ Len(acquired_data') = n + 1
            /\ \A k \in 0..n : InOrder(k)' <=> InOrder(k)
            /\ InOrder(Len(acquired_data))' => /\ InOrder(n)
                                               /\ run = n /\ run \notin Kept
        BY <2>2, <3>1, OrderOfMore
      <3>3. raw_data'[run] # NoConfig
        <4>1. CASE Measure
          BY <2>2, <4>1 DEF Measure
        <4>2. CASE Skip
          BY <4>2 DEF Skip, RawInv
        <4>3. QED
          BY <2>9, <4>1, <4>2
      <3>4. ASSUME run = n, InOrder(n), run \notin Kept
            PROVE  raw_data'[n] = RunConfig[n]
        <4>1. Measure
          BY <2>9, <3>4 DEF Skip
        <4>2. raw_data'[run] = Update(device, run) /\ daq_pc = "measure"
          BY <2>2, <4>1 DEF Measure
        <4>3. device = Before(run)
          BY <3>4, <4>2 DEF TargetInv
        <4>4. raw_data'[run] = RunConfig[run]
          BY <2>2, <4>2, <4>3, PatchIsDifference
        <4>5. QED
          BY <3>4, <4>4
      <3>5. ASSUME NEW k \in 1..(n + 1), InOrder(k)'
            PROVE  raw_data'[k - 1] = RunConfig[k - 1]
        <4>1. CASE k \in 1..n
          <5>1. k \in 0..n
            BY <3>2, <4>1
          <5>2. InOrder(k)
            BY <3>2, <3>5, <5>1
          <5>3. QED
            BY <2>7, <4>1, <5>2
        <4>2. CASE k = Len(acquired_data')
          <5>1. InOrder(Len(acquired_data))'
            BY <3>5, <4>2 DEF InOrder
          <5>2. k - 1 = n
            BY <3>2, <4>2
          <5>3. QED
            BY <3>2, <3>4, <5>1, <5>2
        <4>3. QED
          BY <3>2, <4>1, <4>2
      <3>6. MeasuredAsConfiguredInOrder'
        BY <3>2, <3>5 DEF MeasuredAsConfiguredInOrder
      <3>7. \A r \in Elems(acquired_data') : raw_data'[r] # NoConfig
        BY <2>6, <3>1, <3>3 DEF RawInv
      <3>8. QED
        BY <2>5, <3>6, <3>7 DEF RawInv
    <2>10. QED
      BY <2>1, <2>8, <2>9
  <1>3. QED
    BY <1>1, <1>2

\* Where the runs are is kept by every step.
LEMMA FlowStep ==
    ASSUME FlowInv, [Next]_vars
    PROVE  FlowInv'
  <1>1. TypeOK /\ Distinct(listed)
    BY ListedDistinct DEF FlowInv
  <1>2. TypeOK'
    BY <1>1, PrepareType, AcquireType, StutterType DEF Next
  <1>3. PatchInv' /\ PoolInv'
    BY PatchStep, PoolStep DEF FlowInv
  <1>4. OnceInv' /\ PlacesInv' /\ FilesInv'
    BY PlacesStep
  <1>5. StopInv' /\ EndInv' /\ TargetInv'
    BY EndStep, TargetStep
  <1>6. QED
    BY <1>2, <1>3, <1>4, <1>5 DEF FlowInv

-----------------------------------------------------------------------------
(***************************************************************************)
(* The order of the runs, with one process in the pool or without pool.    *)
(***************************************************************************)
OneProcess == FromDisk \/ Cardinality(Workers) = 1

\* How many runs were taken out of the queue, and put in it.
Drawn == Len(acquired_data) + (IF daq_pc \in {"measure", "failed"} THEN 1 ELSE 0)
Queued == Drawn + Len(run_queue)

\* The acquired runs, the one in hand, those in the queue, with the worker and
\* in the chunks, one after the other, are the numbers from 0.
OrderInv ==
    /\ Consecutive(acquired_data, 0)
    /\ daq_pc \in {"measure", "failed"} => run = Len(acquired_data)
    /\ Consecutive(run_queue, Drawn)
    /\ FromDisk => next_patch = Queued
    /\ \A w \in Workers : /\ Consecutive(worker[w], Queued)
                          /\ Chained(chunks, Queued + Len(worker[w]))

\* The lengths are numbers.
LEMMA OrderTypes ==
    ASSUME TypeOK
    PROVE  /\ Len(acquired_data) \in Nat /\ Len(run_queue) \in Nat
           /\ Drawn \in Nat /\ Queued \in Nat
           /\ \A w \in Workers : worker[w] \in Seq(Runs) /\ Len(worker[w]) \in Nat
  <1>1. Len(acquired_data) \in Nat /\ Len(run_queue) \in Nat
    BY LenProperties DEF TypeOK
  <1>2. \A w \in Workers : worker[w] \in Seq(Runs) /\ Len(worker[w]) \in Nat
    BY LenProperties DEF TypeOK
  <1>3. Drawn \in Nat
    BY <1>1 DEF Drawn
  <1>4. Queued \in Nat
    BY <1>1, <1>3 DEF Queued
  <1>5. QED
    BY <1>1, <1>2, <1>3, <1>4

\* With one process no two workers differ.
LEMMA OneWorker ==
    ASSUME Cardinality(Workers) = 1, NEW v \in Workers, NEW w \in Workers
    PROVE  v = w
  <1>1. PICK u : Workers = {u}
    BY WorkersAssumption, FS_Singleton
  <1>2. QED
    BY <1>1

\* The queues are in order at the start.
LEMMA OrderInit == Init => OrderInv
  <1> SUFFICES ASSUME Init PROVE OrderInv
    OBVIOUS
  <1>1. /\ acquired_data = <<>> /\ run_queue = <<>> /\ chunks = <<>>
        /\ \A w \in Workers : worker[w] = <<>>
        /\ daq_pc = "connect" /\ next_patch = 0
    BY DEF Init
  <1>2. Len(<<>>) = 0
    OBVIOUS
  <1>3. Drawn = 0 /\ Queued = 0
    BY <1>1, <1>2 DEF Drawn, Queued
  <1>4. QED
    BY <1>1, <1>3, EmptyConsecutive DEF OrderInv

\* The patches are listed in order and cut in order.
LEMMA CutOrder ==
    ASSUME FlowInv, OrderInv, GenCheck, OneProcess
    PROVE  OrderInv'
  <1> USE DEF FlowInv, patchVars, queueVars, daqVars
  <1>1. /\ UNCHANGED <<program, next_patch, worker, run_queue, daq_pc, run,
                       acquired_data>>
        /\ gen_pc = "check"
    BY DEF GenCheck
  <1>2. Drawn' = Drawn /\ Queued' = Queued
    BY <1>1 DEF Drawn, Queued
  <1>3. CASE chunks' = chunks
    BY <1>1, <1>2, <1>3 DEF OrderInv, FromDisk
  <1>4. CASE chunks' = ChunksOf(listed) /\ patch_gen_done /\ patch_queue = <<>>
    <2>1. ~FromDisk
      BY <1>1 DEF PoolInv
    <2>2. listed # <<>> /\ listed \in Seq(Runs)
      BY <1>4, <2>1, ListedIsAll DEF TypeOK
    <2>3. Consecutive(listed, 0)
      <3>1. Len(listed) \in Nat /\ \A i \in 1..Len(listed) : listed[i] = i - 1
        BY <2>1, <2>2, LenProperties DEF PatchInv
      <3>2. QED
        BY <3>1 DEF Consecutive
    <2>4. Chained(chunks', 0)
      BY <1>4, <2>2, <2>3, ChunksChained
    <2>5. Queued = 0
      <3>1. Expected = {}
        BY <1>1, <2>1 DEF Expected
      <3>2. Passed = {}
        BY <3>1 DEF PlacesInv
      <3>3. run_queue = <<>> /\ acquired_data = <<>>
        BY <3>2, ElemsType DEF Passed, TypeOK
      <3>4. daq_pc \notin {"measure", "failed"}
        BY <3>2 DEF Passed, InHand
      <3>5. Len(<<>>) = 0
        OBVIOUS
      <3>6. QED
        BY <3>3, <3>4, <3>5 DEF Queued, Drawn
    <2>6. \A w \in Workers : worker[w] = <<>> /\ Queued + Len(worker[w]) = 0
      <3>1. \A w \in Workers : worker[w] = <<>>
        BY <1>1 DEF PoolInv
      <3>2. QED
        BY <2>5, <3>1
    <2>7. \A w \in Workers : /\ Consecutive(worker'[w], Queued')
                             /\ Chained(chunks', Queued' + Len(worker'[w]))
      BY <1>1, <1>2, <2>4, <2>6, EmptyConsecutive
    <2>8. QED
      BY <1>1, <1>2, <2>7 DEF OrderInv, FromDisk
  <1>5. QED
    BY <1>3, <1>4 DEF GenCheck

\* The process takes the first chunk, which follows what is in the queue.
LEMMA TakeOrder ==
    ASSUME FlowInv, OrderInv, OneProcess, NEW w \in Workers, TakeChunk(w)
    PROVE  OrderInv'
  <1> USE DEF FlowInv, patchVars, queueVars, daqVars
  <1>1. /\ UNCHANGED <<program, next_patch, run_queue, daq_pc, run, acquired_data>>
        /\ gen_pc = "pool" /\ worker[w] = <<>> /\ chunks # <<>>
        /\ worker' = [worker EXCEPT ![w] = Head(chunks)]
        /\ chunks' = Tail(chunks)
    BY DEF TakeChunk
  <1>2. Drawn' = Drawn /\ Queued' = Queued
    BY <1>1 DEF Drawn, Queued
  <1>3. Chained(chunks, Queued)
    <2>1. Queued + Len(worker[w]) = Queued
      BY <1>1, OrderTypes
    <2>2. QED
      BY <2>1 DEF OrderInv
  <1>4. /\ Consecutive(Head(chunks), Queued)
        /\ Chained(Tail(chunks), Queued + Len(Head(chunks)))
    <2>1. chunks \in Seq(Seq(Runs)) /\ chunks # <<>>
      BY <1>1 DEF TypeOK
    <2>2. Queued \in Int
      BY OrderTypes
    <2>3. QED
      BY <1>3, <2>1, <2>2, TailChained
  <1>5. Workers = {w}
    <2>1. Cardinality(Workers) = 1
      BY <1>1 DEF PoolInv, OneProcess
    <2>2. QED
      BY <2>1, OneWorker
  <1>6. worker'[w] = Head(chunks)
    BY <1>1 DEF TypeOK
  <1>7. \A v \in Workers : /\ Consecutive(worker'[v], Queued')
                           /\ Chained(chunks', Queued' + Len(worker'[v]))
    BY <1>1, <1>2, <1>4, <1>5, <1>6
  <1>8. QED
    BY <1>1, <1>2, <1>7 DEF OrderInv, FromDisk

\* The process puts the first run of its task at the end of the queue.
LEMMA WriteOrder ==
    ASSUME FlowInv, OrderInv, OneProcess, NEW w \in Workers, WriteOutFullConfig(w)
    PROVE  OrderInv'
  <1> USE DEF FlowInv, patchVars, genVars, queueVars, daqVars
  <1>1. /\ UNCHANGED <<program, next_patch, chunks, daq_pc, run, acquired_data>>
        /\ worker[w] # <<>> /\ worker[w] \in Seq(Runs)
        /\ run_queue' = Append(run_queue, Head(worker[w]))
        /\ worker' = [worker EXCEPT ![w] = Tail(worker[w])]
    BY DEF WriteOutFullConfig, TypeOK
  <1>2. ~FromDisk /\ Workers = {w}
    <2>1. gen_pc = "pool"
      BY <1>1 DEF PoolInv
    <2>2. ~FromDisk
      BY <2>1 DEF PoolInv
    <2>3. QED
      BY <2>2, OneWorker DEF OneProcess
  <1>3. /\ Head(worker[w]) = Queued
        /\ Consecutive(Tail(worker[w]), Queued + 1)
        /\ Len(Tail(worker[w])) = Len(worker[w]) - 1
        /\ Len(worker[w]) \in Nat
    BY <1>1, TailConsecutive, OrderTypes DEF OrderInv
  <1>4. Drawn' = Drawn
    BY <1>1 DEF Drawn
  <1>5. Head(worker[w]) \in Runs
    BY <1>1, HeadTailElems
  <1>6. /\ Consecutive(Append(run_queue, Drawn + Len(run_queue)), Drawn)
        /\ Len(Append(run_queue, Drawn + Len(run_queue))) = Len(run_queue) + 1
    BY <1>3, <1>5, AppendConsecutive, OrderTypes DEF OrderInv, Queued, TypeOK
  <1>7. run_queue' = Append(run_queue, Drawn + Len(run_queue))
    BY <1>1, <1>3 DEF Queued
  <1>8. Consecutive(run_queue', Drawn') /\ Queued' = Queued + 1
    BY <1>4, <1>6, <1>7, OrderTypes DEF Queued
  <1>9. worker'[w] = Tail(worker[w])
    BY <1>1 DEF TypeOK
  <1>10. Queued' + Len(worker'[w]) = Queued + Len(worker[w])
    BY <1>3, <1>8, <1>9, OrderTypes
  <1>11. \A v \in Workers : /\ Consecutive(worker'[v], Queued')
                            /\ Chained(chunks', Queued' + Len(worker'[v]))
    BY <1>1, <1>2, <1>3, <1>8, <1>9, <1>10 DEF OrderInv
  <1>12. QED
    BY <1>1, <1>2, <1>8, <1>11 DEF OrderInv, FromDisk

\* acquire-data reads the patches in order.
LEMMA ReadOrder ==
    ASSUME FlowInv, OrderInv, ReadPatch
    PROVE  OrderInv'
  <1> USE DEF FlowInv, patchVars, genVars, queueVars, daqVars
  <1>1. /\ UNCHANGED <<program, chunks, worker, daq_pc, run, acquired_data>>
        /\ FromDisk /\ next_patch \in Runs
        /\ run_queue' = Append(run_queue, next_patch)
        /\ next_patch' = next_patch + 1
    BY QueueTypes DEF ReadPatch, Reading
  <1>2. next_patch = Queued
    BY <1>1 DEF OrderInv
  <1>3. Drawn' = Drawn
    BY <1>1 DEF Drawn
  <1>4. /\ Consecutive(Append(run_queue, Drawn + Len(run_queue)), Drawn)
        /\ Len(Append(run_queue, Drawn + Len(run_queue))) = Len(run_queue) + 1
    BY <1>1, <1>2, AppendConsecutive, OrderTypes DEF OrderInv, Queued, TypeOK
  <1>5. run_queue' = Append(run_queue, Drawn + Len(run_queue))
    BY <1>1, <1>2 DEF Queued
  <1>6. Consecutive(run_queue', Drawn') /\ Queued' = Queued + 1
    BY <1>3, <1>4, <1>5, OrderTypes DEF Queued
  <1>7. chunks = <<>> /\ \A w \in Workers : worker[w] = <<>>
    BY <1>1 DEF PoolInv
  <1>8. QED
    BY <1>1, <1>2, <1>6, <1>7, EmptyConsecutive DEF OrderInv, FromDisk

\* The acquisition takes the runs out of the queue in order and passes them
\* on in order.
LEMMA AcquireOrder ==
    ASSUME FlowInv, OrderInv, DaqGet \/ Measure \/ MeasureFails \/ Skip
    PROVE  OrderInv'
  <1> USE DEF FlowInv, patchVars, genVars, queueVars, daqVars
  <1>1. UNCHANGED <<program, next_patch, chunks, worker>>
    BY DEF DaqGet, Measure, MeasureFails, Skip
  <1>2. CASE DaqGet
    <2>1. /\ daq_pc = "get" /\ daq_pc' = "measure" /\ UNCHANGED acquired_data
          /\ run_queue # <<>> /\ run_queue \in Seq(Runs)
          /\ run' = Head(run_queue) /\ run_queue' = Tail(run_queue)
      BY <1>2 DEF DaqGet, TypeOK
    <2>2. Drawn = Len(acquired_data) /\ Drawn' = Drawn + 1
      BY <2>1, OrderTypes DEF Drawn
    <2>3. /\ run' = Drawn /\ Consecutive(run_queue', Drawn + 1)
          /\ Len(run_queue') = Len(run_queue) - 1
      BY <2>1, TailConsecutive, OrderTypes DEF OrderInv
    <2>4. Queued' = Queued
      BY <2>2, <2>3, OrderTypes DEF Queued
    <2>5. QED
      BY <1>1, <2>1, <2>2, <2>3, <2>4 DEF OrderInv, FromDisk
  <1>3. CASE Measure \/ Skip
    <2>1. /\ daq_pc = "measure" /\ daq_pc' = "check" /\ UNCHANGED run_queue
          /\ acquired_data' = Append(acquired_data, run)
          /\ run \in Runs /\ run = Len(acquired_data)
      BY <1>3 DEF Measure, Skip, TypeOK, OrderInv
    <2>2. /\ Consecutive(Append(acquired_data, 0 + Len(acquired_data)), 0)
          /\ Len(Append(acquired_data, 0 + Len(acquired_data)))
               = Len(acquired_data) + 1
      <3>1. 0 + Len(acquired_data) \in Runs
        BY <2>1, OrderTypes
      <3>2. QED
        BY <3>1, AppendConsecutive DEF OrderInv, TypeOK
    <2>3. acquired_data' = Append(acquired_data, 0 + Len(acquired_data))
      BY <2>1, OrderTypes
    <2>4. /\ Consecutive(acquired_data', 0)
          /\ Len(acquired_data') = Len(acquired_data) + 1
      BY <2>2, <2>3
    <2>5. Drawn' = Drawn
      BY <2>1, <2>4, OrderTypes DEF Drawn
    <2>6. Queued' = Queued
      BY <2>1, <2>5 DEF Queued
    <2>7. QED
      BY <1>1, <2>1, <2>4, <2>5, <2>6 DEF OrderInv, FromDisk
  <1>4. CASE MeasureFails
    <2>1. /\ daq_pc = "measure" /\ daq_pc' = "failed"
          /\ UNCHANGED <<run_queue, acquired_data, run>>
      BY <1>4 DEF MeasureFails
    <2>2. Drawn' = Drawn /\ Queued' = Queued
      BY <2>1 DEF Drawn, Queued
    <2>3. QED
      BY <1>1, <2>1, <2>2 DEF OrderInv, FromDisk
  <1>5. QED
    BY <1>2, <1>3, <1>4

\* Every step keeps the runs in order if one process prepares them.
LEMMA OrderStep ==
    ASSUME FlowInv, OrderInv, OneProcess, [Next]_vars
    PROVE  OrderInv'
  <1> USE DEF patchVars, genVars, queueVars, daqVars
  <1>1. ASSUME UNCHANGED <<program, chunks, worker, run_queue, run, acquired_data>>,
               FromDisk => UNCHANGED next_patch,
               \/ UNCHANGED daq_pc
               \/ {daq_pc, daq_pc'} \cap {"measure", "failed"} = {}
        PROVE  OrderInv'
    <2>1. daq_pc' \in {"measure", "failed"} <=> daq_pc \in {"measure", "failed"}
      BY <1>1
    <2>2. Drawn' = Drawn /\ Queued' = Queued
      BY <1>1, <2>1 DEF Drawn, Queued
    <2>3. QED
      BY <1>1, <2>1, <2>2 DEF OrderInv, FromDisk
  <1>2. CASE PatchThread \/ GenGet \/ PoolDone \/ AllPatchesRead
             \/ KeyboardInterrupt \/ UNCHANGED vars
    BY <1>1, <1>2 DEF PatchThread, PutPatch, PatchesDone, GenGet, PoolDone,
                      AllPatchesRead, KeyboardInterrupt, vars
  <1>3. CASE Connect \/ DaqCheck
    BY <1>1, <1>3 DEF Connect, DaqCheck
  <1>4. CASE GenCheck
    BY <1>4, CutOrder
  <1>5. ASSUME NEW w \in Workers, Worker(w)
        PROVE  OrderInv'
    BY <1>5, TakeOrder, WriteOrder DEF Worker
  <1>6. CASE ReadPatch
    BY <1>6, ReadOrder
  <1>7. CASE DaqGet \/ Measure \/ MeasureFails \/ Skip
    BY <1>7, AcquireOrder
  <1>8. QED
    BY <1>2, <1>3, <1>4, <1>5, <1>6, <1>7
       DEF Next, GenThread, MainThread, DaqThread

\* The inductive invariant holds in every reachable state.
LEMMA PipelineInvariant == Spec => []PipelineInv
  <1>1. Init => PipelineInv
    BY FlowInit DEF PipelineInv
  <1>2. PipelineInv /\ [Next]_vars => PipelineInv'
    BY FlowStep, RawStep DEF PipelineInv
  <1>3. QED
    BY <1>1, <1>2, PTL DEF Spec

-----------------------------------------------------------------------------
\* Every variable of the threads keeps its type; in particular each queue
\* holds runs of the procedure only.
THEOREM TypesAreKept == Spec => []TypeOK
  <1>1. PipelineInv => TypeOK
    BY DEF PipelineInv, FlowInv
  <1>2. QED
    BY <1>1, PipelineInvariant, PTL

\* Each run is passed on at most once, whatever the chunks and the workers'
\* pace, and only with its raw file and, from the pool, its full
\* configuration.
THEOREM PassedOnOnce == Spec => []AcquiredOnceWithFiles
  <1>1. PipelineInv => AcquiredOnceWithFiles
    <2> SUFFICES ASSUME PipelineInv PROVE AcquiredOnceWithFiles
      OBVIOUS
    <2>1. \A i, j \in 1..Len(acquired_data) :
             acquired_data[i] = acquired_data[j] => i = j
      BY DEF PipelineInv, FlowInv, OnceInv, Distinct
    <2>2. ASSUME NEW i \in 1..Len(acquired_data)
          PROVE  /\ raw_data[acquired_data[i]] # NoConfig
                 /\ FromDisk \/ full_config[acquired_data[i]] # NoConfig
      <3>1. acquired_data[i] \in Elems(acquired_data)
        BY DEF Elems
      <3>2. acquired_data[i] \in Passed
        BY <3>1 DEF Passed
      <3>3. QED
        BY <3>1, <3>2 DEF PipelineInv, FlowInv, RawInv, FilesInv
    <2>3. QED
      BY <2>1, <2>2 DEF AcquiredOnceWithFiles
  <1>2. QED
    BY <1>1, PipelineInvariant, PTL

\* Nothing is on the way to an acquisition that has ended by itself.
LEMMA AllAcquired ==
    ASSUME PipelineInv, daq_pc = "done", ~stop
    PROVE  Elems(acquired_data) = Runs
  <1> USE DEF PipelineInv, FlowInv
  <1>1. full_conf_gen_done /\ run_queue = <<>>
    BY DEF EndInv
  <1>2. gen_pc # "pool" /\ gen_pc \notin {"check", "get"}
    BY <1>1 DEF PoolInv
  <1>3. InChunks = {} /\ InWorkers = {}
    <2>1. chunks = <<>> /\ \A w \in Workers : worker[w] = <<>>
      BY <1>2 DEF PoolInv
    <2>2. QED
      BY <2>1, EmptyElems DEF InChunks, InWorkers
  <1>4. Passed = Elems(acquired_data)
    BY <1>1, EmptyElems DEF Passed, InHand
  <1>5. Expected = Runs
    <2>1. FromDisk => next_patch = RunCount
      BY <1>1 DEF PoolInv
    <2>2. QED
      BY <1>2, <2>1 DEF Expected, Runs
  <1>6. QED
    BY <1>3, <1>4, <1>5 DEF PlacesInv

\* An acquisition that ends by itself has acquired every run: the event of
\* the producer is read before the queue is found empty, so none is left.
THEOREM NoneIsSkipped == Spec => []NoRunIsSkipped
  <1>1. PipelineInv => NoRunIsSkipped
    <2> SUFFICES ASSUME PipelineInv, daq_pc = "done", ~stop
                 PROVE  Len(acquired_data) = RunCount
      BY DEF NoRunIsSkipped
    <2>1. Elems(acquired_data) = Runs /\ Distinct(acquired_data)
      BY AllAcquired DEF PipelineInv, FlowInv, OnceInv
    <2>2. Cardinality(Runs) = Len(acquired_data)
      BY <2>1, DistinctLength DEF PipelineInv, FlowInv, TypeOK
    <2>3. Cardinality(Runs) = RunCount
      <3>1. 0 \in Int /\ RunCount - 1 \in Int /\ 0 <= RunCount - 1 /\ (RunCount - 1) - 0 + 1 = RunCount
        BY RunCountAssumption
      <3>2. QED
        BY <3>1, FS_Interval DEF Runs
    <2>4. QED
      BY <2>2, <2>3
  <1>2. QED
    BY <1>1, PipelineInvariant, PTL

\* As long as the runs come in their order and none is skipped, each is
\* measured with its own configuration, although only differences are sent.
THEOREM InOrderAsConfigured == Spec => []MeasuredAsConfiguredInOrder
  <1>1. PipelineInv => MeasuredAsConfiguredInOrder
    BY DEF PipelineInv, RawInv
  <1>2. QED
    BY <1>1, PipelineInvariant, PTL

\* Runs that were acquired in order, none of them kept from before, were all
\* measured with their configurations.
LEMMA OrderedRunsAsConfigured ==
    ASSUME PipelineInv, OrderInv, Kept = {}, NEW r \in Elems(acquired_data)
    PROVE  raw_data[r] = RunConfig[r]
  <1>1. Len(acquired_data) \in Nat
    BY OrderTypes DEF PipelineInv, FlowInv
  <1>2. PICK i \in 1..Len(acquired_data) : r = acquired_data[i]
    BY DEF Elems
  <1>3. \A k \in 1..Len(acquired_data) : acquired_data[k] = k - 1
    BY <1>1 DEF OrderInv, Consecutive
  <1>4. InOrder(i)
    BY <1>1, <1>3 DEF InOrder
  <1>5. r = i - 1
    BY <1>2, <1>3
  <1>6. QED
    BY <1>4, <1>5 DEF PipelineInv, RawInv, MeasuredAsConfiguredInOrder

\* With one process in the pool, or without pool, the runs are acquired in
\* their order, however the threads are scheduled; so, with no run kept from
\* before, each is measured with its configuration.  Two processes may put
\* their runs in the queue in any order.
THEOREM OneProcessKeepsOrder ==
    Spec => [](OneProcess =>
                 /\ \A i \in 1..Len(acquired_data) : acquired_data[i] = i - 1
                 /\ Kept = {} => \A i \in 1..Len(acquired_data) :
                       raw_data[i - 1] = RunConfig[i - 1])
  <1> DEFINE J == PipelineInv /\ (OneProcess => OrderInv)
  <1>1. Init => J
    BY FlowInit, OrderInit DEF PipelineInv
  <1>2. J /\ [Next]_vars => J'
    <2> SUFFICES ASSUME J, [Next]_vars PROVE J'
      OBVIOUS
    <2>1. PipelineInv'
      BY FlowStep, RawStep DEF PipelineInv
    <2>2. program' = program
      BY DEF Next, PatchThread, PutPatch, PatchesDone, GenThread, GenCheck,
             GenGet, PoolDone, Worker, TakeChunk, WriteOutFullConfig,
             MainThread, ReadPatch, AllPatchesRead, KeyboardInterrupt,
             DaqThread, Connect, DaqCheck, DaqGet, Measure, MeasureFails,
             Skip, vars
    <2>3. OneProcess' => OneProcess
      BY <2>2 DEF OneProcess, FromDisk
    <2>4. OneProcess => OrderInv'
      BY OrderStep DEF PipelineInv
    <2>5. QED
      BY <2>1, <2>3, <2>4
  <1>3. ASSUME J, OneProcess
        PROVE  /\ \A i \in 1..Len(acquired_data) : acquired_data[i] = i - 1
               /\ Kept = {} => \A i \in 1..Len(acquired_data) :
                     raw_data[i - 1] = RunConfig[i - 1]
    <2>1. Len(acquired_data) \in Nat
      BY <1>3, OrderTypes DEF PipelineInv, FlowInv
    <2>2. \A i \in 1..Len(acquired_data) : acquired_data[i] = i - 1
      BY <1>3, <2>1 DEF OrderInv, Consecutive
    <2>3. \A i \in 1..Len(acquired_data) : i - 1 \in Elems(acquired_data)
      BY <2>2 DEF Elems
    <2>4. QED
      BY <1>3, <2>2, <2>3, OrderedRunsAsConfigured
  <1>4. QED
    BY <1>1, <1>2, <1>3, PTL DEF Spec
=============================================================================
