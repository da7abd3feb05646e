------------------------ MODULE DaqCoordinatorProofs ------------------------
(***************************************************************************)
(* Proofs about DaqCoordinator, for any set of clients and any bounds.     *)
(***************************************************************************)
EXTENDS DaqCoordinator, TLAPS

(***************************************************************************)
(* Types.                                                                  *)
(***************************************************************************)
\* Every request and reply the code builds is a well-typed message.
LEMMA MessageTypes ==
    /\ NoRequest \in Requests
    /\ NoReply \in Replies
    /\ NoFile \in Measurements
    /\ \A cmd \in Commands, t \in Tokens, n \in Nat :
          Request(cmd, t, n) \in Requests
    /\ \A type \in ResponseTypes : Reply(type) \in Replies
    /\ \A t \in Tokens : LockReply(SerializeLock(t)) \in Replies
    /\ \A m \in Measurements : DataReply(m) \in Replies
  BY DEF NoRequest, NoReply, NoFile, Requests, Replies, Measurements,
     Request, Reply, LockReply, DataReply, Commands, ResponseTypes, Tokens,
     Uuid, NoLock, NoneText, SerializeLock

\* The types of the request fields a handler reads.
LEMMA RequestFields ==
    ASSUME SocketType, NEW c \in Clients
    PROVE  /\ req[c].token \in Tokens
           /\ req[c].run \in Nat
           /\ req[c].cmd \in Commands
           /\ [token |-> req[c].token, run |-> req[c].run] \in Measurements
  BY DEF SocketType, Requests, Measurements

\* A crash leaves well-typed memory behind.
LEMMA CrashType ==
    ASSUME TypeOK, Crash
    PROVE  /\ ProcessType'
           /\ req' \in [Clients -> Requests]
           /\ foreign' \in {"none", "undecodable", "invalid", "shutdown"}
           /\ session' \in Uuid \cup {NoLock}
  <1>1. ProcessType'
    BY DEF TypeOK, ProcessType, Crash
  <1>2. QED
    BY <1>1, MessageTypes DEF Crash

\* So does an answer, as far as it reaches.
LEMMA AnswerType ==
    ASSUME TypeOK, NEW c \in Clients, NEW r \in Replies, Answer(c, r)
    PROVE  /\ SocketType'
           /\ up' \in BOOLEAN
           /\ daq_command' \in BOOLEAN
           /\ capture_data' \in BOOLEAN
  <1>1. SocketType'
    BY MessageTypes DEF TypeOK, SocketType, Answer
  <1>2. QED
    BY <1>1 DEF TypeOK, ProcessType, Answer

\* Storing a run keeps the files well typed.
LEMMA StoreRunType ==
    ASSUME TypeOK, NEW m \in Measurements, StoreRun(m)
    PROVE  FileType'
  <1>1. [token |-> lock, n |-> run_counter, content |-> m] \in StoredFiles
    BY DEF TypeOK, ProcessType, StoredFiles, Tokens
  <1>2. QED
    BY <1>1, MessageTypes DEF TypeOK, FileType, StoreRun

\* What an action leaves alone keeps its type.
LEMMA UnchangedTypes ==
    ASSUME TypeOK
    PROVE  /\ UNCHANGED fileVars => FileType'
           /\ UNCHANGED clientVars => ClientType'
           /\ UNCHANGED netVars => SocketType'
           /\ UNCHANGED coordVars => ProcessType'
           /\ UNCHANGED historyVars => HistoryType'
  <1>1. UNCHANGED fileVars => FileType'
    BY DEF TypeOK, fileVars, FileType
  <1>2. UNCHANGED clientVars => ClientType'
    BY DEF TypeOK, clientVars, ClientType
  <1>3. UNCHANGED netVars => SocketType'
    BY DEF TypeOK, netVars, SocketType
  <1>4. UNCHANGED coordVars => ProcessType'
    BY DEF TypeOK, coordVars, ProcessType
  <1>5. UNCHANGED historyVars => HistoryType'
    BY DEF TypeOK, historyVars, HistoryType
  <1>6. QED
    BY <1>1, <1>2, <1>3, <1>4, <1>5

\* A handler keeps every type.
LEMMA HandleType ==
    ASSUME TypeOK, NEW c \in Clients, Handle(c)
    PROVE  TypeOK'
  <1> USE UnchangedTypes
  <1>0. \A type \in {"none", "error", "data", "lock", "ack",
                     "access denied", "target_config"} :
              Reply(type) \in Replies
    BY MessageTypes DEF ResponseTypes
  <1>1. CASE Acquire(c)
    <2>1. Len(owners) \in Nat /\ Len(owners) + 1 \in Uuid
      BY DEF TypeOK, HistoryType, Uuid
    <2>2. /\ LockReply(SerializeLock(Len(owners) + 1)) \in Replies
          /\ LockReply(SerializeLock(NoLock)) \in Replies
      BY <2>1, MessageTypes DEF Tokens
    <2>3. PICK r \in Replies : Answer(c, r)
      BY <1>1, <2>2 DEF Acquire
    <2>4. lock' \in Uuid \cup {NoLock} /\ owners' \in Seq(Clients)
      <3>1. lock \in Uuid \cup {NoLock} /\ owners \in Seq(Clients)
        BY DEF TypeOK, ProcessType, HistoryType
      <3>2. Append(owners, c) \in Seq(Clients)
        BY <3>1
      <3>3. \/ lock' = Len(owners) + 1 /\ owners' = Append(owners, c)
            \/ UNCHANGED <<lock, owners>>
        BY <1>1 DEF Acquire
      <3>4. QED
        BY <2>1, <3>1, <3>2, <3>3
    <2>5. ProcessType'
      <3>1. UNCHANGED <<initialized, run_counter>>
        BY <1>1 DEF Acquire
      <3>2. QED
        BY <2>3, <2>4, <3>1, AnswerType DEF TypeOK, ProcessType
    <2>6. HistoryType'
      BY <1>1, <2>4 DEF Acquire, TypeOK, HistoryType
    <2>7. QED
      BY <1>1, <2>3, <2>5, <2>6, AnswerType DEF Acquire, TypeOK
  <1>2. CASE DenyAccess(c)
    <2>1. Crash /\ UNCHANGED <<rep, fileVars, clientVars, owners, driver, faults>>
      BY <1>2 DEF DenyAccess, Serializable
    <2>2. SocketType' /\ HistoryType'
      BY <2>1, CrashType DEF TypeOK, SocketType, HistoryType
    <2>3. QED
      BY <2>1, <2>2, CrashType DEF TypeOK
  <1>3. CASE Release(c)
    <2>1. CASE /\ Answer(c, Reply("ack"))
               /\ lock' = NoLock
               /\ initialized' = FALSE
               /\ run_counter' = IF initialized THEN 0 ELSE run_counter
               /\ session' = NoLock
      <3>1. ProcessType' /\ SocketType'
        BY <2>1, <1>0, AnswerType DEF TypeOK, ProcessType
      <3>2. HistoryType'
        BY <1>3, <2>1 DEF Release, TypeOK, HistoryType
      <3>3. QED
        BY <1>3, <3>1, <3>2 DEF Release, TypeOK
    <2>2. CASE Crash /\ rep' = [rep EXCEPT ![c] = Reply("ack")]
      <3>1. SocketType' /\ HistoryType'
        BY <1>3, <2>2, <1>0, CrashType DEF Release, TypeOK, SocketType, HistoryType
      <3>2. QED
        BY <1>3, <2>2, <3>1, CrashType DEF Release, TypeOK
    <2>3. QED
      BY <1>3, <2>1, <2>2 DEF Release
  <1>4. CASE Initialize(c)
    <2>1. CASE Crash /\ UNCHANGED rep
      <3>1. SocketType' /\ HistoryType'
        BY <1>4, <2>1, CrashType DEF Initialize, TypeOK, SocketType, HistoryType
      <3>2. QED
        BY <1>4, <2>1, <3>1, CrashType DEF Initialize, TypeOK
    <2>2. CASE /\ \E r \in Replies : Answer(c, r)
               /\ initialized' \in {initialized, TRUE}
               /\ session' \in {session, lock}
               /\ UNCHANGED <<lock, run_counter>>
      <3>1. ProcessType' /\ SocketType'
        BY <2>2, AnswerType DEF TypeOK, ProcessType
      <3>2. HistoryType'
        BY <1>4, <2>2 DEF Initialize, TypeOK, HistoryType, ProcessType
      <3>3. QED
        BY <1>4, <3>1, <3>2 DEF Initialize, TypeOK
    <2>3. QED
      BY <1>0, <1>4, <2>1, <2>2 DEF Initialize
  <1>5. CASE Configure(c)
    <2>1. CASE Crash /\ UNCHANGED rep
      <3>1. SocketType' /\ HistoryType'
        BY <1>5, <2>1, CrashType DEF Configure, TypeOK, SocketType, HistoryType
      <3>2. QED
        BY <1>5, <2>1, <3>1, CrashType DEF Configure, TypeOK
    <2>2. CASE /\ \E r \in Replies : Answer(c, r)
               /\ UNCHANGED <<lock, initialized, run_counter, session>>
      <3>1. ProcessType' /\ SocketType'
        BY <2>2, AnswerType DEF TypeOK, ProcessType
      <3>2. HistoryType'
        BY <1>5, <2>2 DEF Configure, TypeOK, HistoryType
      <3>3. QED
        BY <1>5, <3>1, <3>2 DEF Configure, TypeOK
    <2>3. QED
      BY <1>0, <1>5, <2>1, <2>2 DEF Configure
  <1>6. CASE MeasureRefused(c) \/ MeasureFailed(c) \/ ReadTarget(c) \/ ResetTarget(c)
    <2>1. PICK r \in Replies : Answer(c, r)
      BY <1>6, <1>0 DEF MeasureRefused, MeasureFailed, ReadTarget, ResetTarget
    <2>2. UNCHANGED <<lock, initialized, run_counter, fileVars, clientVars,
                      owners, session, faults>>
          /\ driver' \in {driver, c}
      BY <1>6 DEF MeasureRefused, MeasureFailed, ReadTarget, ResetTarget, historyVars
    <2>3. ProcessType' /\ SocketType'
      BY <2>1, <2>2, AnswerType DEF TypeOK, ProcessType
    <2>4. HistoryType'
      BY <2>2 DEF TypeOK, HistoryType
    <2>5. QED
      BY <2>2, <2>3, <2>4 DEF TypeOK
  <1>7. CASE MeasureDone(c)
    <2> DEFINE m == [token |-> req[c].token, run |-> req[c].run]
    <2>1. m \in Measurements /\ DataReply(m) \in Replies
      BY RequestFields, MessageTypes DEF TypeOK
    <2>2. FileType' /\ Answer(c, DataReply(m))
      BY <1>7, <2>1, StoreRunType DEF MeasureDone
    <2>3. ProcessType' /\ SocketType'
      BY <1>7, <2>1, <2>2, AnswerType DEF MeasureDone, TypeOK, ProcessType
    <2>4. HistoryType'
      BY <1>7 DEF MeasureDone, TypeOK, HistoryType
    <2>5. QED
      BY <1>7, <2>2, <2>3, <2>4 DEF MeasureDone, TypeOK
  <1>8. CASE MeasureWarned(c)
    <2>1. FileType'
      BY <1>8, StoreRunType DEF MeasureWarned, TypeOK, FileType
    <2>2. SocketType' /\ HistoryType' /\ ProcessType'
      BY <1>8, <1>0, CrashType DEF MeasureWarned, TypeOK, SocketType, HistoryType
    <2>3. QED
      BY <1>8, <2>1, <2>2 DEF MeasureWarned, TypeOK
  <1>9. QED
    BY <1>1, <1>2, <1>3, <1>4, <1>5, <1>6, <1>7, <1>8 DEF Handle

\* A client that sends leaves well-typed requests behind.
LEMMA SendType ==
    ASSUME TypeOK, NEW c \in Clients, NEW cmd \in Commands,
           calls' \in [Clients -> Nat], Send(c, cmd)
    PROVE  req' \in [Clients -> Requests]
  <1>1. token[c] \in Tokens /\ calls'[c] \in Nat
    BY DEF TypeOK, ClientType
  <1>2. Request(cmd, token[c], calls'[c]) \in Requests
    BY <1>1, MessageTypes
  <1>3. QED
    BY <1>2 DEF Send, TypeOK, SocketType

\* One that receives leaves well-typed replies, and is given a token.
LEMMA ReceiveType ==
    ASSUME TypeOK, NEW c \in Clients, Receive(c)
    PROVE  rep' \in [Clients -> Replies] /\ rep[c].token \in Tokens
  BY MessageTypes DEF Receive, TypeOK, SocketType, Replies

\* Counting a fault keeps the counters numbers.
LEMMA FaultType ==
    ASSUME TypeOK, NEW f \in Fault, CountFault(f)
    PROVE  faults' \in [Fault -> Nat]
  BY DEF TypeOK, HistoryType, CountFault

\* A client that goes on with its TDC start has a configure left to send:
\* without it the types are not inductive.
TdcsLeft == \A c \in Clients : pc[c] = "tdcs" => tdcs[c] > 0

\* Every step of a client keeps the types.
LEMMA ClientStepType ==
    ASSUME TypeOK, TdcsLeft, NEW c \in Clients, ClientStep(c)
    PROVE  TypeOK'
  <1> USE UnchangedTypes
  <1>1. UNCHANGED <<coordVars, fileVars, foreign, historyVars>>
    BY DEF ClientStep, Connect, ReceiveLock, CallInitialize, CallOther, Call,
       SendConfigure, ReceiveReply, Close, Closed
  <1>2. ProcessType' /\ FileType' /\ HistoryType'
        /\ foreign' \in {"none", "undecodable", "invalid", "shutdown"}
    BY <1>1 DEF TypeOK, SocketType
  <1>3. \A l \in Labels : Goto(c, l) => pc' \in [Clients -> Labels]
    BY DEF TypeOK, ClientType, Goto
  <1>4. {"start", "acquiring", "ready", "waiting", "tdcs", "draining",
         "releasing", "done"} = Labels
    BY DEF Labels
  <1>5. {"acquire lock", "release lock", "initialize", "configure", "measure",
         "read_target", "reset_target"} \subseteq Commands
    BY DEF Commands
  <1>6. CASE Connect(c)
    <2>1. ClientType'
      BY <1>6, <1>3, <1>4 DEF Connect, TypeOK, ClientType
    <2>2. SocketType'
      BY <1>6, <1>2, <1>5, <2>1, SendType DEF Connect, TypeOK, SocketType, ClientType
    <2>3. QED
      BY <1>2, <2>1, <2>2 DEF TypeOK
  <1>7. CASE ReceiveLock(c)
    <2>1. rep' \in [Clients -> Replies] /\ rep[c].token \in Tokens
      BY <1>7, ReceiveType DEF ReceiveLock
    <2>2. /\ tries' \in [Clients -> Int]
          /\ token' \in [Clients -> Tokens]
          /\ calls' \in [Clients -> Nat]
          /\ tdcs' \in [Clients -> 0..2]
      <3>1. UNCHANGED <<calls, tdcs>>
        BY <1>7 DEF ReceiveLock
      <3>2. tries' = [tries EXCEPT ![c] = tries[c] - 1]
        BY <1>7 DEF ReceiveLock
      <3>3. token' \in {token, [token EXCEPT ![c] = rep[c].token]}
        BY <1>7 DEF ReceiveLock
      <3>4. tries' \in [Clients -> Int]
        BY <3>2 DEF TypeOK, ClientType
      <3>5. token' \in [Clients -> Tokens]
        BY <2>1, <3>3 DEF TypeOK, ClientType
      <3>6. QED
        BY <3>1, <3>4, <3>5 DEF TypeOK, ClientType
    <2>3. pc' \in [Clients -> Labels]
      BY <1>7, <1>3, <1>4 DEF ReceiveLock, TypeOK, ClientType
    <2>4. req' \in [Clients -> Requests]
      BY <1>7, <1>5, <2>2, SendType DEF ReceiveLock, TypeOK, SocketType
    <2>5. QED
      BY <1>2, <2>1, <2>2, <2>3, <2>4 DEF TypeOK, ClientType, SocketType
  <1>8. ASSUME NEW cmd \in Commands, Call(c, cmd), tdcs' \in [Clients -> 0..2]
        PROVE  TypeOK'
    <2>1. ClientType'
      BY <1>8, <1>3, <1>4 DEF Call, TypeOK, ClientType
    <2>2. SocketType'
      BY <1>8, <1>2, <2>1, SendType DEF Call, TypeOK, SocketType, ClientType
    <2>3. QED
      BY <1>2, <2>1, <2>2 DEF TypeOK
  <1>9. CASE CallInitialize(c)
    <2>1. tdcs' \in [Clients -> 0..2]
      BY <1>9 DEF CallInitialize, TypeOK, ClientType
    <2>2. QED
      BY <1>9, <1>5, <1>8, <2>1 DEF CallInitialize
  <1>10. CASE CallOther(c)
    <2>1. tdcs' \in [Clients -> 0..2]
      BY <1>10 DEF CallOther, TypeOK, ClientType
    <2>2. QED
      BY <1>10, <1>5, <1>8, <2>1 DEF CallOther
  <1>11. CASE SendConfigure(c)
    <2>1. tdcs' \in [Clients -> 0..2]
      <3>1. tdcs[c] > 0 /\ tdcs' = [tdcs EXCEPT ![c] = tdcs[c] - 1]
        BY <1>11 DEF SendConfigure, TdcsLeft
      <3>2. tdcs[c] - 1 \in 0..2
        BY <3>1 DEF TypeOK, ClientType
      <3>3. QED
        BY <3>1, <3>2 DEF TypeOK, ClientType
    <2>2. ClientType'
      BY <1>11, <1>3, <1>4, <2>1 DEF SendConfigure, TypeOK, ClientType
    <2>3. SocketType'
      BY <1>11, <1>2, <1>5, <2>2, SendType
         DEF SendConfigure, TypeOK, SocketType, ClientType
    <2>4. QED
      BY <1>2, <2>2, <2>3 DEF TypeOK
  <1>12. CASE ReceiveReply(c)
    <2>1. rep' \in [Clients -> Replies]
      BY <1>12, ReceiveType DEF ReceiveReply
    <2>2. pc' \in [Clients -> Labels] /\ tdcs' \in [Clients -> 0..2]
      BY <1>12, <1>3, <1>4 DEF ReceiveReply, TypeOK, ClientType
    <2>3. ClientType'
      BY <1>12, <2>2 DEF ReceiveReply, TypeOK, ClientType
    <2>4. SocketType'
      BY <1>12, <1>2, <2>1 DEF ReceiveReply, TypeOK, SocketType
    <2>5. QED
      BY <1>2, <2>3, <2>4 DEF TypeOK
  <1>13. CASE Close(c)
    <2>1. rep' \in [Clients -> Replies]
      BY <1>13, ReceiveType DEF Close, TypeOK, SocketType
    <2>2. ClientType'
      BY <1>13, <1>3, <1>4 DEF Close, TypeOK, ClientType
    <2>3. req' \in [Clients -> Requests]
      BY <1>13, <1>5, <2>2, SendType DEF Close, ClientType
    <2>4. QED
      BY <1>2, <2>1, <2>2, <2>3 DEF TypeOK, SocketType
  <1>14. CASE Closed(c)
    <2>1. rep' \in [Clients -> Replies]
      BY <1>14, ReceiveType DEF Closed
    <2>2. ClientType'
      BY <1>14, <1>3, <1>4 DEF Closed, TypeOK, ClientType
    <2>3. QED
      BY <1>2, <1>14, <2>1, <2>2 DEF Closed, TypeOK, SocketType
  <1>15. QED
    BY <1>6, <1>7, <1>9, <1>10, <1>11, <1>12, <1>13, <1>14 DEF ClientStep

\* So do the faults and the messages of foreign senders.
LEMMA FailType ==
    ASSUME TypeOK, Fail \/ Undecodable \/ FatalMessage
    PROVE  TypeOK'
  <1> USE UnchangedTypes
  <1>1. CASE ForeignSend
    <2>1. HistoryType'
      BY <1>1, FaultType DEF ForeignSend, TypeOK, HistoryType, Fault
    <2>2. SocketType'
      BY <1>1 DEF ForeignSend, TypeOK, SocketType
    <2>3. QED
      BY <1>1, <2>1, <2>2 DEF ForeignSend, TypeOK
  <1>2. CASE Restart
    <2>1. HistoryType'
      BY <1>2, FaultType DEF Restart, TypeOK, HistoryType, Fault
    <2>2. ProcessType'
      BY <1>2 DEF Restart, TypeOK, ProcessType
    <2>3. QED
      BY <1>2, <2>1, <2>2 DEF Restart, TypeOK
  <1>3. ASSUME NEW c \in Clients, Interrupt(c) \/ Kill(c)
        PROVE  TypeOK'
    <2>1. HistoryType'
      BY <1>3, FaultType DEF Interrupt, Kill, TypeOK, HistoryType, Fault
    <2>2. ClientType'
      BY <1>3 DEF Interrupt, Kill, Goto, TypeOK, ClientType, Labels
    <2>3. QED
      BY <1>3, <2>1, <2>2 DEF Interrupt, Kill, TypeOK
  <1>4. CASE FatalMessage
    <2>1. SocketType' /\ HistoryType'
      BY <1>4, CrashType DEF FatalMessage, TypeOK, SocketType, HistoryType
    <2>2. QED
      BY <1>4, <2>1, CrashType DEF FatalMessage, TypeOK
  <1>5. CASE Undecodable
    <2>1. CASE Crash
      <3>1. SocketType' /\ HistoryType'
        BY <1>5, <2>1, CrashType DEF Undecodable, TypeOK, SocketType, HistoryType
      <3>2. QED
        BY <1>5, <2>1, <3>1, CrashType DEF Undecodable, TypeOK
    <2>2. CASE /\ lock' = NoLock
               /\ foreign' = "none"
               /\ UNCHANGED <<up, initialized, run_counter, daq_command,
                              capture_data, req, session>>
      <3>1. ProcessType'
        BY <2>2 DEF TypeOK, ProcessType
      <3>2. SocketType' /\ HistoryType'
        BY <1>5, <2>2 DEF Undecodable, TypeOK, SocketType, HistoryType
      <3>3. QED
        BY <1>5, <3>1, <3>2 DEF Undecodable, TypeOK
    <2>3. QED
      BY <1>5, <2>1, <2>2 DEF Undecodable
  <1>6. QED
    BY <1>1, <1>2, <1>3, <1>4, <1>5 DEF Fail

\* The TDC start of a client has a configure left as long as it goes on.
LEMMA TdcsLeftStep ==
    ASSUME TypeOK, TdcsLeft, [Next]_vars
    PROVE  TdcsLeft'
  <1>1. ASSUME UNCHANGED <<pc, tdcs>>
        PROVE  TdcsLeft'
    BY <1>1 DEF TdcsLeft
  <1>2. ASSUME NEW c \in Clients, NEW l \in Labels \ {"tdcs"}, Goto(c, l),
               \A d \in Clients \ {c} : tdcs'[d] = tdcs[d]
        PROVE  TdcsLeft'
    BY <1>2 DEF TdcsLeft, Goto, TypeOK, ClientType
  <1>3. ASSUME NEW c \in Clients, Handle(c)
        PROVE  TdcsLeft'
    BY <1>1, <1>3 DEF Handle, Acquire, DenyAccess, Release, Initialize,
       Configure, MeasureRefused, MeasureDone, MeasureFailed, MeasureWarned,
       ReadTarget, ResetTarget, clientVars
  <1>4. ASSUME NEW c \in Clients, ClientStep(c)
        PROVE  TdcsLeft'
    <2>1. CASE ReceiveReply(c)
      <3>1. CASE Goto(c, "tdcs") /\ UNCHANGED tdcs /\ tdcs[c] > 0
        BY <3>1 DEF TdcsLeft, Goto, TypeOK, ClientType
      <3>2. CASE Goto(c, "ready") /\ tdcs' = [tdcs EXCEPT ![c] = 0]
        BY <3>2, <1>2 DEF TypeOK, ClientType, Labels
      <3>3. QED
        BY <2>1, <3>1, <3>2 DEF ReceiveReply
    <2>2. CASE ~ReceiveReply(c)
      <3>1. CASE ReceiveLock(c) /\ UNCHANGED pc
        BY <3>1, <1>1 DEF ReceiveLock
      <3>2. CASE ~UNCHANGED pc
        <4>1. \A d \in Clients \ {c} : tdcs'[d] = tdcs[d]
          BY <1>4, <2>2 DEF ClientStep, Connect, ReceiveLock, CallInitialize,
             CallOther, Call, SendConfigure, Close, Closed, TypeOK, ClientType
        <4>2. \E l \in Labels \ {"tdcs"} : Goto(c, l)
          BY <1>4, <2>2, <3>2 DEF ClientStep, Connect, ReceiveLock, CallInitialize,
             CallOther, Call, SendConfigure, Close, Closed, Labels
        <4>3. QED
          BY <4>1, <4>2, <1>2
      <3>3. CASE UNCHANGED pc /\ ~ReceiveLock(c)
        <4>1. \A d \in Clients \ {c} : tdcs'[d] = tdcs[d]
          BY <1>4, <2>2 DEF ClientStep, Connect, ReceiveLock, CallInitialize,
             CallOther, Call, SendConfigure, Close, Closed, TypeOK, ClientType
        <4>2. \E l \in Labels \ {"tdcs"} : Goto(c, l)
          BY <1>4, <2>2, <3>3 DEF ClientStep, Connect, CallInitialize,
             CallOther, Call, SendConfigure, Close, Closed, Labels
        <4>3. QED
          BY <4>1, <4>2, <1>2
      <3>4. QED
        BY <3>1, <3>2, <3>3
    <2>3. QED
      BY <2>1, <2>2
  <1>5. ASSUME Fail \/ Undecodable \/ FatalMessage
        PROVE  TdcsLeft'
    <2>1. ASSUME NEW c \in Clients, Interrupt(c) \/ Kill(c)
          PROVE  TdcsLeft'
      <3>1. UNCHANGED tdcs /\ (Goto(c, "draining") \/ Goto(c, "done"))
        BY <2>1 DEF Interrupt, Kill
      <3>2. QED
        BY <3>1, <1>2 DEF Labels
    <2>2. QED
      BY <1>1, <1>5, <2>1 DEF Fail, ForeignSend, Restart, Undecodable,
         FatalMessage, clientVars
  <1>6. CASE UNCHANGED vars
    BY <1>1, <1>6 DEF vars, clientVars
  <1>7. QED
    BY <1>3, <1>4, <1>5, <1>6 DEF Next

\* The initial states are well typed.
LEMMA TypeInit == Init => TypeOK /\ TdcsLeft
  <1> SUFFICES ASSUME Init PROVE TypeOK /\ TdcsLeft
    OBVIOUS
  <1>1. ProcessType
    BY DEF Init, ProcessType
  <1>2. FileType /\ SocketType
    BY MessageTypes DEF Init, FileType, SocketType
  <1>3. ClientType /\ TdcsLeft
    BY BoundAssumption DEF Init, ClientType, TdcsLeft, Labels, Tokens
  <1>4. HistoryType
    BY DEF Init, HistoryType
  <1>5. QED
    BY <1>1, <1>2, <1>3, <1>4 DEF TypeOK

\* Every step keeps the types.
LEMMA TypeStep ==
    ASSUME TypeOK, TdcsLeft, [Next]_vars
    PROVE  TypeOK' /\ TdcsLeft'
  <1>1. CASE UNCHANGED vars
    BY <1>1, UnchangedTypes, TdcsLeftStep DEF vars, netVars, TypeOK
  <1>2. CASE Next
    BY <1>2, HandleType, ClientStepType, FailType, TdcsLeftStep DEF Next
  <1>3. QED
    BY <1>1, <1>2

\* Every variable keeps its type in every behaviour.
THEOREM TypeCorrect == Spec => []TypeOK
  <1>1. TypeOK /\ TdcsLeft /\ [Next]_vars => (TypeOK /\ TdcsLeft)'
    BY TypeStep
  <1>2. QED
    BY <1>1, TypeInit, PTL DEF Spec

(***************************************************************************)
(* Tokens.  A token travels from a lock reply to a client, from the client *)
(* into its requests and, for a measurement, back into a reply; the three  *)
(* lemmas below say that no step takes one anywhere else.                  *)
(***************************************************************************)
\* A handler answers its client, with a new token only when it issues one.
LEMMA HandleTokens ==
    ASSUME TypeOK, NEW c \in Clients, Handle(c)
    PROVE  /\ token' = token
           /\ \A d \in Clients : req'[d] \in {req[d], NoRequest}
           /\ \A d \in Clients \ {c} : rep'[d] = rep[d]
           /\ \/ /\ owners' = owners
                 /\ lock' \in {lock, NoLock}
                 /\ session' \in {session, NoLock, lock}
                 /\ rep'[c].token \in {NoLock, NoneText, rep[c].token,
                                       req[c].token}
              \/ /\ owners' = Append(owners, c)
                 /\ lock' = Len(owners) + 1
                 /\ session' = session
                 /\ rep'[c].token = Len(owners) + 1
  <1>1. token' = token
    BY DEF Handle, Acquire, DenyAccess, Release, Initialize, Configure,
       MeasureRefused, MeasureDone, MeasureFailed, MeasureWarned, ReadTarget,
       ResetTarget, clientVars
  <1>2. Len(owners) + 1 # NoLock
    BY DEF TypeOK, HistoryType, NoLock
  <1>3. \A type : Reply(type).token = NoLock
    BY DEF Reply
  <1>4. ASSUME NEW r, Answer(c, r)
        PROVE  /\ \A d \in Clients : req'[d] \in {req[d], NoRequest}
               /\ \A d \in Clients \ {c} : rep'[d] = rep[d]
               /\ rep'[c] = r
    BY <1>4 DEF Answer, TypeOK, SocketType
  <1>5. ASSUME Crash
        PROVE  /\ \A d \in Clients : req'[d] \in {req[d], NoRequest}
               /\ lock' = NoLock
               /\ session' = NoLock
    BY <1>5 DEF Crash
  <1>6. CASE Acquire(c)
    <2>1. LockReply(SerializeLock(Len(owners) + 1)).token = Len(owners) + 1
      BY <1>2 DEF LockReply, SerializeLock
    <2>2. LockReply(SerializeLock(NoLock)).token = NoneText
      BY DEF LockReply, SerializeLock
    <2>3. QED
      BY <1>1, <1>4, <1>6, <2>1, <2>2 DEF Acquire
  <1>7. CASE DenyAccess(c)
    <2>1. Crash /\ UNCHANGED <<rep, owners>>
      BY <1>7 DEF DenyAccess, Serializable
    <2>2. QED
      BY <1>1, <1>5, <2>1
  <1>8. ASSUME NEW type, rep' = [rep EXCEPT ![c] = Reply(type)]
        PROVE  /\ \A d \in Clients \ {c} : rep'[d] = rep[d]
               /\ rep'[c].token = NoLock
    BY <1>3, <1>8 DEF TypeOK, SocketType
  <1>9. CASE Release(c)
    BY <1>1, <1>3, <1>4, <1>5, <1>8, <1>9 DEF Release
  <1>10. CASE Initialize(c)
    <2>1. owners' = owners
      BY <1>10 DEF Initialize
    <2>2. QED
      BY <1>1, <1>3, <1>4, <1>5, <1>10, <2>1 DEF Initialize
  <1>11. CASE Configure(c)
    <2>1. owners' = owners
      BY <1>11 DEF Configure
    <2>2. QED
      BY <1>1, <1>3, <1>4, <1>5, <1>11, <2>1 DEF Configure
  <1>12. CASE MeasureRefused(c) \/ MeasureFailed(c) \/ ReadTarget(c)
              \/ ResetTarget(c)
    <2>1. UNCHANGED <<lock, session, owners>> /\ \E type : Answer(c, Reply(type))
      BY <1>12 DEF MeasureRefused, MeasureFailed, ReadTarget, ResetTarget,
         historyVars
    <2>2. QED
      BY <1>1, <1>3, <1>4, <2>1
  <1>13. CASE MeasureDone(c)
    <2>1. PICK m : Answer(c, DataReply(m)) /\ m.token = req[c].token
      BY <1>13 DEF MeasureDone
    <2>2. DataReply(m).token = req[c].token
      BY <2>1 DEF DataReply
    <2>3. UNCHANGED <<lock, session, owners>>
      BY <1>13 DEF MeasureDone
    <2>4. QED
      BY <1>1, <1>4, <2>1, <2>2, <2>3
  <1>14. CASE MeasureWarned(c)
    <2>1. owners' = owners /\ Crash /\ rep' = [rep EXCEPT ![c] = Reply("error")]
      BY <1>14 DEF MeasureWarned
    <2>2. QED
      BY <1>1, <1>5, <1>8, <2>1
  <1>15. QED
    BY <1>6, <1>7, <1>9, <1>10, <1>11, <1>12, <1>13, <1>14 DEF Handle

\* A client takes its token from its reply and names it in its request.
LEMMA ClientTokens ==
    ASSUME TypeOK, NEW c \in Clients, ClientStep(c)
    PROVE  /\ UNCHANGED <<owners, lock, session>>
           /\ \A d \in Clients \ {c} : /\ token'[d] = token[d]
                                       /\ rep'[d] = rep[d]
                                       /\ req'[d] = req[d]
           /\ token'[c] \in {token[c], rep[c].token}
           /\ rep'[c] \in {rep[c], NoReply}
           /\ req'[c].token \in {req[c].token, token[c]}
  <1>1. UNCHANGED <<owners, lock, session>>
    BY DEF ClientStep, Connect, ReceiveLock, CallInitialize, CallOther, Call,
       SendConfigure, ReceiveReply, Close, Closed, historyVars, coordVars
  <1>2. rep' = rep \/ rep' = [rep EXCEPT ![c] = NoReply]
    BY DEF ClientStep, Connect, ReceiveLock, CallInitialize, CallOther, Call,
       SendConfigure, ReceiveReply, Close, Closed, Receive
  <1>3. token' = token \/ token' = [token EXCEPT ![c] = rep[c].token]
    BY DEF ClientStep, Connect, ReceiveLock, CallInitialize, CallOther, Call,
       SendConfigure, ReceiveReply, Close, Closed
  <1>4. req' = req \/ \E cmd : Send(c, cmd)
    BY DEF ClientStep, Connect, ReceiveLock, CallInitialize, CallOther, Call,
       SendConfigure, ReceiveReply, Close, Closed
  <1>5. ASSUME NEW cmd, Send(c, cmd)
        PROVE  /\ \A d \in Clients \ {c} : req'[d] = req[d]
               /\ req'[c].token = token[c]
    BY <1>5 DEF Send, Request, TypeOK, SocketType
  <1>6. /\ \A d \in Clients \ {c} : rep'[d] = rep[d]
        /\ rep'[c] \in {rep[c], NoReply}
    BY <1>2 DEF TypeOK, SocketType
  <1>7. /\ \A d \in Clients \ {c} : token'[d] = token[d]
        /\ token'[c] \in {token[c], rep[c].token}
    BY <1>3 DEF TypeOK, ClientType
  <1>8. /\ \A d \in Clients \ {c} : req'[d] = req[d]
        /\ req'[c].token \in {req[c].token, token[c]}
    BY <1>4, <1>5
  <1>9. QED
    BY <1>1, <1>6, <1>7, <1>8

\* The world moves no token.
LEMMA WorldTokens ==
    ASSUME TypeOK, Fail \/ Undecodable \/ FatalMessage \/ UNCHANGED vars
    PROVE  /\ UNCHANGED <<owners, token, rep>>
           /\ \A d \in Clients : req'[d] \in {req[d], NoRequest}
           /\ lock' \in {lock, NoLock}
           /\ session' \in {session, NoLock}
  <1>1. UNCHANGED <<owners, token, rep>>
    BY DEF Fail, ForeignSend, Restart, Interrupt, Kill, Undecodable,
       FatalMessage, vars, netVars, clientVars, historyVars
  <1>2. CASE Undecodable \/ FatalMessage
    <2>1. \/ Crash
          \/ lock' = NoLock /\ UNCHANGED <<req, session>>
      BY <1>2 DEF Undecodable, FatalMessage
    <2>2. QED
      BY <1>1, <2>1 DEF Crash
  <1>3. CASE Fail \/ UNCHANGED vars
    <2>1. UNCHANGED <<req, lock, session>>
      BY <1>3 DEF Fail, ForeignSend, Restart, Interrupt, Kill, vars, netVars,
         coordVars, historyVars
    <2>2. QED
      BY <1>1, <2>1
  <1>4. QED
    BY <1>2, <1>3

(***************************************************************************)
(* Token soundness.  It is inductive together with the facts that the lock *)
(* and the session name issued tokens, and that a client past its          *)
(* constructor, like a request that needs one, names some token.           *)
(***************************************************************************)
Issued(t) == t \in Uuid => t \in DOMAIN owners
Sound(c, t) == t \in Uuid => t \in DOMAIN owners /\ owners[t] = c
PastConstructor == {"ready", "waiting", "tdcs", "draining", "releasing"}
TokenInv ==
    /\ TokenSoundness
    /\ Issued(lock)
    /\ Issued(session)
HasToken ==
    \A c \in Clients :
       /\ pc[c] \in PastConstructor => token[c] # NoLock
       /\ req[c].cmd \notin {"none", "acquire lock"} => req[c].token # NoLock

\* What was sound stays sound as tokens are issued, and a new token is its
\* client's.
LEMMA IssuePreserves ==
    ASSUME TypeOK, NEW c \in Clients, owners' = Append(owners, c)
    PROVE  /\ \A d \in Clients, t \in Tokens : Sound(d, t) => Sound(d, t)'
           /\ \A t \in Tokens : Issued(t) => Issued(t)'
           /\ Len(owners) + 1 \in DOMAIN owners'
           /\ owners'[Len(owners) + 1] = c
  <1>1. owners \in Seq(Clients) /\ Len(owners) \in Nat
    BY DEF TypeOK, HistoryType
  <1>2. /\ DOMAIN owners = 1..Len(owners)
        /\ DOMAIN owners' = 1..(Len(owners) + 1)
        /\ \A t \in DOMAIN owners : owners'[t] = owners[t]
        /\ owners'[Len(owners) + 1] = c
    BY <1>1
  <1>3. QED
    BY <1>1, <1>2 DEF Sound, Issued

\* The texts that are no token are sound for everybody.
LEMMA NoTokenSound ==
    /\ \A c \in Clients : /\ Sound(c, NoLock) /\ Sound(c, NoLock)'
                          /\ Sound(c, NoneText) /\ Sound(c, NoneText)'
    /\ Issued(NoLock) /\ Issued(NoLock)'
    /\ NoRequest.token = NoLock /\ NoReply.token = NoLock
  BY DEF Sound, Issued, Uuid, NoLock, NoneText, NoRequest, NoReply

\* Token soundness, said with one predicate per place a token can be in.
LEMMA TokenSoundnessAlt ==
    TokenSoundness <=> \A c \in Clients : /\ Sound(c, token[c])
                                          /\ Sound(c, rep[c].token)
                                          /\ Sound(c, req[c].token)
  BY DEF TokenSoundness, Sound

\* Every step keeps the tokens sound.
LEMMA TokenStep ==
    ASSUME TypeOK, TokenInv, [Next]_vars
    PROVE  TokenInv'
  <1> USE NoTokenSound
  <1>0. \A c \in Clients : /\ Sound(c, token[c])
                           /\ Sound(c, rep[c].token)
                           /\ Sound(c, req[c].token)
    BY TokenSoundnessAlt DEF TokenInv
  <1>1. \A c \in Clients : /\ token[c] \in Tokens
                           /\ rep[c].token \in Tokens
                           /\ req[c].token \in Tokens
    BY DEF TypeOK, ClientType, SocketType, Requests, Replies
  <1>2. lock \in Tokens /\ session \in Tokens
    BY DEF TypeOK, ProcessType, HistoryType, Tokens
  <1>3. ASSUME owners' = owners
        PROVE  \A t : /\ \A d \in Clients : Sound(d, t) => Sound(d, t)'
                      /\ Issued(t) => Issued(t)'
    BY <1>3 DEF Sound, Issued
  <1>4. TokenSoundness' <=> \A d \in Clients : /\ Sound(d, token[d])'
                                               /\ Sound(d, rep[d].token)'
                                               /\ Sound(d, req[d].token)'
    BY DEF TokenSoundness, Sound
  <1>5. ASSUME NEW c \in Clients, Handle(c)
        PROVE  TokenInv'
    <2>1. CASE owners' = Append(owners, c) /\ lock' = Len(owners) + 1
               /\ session' = session /\ rep'[c].token = Len(owners) + 1
      <3>1. \A d \in Clients : Sound(d, token[d])' /\ Sound(d, req[d].token)'
        BY <1>0, <1>1, <1>5, <2>1, HandleTokens, IssuePreserves
      <3>2. \A d \in Clients \ {c} : Sound(d, rep[d].token)'
        BY <1>0, <1>1, <1>5, <2>1, HandleTokens, IssuePreserves
      <3>3. Sound(c, rep[c].token)' /\ Issued(lock)'
        BY <2>1, IssuePreserves DEF Sound, Issued
      <3>4. Issued(session)'
        BY <1>2, <2>1, IssuePreserves DEF TokenInv
      <3>5. QED
        BY <1>4, <3>1, <3>2, <3>3, <3>4 DEF TokenInv
    <2>2. CASE /\ owners' = owners
               /\ lock' \in {lock, NoLock}
               /\ session' \in {session, NoLock, lock}
               /\ rep'[c].token \in {NoLock, NoneText, rep[c].token,
                                     req[c].token}
      <3>1. \A d \in Clients : Sound(d, token[d])' /\ Sound(d, req[d].token)'
        BY <1>0, <1>3, <1>5, <2>2, HandleTokens
      <3>2. \A d \in Clients : Sound(d, rep[d].token)'
        BY <1>0, <1>3, <1>5, <2>2, HandleTokens
      <3>3. Issued(lock)' /\ Issued(session)'
        BY <1>3, <2>2 DEF TokenInv
      <3>4. QED
        BY <1>4, <3>1, <3>2, <3>3 DEF TokenInv
    <2>3. QED
      BY <1>5, <2>1, <2>2, HandleTokens
  <1>6. ASSUME NEW c \in Clients, ClientStep(c)
        PROVE  TokenInv'
    <2>1. owners' = owners /\ lock' = lock /\ session' = session
      BY <1>6, ClientTokens
    <2>2. \A d \in Clients : /\ Sound(d, token[d])'
                             /\ Sound(d, rep[d].token)'
                             /\ Sound(d, req[d].token)'
      BY <1>0, <1>3, <1>6, <2>1, ClientTokens
    <2>3. Issued(lock)' /\ Issued(session)'
      BY <1>3, <2>1 DEF TokenInv
    <2>4. QED
      BY <1>4, <2>2, <2>3 DEF TokenInv
  <1>7. CASE Fail \/ Undecodable \/ FatalMessage \/ UNCHANGED vars
    <2>1. owners' = owners
      BY <1>7, WorldTokens
    <2>2. \A d \in Clients : /\ Sound(d, token[d])'
                             /\ Sound(d, rep[d].token)'
                             /\ Sound(d, req[d].token)'
      BY <1>0, <1>3, <1>7, <2>1, WorldTokens
    <2>3. Issued(lock)' /\ Issued(session)'
      <3>1. lock' \in {lock, NoLock} /\ session' \in {session, NoLock}
        BY <1>7, WorldTokens
      <3>2. QED
        BY <1>3, <2>1, <3>1 DEF TokenInv
    <2>4. QED
      BY <1>4, <2>2, <2>3 DEF TokenInv
  <1>8. QED
    BY <1>5, <1>6, <1>7 DEF Next

\* A handler moves no client, and takes or answers requests.
LEMMA HandlePlaces ==
    ASSUME TypeOK, NEW c \in Clients, Handle(c)
    PROVE  UNCHANGED pc
  BY DEF Handle, Acquire, DenyAccess, Release, Initialize, Configure,
     MeasureRefused, MeasureDone, MeasureFailed, MeasureWarned, ReadTarget,
     ResetTarget, clientVars

\* A client past its constructor keeps the token it was constructed with.
LEMMA HasTokenStep ==
    ASSUME TypeOK, HasToken, [Next]_vars
    PROVE  HasToken'
  <1>1. ASSUME NEW d \in Clients, req'[d] \in {req[d], NoRequest},
               token'[d] = token[d],
               pc'[d] \in PastConstructor => pc[d] \in PastConstructor
        PROVE  /\ pc'[d] \in PastConstructor => token'[d] # NoLock
               /\ req'[d].cmd \notin {"none", "acquire lock"}
                    => req'[d].token # NoLock
    <2>1. NoRequest.cmd = "none"
      BY DEF NoRequest
    <2>2. CASE req'[d] = NoRequest
      BY <1>1, <2>1, <2>2 DEF HasToken
    <2>3. CASE req'[d] = req[d]
      BY <1>1, <2>3 DEF HasToken
    <2>4. QED
      BY <1>1, <2>2, <2>3
  <1>2. ASSUME NEW c \in Clients, Handle(c)
        PROVE  HasToken'
    <2>1. /\ pc' = pc /\ token' = token
          /\ \A d \in Clients : req'[d] \in {req[d], NoRequest}
      BY <1>2, HandlePlaces, HandleTokens
    <2>2. QED
      BY <1>1, <2>1 DEF HasToken
  <1>3. ASSUME NEW c \in Clients, ClientStep(c)
        PROVE  HasToken'
    <2>1. \A d \in Clients \ {c} : /\ token'[d] = token[d]
                                   /\ req'[d] = req[d]
      BY <1>3, ClientTokens
    <2>2. \A d \in Clients \ {c} : pc'[d] = pc[d]
      BY <1>3 DEF ClientStep, Connect, ReceiveLock, CallInitialize, CallOther,
         Call, SendConfigure, ReceiveReply, Close, Closed, Goto, TypeOK,
         ClientType
    <2>3. CASE Connect(c)
      <3>1. pc'[c] = "acquiring" /\ req'[c].cmd = "acquire lock"
        BY <2>3 DEF Connect, Send, Request, Goto, TypeOK, ClientType, SocketType
      <3>2. QED
        BY <2>1, <2>2, <3>1 DEF HasToken, PastConstructor
    <2>4. CASE ReceiveLock(c)
      <3>1. CASE rep[c].token # NoLock
        <4>1. token'[c] = rep[c].token /\ req' = req
          BY <2>4, <3>1 DEF ReceiveLock, TypeOK, ClientType
        <4>2. QED
          BY <2>1, <2>2, <3>1, <4>1 DEF HasToken
      <3>2. CASE rep[c].token = NoLock
        <4>1. /\ pc'[c] \notin PastConstructor
              /\ req'[c].cmd = "acquire lock" \/ req'[c] = req[c]
          <5>1. pc[c] = "acquiring"
            BY <2>4 DEF ReceiveLock
          <5>2. \/ Send(c, "acquire lock") /\ pc' = pc
                \/ Goto(c, "done") /\ req' = req
            BY <2>4, <3>2 DEF ReceiveLock
          <5>3. pc'[c] \in {"acquiring", "done"}
            BY <5>1, <5>2 DEF Goto, TypeOK, ClientType
          <5>4. \A t, n : Request("acquire lock", t, n).cmd = "acquire lock"
            BY DEF Request
          <5>5. \/ req'[c] = Request("acquire lock", token[c], calls'[c])
                \/ req'[c] = req[c]
            BY <5>2 DEF Send, TypeOK, SocketType
          <5>6. QED
            BY <5>3, <5>4, <5>5 DEF PastConstructor
        <4>2. token'[c] = token[c]
          BY <2>4, <3>2 DEF ReceiveLock
        <4>3. QED
          BY <2>1, <2>2, <4>1, <4>2 DEF HasToken
      <3>3. QED
        BY <3>1, <3>2
    <2>5. CASE ~Connect(c) /\ ~ReceiveLock(c)
      <3>1. pc[c] \in PastConstructor /\ token' = token
        BY <1>3, <2>5 DEF ClientStep, CallInitialize, CallOther, Call,
           SendConfigure, ReceiveReply, Close, Closed, PastConstructor
      <3>2. token[c] # NoLock
        BY <3>1 DEF HasToken
      <3>3. req' = req \/ \E cmd : Send(c, cmd)
        BY <1>3, <2>5 DEF ClientStep, CallInitialize, CallOther, Call,
           SendConfigure, ReceiveReply, Close, Closed
      <3>4. req'[c] = req[c] \/ req'[c].token = token[c]
        BY <3>3 DEF Send, Request, TypeOK, SocketType
      <3>5. QED
        BY <2>1, <2>2, <3>1, <3>2, <3>4 DEF HasToken
    <2>6. QED
      BY <2>3, <2>4, <2>5
  <1>4. CASE Fail \/ Undecodable \/ FatalMessage \/ UNCHANGED vars
    <2>1. \A d \in Clients : \/ pc'[d] \in {pc[d], "done"}
                             \/ pc[d] = "waiting" /\ pc'[d] = "draining"
      <3>1. \/ pc' = pc
            \/ \E c \in Clients : Goto(c, "done")
            \/ \E c \in Clients : pc[c] = "waiting" /\ Goto(c, "draining")
        <4>1. ASSUME NEW c \in Clients, Interrupt(c) \/ Kill(c)
              PROVE  \/ Goto(c, "done")
                     \/ pc[c] = "waiting" /\ Goto(c, "draining")
          BY <4>1 DEF Interrupt, Kill
        <4>2. CASE ForeignSend \/ Restart \/ Undecodable \/ FatalMessage
                   \/ UNCHANGED vars
          BY <4>2 DEF ForeignSend, Restart, Undecodable, FatalMessage, vars,
             clientVars
        <4>3. QED
          BY <1>4, <4>1, <4>2 DEF Fail
      <3>2. ASSUME NEW c \in Clients, NEW l, Goto(c, l)
            PROVE  /\ pc'[c] = l
                   /\ \A d \in Clients \ {c} : pc'[d] = pc[d]
        BY <3>2 DEF Goto, TypeOK, ClientType
      <3>3. QED
        BY <3>1, <3>2
    <2>2. \A d \in Clients : req'[d] \in {req[d], NoRequest}
                              /\ token'[d] = token[d]
      BY <1>4, WorldTokens
    <2>3. QED
      BY <1>1, <2>1, <2>2 DEF HasToken, PastConstructor
  <1>5. QED
    BY <1>2, <1>3, <1>4 DEF Next

\* Initially there are no tokens.
LEMMA TokenInit == Init => TokenInv /\ HasToken
  <1> SUFFICES ASSUME Init PROVE TokenInv /\ HasToken
    OBVIOUS
  <1>1. \A c \in Clients : /\ token[c] = NoLock /\ pc[c] = "start"
                           /\ rep[c] = NoReply /\ req[c] = NoRequest
    BY DEF Init
  <1>2. TokenSoundness
    BY <1>1, NoTokenSound, TokenSoundnessAlt
  <1>3. Issued(lock) /\ Issued(session)
    BY NoTokenSound DEF Init
  <1>4. NoRequest.cmd = "none"
    BY DEF NoRequest
  <1>5. HasToken
    BY <1>1, <1>4 DEF HasToken, PastConstructor
  <1>6. QED
    BY <1>2, <1>3, <1>5 DEF TokenInv

\* The inductive invariant of the coordinator.
CoordInv == TypeOK /\ TdcsLeft /\ TokenInv /\ HasToken

\* CoordInv holds in every reachable state.
LEMMA CoordInvariant == Spec => []CoordInv
  <1>1. Init => CoordInv
    BY TypeInit, TokenInit DEF CoordInv
  <1>2. CoordInv /\ [Next]_vars => CoordInv'
    BY TypeStep, TokenStep, HasTokenStep DEF CoordInv
  <1>3. QED
    BY <1>1, <1>2, PTL DEF Spec

\* No client ever has, receives or names a token issued to another one.
THEOREM TokensAreSound == Spec => []TokenSoundness
  <1>1. CoordInv => TokenSoundness
    BY DEF CoordInv, TokenInv
  <1>2. QED
    BY <1>1, CoordInvariant, PTL

\* The command a handler runs behind the token check is its holder's.
LEMMA AuthorisedIsHolder ==
    ASSUME CoordInv, NEW c \in Clients, Authorised(c),
           req[c].cmd \notin {"none", "acquire lock"}
    PROVE  lock # NoLock /\ Holder = c /\ lock \in DOMAIN owners
  <1>1. lock # NoLock
    BY DEF CoordInv, HasToken, Authorised
  <1>2. lock \in Uuid
    BY <1>1 DEF CoordInv, TypeOK, ProcessType
  <1>3. lock \in DOMAIN owners /\ owners[lock] = c
    BY <1>2 DEF CoordInv, TokenInv, TokenSoundness, Authorised
  <1>4. QED
    BY <1>1, <1>3 DEF Holder

\* A step that reaches the hardware is a step of the holder of the lock.
LEMMA DriverStep ==
    ASSUME CoordInv, [Next]_vars, driver' # driver
    PROVE  lock # NoLock /\ driver' = Holder
  <1>1. PICK c \in Clients : Handle(c)
    BY DEF Next, ClientStep, Connect, ReceiveLock, CallInitialize, CallOther,
       Call, SendConfigure, ReceiveReply, Close, Closed, Fail, ForeignSend,
       Restart, Interrupt, Kill, Undecodable, FatalMessage, vars, historyVars
  <1>2. driver' = c /\ \E cmd \in {"initialize", "configure", "measure",
                                  "read_target", "reset_target"} :
                         Received(c, cmd)
    BY <1>1 DEF Handle, Acquire, DenyAccess, Release, Initialize, Configure,
       MeasureRefused, MeasureDone, MeasureFailed, MeasureWarned, ReadTarget,
       ResetTarget, historyVars
  <1>3. Authorised(c) /\ req[c].cmd \notin {"none", "acquire lock"}
    BY <1>2 DEF Received, Parsed
  <1>4. QED
    BY <1>2, <1>3, AuthorisedIsHolder

\* Only the client the lock was issued to reaches the hardware.
THEOREM HolderDrives == Spec => OnlyHolderDrives
  <1>1. CoordInv /\ [Next]_vars
          => [driver' # driver => lock # NoLock /\ driver' = Holder]_vars
    BY DriverStep
  <1>2. QED
    BY <1>1, CoordInvariant, PTL DEF Spec, OnlyHolderDrives

(***************************************************************************)
(* Sessions.  Without foreign messages a session is there exactly while    *)
(* the coordinator is initialised, belongs to the lock in force, and its   *)
(* holder was the last to reach the hardware.                              *)
(***************************************************************************)
NoForeign == foreign = "none" /\ faults["foreign"] = 0
SessionInv ==
    /\ initialized => lock # NoLock /\ session = lock /\ driver = Holder
    /\ ~initialized => session = NoLock

\* The four things a handler can do to the lock, the session and the
\* hardware.
Grants(c) ==
    /\ lock = NoLock
    /\ lock' = Len(owners) + 1
    /\ owners' = Append(owners, c)
    /\ UNCHANGED <<session, driver, initialized>>
Drives(c) ==
    /\ lock # NoLock
    /\ Holder = c
    /\ driver' = c
    /\ \/ UNCHANGED <<session, initialized>>
       \/ session' = lock /\ initialized' = TRUE
    /\ UNCHANGED <<lock, owners>>
Ends(c) ==
    /\ lock' = NoLock
    /\ session' = NoLock
    /\ initialized' = FALSE
    /\ \/ driver' = driver
       \/ lock # NoLock /\ Holder = c /\ driver' = c
    /\ UNCHANGED owners
Ignores == UNCHANGED <<lock, session, initialized, driver, owners>>

\* Every handler of the coordinator does one of these four things.
LEMMA HandleEffect ==
    ASSUME CoordInv, NEW c \in Clients, Handle(c)
    PROVE  Grants(c) \/ Drives(c) \/ Ends(c) \/ Ignores
  <1>1. CASE Acquire(c)
    BY <1>1 DEF Acquire, Grants, Ignores
  <1>2. CASE DenyAccess(c)
    <2>1. Crash /\ UNCHANGED <<owners, driver>>
      BY <1>2 DEF DenyAccess, Serializable
    <2>2. QED
      BY <2>1 DEF Crash, Ends
  <1>3. CASE Release(c)
    <2>1. UNCHANGED <<owners, driver>>
      BY <1>3 DEF Release
    <2>2. QED
      BY <1>3, <2>1 DEF Release, Crash, Ends
  <1>4. ASSUME Authorised(c), req[c].cmd \in {"initialize", "configure",
                  "measure", "read_target", "reset_target"}
        PROVE  lock # NoLock /\ Holder = c
    BY <1>4, AuthorisedIsHolder
  <1>5. CASE Initialize(c)
    BY <1>4, <1>5 DEF Initialize, Received, Parsed, Crash, Ends, Drives
  <1>6. CASE Configure(c)
    BY <1>4, <1>6 DEF Configure, Received, Parsed, Crash, Ends, Drives
  <1>7. CASE MeasureRefused(c)
    BY <1>7 DEF MeasureRefused, historyVars, Ignores
  <1>8. CASE MeasureDone(c) \/ MeasureFailed(c) \/ ReadTarget(c)
             \/ ResetTarget(c)
    <2>1. /\ UNCHANGED <<lock, session, initialized, owners>>
          /\ driver' = c
          /\ Authorised(c)
          /\ req[c].cmd \in {"measure", "read_target", "reset_target"}
      BY <1>8 DEF MeasureDone, MeasureFailed, ReadTarget, ResetTarget,
         Received, Parsed
    <2>2. QED
      BY <1>4, <2>1 DEF Drives
  <1>9. CASE MeasureWarned(c)
    BY <1>4, <1>9 DEF MeasureWarned, Received, Parsed, Crash, Ends
  <1>10. QED
    BY <1>1, <1>2, <1>3, <1>5, <1>6, <1>7, <1>8, <1>9 DEF Handle

\* Everything else leaves the lock and the session alone.
LEMMA OtherEffect ==
    ASSUME MaxForeign = 0, NoForeign, [Next]_vars,
           ~\E c \in Clients : Handle(c)
    PROVE  Ignores /\ NoForeign'
  <1>1. CASE \E c \in Clients : ClientStep(c)
    BY <1>1 DEF ClientStep, Connect, ReceiveLock, CallInitialize, CallOther,
       Call, SendConfigure, ReceiveReply, Close, Closed, coordVars,
       historyVars, Ignores, NoForeign
  <1>2. CASE UNCHANGED vars
    BY <1>2 DEF vars, coordVars, historyVars, netVars, Ignores, NoForeign
  <1>3. CASE Undecodable \/ FatalMessage
    BY <1>3 DEF Undecodable, FatalMessage, NoForeign
  <1>4. CASE ForeignSend
    BY <1>4 DEF ForeignSend, CountFault, FaultBound, NoForeign
  <1>5. CASE Restart
    BY <1>5 DEF Restart, CountFault, Fault, netVars, Ignores, NoForeign
  <1>6. CASE \E c \in Clients : Interrupt(c) \/ Kill(c)
    <2>1. UNCHANGED <<lock, session, initialized, driver, owners, foreign>>
      BY <1>6 DEF Interrupt, Kill, netVars, coordVars
    <2>2. faults' = [faults EXCEPT !["kill"] = faults["kill"] + 1]
      BY <1>6 DEF Interrupt, Kill, CountFault
    <2>3. QED
      BY <2>1, <2>2 DEF Ignores, NoForeign
  <1>7. QED
    BY <1>1, <1>2, <1>3, <1>4, <1>5, <1>6 DEF Next, Fail

\* No foreign sender appears when the bound allows none.
LEMMA NoForeignStep ==
    ASSUME MaxForeign = 0, NoForeign, [Next]_vars
    PROVE  NoForeign'
  <1>1. ASSUME NEW c \in Clients, Handle(c)
        PROVE  NoForeign'
    BY <1>1 DEF Handle, Acquire, DenyAccess, Release, Initialize, Configure,
       MeasureRefused, MeasureDone, MeasureFailed, MeasureWarned, ReadTarget,
       ResetTarget, Answer, Crash, historyVars, NoForeign
  <1>2. QED
    BY <1>1, OtherEffect

\* Every step keeps the session its holder's.
LEMMA SessionStep ==
    ASSUME CoordInv, MaxForeign = 0, NoForeign, SessionInv, [Next]_vars
    PROVE  SessionInv'
  <1>1. CASE Ignores
    BY <1>1 DEF Ignores, SessionInv, Holder
  <1>2. ASSUME NEW c \in Clients, Grants(c)
        PROVE  SessionInv'
    BY <1>2 DEF Grants, SessionInv
  <1>3. ASSUME NEW c \in Clients, Drives(c)
        PROVE  SessionInv'
    BY <1>3 DEF Drives, SessionInv, Holder
  <1>4. ASSUME NEW c \in Clients, Ends(c)
        PROVE  SessionInv'
    BY <1>4 DEF Ends, SessionInv
  <1>5. QED
    BY <1>1, <1>2, <1>3, <1>4, HandleEffect, OtherEffect

\* The three invariants together hold in every reachable state.
LEMMA SessionInvariant ==
    ASSUME MaxForeign = 0
    PROVE  Spec => [](CoordInv /\ NoForeign /\ SessionInv)
  <1>1. Init => NoForeign /\ SessionInv
    BY DEF Init, NoForeign, SessionInv, Fault
  <1>2. CoordInv /\ NoForeign /\ SessionInv /\ [Next]_vars
          => (NoForeign /\ SessionInv)'
    BY NoForeignStep, SessionStep
  <1>3. QED
    BY <1>1, <1>2, CoordInvariant, PTL DEF Spec

\* Without foreign messages the hardware's session is its holder's, and
\* nobody else has reached the hardware since it was initialised.
THEOREM SessionsAreUndisturbed ==
    ASSUME MaxForeign = 0
    PROVE  Spec => []SessionUndisturbed
  <1>1. SessionInv => SessionUndisturbed
    BY DEF SessionInv, SessionUndisturbed, SessionOwner, Holder
  <1>2. QED
    BY <1>1, SessionInvariant, PTL

(***************************************************************************)
(* The coordinator implements DaqAccess.                                   *)
(***************************************************************************)
\* A lock in force has a holder, which is a client.
LEMMA HolderIsClient ==
    ASSUME CoordInv, lock # NoLock
    PROVE  Holder \in Clients /\ Holder # NoClient
  <1>1. lock \in DOMAIN owners
    BY DEF CoordInv, TokenInv, Issued, TypeOK, ProcessType
  <1>2. owners[lock] \in Clients
    BY <1>1 DEF CoordInv, TypeOK, HistoryType
  <1>3. QED
    BY <1>2, NoClientAssumption DEF Holder

\* Every step of the coordinator is a step of DaqAccess or a stutter.
LEMMA AccessStep ==
    ASSUME CoordInv, MaxForeign = 0, NoForeign, SessionInv, [Next]_vars
    PROVE  [Access!Next]_Access!vars
  <1>1. CASE Ignores
    BY <1>1 DEF Ignores, Holder, SessionOwner, Access!vars
  <1>2. ASSUME NEW c \in Clients, Grants(c)
        PROVE  Access!Grant(c)
    <2>1. Holder = NoClient /\ SessionOwner = NoClient
      BY <1>2 DEF Grants, SessionInv, Holder, SessionOwner
    <2>2. SessionOwner' = NoClient
      BY <1>2 DEF Grants, SessionInv, SessionOwner
    <2>3. owners'[lock'] = c /\ lock' # NoLock
      BY <1>2, IssuePreserves DEF CoordInv, TypeOK, HistoryType, Grants, NoLock
    <2>4. Holder' = c
      BY <2>3 DEF Holder
    <2>5. QED
      BY <1>2, <2>1, <2>2, <2>4 DEF Grants, Access!Grant
  <1>3. ASSUME NEW c \in Clients, Drives(c)
        PROVE  Access!Drive(c)
    BY <1>3 DEF Drives, Holder, SessionOwner, Access!Drive
  <1>4. ASSUME NEW c \in Clients, Ends(c)
        PROVE  Access!Release \/ UNCHANGED Access!vars
    <2>1. Holder' = NoClient /\ SessionOwner' = NoClient
      BY <1>4 DEF Ends, Holder, SessionOwner
    <2>2. CASE lock = NoLock
      BY <1>4, <2>1, <2>2 DEF Ends, SessionInv, Holder, SessionOwner,
         Access!vars
    <2>3. CASE lock # NoLock
      BY <1>4, <2>1, <2>3, HolderIsClient DEF Ends, Access!Release
    <2>4. QED
      BY <2>2, <2>3
  <1>5. QED
    BY <1>1, <1>2, <1>3, <1>4, HandleEffect, OtherEffect DEF Access!Next

\* The steps DaqAccess promises to the clients are enough to keep sessions
\* apart.
THEOREM AccessIsExclusive == Access!Spec => []Access!Exclusive
  <1>1. Access!Init => Access!Exclusive
    BY DEF Access!Init, Access!Exclusive
  <1>2. Access!Exclusive /\ [Access!Next]_Access!vars => Access!Exclusive'
    <2> SUFFICES ASSUME Access!Exclusive, [Access!Next]_Access!vars
                 PROVE  Access!Exclusive'
      OBVIOUS
    <2>1. CASE UNCHANGED Access!vars
      BY <2>1 DEF Access!vars, Access!Exclusive
    <2>2. CASE Access!Release
      BY <2>2 DEF Access!Release, Access!Exclusive
    <2>3. ASSUME NEW c \in Clients, Access!Grant(c)
          PROVE  Access!Exclusive'
      BY <2>3 DEF Access!Grant, Access!Exclusive
    <2>4. ASSUME NEW c \in Clients, Access!Drive(c)
          PROVE  Access!Exclusive'
      BY <2>4 DEF Access!Drive, Access!Exclusive
    <2>5. QED
      BY <2>1, <2>2, <2>3, <2>4 DEF Access!Next
  <1>3. QED
    BY <1>1, <1>2, PTL DEF Access!Spec

\* Without foreign messages the coordinator is an implementation of
\* DaqAccess: access is serialised and no session survives its lock.
THEOREM CoordinatorImplementsAccess ==
    ASSUME MaxForeign = 0
    PROVE  Spec => AccessSpec
  <1>1. Init => Access!Init
    BY DEF Init, Access!Init, Holder, SessionOwner
  <1>2. CoordInv /\ NoForeign /\ SessionInv /\ [Next]_vars
          => [Access!Next]_Access!vars
    BY AccessStep
  <1>3. QED
    BY <1>1, <1>2, SessionInvariant, PTL DEF Spec, AccessSpec, Access!Spec
-----------------------------------------------------------------------------
(***************************************************************************)
(* The measurements: whose data an answer carries, and in which files the  *)
(* runs are kept.                                                          *)
(***************************************************************************)

(***************************************************************************)
(* Requests and replies.  A client has at most one message on its way, and *)
(* a measurement asked for or answered is the one of its last call.        *)
(***************************************************************************)
Lockstep(c) ==
    /\ rep[c] # NoReply => req[c].cmd = "none"
    /\ pc[c] \in {"start", "ready", "tdcs"} => /\ rep[c] = NoReply
                                               /\ req[c].cmd = "none"
Awaiting == {"waiting", "draining", "done"}
AsksForItsCall(c) ==
    req[c].cmd = "measure" => /\ pc[c] \in Awaiting
                              /\ req[c].token = token[c]
                              /\ req[c].run = calls[c]
GetsItsCall(c) ==
    rep[c].type = "data" => /\ pc[c] \in Awaiting
                            /\ rep[c].token = token[c]
                            /\ rep[c].run = calls[c]
Exchange(c) == Lockstep(c) /\ AsksForItsCall(c) /\ GetsItsCall(c)
ExchangeInv == \A c \in Clients : Exchange(c)

\* The messages the code builds, as far as the exchange tells them apart.
LEMMA MessageKinds ==
    /\ NoRequest.cmd = "none"
    /\ NoReply.type = "none"
    /\ \A cmd, t, n : /\ Request(cmd, t, n).cmd = cmd
                      /\ Request(cmd, t, n).token = t
                      /\ Request(cmd, t, n).run = n
    /\ \A type : Reply(type).type = type
    /\ \A t : LockReply(t).type = "lock"
    /\ \A m : /\ DataReply(m).token = m.token
              /\ DataReply(m).run = m.run
  BY DEF NoRequest, NoReply, Request, Reply, LockReply, DataReply

\* A handler takes its client's request; data it answers with is named by
\* the request it took.
LEMMA HandleExchange ==
    ASSUME TypeOK, NEW c \in Clients, Handle(c)
    PROVE  /\ UNCHANGED <<pc, token, calls>>
           /\ req[c].cmd # "none"
           /\ req'[c] = NoRequest
           /\ \/ rep'[c] = rep[c]
              \/ rep'[c].type # "data"
              \/ /\ req[c].cmd = "measure"
                 /\ rep'[c].token = req[c].token
                 /\ rep'[c].run = req[c].run
  <1> USE MessageKinds
  <1>1. UNCHANGED <<pc, token, calls>>
    BY DEF Handle, Acquire, DenyAccess, Release, Initialize, Configure,
       MeasureRefused, MeasureDone, MeasureFailed, MeasureWarned, ReadTarget,
       ResetTarget, clientVars
  <1>2. req[c].cmd # "none"
    BY DEF Handle, Acquire, DenyAccess, Release, Initialize, Configure,
       MeasureRefused, MeasureDone, MeasureFailed, MeasureWarned, ReadTarget,
       ResetTarget, Received, Parsed
  <1>3. ASSUME NEW r, Answer(c, r)
        PROVE  req'[c] = NoRequest /\ rep'[c] = r
    BY <1>3 DEF Answer, TypeOK, SocketType
  <1>4. ASSUME Crash
        PROVE  req'[c] = NoRequest
    BY <1>4 DEF Crash
  <1>5. CASE \E r : Answer(c, r) /\ r.type # "data"
    BY <1>1, <1>2, <1>3, <1>5
  <1>6. CASE MeasureDone(c)
    <2>1. PICK m : Answer(c, DataReply(m)) /\ m.token = req[c].token
                                           /\ m.run = req[c].run
      BY <1>6 DEF MeasureDone
    <2>2. req[c].cmd = "measure"
      BY <1>6 DEF MeasureDone, Received, Parsed
    <2>3. QED
      BY <1>1, <1>3, <2>1, <2>2
  <1>7. CASE Crash /\ UNCHANGED rep
    BY <1>1, <1>2, <1>4, <1>7
  <1>8. CASE Crash /\ \E type \in {"ack", "error"} :
                          rep' = [rep EXCEPT ![c] = Reply(type)]
    BY <1>1, <1>2, <1>4, <1>8 DEF TypeOK, SocketType
  <1>9. \/ \E r : Answer(c, r) /\ r.type # "data"
        \/ MeasureDone(c)
        \/ Crash /\ UNCHANGED rep
        \/ Crash /\ \E type \in {"ack", "error"} :
                        rep' = [rep EXCEPT ![c] = Reply(type)]
    <2>1. CASE Acquire(c)
      BY <2>1 DEF Acquire
    <2>2. CASE DenyAccess(c)
      BY <2>2 DEF DenyAccess, Serializable
    <2>3. CASE Release(c) \/ MeasureWarned(c)
      BY <2>3 DEF Release, MeasureWarned
    <2>4. CASE Initialize(c) \/ Configure(c)
      BY <2>4 DEF Initialize, Configure
    <2>5. CASE MeasureRefused(c) \/ MeasureFailed(c) \/ ReadTarget(c)
               \/ ResetTarget(c)
      BY <2>5 DEF MeasureRefused, MeasureFailed, ReadTarget, ResetTarget
    <2>6. QED
      BY <2>1, <2>2, <2>3, <2>4, <2>5 DEF Handle
  <1>10. QED
    BY <1>5, <1>6, <1>7, <1>8, <1>9

\* A step of a client leaves the others where they are.
LEMMA OthersStay ==
    ASSUME TypeOK, NEW c \in Clients, ClientStep(c), NEW d \in Clients \ {c}
    PROVE  /\ pc'[d] = pc[d]
           /\ calls'[d] = calls[d]
  BY DEF ClientStep, Connect, ReceiveLock, CallInitialize, CallOther, Call,
     SendConfigure, ReceiveReply, Close, Closed, Goto, TypeOK, ClientType

\* A handler keeps every exchange in order.
LEMMA HandleKeepsExchange ==
    ASSUME TypeOK, ExchangeInv, NEW c \in Clients, Handle(c)
    PROVE  ExchangeInv'
  <1> USE MessageKinds
  <1>1. ASSUME NEW d \in Clients \ {c}
        PROVE  Exchange(d)'
    BY HandleExchange, HandleTokens
       DEF ExchangeInv, Exchange, Lockstep, AsksForItsCall, GetsItsCall
  <1>2. Exchange(c)'
    <2>1. Lockstep(c)'
      BY HandleExchange DEF ExchangeInv, Exchange, Lockstep
    <2>2. AsksForItsCall(c)'
      BY HandleExchange DEF AsksForItsCall
    <2>3. GetsItsCall(c)'
      BY HandleExchange
         DEF ExchangeInv, Exchange, AsksForItsCall, GetsItsCall
    <2>4. QED
      BY <2>1, <2>2, <2>3 DEF Exchange
  <1>3. QED
    BY <1>1, <1>2 DEF ExchangeInv

\* A client sends only when nothing of its is on its way.
LEMMA ClientKeepsExchange ==
    ASSUME TypeOK, ExchangeInv, NEW c \in Clients, ClientStep(c)
    PROVE  ExchangeInv'
  <1> USE MessageKinds
  <1>1. ASSUME NEW d \in Clients \ {c}
        PROVE  Exchange(d)'
    BY OthersStay, ClientTokens
       DEF ExchangeInv, Exchange, Lockstep, AsksForItsCall, GetsItsCall
  <1>2. ASSUME NEW l, Goto(c, l)
        PROVE  pc'[c] = l
    BY <1>2 DEF Goto, TypeOK, ClientType
  <1>3. ASSUME NEW cmd, Send(c, cmd)
        PROVE  req'[c] = Request(cmd, token[c], calls'[c])
    BY <1>3 DEF Send, TypeOK, SocketType
  <1>4. ASSUME Receive(c)
        PROVE  rep[c] # NoReply /\ rep'[c] = NoReply /\ req[c].cmd = "none"
    BY <1>4 DEF Receive, TypeOK, SocketType, ExchangeInv, Exchange, Lockstep
  <1>5. pc[c] \in {"start", "ready", "tdcs"} => /\ rep[c] = NoReply
                                                /\ req[c].cmd = "none"
    BY DEF ExchangeInv, Exchange, Lockstep
  <1>6. Exchange(c)'
    <2>1. ASSUME rep'[c] = NoReply, req'[c].cmd = "none"
          PROVE  Exchange(c)'
      BY <2>1 DEF Exchange, Lockstep, AsksForItsCall, GetsItsCall
    <2>2. ASSUME rep'[c] = NoReply, pc'[c] \notin {"start", "ready", "tdcs"},
                 NEW cmd, cmd # "measure", Send(c, cmd)
          PROVE  Exchange(c)'
      BY <1>3, <2>2 DEF Exchange, Lockstep, AsksForItsCall, GetsItsCall
    <2>3. CASE Connect(c)
      <3>1. rep'[c] = NoReply
        BY <1>5, <2>3 DEF Connect
      <3>2. QED
        BY <1>2, <2>2, <2>3, <3>1 DEF Connect
    <2>4. CASE ReceiveLock(c)
      <3>1. CASE UNCHANGED req
        BY <1>4, <2>1, <2>4, <3>1 DEF ReceiveLock
      <3>2. CASE Send(c, "acquire lock") /\ UNCHANGED pc
        BY <1>4, <2>2, <2>4, <3>2 DEF ReceiveLock
      <3>3. QED
        BY <2>4, <3>1, <3>2 DEF ReceiveLock
    <2>5. ASSUME NEW cmd, Call(c, cmd)
          PROVE  Exchange(c)'
      <3>1. /\ rep'[c] = NoReply /\ pc'[c] = "waiting" /\ token' = token
            /\ req'[c] = Request(cmd, token[c], calls'[c])
        BY <1>2, <1>3, <1>5, <2>5 DEF Call
      <3>2. QED
        BY <3>1 DEF Exchange, Lockstep, AsksForItsCall, GetsItsCall, Awaiting
    <2>6. CASE CallInitialize(c) \/ CallOther(c)
      BY <2>5, <2>6 DEF CallInitialize, CallOther
    <2>7. CASE SendConfigure(c)
      <3>1. rep'[c] = NoReply
        BY <1>5, <2>7 DEF SendConfigure
      <3>2. QED
        BY <1>2, <2>2, <2>7, <3>1 DEF SendConfigure
    <2>8. CASE ReceiveReply(c) \/ Closed(c)
      <3>1. Receive(c) /\ UNCHANGED req
        BY <2>8 DEF ReceiveReply, Closed
      <3>2. QED
        BY <1>4, <2>1, <3>1
    <2>9. CASE Close(c)
      <3>1. rep'[c] = NoReply
        BY <1>4, <1>5, <2>9 DEF Close
      <3>2. QED
        BY <1>2, <2>2, <2>9, <3>1 DEF Close
    <2>10. QED
      BY <2>3, <2>4, <2>6, <2>7, <2>8, <2>9 DEF ClientStep
  <1>7. QED
    BY <1>1, <1>6 DEF ExchangeInv

\* The world drops requests and ends clients, no more.
LEMMA WorldPlaces ==
    ASSUME TypeOK, Fail \/ Undecodable \/ FatalMessage \/ UNCHANGED vars
    PROVE  /\ UNCHANGED calls
           /\ \A d \in Clients : \/ pc'[d] \in {pc[d], "done"}
                                 \/ pc[d] = "waiting" /\ pc'[d] = "draining"
  <1>1. UNCHANGED calls
    BY DEF Fail, ForeignSend, Restart, Interrupt, Kill, Undecodable,
       FatalMessage, vars, clientVars
  <1>2. CASE \E c \in Clients : Interrupt(c) \/ Kill(c)
    BY <1>1, <1>2 DEF Interrupt, Kill, Goto, TypeOK, ClientType
  <1>3. CASE ForeignSend \/ Restart \/ Undecodable \/ FatalMessage
             \/ UNCHANGED vars
    BY <1>1, <1>3 DEF ForeignSend, Restart, Undecodable, FatalMessage, vars,
       clientVars
  <1>4. QED
    BY <1>2, <1>3 DEF Fail

\* Every step keeps every exchange in order.
LEMMA ExchangeStep ==
    ASSUME TypeOK, ExchangeInv, [Next]_vars
    PROVE  ExchangeInv'
  <1>1. CASE Fail \/ Undecodable \/ FatalMessage \/ UNCHANGED vars
    <2> SUFFICES ASSUME NEW d \in Clients
                 PROVE  Exchange(d)'
      BY DEF ExchangeInv
    <2>1. /\ calls'[d] = calls[d] /\ token'[d] = token[d] /\ rep'[d] = rep[d]
          /\ req'[d] \in {req[d], NoRequest}
      BY <1>1, WorldPlaces, WorldTokens
    <2>2. \/ pc'[d] \in {pc[d], "done"}
          \/ pc[d] = "waiting" /\ pc'[d] = "draining"
      BY <1>1, WorldPlaces
    <2>3. Exchange(d)
      BY DEF ExchangeInv
    <2>4. QED
      BY <2>1, <2>2, <2>3, MessageKinds
         DEF Exchange, Lockstep, AsksForItsCall, GetsItsCall, Awaiting
  <1>2. QED
    BY <1>1, HandleKeepsExchange, ClientKeepsExchange DEF Next

\* Initially nothing is on its way.
LEMMA ExchangeInit == Init => ExchangeInv
  <1> SUFFICES ASSUME Init, NEW c \in Clients
               PROVE  Exchange(c)
    BY DEF ExchangeInv
  <1>1. rep[c] = NoReply /\ req[c] = NoRequest
    BY DEF Init
  <1>2. QED
    BY <1>1, MessageKinds DEF Exchange, Lockstep, AsksForItsCall, GetsItsCall

\* The exchanges are in order in every reachable state.
LEMMA ExchangeInvariant == Spec => [](CoordInv /\ ExchangeInv)
  <1>1. CoordInv /\ ExchangeInv /\ [Next]_vars => ExchangeInv'
    BY ExchangeStep DEF CoordInv
  <1>2. QED
    BY <1>1, ExchangeInit, CoordInvariant, PTL DEF Spec

\* The data a client receives was taken for the measurement it is waiting
\* for: the file every measurement passes through never mixes two of them up
\* in an answer.
THEOREM AnswersMatch == Spec => []DataMatchesRequest
  <1>1. ExchangeInv => DataMatchesRequest
    BY DEF ExchangeInv, Exchange, GetsItsCall, DataMatchesRequest
  <1>2. QED
    BY <1>1, ExchangeInvariant, PTL

(***************************************************************************)
(* Files.  A run is kept under the lock it was taken with; the files of    *)
(* the lock in force are those of its holder's earlier calls.              *)
(***************************************************************************)
OfHolder(f) ==
    /\ f.content.token = lock
    /\ f.n < run_counter
    /\ f.content.run <= calls[owners[lock]]
    /\ req[owners[lock]].cmd = "measure"
         => f.content.run < calls[owners[lock]]

\* The file every measurement passes through may be left over from before
\* the coordinator was started with capture_data, but never from the session
\* in force: else a run that is warned about would be stored twice.
FileInv ==
    /\ ~up => lock = NoLock
    /\ \A f \in stored : f.token \in DOMAIN owners
    /\ Issued(dataFile.token)
    /\ capture_data /\ lock # NoLock => dataFile.token # lock
    /\ lock # NoLock => \A f \in stored : f.token = lock => OfHolder(f)
    /\ StoredInOrder

MeasurementInv == CoordInv /\ ExchangeInv /\ FileInv

\* Three kinds of steps keep no run: the lock is gone after the step, stays,
\* or is new.
DropsLock ==
    /\ lock' = NoLock
    /\ UNCHANGED <<fileVars, owners>>
KeepsLock ==
    /\ UNCHANGED <<up, lock, run_counter, capture_data, fileVars, owners>>
    /\ \A d \in Clients :
          /\ calls'[d] >= calls[d]
          /\ req'[d].cmd = "measure" => \/ req'[d] = req[d]
                                        \/ calls'[d] > calls[d]
NewLock(c) ==
    /\ up
    /\ lock' = Len(owners) + 1
    /\ owners' = Append(owners, c)
    /\ UNCHANGED <<up, run_counter, capture_data, fileVars, calls>>

\* Every handler is of one of these kinds or keeps a run.
LEMMA HandleFiles ==
    ASSUME TypeOK, NEW c \in Clients, Handle(c)
    PROVE  DropsLock \/ KeepsLock \/ NewLock(c) \/ MeasureDone(c)
             \/ (MeasureWarned(c) /\ dataFile # NoFile /\ capture_data)
  <1>1. calls' = calls /\ \A d \in Clients : req'[d] \in {req[d], NoRequest}
    BY HandleExchange, HandleTokens
  <1>2. \A d \in Clients :
          /\ calls'[d] >= calls[d]
          /\ req'[d].cmd = "measure" => \/ req'[d] = req[d]
                                        \/ calls'[d] > calls[d]
    BY <1>1, MessageKinds DEF TypeOK, ClientType
  <1>3. CASE Acquire(c)
    BY <1>1, <1>2, <1>3 DEF Acquire, Parsed, Answer, NewLock, KeepsLock
  <1>4. CASE DenyAccess(c)
    BY <1>4 DEF DenyAccess, Serializable, Crash, DropsLock
  <1>5. CASE Release(c)
    BY <1>5 DEF Release, Crash, DropsLock
  <1>6. CASE Initialize(c)
    BY <1>2, <1>6 DEF Initialize, Answer, Crash, DropsLock, KeepsLock
  <1>7. CASE Configure(c)
    BY <1>2, <1>7 DEF Configure, Answer, Crash, DropsLock, KeepsLock
  <1>8. CASE MeasureRefused(c) \/ MeasureFailed(c) \/ ReadTarget(c)
             \/ ResetTarget(c)
    <2>1. \E r : Answer(c, r)
      BY <1>8 DEF MeasureRefused, MeasureFailed, ReadTarget, ResetTarget
    <2>2. UNCHANGED <<lock, run_counter, fileVars, owners>>
      BY <1>8 DEF MeasureRefused, MeasureFailed, ReadTarget, ResetTarget,
         historyVars
    <2>3. QED
      BY <1>2, <2>1, <2>2 DEF Answer, KeepsLock
  <1>9. CASE MeasureWarned(c)
    <2>1. Crash /\ UNCHANGED owners
      BY <1>9 DEF MeasureWarned
    <2>2. CASE dataFile = NoFile \/ ~capture_data
      <3>1. UNCHANGED fileVars
        BY <1>9, <2>2 DEF MeasureWarned, StoreRun, fileVars
      <3>2. QED
        BY <2>1, <3>1 DEF Crash, DropsLock
    <2>3. QED
      BY <1>9, <2>2
  <1>10. QED
    BY <1>3, <1>4, <1>5, <1>6, <1>7, <1>8, <1>9 DEF Handle

\* The clients and the world keep no run.
LEMMA OtherFiles ==
    ASSUME CoordInv, FileInv, [Next]_vars, ~\E c \in Clients : Handle(c)
    PROVE  DropsLock \/ KeepsLock
  <1>1. ASSUME NEW c \in Clients, ClientStep(c)
        PROVE  KeepsLock
    <2>1. UNCHANGED <<up, lock, run_counter, capture_data, fileVars, owners>>
      BY <1>1 DEF ClientStep, Connect, ReceiveLock, CallInitialize, CallOther,
         Call, SendConfigure, ReceiveReply, Close, Closed, coordVars,
         historyVars
    <2>2. \A d \in Clients \ {c} : calls'[d] = calls[d] /\ req'[d] = req[d]
      BY <1>1, OthersStay, ClientTokens DEF CoordInv
    <2>3. \/ calls' = calls /\ req' = req
          \/ calls' = calls /\ \E cmd : cmd # "measure" /\ Send(c, cmd)
          \/ calls' = [calls EXCEPT ![c] = calls[c] + 1]
      BY <1>1 DEF ClientStep, Connect, ReceiveLock, CallInitialize, CallOther,
         Call, SendConfigure, ReceiveReply, Close, Closed
    <2>4. \A cmd : Send(c, cmd) => req'[c].cmd = cmd
      BY MessageKinds DEF Send, CoordInv, TypeOK, SocketType
    <2>5. /\ calls'[c] >= calls[c]
          /\ req'[c].cmd = "measure" => \/ req'[c] = req[c]
                                        \/ calls'[c] > calls[c]
      BY <2>3, <2>4 DEF CoordInv, TypeOK, ClientType
    <2>6. \A d \in Clients : calls[d] \in Nat
      BY DEF CoordInv, TypeOK, ClientType
    <2>7. QED
      BY <2>1, <2>2, <2>5, <2>6 DEF KeepsLock
  <1>2. CASE Restart
    BY <1>2 DEF Restart, FileInv, DropsLock
  <1>3. CASE Undecodable \/ FatalMessage
    BY <1>3 DEF Undecodable, FatalMessage, Crash, DropsLock
  <1>4. CASE UNCHANGED vars \/ ForeignSend
             \/ \E c \in Clients : Interrupt(c) \/ Kill(c)
    <2>1. UNCHANGED <<up, lock, run_counter, capture_data, fileVars, owners,
                      calls, req>>
      BY <1>4 DEF vars, ForeignSend, Interrupt, Kill, coordVars, clientVars,
         netVars, historyVars
    <2>2. QED
      BY <2>1 DEF KeepsLock, CoordInv, TypeOK, ClientType
  <1>5. QED
    BY <1>1, <1>2, <1>3, <1>4 DEF Next, Fail

\* What a file of the store looks like.
LEMMA StoredTypes ==
    ASSUME TypeOK, NEW f \in stored
    PROVE  f.n \in Nat /\ f.content.run \in Nat /\ f.token \in Tokens
  BY DEF TypeOK, FileType, StoredFiles, Measurements

\* Without a lock only the order of what is stored is left to say.
LEMMA DropsLockKeeps ==
    ASSUME FileInv, DropsLock
    PROVE  FileInv'
  BY DEF FileInv, DropsLock, fileVars, StoredInOrder, Issued

\* Calls only put the holder's next run further off.
LEMMA KeepsLockKeeps ==
    ASSUME CoordInv, CoordInv', FileInv, KeepsLock
    PROVE  FileInv'
  <1>1. UNCHANGED <<up, lock, run_counter, capture_data, dataFile, stored,
                    owners>>
    BY DEF KeepsLock, fileVars
  <1>2. ASSUME lock # NoLock, NEW f \in stored, f.token = lock
        PROVE  OfHolder(f)'
    <2> DEFINE c == owners[lock]
    <2>1. c \in Clients
      BY <1>2, HolderIsClient DEF Holder
    <2>2. /\ calls[c] \in Nat /\ calls'[c] \in Nat
          /\ f.content.run \in Nat
      BY <2>1, StoredTypes DEF CoordInv, TypeOK, ClientType
    <2>3. OfHolder(f)
      BY <1>2 DEF FileInv
    <2>4. /\ calls'[c] >= calls[c]
          /\ req'[c].cmd = "measure" => \/ req'[c] = req[c]
                                        \/ calls'[c] > calls[c]
      BY <2>1 DEF KeepsLock
    <2>5. f.content.run <= calls'[c]
          /\ (req'[c].cmd = "measure" => f.content.run < calls'[c])
      BY <2>2, <2>3, <2>4 DEF OfHolder
    <2>6. QED
      BY <1>1, <2>3, <2>5 DEF OfHolder
  <1>3. QED
    BY <1>1, <1>2 DEF FileInv, StoredInOrder, Issued

\* Nothing is stored under a new lock.
LEMMA NewLockKeeps ==
    ASSUME CoordInv, FileInv, NEW c \in Clients, NewLock(c)
    PROVE  FileInv'
  <1>1. UNCHANGED <<up, run_counter, capture_data, dataFile, stored>>
        /\ lock' = Len(owners) + 1 /\ up
    BY DEF NewLock, fileVars
  <1>2. owners \in Seq(Clients) /\ Len(owners) \in Nat
    BY DEF CoordInv, TypeOK, HistoryType
  <1>3. /\ DOMAIN owners = 1..Len(owners)
        /\ DOMAIN owners' = 1..(Len(owners) + 1)
    BY <1>2 DEF NewLock
  <1>4. \A f \in stored : f.token \in DOMAIN owners' /\ f.token # lock'
    BY <1>1, <1>2, <1>3 DEF FileInv
  <1>5. dataFile.token # lock' /\ Issued(dataFile.token)'
    BY <1>1, <1>2, <1>3 DEF FileInv, Issued, Uuid
  <1>6. StoredInOrder'
    BY <1>1 DEF FileInv, StoredInOrder
  <1>7. QED
    BY <1>1, <1>4, <1>5, <1>6 DEF FileInv

\* A file that is newer and whose run is later than those of its lock keeps
\* the store in order, and so does one that holds another lock's run.
LEMMA StoreInOrder ==
    ASSUME TypeOK, StoredInOrder, NEW new \in StoredFiles,
           stored' = stored \cup {new},
           \A f \in stored :
              f.token = new.token =>
                 /\ f.n < new.n
                 /\ f.content.token = new.content.token
                      => f.content.run < new.content.run
    PROVE  StoredInOrder'
  <1>1. SUFFICES ASSUME NEW f \in stored', NEW g \in stored',
                        f # g, f.token = g.token
                 PROVE  /\ f.n # g.n
                        /\ f.content.token = g.content.token =>
                             (f.n < g.n <=> f.content.run < g.content.run)
    BY DEF StoredInOrder
  <1>2. \A h \in stored' : h.n \in Nat /\ h.content.run \in Nat
    BY StoredTypes DEF StoredFiles, Measurements
  <1>3. CASE f \in stored /\ g \in stored
    BY <1>1, <1>3 DEF StoredInOrder
  <1>4. CASE f \in stored /\ g = new
    BY <1>1, <1>2, <1>4
  <1>5. CASE f = new /\ g \in stored
    BY <1>1, <1>2, <1>5
  <1>6. QED
    BY <1>1, <1>3, <1>4, <1>5

\* A run that is kept is the last of its lock.
LEMMA MeasureDoneKeeps ==
    ASSUME MeasurementInv, NEW c \in Clients, MeasureDone(c)
    PROVE  FileInv'
  <1> DEFINE m == [token |-> req[c].token, run |-> req[c].run]
             new == [token |-> lock, n |-> run_counter, content |-> m]
  <1>1. /\ req[c].cmd = "measure" /\ req[c].token = lock
        /\ UNCHANGED <<up, lock, capture_data, owners, calls>>
        /\ up
        /\ run_counter' = run_counter + 1
        /\ StoreRun(m)
        /\ req'[c] = NoRequest
    BY HandleExchange DEF MeasureDone, Received, Parsed, Authorised, Answer,
       Handle, MeasurementInv, CoordInv, clientVars
  <1>2. lock # NoLock /\ owners[lock] = c /\ lock \in DOMAIN owners
    BY <1>1, AuthorisedIsHolder DEF MeasurementInv, Authorised, Holder
  <1>3. req[c].run = calls[c] /\ calls[c] \in Nat
    BY <1>1 DEF MeasurementInv, ExchangeInv, Exchange, AsksForItsCall,
       CoordInv, TypeOK, ClientType
  <1>4. new \in StoredFiles /\ run_counter \in Nat
    BY RequestFields DEF MeasurementInv, CoordInv, TypeOK, ProcessType,
       StoredFiles, Tokens
  <1>5. \A f \in stored : f.token = lock =>
           /\ f.content.token = lock /\ f.n < run_counter
           /\ f.content.run < calls[c]
           /\ f.n \in Nat /\ f.content.run \in Nat
    BY <1>1, <1>2, StoredTypes DEF MeasurementInv, CoordInv, FileInv, OfHolder
  <1>6. CASE capture_data
    <2>1. stored' = stored \cup {new} /\ dataFile' = NoFile
      BY <1>1, <1>6 DEF StoreRun
    <2>2. StoredInOrder'
      BY <1>1, <1>3, <1>4, <1>5, <2>1, StoreInOrder
         DEF MeasurementInv, CoordInv, FileInv
    <2>3. \A f \in stored' : f.token = lock => OfHolder(f)'
      <3>1. ASSUME NEW f \in stored, f.token = lock
            PROVE  OfHolder(f)'
        BY <1>1, <1>2, <1>3, <1>4, <1>5, <3>1, MessageKinds DEF OfHolder
      <3>2. ASSUME NEW f, f = new
            PROVE  OfHolder(f)'
        <4>1. /\ f.content.token = lock /\ f.n = run_counter
              /\ f.content.run = calls[c]
          BY <1>1, <1>3, <3>2
        <4>2. QED
          BY <1>1, <1>2, <1>3, <1>4, <4>1, MessageKinds DEF OfHolder
      <3>3. QED
        BY <2>1, <3>1, <3>2
    <2>4. \A f \in stored' : f.token \in DOMAIN owners
      BY <1>2, <2>1 DEF MeasurementInv, FileInv
    <2>5. dataFile'.token = NoLock
      BY <2>1 DEF NoFile
    <2>6. QED
      BY <1>1, <1>2, <2>2, <2>3, <2>4, <2>5, NoTokenSound DEF FileInv, Issued
  <1>7. CASE ~capture_data
    <2>1. stored' = stored /\ dataFile' = m
      BY <1>1, <1>7 DEF StoreRun
    <2>2. ASSUME NEW f \in stored, f.token = lock
          PROVE  OfHolder(f)'
      BY <1>1, <1>2, <1>3, <1>4, <1>5, <2>2, MessageKinds DEF OfHolder
    <2>3. dataFile'.token = lock /\ Issued(dataFile.token)'
      BY <1>1, <1>2, <2>1 DEF Issued
    <2>4. StoredInOrder'
      BY <2>1 DEF MeasurementInv, FileInv, StoredInOrder
    <2>5. QED
      BY <1>1, <1>7, <2>1, <2>2, <2>3, <2>4 DEF MeasurementInv, FileInv
  <1>8. QED
    BY <1>6, <1>7

\* A run that is warned about stores what an earlier lock left behind, and
\* is the last of its own.
LEMMA MeasureWarnedKeeps ==
    ASSUME MeasurementInv, NEW c \in Clients, MeasureWarned(c),
           dataFile # NoFile, capture_data
    PROVE  FileInv'
  <1> DEFINE new == [token |-> lock, n |-> run_counter, content |-> dataFile]
  <1>1. /\ stored' = stored \cup {new} /\ dataFile' = NoFile
        /\ lock' = NoLock /\ owners' = owners
        /\ req[c].cmd = "measure" /\ Authorised(c)
    BY DEF MeasureWarned, StoreRun, Crash, Received, Parsed
  <1>2. lock # NoLock /\ lock \in DOMAIN owners
    BY <1>1, AuthorisedIsHolder DEF MeasurementInv
  <1>3. new \in StoredFiles
    BY DEF MeasurementInv, CoordInv, TypeOK, ProcessType, FileType,
       StoredFiles, Tokens
  <1>4. \A f \in stored : f.token = lock =>
           f.n < run_counter /\ f.content.token # dataFile.token
    BY <1>2 DEF MeasurementInv, FileInv, OfHolder
  <1>5. StoredInOrder'
    BY <1>1, <1>3, <1>4, StoreInOrder DEF MeasurementInv, CoordInv, FileInv
  <1>6. Issued(dataFile.token)'
    BY <1>1, NoTokenSound DEF NoFile
  <1>7. \A f \in stored' : f.token \in DOMAIN owners'
    BY <1>1, <1>2 DEF MeasurementInv, FileInv
  <1>8. QED
    BY <1>1, <1>5, <1>6, <1>7 DEF FileInv

\* Every step keeps the files in order.
LEMMA FileStep ==
    ASSUME MeasurementInv, [Next]_vars
    PROVE  FileInv'
  <1>1. CoordInv'
    BY TypeStep, TokenStep, HasTokenStep DEF MeasurementInv, CoordInv
  <1>2. ASSUME NEW c \in Clients, Handle(c)
        PROVE  FileInv'
    BY <1>1, <1>2, HandleFiles, DropsLockKeeps, KeepsLockKeeps, NewLockKeeps,
       MeasureDoneKeeps, MeasureWarnedKeeps DEF MeasurementInv, CoordInv
  <1>3. QED
    BY <1>1, <1>2, OtherFiles, DropsLockKeeps, KeepsLockKeeps
       DEF MeasurementInv

\* Initially nothing is stored.
LEMMA FileInit == Init => FileInv
  BY NoTokenSound DEF Init, FileInv, StoredInOrder, NoFile

\* The invariant holds in every reachable state.
LEMMA MeasurementInvariant == Spec => []MeasurementInv
  <1>1. MeasurementInv /\ [Next]_vars => FileInv'
    BY FileStep
  <1>2. QED
    BY <1>1, FileInit, ExchangeInvariant, PTL DEF Spec, MeasurementInv

\* No two stored files share a name, and the files of a session are numbered
\* in the order of its runs, whatever restarts and crashes leave behind.
THEOREM RunsAreStoredInOrder == Spec => []StoredInOrder
  <1>1. MeasurementInv => StoredInOrder
    BY DEF MeasurementInv, FileInv
  <1>2. QED
    BY <1>1, MeasurementInvariant, PTL
=============================================================================
