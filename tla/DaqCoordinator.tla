--------------------------- MODULE DaqCoordinator ---------------------------
(***************************************************************************)
(* datenraffinerie/daq_coordination.py: the DAQ coordinator, a process     *)
(* that owns the measurement hardware and serves one ZMQ REP socket, and   *)
(* the DAQCoordClient objects that talk to it over REQ sockets.            *)
(*                                                                         *)
(* The coordinator is single threaded: it receives a message, runs the     *)
(* whole handler and only then receives the next one, so a handler is one  *)
(* action.  The hardware behind it (the ROC slow control and the DAQ       *)
(* server and client programs) appears as the outcomes its calls can have; *)
(* module DaqSystem opens that box.                                        *)
(*                                                                         *)
(* A token is the uuid1 string of DAQCoordinator.run; the n-th one issued  *)
(* is the number n.  Python's None is NoLock and the text 'None' NoneText. *)
(***************************************************************************)
EXTENDS Integers, Sequences

CONSTANTS
    Clients,      \* processes that use a DAQCoordClient
    NoClient,     \* nobody has driven the hardware yet
    LockTries,    \* try_count of DAQCoordClient.__init__ (20 in the code)
    MaxCalls,     \* bound: calls of a client between connecting and closing
    MaxRestarts,  \* bound: times an operator starts the coordinator again
    MaxKills,     \* bound: client processes killed or interrupted
    MaxForeign    \* bound: messages of senders that are no DAQCoordClient

ASSUME NoClientAssumption == NoClient \notin Clients
ASSUME BoundAssumption ==
    /\ LockTries \in Nat \ {0}
    /\ MaxCalls \in Nat
    /\ MaxRestarts \in Nat
    /\ MaxKills \in Nat
    /\ MaxForeign \in Nat

VARIABLES
    \* the coordinator process
    up,            \* the process runs
    lock,          \* self.lock
    initialized,   \* self.initialized
    run_counter,   \* self.run_counter
    daq_command,   \* run's local daq_command is bound: a message was parsed
    capture_data,  \* the --capture_data option of this process
    dataFile,      \* /tmp/measurement_data.raw: which measurement it holds
    stored,        \* files <token>_run_<n>_data.raw and what they hold
    \* the sockets
    req,           \* request of each client not yet received
    rep,           \* reply to each client not yet received
    foreign,       \* message of some other sender
    \* the clients
    pc,            \* where each client's program is
    token,         \* DAQCoordClient.lock
    tries,         \* try_count left
    tdcs,          \* configure commands _start_tdcs has left to send
    calls,         \* calls made; also names a measurement's run
    \* history: what the code does not store
    owners,        \* owners[n]: the client whose request token n answered
    session,       \* token under which the running session was initialised
    driver,        \* client whose command last reached the hardware
    faults         \* restarts, kills and foreign messages so far

coordVars   == <<up, lock, initialized, run_counter, daq_command,
                 capture_data>>
fileVars    == <<dataFile, stored>>
netVars     == <<req, rep, foreign>>
clientVars  == <<pc, token, tries, tdcs, calls>>
historyVars == <<owners, session, driver, faults>>
vars == <<coordVars, fileVars, netVars, clientVars, historyVars>>

-----------------------------------------------------------------------------
(* Tokens, messages and files.                                             *)

NoLock   == 0     \* None
NoneText == -1    \* 'None', a str like any token
Uuid     == Nat \ {0}
Tokens   == Uuid \cup {NoLock, NoneText}

Commands == {"none", "acquire lock", "release lock", "initialize",
             "configure", "measure", "read_target", "reset_target"}
Requests == [cmd : Commands, token : Tokens, run : Nat]
NoRequest == [cmd |-> "none", token |-> NoLock, run |-> 0]
Request(cmd, t, run) == [cmd |-> cmd, token |-> t, run |-> run]

\* A measurement is named by the token and the run of its request.
Measurements == [token : Tokens, run : Nat]
NoFile == [token |-> NoLock, run |-> 0]

ResponseTypes == {"none", "error", "data", "lock", "ack", "access denied",
                  "target_config"}
Replies == [type : ResponseTypes, token : Tokens, run : Nat]
NoReply == [type |-> "none", token |-> NoLock, run |-> 0]
\* Mutant: errors are not sent.
ReplySilent(type) ==
    [type |-> IF type = "error" THEN "none" ELSE type,
     token |-> NoLock, run |-> 0]

Reply(type) == [type |-> type, token |-> NoLock, run |-> 0]
LockReply(t) == [type |-> "lock", token |-> t, run |-> 0]
DataReply(m) == [type |-> "data", token |-> m.token, run |-> m.run]

StoredFiles == [token : Tokens, n : Nat, content : Measurements]

\* DAQCoordResponse.serialize has no branch for the other types: it returns
\* None, which socket.send refuses with a TypeError.
Serializable == {"error", "data", "lock", "ack", "target_config"}

\* Mutant: a refused client is told the lock in force.
SerializeLockLeaky(content) == IF content = NoLock THEN lock ELSE content

\* serialize writes str(content), so the None of a refused lock is a text.
SerializeLock(content) == IF content = NoLock THEN NoneText ELSE content

Fault == {"restart", "kill", "foreign"}
FaultBound == [restart |-> MaxRestarts, kill |-> MaxKills,
               foreign |-> MaxForeign]
CountFault(f) == /\ faults[f] < FaultBound[f]
                 /\ faults' = [faults EXCEPT ![f] = @ + 1]

-----------------------------------------------------------------------------
Init ==
    /\ up = TRUE
    /\ lock = NoLock
    /\ initialized = FALSE
    /\ run_counter = 0
    /\ daq_command = FALSE
    /\ capture_data \in BOOLEAN
    /\ dataFile = NoFile
    /\ stored = {}
    /\ req = [c \in Clients |-> NoRequest]
    /\ rep = [c \in Clients |-> NoReply]
    /\ foreign = "none"
    /\ pc = [c \in Clients |-> "start"]
    /\ token = [c \in Clients |-> NoLock]
    /\ tries = [c \in Clients |-> LockTries]
    /\ tdcs = [c \in Clients |-> 0]
    /\ calls = [c \in Clients |-> 0]
    /\ owners = <<>>
    /\ session = NoLock
    /\ driver = NoClient
    /\ faults = [f \in Fault |-> 0]

(***************************************************************************)
(* The handlers.  Received(c, cmd) is the head of every iteration of run:  *)
(* a message of client c parses (which binds daq_command) and, for every   *)
(* command but 'acquire lock', its token is the current one.               *)
(***************************************************************************)
Parsed(c, cmd) == up /\ req[c].cmd = cmd
\* Mutants: the token is not checked; it is not checked while nobody has the
\* lock.
AuthorisedAlways(c) == TRUE
AuthorisedUnlocked(c) == lock = NoLock \/ req[c].token = lock

Authorised(c) == req[c].token = lock
Received(c, cmd) == Parsed(c, cmd) /\ Authorised(c)

\* The handler answers and the loop goes on to the next message.
Answer(c, reply) ==
    /\ req' = [req EXCEPT ![c] = NoRequest]
    /\ rep' = [rep EXCEPT ![c] = reply]
    /\ daq_command' = TRUE
    /\ UNCHANGED <<up, foreign, capture_data>>

\* An exception no handler catches ends run and main: the process' memory is
\* gone, and so are the requests already delivered to its socket.
Crash ==
    /\ up' = FALSE
    /\ lock' = NoLock
    /\ initialized' = FALSE
    /\ run_counter' = 0
    /\ daq_command' = FALSE
    /\ req' = [c \in Clients |-> NoRequest]
    /\ foreign' = "none"
    /\ session' = NoLock
    /\ UNCHANGED capture_data

Acquire(c) ==
    /\ Parsed(c, "acquire lock")
    /\ \/ /\ lock = NoLock
          /\ lock' = Len(owners) + 1
          /\ owners' = Append(owners, c)
          /\ Answer(c, LockReply(SerializeLock(Len(owners) + 1)))
       \/ /\ lock # NoLock
          /\ Answer(c, LockReply(SerializeLock(NoLock)))
          /\ UNCHANGED <<lock, owners>>
    /\ UNCHANGED <<initialized, run_counter, fileVars, clientVars, session,
                   driver, faults>>

\* The token is not the current one: the answer is 'access denied'.
DenyAccess(c) ==
    /\ up
    /\ req[c].cmd \notin {"none", "acquire lock"}
    /\ ~Authorised(c)
    /\ IF "access denied" \in Serializable
       THEN /\ Answer(c, Reply("access denied"))
            /\ UNCHANGED <<lock, initialized, run_counter, session>>
       ELSE /\ Crash
            /\ UNCHANGED rep
    /\ UNCHANGED <<fileVars, clientVars, owners, driver, faults>>

\* Mutants: release lock does not clear the session; it does not clear the
\* lock.
ReleaseKeepsSession(c) ==
    /\ Received(c, "release lock")
    /\ Answer(c, Reply("ack"))
    /\ lock' = NoLock
    /\ UNCHANGED <<initialized, run_counter, session, fileVars,
                   clientVars, owners, driver, faults>>
ReleaseKeepsLock(c) ==
    /\ Received(c, "release lock")
    /\ Answer(c, Reply("ack"))
    /\ initialized' = FALSE
    /\ UNCHANGED <<lock, run_counter, session, fileVars,
                   clientVars, owners, driver, faults>>

\* The ack leaves before the DAQ system is torn down; a data client that
\* does not stop raises a ValueError nobody catches.
Release(c) ==
    /\ Received(c, "release lock")
    /\ \/ /\ Answer(c, Reply("ack"))
          /\ lock' = NoLock
          /\ initialized' = FALSE
          /\ run_counter' = IF initialized THEN 0 ELSE run_counter
          /\ session' = NoLock
       \/ /\ initialized
          /\ Crash
          /\ rep' = [rep EXCEPT ![c] = Reply("ack")]
    /\ UNCHANGED <<fileVars, clientVars, owners, driver, faults>>

\* target.reset, daq_system.initialize, setup_data_taking_context and
\* target.set, each of which can raise a ValueError that is reported; a
\* configuration without the keys the adapters index ends the process.
Initialize(c) ==
    /\ Received(c, "initialize")
    /\ driver' = c
    /\ \/ /\ Answer(c, Reply("ack"))
          /\ initialized' = TRUE
          /\ session' = lock
          /\ UNCHANGED <<lock, run_counter>>
       \/ /\ Answer(c, Reply("error"))
          /\ UNCHANGED <<lock, initialized, run_counter, session>>
       \/ /\ Crash
          /\ UNCHANGED rep
    /\ UNCHANGED <<fileVars, clientVars, owners, faults>>

\* daq_system.configure, then target.set; a RuntimeWarning of the former is
\* not caught here.
Configure(c) ==
    /\ Received(c, "configure")
    /\ driver' = c
    /\ \/ /\ \E type \in {"ack", "error"} : Answer(c, Reply(type))
          /\ UNCHANGED <<lock, initialized, run_counter, session>>
       \/ /\ Crash
          /\ UNCHANGED rep
    /\ UNCHANGED <<fileVars, clientVars, owners, faults>>

\* Mutant: the name of a stored file has no run number.
StoreRunUnnumbered(m) ==
    /\ stored' = stored \cup {[token |-> lock, n |-> 0, content |-> m]}
    /\ dataFile' = NoFile

\* The tail of the measure handler: read the data file, rename it when the
\* data is to be kept, count the run.
StoreRun(m) ==
    IF capture_data
    THEN /\ stored' = stored \cup
              {[token |-> lock, n |-> run_counter, content |-> m]}
         /\ dataFile' = NoFile
    ELSE /\ dataFile' = m
         /\ UNCHANGED stored

MeasureRefused(c) ==
    /\ Received(c, "measure")
    /\ ~initialized
    /\ Answer(c, Reply("error"))
    /\ UNCHANGED <<lock, initialized, run_counter, fileVars, clientVars,
                   historyVars>>

MeasureDone(c) ==
    LET m == [token |-> req[c].token, run |-> req[c].run]
    IN /\ Received(c, "measure")
       /\ initialized
       /\ driver' = c
       /\ StoreRun(m)
       /\ run_counter' = run_counter + 1
       /\ Answer(c, DataReply(m))
       /\ UNCHANGED <<lock, initialized, clientVars, owners, session,
                      faults>>

\* A ValueError of target.set, daq_system.configure or take_data.
MeasureFailed(c) ==
    /\ Received(c, "measure")
    /\ initialized
    /\ driver' = c
    /\ Answer(c, Reply("error"))
    /\ UNCHANGED <<lock, initialized, run_counter, fileVars, clientVars,
                   owners, session, faults>>

\* Mutant: a RuntimeWarning is only logged.
MeasureWarnedSilently(c) ==
    /\ Received(c, "measure")
    /\ initialized
    /\ dataFile # NoFile
    /\ Answer(c, DataReply(dataFile))
    /\ UNCHANGED <<lock, initialized, run_counter, fileVars, clientVars,
                   historyVars>>

\* A RuntimeWarning of daq_system.configure: the error is sent, but the
\* handler goes on with whatever the data file holds.  Without a file open
\* raises; with one the second send on the REP socket does.
MeasureWarned(c) ==
    /\ Received(c, "measure")
    /\ initialized
    /\ driver' = c
    /\ IF dataFile = NoFile THEN UNCHANGED fileVars ELSE StoreRun(dataFile)
    /\ Crash
    /\ rep' = [rep EXCEPT ![c] = Reply("error")]
    /\ UNCHANGED <<clientVars, owners, faults>>

ReadTarget(c) ==
    /\ Received(c, "read_target")
    /\ driver' = c
    /\ \E type \in {"target_config", "error"} : Answer(c, Reply(type))
    /\ UNCHANGED <<lock, initialized, run_counter, fileVars, clientVars,
                   owners, session, faults>>

ResetTarget(c) ==
    /\ Received(c, "reset_target")
    /\ driver' = c
    /\ \E type \in {"ack", "error"} : Answer(c, Reply(type))
    /\ UNCHANGED <<lock, initialized, run_counter, fileVars, clientVars,
                   owners, session, faults>>

\* Bytes that are no bson raise a DAQError.  Its handler names daq_command,
\* which is unbound until some message was parsed, reports the error and
\* drops the lock, but not the session.
Undecodable ==
    /\ up
    /\ foreign = "undecodable"
    /\ IF daq_command
       THEN /\ lock' = NoLock
            /\ foreign' = "none"
            /\ UNCHANGED <<up, initialized, run_counter, daq_command,
                           capture_data, req, session>>
       ELSE Crash
    /\ UNCHANGED <<rep, fileVars, clientVars, owners, driver, faults>>

\* A message that fails the schema raises a ValueError; a shutdown is
\* answered by serialize without its argument, or denied while the lock is
\* taken: the process ends without an answer in each case.
FatalMessage ==
    /\ up
    /\ foreign \in {"invalid", "shutdown"}
    /\ Crash
    /\ UNCHANGED <<rep, fileVars, clientVars, owners, driver, faults>>

-----------------------------------------------------------------------------
(***************************************************************************)
(* The world around the coordinator.                                       *)
(***************************************************************************)
\* A message of a sender that is no DAQCoordClient.
ForeignSend ==
    /\ foreign = "none"
    /\ CountFault("foreign")
    /\ foreign' \in {"undecodable", "invalid", "shutdown"}
    /\ UNCHANGED <<coordVars, fileVars, req, rep, clientVars, owners,
                   session, driver>>

\* The operator starts coordinate-daq again; requests sent while it was
\* down are queued by the senders' sockets and arrive now.
Restart ==
    /\ ~up
    /\ CountFault("restart")
    /\ up' = TRUE
    /\ capture_data' \in BOOLEAN
    /\ UNCHANGED <<lock, initialized, run_counter, daq_command, fileVars,
                   netVars, clientVars, owners, session, driver>>

-----------------------------------------------------------------------------
(***************************************************************************)
(* The clients.  A client program constructs a DAQCoordClient, calls its   *)
(* methods in any order and drops it; every method sends one request and   *)
(* blocks on the reply.                                                    *)
(***************************************************************************)
Send(c, cmd) ==
    req' = [req EXCEPT ![c] = Request(cmd, token[c], calls'[c])]
Receive(c) == /\ rep[c] # NoReply
              /\ rep' = [rep EXCEPT ![c] = NoReply]
Goto(c, label) == pc' = [pc EXCEPT ![c] = label]

Connect(c) ==
    /\ pc[c] = "start"
    /\ UNCHANGED <<calls, token, tries, tdcs>>
    /\ Send(c, "acquire lock")
    /\ Goto(c, "acquiring")
    /\ UNCHANGED <<coordVars, fileVars, rep, foreign, historyVars>>

\* The loop of __init__: a content of None is tried again, any other content
\* becomes the client's lock.
ReceiveLock(c) ==
    /\ pc[c] = "acquiring"
    /\ Receive(c)
    /\ tries' = [tries EXCEPT ![c] = @ - 1]
    /\ IF rep[c].token # NoLock
       THEN /\ token' = [token EXCEPT ![c] = rep[c].token]
            /\ Goto(c, "ready")
            /\ UNCHANGED <<req, calls>>
       ELSE /\ UNCHANGED <<token, calls>>
            /\ IF tries[c] > 1
               THEN Send(c, "acquire lock") /\ UNCHANGED pc
               ELSE Goto(c, "done") /\ UNCHANGED req
    /\ UNCHANGED <<tdcs, coordVars, fileVars, foreign, historyVars>>

Call(c, cmd) ==
    /\ pc[c] = "ready"
    /\ calls[c] < MaxCalls
    /\ calls' = [calls EXCEPT ![c] = @ + 1]
    /\ Send(c, cmd)
    /\ Goto(c, "waiting")
    /\ UNCHANGED <<token, tries, coordVars, fileVars, rep, foreign,
                   historyVars>>

\* Mutant: one configure too many.
CallInitializeThrice(c) ==
    /\ Call(c, "initialize")
    /\ \E start_tdcs \in BOOLEAN :
         tdcs' = [tdcs EXCEPT ![c] = IF start_tdcs THEN 3 ELSE 0]

\* With start_tdcs a successful initialize goes on with two configures.
CallInitialize(c) ==
    /\ Call(c, "initialize")
    /\ \E start_tdcs \in BOOLEAN :
         tdcs' = [tdcs EXCEPT ![c] = IF start_tdcs THEN 2 ELSE 0]
CallOther(c) ==
    /\ \E cmd \in {"measure", "read_target", "reset_target"} : Call(c, cmd)
    /\ UNCHANGED tdcs

SendConfigure(c) ==
    /\ pc[c] = "tdcs"
    /\ UNCHANGED <<calls, token, tries>>
    /\ tdcs' = [tdcs EXCEPT ![c] = @ - 1]
    /\ Send(c, "configure")
    /\ Goto(c, "waiting")
    /\ UNCHANGED <<coordVars, fileVars, rep, foreign, historyVars>>

\* Only an error raises; every other type counts as success.
ReceiveReply(c) ==
    /\ pc[c] = "waiting"
    /\ Receive(c)
    /\ IF rep[c].type # "error" /\ tdcs[c] > 0
       THEN Goto(c, "tdcs") /\ UNCHANGED tdcs
       ELSE Goto(c, "ready") /\ tdcs' = [tdcs EXCEPT ![c] = 0]
    /\ UNCHANGED <<token, tries, calls, req, foreign, coordVars, fileVars,
                   historyVars>>

\* __del__: a transaction that was interrupted is drained first; then the
\* lock is released and the answer awaited.
Close(c) ==
    /\ \/ pc[c] = "ready" /\ UNCHANGED rep
       \/ pc[c] = "draining" /\ Receive(c)
    /\ UNCHANGED <<token, tries, tdcs, calls>>
    /\ Send(c, "release lock")
    /\ Goto(c, "releasing")
    /\ UNCHANGED <<foreign, coordVars, fileVars, historyVars>>

Closed(c) ==
    /\ pc[c] = "releasing"
    /\ Receive(c)
    /\ Goto(c, "done")
    /\ UNCHANGED <<token, tries, tdcs, calls, req, foreign, coordVars,
                   fileVars, historyVars>>

\* The client program is interrupted while it waits.  A client under
\* construction has no lock to give back yet.
Interrupt(c) ==
    /\ pc[c] \in {"acquiring", "waiting", "releasing"}
    /\ CountFault("kill")
    /\ Goto(c, IF pc[c] = "waiting" THEN "draining" ELSE "done")
    /\ UNCHANGED <<token, tries, tdcs, calls, coordVars, fileVars, netVars,
                   owners, session, driver>>

\* The client process ends without running __del__.
Kill(c) ==
    /\ pc[c] \notin {"start", "done"}
    /\ CountFault("kill")
    /\ Goto(c, "done")
    /\ UNCHANGED <<token, tries, tdcs, calls, coordVars, fileVars, netVars,
                   owners, session, driver>>

-----------------------------------------------------------------------------
Handle(c) ==
    \/ Acquire(c)
    \/ DenyAccess(c)
    \/ Release(c)
    \/ Initialize(c)
    \/ Configure(c)
    \/ MeasureRefused(c)
    \/ MeasureDone(c)
    \/ MeasureFailed(c)
    \/ MeasureWarned(c)
    \/ ReadTarget(c)
    \/ ResetTarget(c)

ClientStep(c) ==
    \/ Connect(c)
    \/ ReceiveLock(c)
    \/ CallInitialize(c)
    \/ CallOther(c)
    \/ SendConfigure(c)
    \/ ReceiveReply(c)
    \/ Close(c)
    \/ Closed(c)

Fail ==
    \/ ForeignSend
    \/ Restart
    \/ \E c \in Clients : Interrupt(c) \/ Kill(c)

Next ==
    \/ \E c \in Clients : Handle(c) \/ ClientStep(c)
    \/ Undecodable
    \/ FatalMessage
    \/ Fail

Spec == Init /\ [][Next]_vars

\* run's loop serves the sockets fair-queued, and a client program that is
\* neither killed nor interrupted goes on until it drops its client.
FairSpec ==
    /\ Spec
    /\ \A c \in Clients : WF_vars(Handle(c)) /\ WF_vars(ClientStep(c))
    /\ WF_vars(Undecodable) /\ WF_vars(FatalMessage)

-----------------------------------------------------------------------------
(***************************************************************************)
(* Properties.                                                             *)
(***************************************************************************)
Labels == {"start", "acquiring", "ready", "waiting", "tdcs", "draining",
           "releasing", "done"}

ProcessType ==
    /\ up \in BOOLEAN
    /\ lock \in Uuid \cup {NoLock}
    /\ initialized \in BOOLEAN
    /\ run_counter \in Nat
    /\ daq_command \in BOOLEAN
    /\ capture_data \in BOOLEAN
FileType ==
    /\ dataFile \in Measurements
    /\ stored \subseteq StoredFiles
SocketType ==
    /\ req \in [Clients -> Requests]
    /\ rep \in [Clients -> Replies]
    /\ foreign \in {"none", "undecodable", "invalid", "shutdown"}
ClientType ==
    /\ pc \in [Clients -> Labels]
    /\ token \in [Clients -> Tokens]
    /\ tries \in [Clients -> Int]
    /\ tdcs \in [Clients -> 0..2]
    /\ calls \in [Clients -> Nat]
HistoryType ==
    /\ owners \in Seq(Clients)
    /\ session \in Uuid \cup {NoLock}
    /\ driver \in Clients \cup {NoClient}
    /\ faults \in [Fault -> Nat]

\* Every variable keeps the type the code gives it.
TypeOK == ProcessType /\ FileType /\ SocketType /\ ClientType /\ HistoryType

\* The client the coordinator's lock was issued to.
Holder == IF lock = NoLock THEN NoClient ELSE owners[lock]
SessionOwner == IF session = NoLock THEN NoClient ELSE owners[session]

\* A uuid a client has, has in flight or names in a request was issued to
\* that client and to no other, whatever messages cross, however often the
\* coordinator comes back: no client can spend another one's token.
TokenSoundness ==
    \A c \in Clients :
       \A t \in {token[c], rep[c].token, req[c].token} :
          t \in Uuid => t \in DOMAIN owners /\ owners[t] = c

\* Only the client the lock was issued to reaches the hardware: a step that
\* changes its driver is a command of the current holder (rst: "Any daq
\* process that wants to take measurements, needs to aquire the lock").
OnlyHolderDrives ==
    [][driver' # driver => /\ lock # NoLock
                           /\ driver' = Holder]_vars

\* While a session is initialised and the lock is held, they belong to one
\* client and nobody else has reached the hardware since: the configuration
\* on the ROCs is what that client put there.
SessionUndisturbed ==
    initialized /\ lock # NoLock => /\ SessionOwner = Holder
                                    /\ driver = Holder

\* The data a client receives was taken for the measurement it is waiting
\* for, never for an earlier run or another client, although every
\* measurement passes through one file.
DataMatchesRequest ==
    \A c \in Clients :
       rep[c].type = "data" => /\ rep[c].token = token[c]
                               /\ rep[c].run = calls[c]

\* No two stored files share a name, and the numbers of one session's files
\* follow the order of its runs.
StoredInOrder ==
    \A f, g \in stored :
       f # g /\ f.token = g.token =>
          /\ f.n # g.n
          /\ f.content.token = g.content.token =>
               (f.n < g.n <=> f.content.run < g.content.run)

\* A lock that is taken is given back, unless the coordinator dies, when no
\* client process is killed.
LockIsReleased == (lock # NoLock) ~> (lock = NoLock)

\* A client that has sent a request gets its reply while the coordinator
\* stays up.
RequestsAnswered ==
    \A c \in Clients :
       (up /\ req[c] # NoRequest) ~> (rep[c] # NoReply \/ ~up \/ pc[c] = "done")

\* The promise of DaqAccess, read off the coordinator's memory.
Access == INSTANCE DaqAccess WITH
    holder <- Holder, session <- SessionOwner, driver <- driver

\* The coordinator does what DaqAccess promises: the lock is granted over
\* hardware without a session, only its holder drives the hardware, and the
\* session goes with the lock.
AccessSpec == Access!Spec

-----------------------------------------------------------------------------
(* What the code's documentation and messages say and the code does not do. *)

\* rst: "The daq coordinator is responsible for serializing access to the
\* Measurement system": no two clients hold the lock as far as they know.
OneLockHolder ==
    \A c, d \in Clients :
       c # d => ~(pc[c] = "ready" /\ pc[d] = "ready")
=============================================================================
