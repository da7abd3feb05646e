----------------------------- MODULE DaqAccess -----------------------------
(***************************************************************************)
(* What the DAQ coordinator promises its clients (docs/source/architecture *)
(* /daq-coordinator.rst): access to the measurement hardware is serialised *)
(* by a lock, and the configuration on the hardware stays what the lock's  *)
(* holder assumes.                                                         *)
(***************************************************************************)
CONSTANTS Clients, NoClient

VARIABLES
    holder,   \* the client that has the lock, or NoClient
    session,  \* the client whose initialised session is on the hardware
    driver    \* the client that reached the hardware last

vars == <<holder, session, driver>>

Init ==
    /\ holder = NoClient
    /\ session = NoClient
    /\ driver = NoClient

\* A lock is granted only over hardware nobody's session is on.
Grant(c) ==
    /\ holder = NoClient
    /\ session = NoClient
    /\ holder' = c
    /\ UNCHANGED <<session, driver>>

\* The holder reaches the hardware and may leave its own session on it.
Drive(c) ==
    /\ holder = c
    /\ driver' = c
    /\ session' \in {session, c}
    /\ UNCHANGED holder

\* The lock goes back, or the coordinator ends: the session ends with it.
\* The holder's last command may still have reached the hardware.
Release ==
    /\ holder # NoClient
    /\ holder' = NoClient
    /\ session' = NoClient
    /\ driver' \in {driver, holder}

Next == Release \/ \E c \in Clients : Grant(c) \/ Drive(c)

Spec == Init /\ [][Next]_vars

\* A session on the hardware is its holder's, and the holder was the last to
\* reach the hardware.
Exclusive == session # NoClient => session = holder /\ driver = holder
=============================================================================
