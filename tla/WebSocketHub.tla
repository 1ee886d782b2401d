---------------------------- MODULE WebSocketHub ----------------------------
(***************************************************************************)
(* internal/websocket/hub.go: the set of WebSocket clients under a         *)
(* sync.RWMutex.  Three kinds of goroutines use it: a request that         *)
(* broadcasts what it committed (Requests), the handler that registers a   *)
(* connection, and the read loop of that connection (both are the process  *)
(* of the connection, as the second starts when the first ends).  The      *)
(* connection is that of gorilla/websocket 1.5.1, whose documentation      *)
(* allows one concurrent writer: a second one overwrites the buffer of the *)
(* first, and WriteMessage panics when it notices.                         *)
(***************************************************************************)
EXTENDS FiniteSets

CONSTANTS
    Requests,   \* requests that broadcast; its id also names its message
    Conns,      \* WebSocket connections
    SlowPeers,  \* connections whose peer may stop reading, or vanish unnoticed
    None        \* no goroutine, no connection, no message

Procs == Requests \cup Conns

ASSUME HubProcesses ==
    /\ Requests \cap Conns = {}
    /\ None \notin Procs
    /\ SlowPeers \subseteq Conns

VARIABLES
    \* the hub
    clients,    \* Hub.clients
    writer,     \* goroutine in Lock() or between Lock() and Unlock(), or None
    leaked,     \* TRUE when a panic has left a read lock behind
    \* the goroutines
    at,         \* where each broadcast is
    todo,       \* clients that the loop of a broadcast has yet to visit
    target,     \* the client a broadcast is writing to, or None
    failed,     \* failedConns
    stage,      \* where the goroutine of each connection is
    \* the connections
    peer,       \* what the other end does
    closed,     \* connections the server has closed
    broken,     \* connections on which a write has failed (Conn.writeErr)
    isWriting,  \* connections that are being written to (Conn.isWriting)
    buffer,     \* the message in the write buffer of each connection
    received,   \* messages that have reached each client
    shared      \* an observer's: clients that two broadcasts wrote to at once

lockVars == <<writer, leaked>>
loopVars == <<todo, target, failed>>
wire == <<closed, broken, isWriting, buffer, received, shared>>
vars == <<clients, lockVars, at, loopVars, stage, peer, wire>>

\* Between RLock() and RUnlock().
Iterating == {"range", "copied", "checked", "writing", "written"}

Places == Iterating \cup {"idle", "rlock", "lock"}

Stages == {"absent", "joining", "reading", "leaving", "closing"}

Init ==
    /\ clients = {}
    /\ writer = None
    /\ leaked = FALSE
    /\ at = [r \in Requests |-> "idle"]
    /\ todo = [r \in Requests |-> {}]
    /\ target = [r \in Requests |-> None]
    /\ failed = [r \in Requests |-> {}]
    /\ stage = [c \in Conns |-> "absent"]
    /\ peer = [c \in Conns |-> "up"]
    /\ closed = {}
    /\ broken = {}
    /\ isWriting = {}
    /\ buffer = [c \in Conns |-> None]
    /\ received = [c \in Conns |-> {}]
    /\ shared = {}
-----------------------------------------------------------------------------
(***************************************************************************)
(* sync.RWMutex.  Lock() first announces the writer, which holds back      *)
(* every later RLock(), and then waits for the readers.                    *)
(***************************************************************************)
Readers == {r \in Requests : at[r] \in Iterating}

CanRLock == writer = None

WantsLock(p) ==
    \/ p \in Requests /\ at[p] = "lock"
    \/ p \in Conns /\ stage[p] \in {"joining", "leaving"}

Announce(p) ==
    /\ WantsLock(p)
    /\ writer = None
    /\ writer' = p
    /\ UNCHANGED <<clients, leaked, at, loopVars, stage, peer, wire>>

Locked(p) ==
    /\ writer = p
    /\ Readers = {}
    /\ ~leaked

Unlock == writer' = None
-----------------------------------------------------------------------------
(***************************************************************************)
(* A connection.  HandleConnect upgrades the request and registers the     *)
(* connection; its read loop ends when the peer is known to be gone or the *)
(* server has closed the connection.                                       *)
(***************************************************************************)

\* A *Conn is not reused while a broadcast still refers to it.
Unreferenced(c) ==
    \A r \in Requests : c \notin todo[r] \cup failed[r] \cup {target[r]}

Upgrade(c) ==
    /\ stage[c] = "absent"
    /\ Unreferenced(c)
    /\ stage' = [stage EXCEPT ![c] = "joining"]
    /\ peer' = [peer EXCEPT ![c] = "up"]
    /\ closed' = closed \ {c}
    /\ broken' = broken \ {c}
    /\ isWriting' = isWriting \ {c}
    /\ buffer' = [buffer EXCEPT ![c] = None]
    /\ received' = [received EXCEPT ![c] = {}]
    /\ UNCHANGED <<clients, lockVars, at, loopVars, shared>>

Register(c) ==
    /\ stage[c] = "joining"
    /\ Locked(c)
    /\ clients' = clients \cup {c}
    /\ Unlock
    /\ stage' = [stage EXCEPT ![c] = "reading"]
    /\ shared' = shared \ {c}
    /\ UNCHANGED <<leaked, at, loopVars, peer,
                   closed, broken, isWriting, buffer, received>>

\* ReadMessage returns an error.
ReadError(c) ==
    /\ stage[c] = "reading"
    /\ peer[c] = "gone" \/ c \in closed
    /\ stage' = [stage EXCEPT ![c] = "leaving"]
    /\ UNCHANGED <<clients, lockVars, at, loopVars, peer, wire>>

\* Mutant: the deferred function does not delete the connection.
Deregister_Kept(c) ==
    /\ stage[c] = "leaving"
    /\ Locked(c)
    /\ Unlock
    /\ stage' = [stage EXCEPT ![c] = "closing"]
    /\ UNCHANGED <<clients, leaked, at, loopVars, peer, wire>>

\* Mutant: the map is written without the lock.
Deregister_Unlocked(c) ==
    /\ stage[c] = "leaving"
    /\ clients' = clients \ {c}
    /\ stage' = [stage EXCEPT ![c] = "closing"]
    /\ UNCHANGED <<lockVars, at, loopVars, peer, wire>>

Deregister(c) ==
    /\ stage[c] = "leaving"
    /\ Locked(c)
    /\ clients' = clients \ {c}
    /\ Unlock
    /\ stage' = [stage EXCEPT ![c] = "closing"]
    /\ UNCHANGED <<leaked, at, loopVars, peer, wire>>

\* conn.Close() at the end of the deferred function.
Close(c) ==
    /\ stage[c] = "closing"
    /\ stage' = [stage EXCEPT ![c] = "absent"]
    /\ closed' = closed \cup {c}
    /\ UNCHANGED <<clients, lockVars, at, loopVars, peer,
                   broken, isWriting, buffer, received, shared>>

\* The peer closes the connection, or the kernel reports that it is gone.
PeerLeaves(c) ==
    /\ stage[c] \in {"joining", "reading"}
    /\ peer[c] # "gone"
    /\ peer' = [peer EXCEPT ![c] = "gone"]
    /\ UNCHANGED <<clients, lockVars, at, loopVars, stage, wire>>

\* The peer stops reading and the buffers of the kernel fill up.
PeerStalls(c) ==
    /\ c \in SlowPeers
    /\ stage[c] \in {"joining", "reading"}
    /\ peer[c] = "up"
    /\ peer' = [peer EXCEPT ![c] = "stalled"]
    /\ UNCHANGED <<clients, lockVars, at, loopVars, stage, wire>>
\* It reads on.
PeerResumes(c) ==
    /\ peer[c] = "stalled"
    /\ peer' = [peer EXCEPT ![c] = "up"]
    /\ UNCHANGED <<clients, lockVars, at, loopVars, stage, wire>>
-----------------------------------------------------------------------------
(***************************************************************************)
(* A broadcast.  WriteMessage is several steps, as two goroutines may be   *)
(* in it: it copies the message to the buffer of the connection, checks    *)
(* isWriting, sets it, writes, and checks that it is still set.            *)
(***************************************************************************)

\* A handler calls Broadcast; its message is a new one.
Broadcast(r) ==
    /\ at[r] = "idle"
    /\ at' = [at EXCEPT ![r] = "rlock"]
    /\ received' = [c \in Conns |-> received[c] \ {r}]
    /\ UNCHANGED <<clients, lockVars, loopVars, stage, peer,
                   closed, broken, isWriting, buffer, shared>>

RLock(r) ==
    /\ at[r] = "rlock"
    /\ CanRLock
    /\ at' = [at EXCEPT ![r] = "range"]
    /\ todo' = [todo EXCEPT ![r] = clients]
    /\ UNCHANGED <<clients, lockVars, target, failed, stage, peer, wire>>

\* Mutant: the first failed connection ends the loop.
AfterFailure_Stop(r, c) == {}

\* The clients left to visit once c has failed.
AfterFailure(r, c) == todo[r] \ {c}

\* beginMessage on the next client: an earlier failure is returned at once.
Begin(r) ==
    /\ at[r] = "range"
    /\ \E c \in todo[r] :
           \/ /\ c \in broken
              /\ todo' = [todo EXCEPT ![r] = AfterFailure(r, c)]
              /\ failed' = [failed EXCEPT ![r] = @ \cup {c}]
              /\ UNCHANGED <<at, target, buffer, shared>>
           \/ /\ c \notin broken
              /\ todo' = [todo EXCEPT ![r] = @ \ {c}]
              /\ target' = [target EXCEPT ![r] = c]
              /\ buffer' = [buffer EXCEPT ![c] = r]
              /\ shared' = IF \E q \in Requests : target[q] = c
                           THEN shared \cup {c} ELSE shared
              /\ at' = [at EXCEPT ![r] = "copied"]
              /\ UNCHANGED failed
    /\ UNCHANGED <<clients, lockVars, stage, peer,
                   closed, broken, isWriting, received>>

(***************************************************************************)
(* gin.Recovery turns the panic of a handler into a 500.  The read lock    *)
(* stays: RUnlock is not deferred.                                         *)
(***************************************************************************)
Panic(r) ==
    /\ leaked' = TRUE
    /\ at' = [at EXCEPT ![r] = "idle"]
    /\ todo' = [todo EXCEPT ![r] = {}]
    /\ target' = [target EXCEPT ![r] = None]
    /\ failed' = [failed EXCEPT ![r] = {}]
    /\ UNCHANGED <<clients, writer, stage, peer, wire>>

\* The first check of flushFrame.
CheckFree(r) ==
    /\ at[r] = "copied"
    /\ target[r] \notin isWriting
    /\ at' = [at EXCEPT ![r] = "checked"]
    /\ UNCHANGED <<clients, lockVars, loopVars, stage, peer, wire>>

PanicBusy(r) ==
    /\ at[r] = "copied"
    /\ target[r] \in isWriting
    /\ Panic(r)

SetWriting(r) ==
    /\ at[r] = "checked"
    /\ isWriting' = isWriting \cup {target[r]}
    /\ at' = [at EXCEPT ![r] = "writing"]
    /\ UNCHANGED <<clients, lockVars, loopVars, stage, peer,
                   closed, broken, buffer, received, shared>>

\* The outcomes of a write to c that can happen now: none while it is stalled.
WriteOutcomes(c) ==
    IF c \in closed \cup broken THEN {"error"}
    ELSE CASE peer[c] = "up" -> {"delivered"}
           [] peer[c] = "gone" -> {"error", "lost"}
           [] OTHER -> {}

Write(r) ==
    LET c == target[r] IN
    /\ at[r] = "writing"
    /\ \E outcome \in WriteOutcomes(c) :
           /\ received' = IF outcome = "delivered"
                          THEN [received EXCEPT ![c] = @ \cup {buffer[c]}]
                          ELSE received
           /\ IF outcome = "error"
              THEN /\ broken' = broken \cup {c}
                   /\ failed' = [failed EXCEPT ![r] = @ \cup {c}]
                   /\ todo' = [todo EXCEPT ![r] = AfterFailure(r, c)]
              ELSE UNCHANGED <<broken, failed, todo>>
    /\ at' = [at EXCEPT ![r] = "written"]
    /\ UNCHANGED <<clients, lockVars, target, stage, peer,
                   closed, isWriting, buffer, shared>>

\* The second check of flushFrame.
EndWrite(r) ==
    /\ at[r] = "written"
    /\ target[r] \in isWriting
    /\ isWriting' = isWriting \ {target[r]}
    /\ target' = [target EXCEPT ![r] = None]
    /\ at' = [at EXCEPT ![r] = "range"]
    /\ UNCHANGED <<clients, lockVars, todo, failed, stage, peer,
                   closed, broken, buffer, received, shared>>

PanicReset(r) ==
    /\ at[r] = "written"
    /\ target[r] \notin isWriting
    /\ Panic(r)

\* Mutant: failed connections are collected and forgotten.
RUnlock_Forgets(r) ==
    /\ at[r] = "range"
    /\ todo[r] = {}
    /\ at' = [at EXCEPT ![r] = "idle"]
    /\ UNCHANGED <<clients, lockVars, loopVars, stage, peer, wire>>

RUnlock(r) ==
    /\ at[r] = "range"
    /\ todo[r] = {}
    /\ at' = [at EXCEPT ![r] = IF failed[r] = {} THEN "idle" ELSE "lock"]
    /\ UNCHANGED <<clients, lockVars, loopVars, stage, peer, wire>>

\* Mutant: failed connections are deleted but not closed.
RemoveFailed_Open(r) ==
    /\ at[r] = "lock"
    /\ Locked(r)
    /\ clients' = clients \ failed[r]
    /\ Unlock
    /\ failed' = [failed EXCEPT ![r] = {}]
    /\ at' = [at EXCEPT ![r] = "idle"]
    /\ UNCHANGED <<leaked, todo, target, stage, peer, wire>>

\* Mutant: the loop returns before Unlock().
RemoveFailed_KeepsLock(r) ==
    /\ at[r] = "lock"
    /\ Locked(r)
    /\ closed' = closed \cup failed[r]
    /\ clients' = clients \ failed[r]
    /\ failed' = [failed EXCEPT ![r] = {}]
    /\ at' = [at EXCEPT ![r] = "idle"]
    /\ UNCHANGED <<lockVars, todo, target, stage, peer,
                   broken, isWriting, buffer, received, shared>>

RemoveFailed(r) ==
    /\ at[r] = "lock"
    /\ Locked(r)
    /\ closed' = closed \cup failed[r]
    /\ clients' = clients \ failed[r]
    /\ Unlock
    /\ failed' = [failed EXCEPT ![r] = {}]
    /\ at' = [at EXCEPT ![r] = "idle"]
    /\ UNCHANGED <<leaked, todo, target, stage, peer,
                   broken, isWriting, buffer, received, shared>>
-----------------------------------------------------------------------------
\* A step of a broadcast that has been called.
Progress(r) ==
    \/ RLock(r) \/ Begin(r) \/ CheckFree(r) \/ PanicBusy(r) \/ SetWriting(r)
    \/ Write(r) \/ EndWrite(r) \/ PanicReset(r) \/ RUnlock(r)
    \/ RemoveFailed(r)

\* A step of the goroutine of a connection that has been upgraded.
Serve(c) == Register(c) \/ ReadError(c) \/ Deregister(c) \/ Close(c)

Next ==
    \/ \E r \in Requests : Broadcast(r) \/ Progress(r)
    \/ \E c \in Conns : Upgrade(c) \/ Serve(c)
    \/ \E c \in Conns : PeerLeaves(c) \/ PeerStalls(c) \/ PeerResumes(c)
    \/ \E p \in Procs : Announce(p)

Spec == Init /\ [][Next]_vars

(***************************************************************************)
(* The scheduler runs every goroutine, and sync.RWMutex starves nobody: a  *)
(* reader enters when the writer it waits for unlocks, and writers queue.  *)
(* Nobody has to broadcast, connect, leave or stall.                       *)
(***************************************************************************)
Fairness ==
    /\ \A r \in Requests : SF_vars(Progress(r))
    /\ \A c \in Conns : WF_vars(Serve(c))
    /\ \A p \in Procs : SF_vars(Announce(p))

FairSpec == Spec /\ Fairness
-----------------------------------------------------------------------------
(***************************************************************************)
(* Properties.                                                             *)
(***************************************************************************)

\* The types of the variables.  Only a broadcast that is writing has a target,
\* only one that iterates has clients to visit, and none ends with failed
\* connections it has not removed (the local variables of Broadcast,
\* hub.go:109-128).
HubTypeOK ==
    /\ clients \subseteq Conns
    /\ writer \in Procs \cup {None}
    /\ leaked \in BOOLEAN
    /\ at \in [Requests -> Places]
    /\ todo \in [Requests -> SUBSET Conns]
    /\ target \in [Requests -> Conns \cup {None}]
    /\ \A r \in Requests : target[r] = None <=> at[r] \notin Iterating \ {"range"}
    /\ \A r \in Requests : todo[r] # {} => at[r] \in Iterating
    /\ failed \in [Requests -> SUBSET Conns]
    /\ \A r \in Requests : failed[r] # {} => at[r] \in Iterating \cup {"lock"}
    /\ stage \in [Conns -> Stages]
    /\ peer \in [Conns -> {"up", "stalled", "gone"}]
    /\ closed \subseteq Conns
    /\ broken \subseteq Conns
    /\ isWriting \subseteq Conns
    /\ buffer \in [Conns -> Requests \cup {None}]
    /\ received \in [Conns -> SUBSET Requests]
    /\ shared \subseteq Conns

\* The map does not change while a broadcast iterates over it, as Go's range
\* over a map that another goroutine writes ends the process (hub.go:110-118).
MapStable == [][Readers # {} => UNCHANGED clients]_vars

\* A connection that is being read is a client, or closed so that its read
\* loop ends: removing a failed client (hub.go:121-128) leaves no connection
\* that is open but receives no more messages.
OpenIsRegistered ==
    \A c \in Conns : stage[c] = "reading" /\ c \notin closed => c \in clients

\* The other way round: every client has a read loop that will still remove
\* it, so closed connections do not accumulate in the map (hub.go:82-89).
ClientsAreServed ==
    \A c \in clients : stage[c] \in {"reading", "leaving"}

\* "Broadcast sends a message to all connected WebSocket clients" (hub.go:98):
\* a client that the loop has dealt with has the message, unless it failed, is
\* gone, or two broadcasts were writing to it at once (both hold only the read
\* lock, hub.go:109-118).
ReachesAll ==
    \A r \in Readers : \A c \in clients \ shared :
        \/ c \in todo[r] \cup failed[r] \cup {target[r]}
        \/ r \in received[c]
        \/ peer[c] = "gone"

\* A broadcast is in WriteMessage, and its client does not read.
Stuck == \E r \in Requests : target[r] # None /\ peer[target[r]] = "stalled"

\* Every broadcast ends, and with it the answer of the request that called it
\* (handler/payment.go:39, 68 and 97 answer after the broadcast), unless a
\* client does not read or a panic has left the read lock behind.
BroadcastsEnd ==
    \A r \in Requests : at[r] # "idle" ~> at[r] = "idle" \/ Stuck \/ leaked

\* "Read loop -- keep connection alive and handle disconnects" (hub.go:81):
\* a client that is known to be gone leaves the map, unless another one holds
\* up a broadcast.
DisconnectsHandled ==
    \A c \in Conns :
        c \in clients /\ peer[c] = "gone" ~> c \notin clients \/ Stuck \/ leaked
=============================================================================
