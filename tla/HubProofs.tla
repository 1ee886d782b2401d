------------------------------ MODULE HubProofs ------------------------------
(***************************************************************************)
(* Theorems about WebSocketHub: what its lock protects for any number of   *)
(* broadcasts and connections, and what broadcasts that overlap still      *)
(* promise: all but the clients that two of them write to at once.         *)
(***************************************************************************)
EXTENDS WebSocketHub, TLAPS

\* The buffer of a connection that is being written to holds a message.
Buffered ==
    \A r \in Requests : target[r] # None => buffer[target[r]] \in Requests

HInv == HubTypeOK /\ Buffered /\ OpenIsRegistered /\ ClientsAreServed

LEMMA InitHInv == Init => HInv
<1> SUFFICES ASSUME Init PROVE HInv
  OBVIOUS
<1>1. HubTypeOK
  BY DEF Init, HubTypeOK, Places, Stages, Iterating
<1>2. Buffered /\ OpenIsRegistered /\ ClientsAreServed
  BY DEF Init, Buffered, OpenIsRegistered, ClientsAreServed
<1> QED
  BY <1>1, <1>2 DEF HInv

LEMMA BroadcastHInv ==
    ASSUME HInv, NEW r \in Requests, Broadcast(r) \/ Progress(r)
    PROVE  HInv'
<1> USE HubProcesses DEF HInv, HubTypeOK, Buffered, OpenIsRegistered,
        ClientsAreServed, Procs, Places, Stages, Iterating, lockVars, loopVars,
        wire
<1>1. CASE Broadcast(r)
  BY <1>1 DEF Broadcast
<1>2. CASE RLock(r)
  BY <1>2 DEF RLock
<1>3. CASE Begin(r)
  BY <1>3 DEF Begin, AfterFailure
<1>4. CASE CheckFree(r)
  BY <1>4 DEF CheckFree
<1>5. CASE PanicBusy(r)
  BY <1>5 DEF PanicBusy, Panic
<1>6. CASE SetWriting(r)
  BY <1>6 DEF SetWriting
<1>7. CASE Write(r)
  <2>1. target[r] \in Conns /\ buffer[target[r]] \in Requests
    BY <1>7 DEF Write
  <2>2. /\ received' \in [Conns -> SUBSET Requests]
        /\ broken' \subseteq Conns
        /\ failed' \in [Requests -> SUBSET Conns]
        /\ \A q \in Requests \ {r} : failed'[q] = failed[q]
        /\ todo' \in [Requests -> SUBSET Conns]
        /\ \A q \in Requests \ {r} : todo'[q] = todo[q]
    BY <1>7, <2>1 DEF Write, AfterFailure
  <2>3. HubTypeOK'
    <3>1. /\ at[r] = "writing"
          /\ at' = [at EXCEPT ![r] = "written"]
          /\ UNCHANGED <<clients, writer, leaked, target, stage, peer,
                         closed, isWriting, buffer, shared>>
      BY <1>7 DEF Write
    <3>2. \A q \in Requests :
              /\ target'[q] = None <=> at'[q] \notin Iterating \ {"range"}
              /\ todo'[q] # {} => at'[q] \in Iterating
              /\ failed'[q] # {} => at'[q] \in Iterating \cup {"lock"}
      BY <2>2, <3>1, HubProcesses DEF Procs
    <3> QED
      BY <2>2, <3>1, <3>2
  <2>4. Buffered' /\ OpenIsRegistered' /\ ClientsAreServed'
    BY <1>7, <2>1 DEF Write
  <2> QED
    BY <2>3, <2>4
<1>8. CASE EndWrite(r)
  BY <1>8 DEF EndWrite
<1>9. CASE PanicReset(r)
  BY <1>9 DEF PanicReset, Panic
<1>10. CASE RUnlock(r)
  BY <1>10 DEF RUnlock
<1>11. CASE RemoveFailed(r)
  BY <1>11 DEF RemoveFailed, Unlock
<1> QED
  BY <1>1, <1>2, <1>3, <1>4, <1>5, <1>6, <1>7, <1>8, <1>9, <1>10, <1>11
  DEF Progress

\* The steps of a connection and its peer.
ConnStep(c) ==
    \/ Upgrade(c) \/ Serve(c)
    \/ PeerLeaves(c) \/ PeerStalls(c) \/ PeerResumes(c)

LEMMA ConnHInv ==
    ASSUME HInv, NEW c \in Conns, ConnStep(c)
    PROVE  HInv'
<1> USE HubProcesses DEF HInv, HubTypeOK, Buffered, OpenIsRegistered,
        ClientsAreServed, Procs, Places, Stages, Iterating, lockVars, loopVars,
        wire
<1>1. CASE Upgrade(c)
  <2>1. HubTypeOK'
    BY <1>1 DEF Upgrade
  <2>2. Buffered'
    BY <1>1 DEF Upgrade, Unreferenced
  <2>3. OpenIsRegistered' /\ ClientsAreServed'
    BY <1>1 DEF Upgrade
  <2> QED
    BY <2>1, <2>2, <2>3
<1>2. CASE Register(c)
  BY <1>2 DEF Register, Unlock
<1>3. CASE ReadError(c)
  BY <1>3 DEF ReadError
<1>4. CASE Deregister(c)
  BY <1>4 DEF Deregister, Unlock
<1>5. CASE Close(c)
  BY <1>5 DEF Close
<1>6. CASE PeerLeaves(c) \/ PeerStalls(c) \/ PeerResumes(c)
  BY <1>6 DEF PeerLeaves, PeerStalls, PeerResumes
<1> QED
  BY <1>1, <1>2, <1>3, <1>4, <1>5, <1>6 DEF ConnStep, Serve

LEMMA NextHInv == HInv /\ [Next]_vars => HInv'
<1> SUFFICES ASSUME HInv, [Next]_vars PROVE HInv'
  OBVIOUS
<1>1. ASSUME NEW p \in Procs, Announce(p)
      PROVE  HInv'
  BY <1>1 DEF Announce, HInv, HubTypeOK, Buffered, OpenIsRegistered,
     ClientsAreServed, Procs, loopVars, wire
<1>2. CASE UNCHANGED vars
  BY <1>2 DEF vars, HInv, HubTypeOK, Buffered, OpenIsRegistered,
     ClientsAreServed, lockVars, loopVars, wire
<1> QED
  BY <1>1, <1>2, BroadcastHInv, ConnHInv DEF Next, ConnStep

\* The inductive invariant: types, and clients against read loops.
THEOREM HubInvariance == Spec => []HInv
BY InitHInv, NextHInv, PTL DEF Spec

\* Types, and the local variables of a broadcast (hub.go:109-128).
THEOREM HubTypeCorrect == Spec => []HubTypeOK
<1>1. HInv => HubTypeOK
  BY DEF HInv
<1> QED
  BY <1>1, HubInvariance, PTL

\* An open connection that is being read is a client (hub.go:121-128).
THEOREM OpenRegistered == Spec => []OpenIsRegistered
<1>1. HInv => OpenIsRegistered
  BY DEF HInv
<1> QED
  BY <1>1, HubInvariance, PTL

\* Every client has a read loop that will remove it (hub.go:82-89).
THEOREM ClientsServed == Spec => []ClientsAreServed
<1>1. HInv => ClientsAreServed
  BY DEF HInv
<1> QED
  BY <1>1, HubInvariance, PTL
-----------------------------------------------------------------------------
\* Whoever changes the set of clients holds the lock, which excludes readers.
LEMMA ClientsLocked ==
    ASSUME Next
    PROVE  Readers # {} => UNCHANGED clients
<1> SUFFICES ASSUME Readers # {} PROVE UNCHANGED clients
  OBVIOUS
<1>1. \A p : ~Locked(p)
  BY DEF Locked
<1>2. ASSUME NEW r \in Requests, Broadcast(r) \/ Progress(r)
      PROVE  UNCHANGED clients
  BY <1>1, <1>2 DEF Broadcast, Progress, RLock, Begin, CheckFree, PanicBusy,
     Panic, SetWriting, Write, EndWrite, PanicReset, RUnlock, RemoveFailed
<1>3. ASSUME NEW c \in Conns, ConnStep(c)
      PROVE  UNCHANGED clients
  BY <1>1, <1>3 DEF ConnStep, Upgrade, Serve, Register, ReadError, Deregister,
     Close, PeerLeaves, PeerStalls, PeerResumes
<1>4. ASSUME NEW p \in Procs, Announce(p)
      PROVE  UNCHANGED clients
  BY <1>4 DEF Announce
<1> QED
  BY <1>2, <1>3, <1>4 DEF Next, ConnStep

\* The map does not change while a broadcast iterates over it, whatever the
\* number of broadcasts and connections (hub.go:110-118).
THEOREM MapIsStable == Spec => MapStable
<1>1. [Next]_vars => [Readers # {} => UNCHANGED clients]_vars
  BY ClientsLocked
<1> QED
  BY <1>1, PTL DEF Spec, MapStable
-----------------------------------------------------------------------------
(***************************************************************************)
(* Overlapping broadcasts and the clients that they do not share.          *)
(***************************************************************************)

\* Client c failed in the loop of r, has its message, or is gone.
Reached(r, c) ==
    \/ c \in failed[r]
    \/ r \in received[c]
    \/ peer[c] = "gone"

\* At most one broadcast is in WriteMessage for c: it alone marks c as being
\* written to, and the buffer of c holds its message until it is written.
Private(c) ==
    /\ \A q, r \in Requests : target[q] = c /\ target[r] = c => q = r
    /\ c \in isWriting <=>
           \E r \in Requests : target[r] = c /\ at[r] \in {"writing", "written"}
    /\ \A r \in Requests : target[r] = c =>
           IF at[r] = "written" THEN Reached(r, c) ELSE buffer[c] = r

\* The loop of r has c before it, is at c, or has dealt with it.
Covers(r, c) == c \in todo[r] \/ c = target[r] \/ Reached(r, c)

\* The loops visit clients only.
Visited ==
    \A r \in Requests :
        todo[r] \subseteq clients /\ (target[r] = None \/ target[r] \in clients)

Covered ==
    \A r \in Readers : \A c \in clients \ shared : Covers(r, c)

\* A connection that is new to the hub is not being written to.
Fresh == \A c \in Conns : stage[c] = "joining" => c \notin isWriting

OInv ==
    /\ HInv
    /\ Visited
    /\ Covered
    /\ Fresh
    /\ \A c \in Conns \ shared : Private(c)
    /\ leaked => shared # {}

LEMMA InitOInv == Init => OInv
<1> SUFFICES ASSUME Init PROVE OInv
  OBVIOUS
<1>1. Visited /\ Covered /\ Fresh /\ (leaked => shared # {})
  BY DEF Init, Visited, Covered, Fresh, Readers, Iterating
<1>2. \A c \in Conns \ shared : Private(c)
  BY HubProcesses DEF Init, Private, Procs
<1> QED
  BY <1>1, <1>2, InitHInv DEF OInv

\* The set of shared clients shrinks in Register only.
LEMMA SharedGrows ==
    ASSUME NEW r \in Requests, Broadcast(r) \/ Progress(r)
    PROVE  shared \subseteq shared'
BY DEF Broadcast, Progress, RLock, Begin, CheckFree, PanicBusy, Panic,
   SetWriting, Write, EndWrite, PanicReset, RUnlock, RemoveFailed, wire

\* A step of broadcast r and the clients that its loop has covered.
LEMMA BroadcastCovers ==
    ASSUME OInv, NEW r \in Requests, Broadcast(r) \/ Progress(r)
    PROVE  Visited' /\ Covered' /\ Fresh'
<1> USE DEF OInv, HInv, HubTypeOK, Visited, Covered, Covers, Reached, Fresh,
        Readers, Iterating, Places, lockVars, loopVars, wire
<1>1. CASE Broadcast(r)
  BY <1>1 DEF Broadcast
<1>2. CASE RLock(r)
  BY <1>2 DEF RLock
<1>3. CASE Begin(r)
  <2>1. at[r] = "range" /\ todo[r] \subseteq Conns /\ target[r] = None
    BY <1>3 DEF Begin
  <2>2. Visited' /\ Fresh'
    BY <1>3, <2>1 DEF Begin, AfterFailure
  <2>3. \A q \in Requests, c \in clients : Covers(q, c) => Covers(q, c)'
    BY <1>3, <2>1, HubProcesses DEF Begin, AfterFailure, Procs
  <2>4. Readers' = Readers /\ clients' = clients /\ shared \subseteq shared'
    BY <1>3, <2>1 DEF Begin
  <2> QED
    BY <2>2, <2>3, <2>4
<1>4. CASE CheckFree(r)
  BY <1>4 DEF CheckFree
<1>5. CASE PanicBusy(r) \/ PanicReset(r)
  BY <1>5 DEF PanicBusy, PanicReset, Panic
<1>6. CASE SetWriting(r)
  BY <1>6 DEF SetWriting, ClientsAreServed, Stages
<1>7. CASE Write(r)
  <2>1. target[r] \in Conns /\ target[r] \in clients
    BY <1>7 DEF Write
  <2>2. Visited' /\ Fresh'
    BY <1>7, <2>1 DEF Write, AfterFailure
  <2>3. \A q \in Requests, c \in Conns : Covers(q, c) => Covers(q, c)'
    BY <1>7, <2>1 DEF Write, AfterFailure
  <2>4. Covered'
    BY <1>7, <2>3 DEF Write
  <2> QED
    BY <2>2, <2>4
<1>8. CASE EndWrite(r)
  <2>1. target[r] \notin shared => Reached(r, target[r])
    BY <1>8 DEF EndWrite, Private
  <2> QED
    BY <1>8, <2>1 DEF EndWrite
<1>10. CASE RUnlock(r)
  BY <1>10 DEF RUnlock
<1>11. CASE RemoveFailed(r)
  BY <1>11 DEF RemoveFailed, Unlock, Locked
<1> QED
  BY <1>1, <1>2, <1>3, <1>4, <1>5, <1>6, <1>7, <1>8, <1>10, <1>11
  DEF Progress

\* A step of broadcast r and a client that is not shared after it.
LEMMA BroadcastPrivate ==
    ASSUME OInv, NEW r \in Requests, Broadcast(r) \/ Progress(r),
           NEW c \in Conns \ shared'
    PROVE  Private(c)'
<1> USE DEF HInv, HubTypeOK, Private, Reached, Iterating, Places, lockVars,
        loopVars, wire
<1>0. c \notin shared /\ Private(c) /\ HInv
  BY SharedGrows DEF OInv
<1>1. CASE Broadcast(r)
  BY <1>0, <1>1 DEF Broadcast
<1>2. CASE RLock(r)
  BY <1>0, <1>2 DEF RLock
<1>3. CASE Begin(r)
  BY <1>0, <1>3, HubProcesses DEF Begin, AfterFailure, Procs
<1>4. CASE CheckFree(r)
  BY <1>0, <1>4 DEF CheckFree
<1>5. CASE PanicBusy(r) \/ PanicReset(r)
  <2>1. target[r] # c
    BY <1>0, <1>5 DEF PanicBusy, PanicReset
  <2> QED
    BY <1>0, <1>5, <2>1, HubProcesses
    DEF PanicBusy, PanicReset, Panic, Procs
<1>6. CASE SetWriting(r)
  BY <1>0, <1>6 DEF SetWriting
<1>7. CASE Write(r)
  <2>1. target[r] \in Conns
    BY <1>0, <1>7 DEF Write
  <2>2. CASE target[r] = c
    BY <1>0, <1>7, <2>2 DEF Write, WriteOutcomes
  <2>3. CASE target[r] # c
    BY <1>0, <1>7, <2>1, <2>3 DEF Write
  <2> QED
    BY <2>2, <2>3
<1>8. CASE EndWrite(r)
  <2>1. CASE target[r] = c
    BY <1>0, <1>8, <2>1, HubProcesses DEF EndWrite, Procs
  <2>2. CASE target[r] # c
    BY <1>0, <1>8, <2>2, HubProcesses DEF EndWrite, Procs
  <2> QED
    BY <2>1, <2>2
<1>10. CASE RUnlock(r)
  BY <1>0, <1>10 DEF RUnlock
<1>11. CASE RemoveFailed(r)
  BY <1>0, <1>11 DEF RemoveFailed
<1> QED
  BY <1>1, <1>2, <1>3, <1>4, <1>5, <1>6, <1>7, <1>8, <1>10, <1>11
  DEF Progress

\* A panic is a panic about a client that is shared.
LEMMA BroadcastLeaks ==
    ASSUME OInv, NEW r \in Requests, Broadcast(r) \/ Progress(r)
    PROVE  leaked' => shared' # {}
<1>1. CASE PanicBusy(r) \/ PanicReset(r)
  <2>1. target[r] \in Conns
    BY <1>1 DEF OInv, HInv, HubTypeOK, Iterating, PanicBusy, PanicReset
  <2>2. target[r] \in shared
    BY <1>1, <2>1 DEF OInv, Private, PanicBusy, PanicReset
  <2> QED
    BY <2>2, SharedGrows
<1>2. CASE ~(PanicBusy(r) \/ PanicReset(r))
  <2>1. leaked' = leaked
    BY <1>2 DEF Broadcast, Progress, RLock, Begin, CheckFree, SetWriting,
       Write, EndWrite, RUnlock, RemoveFailed, lockVars
  <2> QED
    BY <2>1, SharedGrows DEF OInv
<1> QED
  BY <1>1, <1>2

LEMMA ConnOInv ==
    ASSUME OInv, NEW c \in Conns, ConnStep(c)
    PROVE  OInv'
<1> USE DEF OInv, HInv, HubTypeOK, Visited, Covered, Covers, Reached, Fresh,
        Private, Readers, Iterating, Places, Stages, lockVars, loopVars, wire
<1>0. HInv'
  BY ConnHInv
<1>1. CASE Upgrade(c)
  <2>1. c \notin clients /\ \A r \in Requests : target[r] # c
    BY <1>1 DEF Upgrade, Unreferenced, ClientsAreServed
  <2>2. Visited' /\ Covered' /\ Fresh' /\ (leaked => shared # {})'
    BY <1>1, <2>1 DEF Upgrade
  <2>3. \A d \in Conns \ shared : Private(d)'
    BY <1>1, <2>1 DEF Upgrade
  <2> QED
    BY <1>0, <1>1, <2>2, <2>3 DEF Upgrade
<1>2. CASE Register(c) \/ Deregister(c)
  <2>1. ~leaked /\ \A r \in Requests : at[r] \notin Iterating /\ target[r] = None
    BY <1>2 DEF Register, Deregister, Locked
  <2>2. Visited' /\ Covered' /\ Fresh' /\ (leaked => shared # {})'
    BY <1>2, <2>1 DEF Register, Deregister, Unlock
  <2>3. \A d \in Conns \ shared' : Private(d)'
    BY <1>2, <2>1, HubProcesses DEF Register, Deregister, Unlock, Procs
  <2> QED
    BY <1>0, <2>2, <2>3
<1>3. CASE ReadError(c) \/ Close(c)
  BY <1>0, <1>3 DEF ReadError, Close
<1>4. CASE PeerLeaves(c) \/ PeerStalls(c) \/ PeerResumes(c)
  BY <1>0, <1>4 DEF PeerLeaves, PeerStalls, PeerResumes
<1> QED
  BY <1>1, <1>2, <1>3, <1>4 DEF ConnStep, Serve

LEMMA NextOInv == OInv /\ [Next]_vars => OInv'
<1> SUFFICES ASSUME OInv, [Next]_vars PROVE OInv'
  OBVIOUS
<1>1. ASSUME NEW r \in Requests, Broadcast(r) \/ Progress(r)
      PROVE  OInv'
  <2>1. HInv'
    BY <1>1, BroadcastHInv DEF OInv
  <2>2. Visited' /\ Covered' /\ Fresh'
    BY <1>1, BroadcastCovers
  <2>3. \A c \in Conns \ shared' : Private(c)'
    BY <1>1, BroadcastPrivate
  <2>4. leaked' => shared' # {}
    BY <1>1, BroadcastLeaks
  <2> QED
    BY <2>1, <2>2, <2>3, <2>4 DEF OInv
<1>2. ASSUME NEW c \in Conns, ConnStep(c)
      PROVE  OInv'
  BY <1>2, ConnOInv
<1>3. CASE UNCHANGED vars \/ \E p \in Procs : Announce(p)
  <2>1. HInv'
    BY NextHInv DEF OInv
  <2> QED
    BY <1>3, <2>1 DEF vars, Announce, OInv, Visited, Covered, Covers, Reached,
       Fresh, Private, Readers, lockVars, loopVars, wire
<1> QED
  BY <1>1, <1>2, <1>3 DEF Next, ConnStep

\* "Broadcast sends a message to all connected WebSocket clients" (hub.go:98):
\* true of every client that no two broadcasts write to at once, for any
\* number of broadcasts and of clients that come, go, stall and fail.
THEOREM UnsharedAreReached == Spec => []ReachesAll
<1>1. OInv => ReachesAll
  BY DEF OInv, Covered, Covers, Reached, ReachesAll
<1> QED
  BY <1>1, InitOInv, NextOInv, PTL DEF Spec

\* A read lock is left behind only when two broadcasts have written to one
\* client at once: otherwise no write panics (hub.go:110-118).
THEOREM LeakIsShared == Spec => [](leaked => shared # {})
<1>1. OInv => (leaked => shared # {})
  BY DEF OInv
<1> QED
  BY <1>1, InitOInv, NextOInv, PTL DEF Spec
=============================================================================
