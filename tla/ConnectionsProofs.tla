------------------------- MODULE ConnectionsProofs --------------------------
(***************************************************************************)
(* The indexes of the Broadcaster and the map of the relay connections are   *)
(* sound for any number of connections, devices, keys and rebinds.           *)
(***************************************************************************)
EXTENDS Connections, TLAPS

(* The part of the types the arguments need.                                *)
Shapes ==
    /\ stage \in [Conns -> Stages]
    /\ closed \in [Conns -> BOOLEAN]
    /\ relayMap \in [Devices -> Relay \union {None}]

(* Each update of the Broadcaster preserves the agreement of its indexes.     *)
LEMMA RegisterKeepsIndex ==
    ASSUME NEW c \in Conns, IndexSound, RegisterConn(c) PROVE IndexSound'
BY DEF IndexSound, ListedIsRecorded, RecordedIsRegistered, RegisterConn

LEMMA SubscribeKeepsIndex ==
    ASSUME NEW c \in Conns, NEW k, IndexSound, Subscribe(c, k) PROVE IndexSound'
BY DEF IndexSound, ListedIsRecorded, RecordedIsRegistered, Subscribe

LEMMA UnsubscribeKeepsIndex ==
    ASSUME NEW C, IndexSound, UnsubscribeAll(C) PROVE IndexSound'
BY DEF IndexSound, ListedIsRecorded, RecordedIsRegistered, UnsubscribeAll

LEMMA RebindKeepsIndex ==
    ASSUME NEW o, NEW n, IndexSound, Rebind(o, n) PROVE IndexSound'
<1> DEFINE conns == {c \in Conns : <<o, c>> \in subs}
<1>1. /\ subs' = IF conns = {} THEN subs
                 ELSE {p \in subs : p[1] \notin {o, n}} \union {<<n, c>> : c \in conns}
      /\ connSubs' = (connSubs \ {<<c, o>> : c \in conns}) \union {<<c, n>> : c \in conns}
      /\ allConns' = allConns
  BY Zenon DEF Rebind
<1>2. ASSUME NEW p \in subs' PROVE <<p[2], p[1]>> \in connSubs'
  <2>1. CASE conns = {}
    BY <1>1, <1>2, <2>1 DEF IndexSound, ListedIsRecorded
  <2>2. CASE conns # {} /\ p \in subs /\ p[1] \notin {o, n}
    BY <1>1, <2>2 DEF IndexSound, ListedIsRecorded
  <2>3. CASE \E c \in conns : p = <<n, c>>
    BY <1>1, <2>3
  <2> QED BY <1>1, <1>2, <2>1, <2>2, <2>3
<1>3. ASSUME NEW p \in connSubs' PROVE p[1] \in allConns'
  <2>1. CASE p \in connSubs
    BY <1>1, <2>1 DEF IndexSound, RecordedIsRegistered
  <2>2. CASE \E c \in conns : p = <<c, n>>
    <3>1. PICK c \in conns : p = <<c, n>> BY <2>2
    <3>2. <<c, o>> \in connSubs BY <3>1 DEF IndexSound, ListedIsRecorded
    <3> QED BY <1>1, <3>1, <3>2 DEF IndexSound, RecordedIsRegistered
  <2> QED BY <1>1, <1>3, <2>1, <2>2
<1> QED BY <1>2, <1>3 DEF IndexSound, ListedIsRecorded, RecordedIsRegistered

LEMMA IndexStep == IndexSound /\ [Next]_vars => IndexSound'
<1> SUFFICES ASSUME IndexSound, [Next]_vars PROVE IndexSound' OBVIOUS
<1>0. ASSUME UNCHANGED tables PROVE IndexSound'
  BY <1>0 DEF tables, IndexSound, ListedIsRecorded, RecordedIsRegistered
<1>1. CASE UNCHANGED vars
  BY <1>0, <1>1 DEF vars, tables
<1>2. ASSUME NEW c \in Conns, Accept(c) \/ RelayRegister(c) PROVE IndexSound'
  BY <1>2, RegisterKeepsIndex DEF Accept, RelayRegister
<1>3. ASSUME NEW c \in Conns, RelayMapped(c) PROVE IndexSound'
  BY <1>3, UnsubscribeKeepsIndex, Zenon DEF RelayMapped
<1>4. CASE CloseConn
  BY <1>4, UnsubscribeKeepsIndex, Zenon DEF CloseConn
<1>5. ASSUME NEW c \in Conns, RunCleanup(c) PROVE IndexSound'
  BY <1>5, UnsubscribeKeepsIndex, Zenon DEF RunCleanup
<1>6. ASSUME NEW c \in Conns, EndRequest(c) PROVE IndexSound'
  BY <1>6, SubscribeKeepsIndex DEF EndRequest
<1>7. ASSUME NEW r \in Rebinds, NEW k \in Keys, ResolveId(r, k) PROVE IndexSound'
  BY <1>7, RebindKeepsIndex, Zenon DEF ResolveId
<1>8. ASSUME NEW c \in Conns,
             \/ Authenticate(c) \/ RelayHello(c) \/ RegisterDevice(c) \/ SetCleanup(c)
             \/ PingTimeout(c) \/ WriteFails(c) \/ ReadLoopEnds(c)
             \/ HeartbeatFindsIdle(c) \/ PruneDeadDevice(c) \/ Consume(c) \/ RevokerCloses(c)
      PROVE IndexSound'
  BY <1>0, <1>8, Zenon DEF Authenticate, RelayHello, RegisterDevice, SetCleanup, PingTimeout,
     WriteFails, ReadLoopEnds, HeartbeatFindsIdle, PruneDeadDevice, Consume, RevokerCloses
<1>9. ASSUME NEW c \in Conns, NEW k \in Keys, BeginRequest(c, k) PROVE IndexSound'
  BY <1>0, <1>9 DEF BeginRequest
<1>10. ASSUME NEW d \in Devices, RevokeStored(d) \/ DisconnectDevice(d) PROVE IndexSound'
  BY <1>0, <1>10 DEF RevokeStored, DisconnectDevice
<1>11. ASSUME NEW s \in Sessions, TurnEnds(s[1], s[2]) PROVE IndexSound'
  BY <1>0, <1>11 DEF TurnEnds
<1>12. CASE DirectNext
  BY <1>12, <1>2, <1>8 DEF DirectNext, Conns
<1>13. CASE RelayNext
  BY <1>13, <1>2, <1>3, <1>4, <1>8 DEF RelayNext, Conns
<1> QED BY <1>1, <1>5, <1>6, <1>7, <1>8, <1>9, <1>10, <1>11, <1>12, <1>13 DEF Next

(* For every number of connections and whatever ids are rebound, a connection *)
(* listed under a key has the key in its record and is registered, so         *)
(* UnsubscribeAll leaves no dead subscriber behind (types.go, Broadcaster).   *)
THEOREM BroadcasterIndexSound == Spec => []IndexSound
<1>1. Init => IndexSound
  BY DEF Init, IndexSound, ListedIsRecorded, RecordedIsRegistered
<1> QED BY <1>1, IndexStep, PTL DEF Spec

-----------------------------------------------------------------------------
(* The map of the relay connections.                                         *)

MapInv == Shapes /\ WorkingIsMapped

(* MarkClosed only closes, and only adds to the cleanups to run.             *)
LEMMA MarkClosedMonotone ==
    ASSUME NEW c \in Conns, Shapes, MarkClosed(c)
    PROVE  /\ closed' \in [Conns -> BOOLEAN]
           /\ \A x \in Conns : closed[x] => closed'[x]
           /\ cleaning \subseteq cleaning'
BY DEF MarkClosed, Shapes

(* A step that leaves the map alone, closes or keeps and cleans more, and     *)
(* changes no stage to a working one keeps the invariant.                     *)
LEMMA QuietStep ==
    ASSUME MapInv,
           relayMap' = relayMap,
           stage' \in [Conns -> Stages],
           closed' \in [Conns -> BOOLEAN],
           \A x \in Relay :
              /\ stage'[x] \in {"mapped", "accepted", "serving"} =>
                    stage[x] \in {"mapped", "accepted", "serving"}
              /\ closed[x] \/ x \in cleaning => closed'[x] \/ x \in cleaning'
    PROVE  MapInv'
BY DEF MapInv, Shapes, WorkingIsMapped, Conns

LEMMA MapStep == MapInv /\ [Next]_vars => MapInv'
<1> SUFFICES ASSUME MapInv, [Next]_vars PROVE MapInv' OBVIOUS
<1> USE ConnectionsAssumption
<1>s. Shapes BY DEF MapInv
<1>1. CASE UNCHANGED vars
  BY <1>1 DEF vars, MapInv, Shapes, WorkingIsMapped
<1>2. ASSUME NEW c \in Conns,
             (Accept(c) /\ c \in Direct) \/ RegisterDevice(c) \/ RelayRegister(c)
      PROVE MapInv'
  <2>1. stage' \in [Conns -> Stages] /\ closed' = closed /\ cleaning' = cleaning
        /\ relayMap' = relayMap
    BY <1>2, <1>s DEF Accept, RegisterDevice, RelayRegister, Shapes, Stages
  <2>2. \A x \in Relay : stage'[x] \in {"mapped", "accepted", "serving"} =>
                           stage[x] \in {"mapped", "accepted", "serving"}
    BY <1>2, <1>s DEF Accept, RegisterDevice, RelayRegister, Shapes, Conns
  <2> QED BY <1>s, <2>1, <2>2, QuietStep DEF Shapes
<1>3. ASSUME NEW c \in Conns, Authenticate(c) \/ RelayHello(c) PROVE MapInv'
  <2>1. Authenticate(c) BY <1>3 DEF RelayHello
  <2> QED BY <1>s, <2>1, QuietStep DEF Authenticate, Shapes, Stages, Conns
<1>4. ASSUME NEW c \in Direct, SetCleanup(c) PROVE MapInv'
  BY <1>s, <1>4, QuietStep DEF SetCleanup, Shapes, Stages, Conns
<1>5. ASSUME NEW c \in Direct, PingTimeout(c) \/ WriteFails(c) PROVE MapInv'
  <2>1. MarkClosed(c) /\ stage' = stage /\ relayMap' = relayMap
    BY <1>5 DEF PingTimeout, WriteFails
  <2> QED BY <1>s, <2>1, MarkClosedMonotone, QuietStep DEF Shapes, Conns
<1>6. ASSUME NEW c \in Direct, ReadLoopEnds(c) PROVE MapInv'
  <2>1. MarkClosed(c) /\ stage' = [stage EXCEPT ![c] = "exited"] /\ relayMap' = relayMap
    BY <1>6 DEF ReadLoopEnds
  <2>2. /\ closed' \in [Conns -> BOOLEAN]
        /\ \A x \in Conns : closed[x] => closed'[x]
        /\ cleaning \subseteq cleaning'
    BY <1>s, <2>1, MarkClosedMonotone DEF Conns
  <2> QED BY <1>s, <2>1, <2>2, QuietStep DEF Shapes, Stages, Conns
<1>7. ASSUME NEW c \in Relay, RelayMapped(c) PROVE MapInv'
  <2> DEFINE d == DeviceOf[c]
             stale == {relayMap[d]} \ {None}
  <2>1. /\ stage[c] = "authed"
        /\ closed' = [x \in Conns |-> closed[x] \/ x \in stale]
        /\ relayMap' = [relayMap EXCEPT ![d] = c]
        /\ stage' = [stage EXCEPT ![c] = "mapped"]
        /\ cleaning' = cleaning
    BY <1>7, Zenon DEF RelayMapped
  <2>2. d \in Devices BY DEF Conns
  <2>3. Shapes' BY <1>s, <2>1, <2>2 DEF Shapes, Stages, Conns
  <2>4. ASSUME NEW x \in Relay, ~ closed'[x], x \notin cleaning',
               stage'[x] \in {"mapped", "accepted", "serving"}
        PROVE relayMap'[DeviceOf[x]] = x
    <3>1. CASE x = c BY <1>s, <2>1, <2>2, <3>1 DEF Shapes
    <3>2. CASE x # c
      <4>1. relayMap[DeviceOf[x]] = x
        BY <1>s, <2>1, <2>4, <3>2 DEF MapInv, WorkingIsMapped, Shapes, Conns
      <4>2. x \notin stale BY <2>1, <2>4 DEF Conns
      <4>3. DeviceOf[x] # d BY <4>1, <4>2 DEF Conns
      <4> QED BY <1>s, <2>1, <2>2, <4>1, <4>3 DEF Shapes
    <3> QED BY <3>1, <3>2
  <2> QED BY <2>3, <2>4 DEF MapInv, WorkingIsMapped
<1>8. ASSUME NEW c \in Relay, HeartbeatFindsIdle(c) PROVE MapInv'
  BY <1>s, <1>8, QuietStep DEF HeartbeatFindsIdle, Shapes
<1>9. ASSUME NEW c \in Relay, PruneDeadDevice(c) PROVE MapInv'
  BY <1>s, <1>9 DEF PruneDeadDevice, MapInv, Shapes, WorkingIsMapped, Conns
<1>10. CASE CloseConn
  <2> DEFINE C == {relayMap[d] : d \in Devices} \ {None}
  <2>1. /\ closed' = [x \in Conns |-> closed[x] \/ x \in C]
        /\ relayMap' = [d \in Devices |-> None]
        /\ stage' = stage /\ cleaning' = cleaning
    BY <1>10, Zenon DEF CloseConn
  <2>2. Shapes' BY <1>s, <2>1 DEF Shapes
  <2>3. ASSUME NEW x \in Relay, ~ closed'[x], x \notin cleaning',
               stage'[x] \in {"mapped", "accepted", "serving"}
        PROVE FALSE
    <3>1. relayMap[DeviceOf[x]] = x
      BY <1>s, <2>1, <2>3 DEF MapInv, WorkingIsMapped, Conns
    <3>2. DeviceOf[x] \in Devices /\ x # None BY DEF Conns
    <3>3. x \in C BY <3>1, <3>2
    <3> QED BY <2>1, <2>3, <3>3 DEF Conns
  <2> QED BY <2>2, <2>3 DEF MapInv, WorkingIsMapped
<1>11. ASSUME NEW c \in Conns, RunCleanup(c) PROVE MapInv'
  BY <1>s, <1>11, QuietStep DEF RunCleanup, Shapes, Conns
<1>12. ASSUME NEW c \in Conns, EndRequest(c) \/ Consume(c) PROVE MapInv'
  BY <1>s, <1>12, QuietStep DEF EndRequest, Consume, Shapes
<1>13. ASSUME NEW c \in Conns, RevokerCloses(c) PROVE MapInv'
  <2>1. CASE c \in Direct
    <3>1. MarkClosed(c) /\ stage' = stage /\ relayMap' = relayMap
      BY <1>13, <2>1 DEF RevokerCloses
    <3> QED BY <1>s, <3>1, MarkClosedMonotone, QuietStep DEF Shapes, Conns
  <2>2. CASE c \notin Direct
    BY <1>s, <1>13, <2>2, QuietStep DEF RevokerCloses, Shapes, Conns
  <2> QED BY <2>1, <2>2
<1>14. ASSUME NEW c \in Conns, NEW k \in Keys, BeginRequest(c, k) PROVE MapInv'
  BY <1>s, <1>14, QuietStep DEF BeginRequest, Shapes
<1>15. ASSUME NEW d \in Devices, RevokeStored(d) \/ DisconnectDevice(d) PROVE MapInv'
  BY <1>s, <1>15, QuietStep DEF RevokeStored, DisconnectDevice, Shapes
<1>16. ASSUME NEW r \in Rebinds, NEW k \in Keys, ResolveId(r, k) PROVE MapInv'
  BY <1>s, <1>16, QuietStep DEF ResolveId, Shapes
<1>17. ASSUME NEW s \in Sessions, TurnEnds(s[1], s[2]) PROVE MapInv'
  BY <1>s, <1>17, QuietStep DEF TurnEnds, Shapes
<1>18. CASE DirectNext
  BY <1>18, <1>2, <1>3, <1>4, <1>5, <1>6 DEF DirectNext, Conns
<1>19. CASE RelayNext
  BY <1>19, <1>2, <1>3, <1>7, <1>8, <1>9, <1>10 DEF RelayNext, Conns
<1> QED BY <1>1, <1>11, <1>12, <1>13, <1>14, <1>15, <1>16, <1>17, <1>18, <1>19 DEF Next

(* Whatever connections replace, prune, revoke or drop each other, a relay    *)
(* connection that still works is the one its device's envelopes are given to *)
(* (relay_bridge_client.go, pruneDeadDevice's identity check).                *)
THEOREM RelayMapSound == Spec => []WorkingIsMapped
<1>1. Init => MapInv
  BY ConnectionsAssumption DEF Init, MapInv, Shapes, Stages, WorkingIsMapped, Conns
<1>2. MapInv => WorkingIsMapped
  BY DEF MapInv
<1> QED BY <1>1, <1>2, MapStep, PTL DEF Spec

-----------------------------------------------------------------------------
(* Whom Broadcaster.Send reaches.                                            *)

(* Until an id is rebound the indexes also agree the other way round: every   *)
(* key in the record of a connection lists the connection.                   *)
ReachInv ==
    /\ rpc \in [Conns -> Keys \union {None}]
    /\ bound = {} => \A p \in connSubs : p[2] \in Keys /\ <<p[2], p[1]>> \in subs

(* Send names a listener of the session before it falls back to others.       *)
LEMMA ListenerIsTarget ==
    ASSUME NEW b, NEW s, NEW d, NEW c,
           c \in Listeners(b, s, IF d = NoDir THEN AllDirs ELSE {d, NoDir})
    PROVE  c \in Targets(b, s, d)
<1> DEFINE named == Listeners(b, s, IF d = NoDir THEN AllDirs ELSE {d, NoDir})
           ofBackend == {p[2] : p \in {q \in subs : q[1].backend = b}}
<1>1. Targets(b, s, d) = CASE named # {} -> named
                           [] named = {} /\ ofBackend # {} -> ofBackend
                           [] OTHER -> allConns
  BY Zenon DEF Targets
<1>2. c \in named OBVIOUS
<1> HIDE DEF named, ofBackend
<1> QED BY <1>1, <1>2

LEMMA ListedIsReached ==
    ASSUME NEW k \in Keys, NEW c, <<k, c>> \in subs PROVE Reached(c, k)
<1>1. ASSUME NEW D, k.dir \in D PROVE c \in Listeners(k.backend, k.session, D)
  BY <1>1 DEF Listeners
<1>2. k.dir \in AllDirs BY DEF AllDirs
<1>3. c \in Targets(k.backend, k.session, k.dir)
  BY <1>1, <1>2, ListenerIsTarget
<1>4. c \in Targets(k.backend, k.session, NoDir)
  BY <1>1, <1>2, ListenerIsTarget
<1>5. ASSUME k.dir = NoDir, NEW d \in AllDirs
      PROVE c \in Targets(k.backend, k.session, d)
  BY <1>1, <1>2, <1>5, ListenerIsTarget
<1> QED BY <1>3, <1>4, <1>5 DEF Reached

(* A step that leaves the requests, the tables and the bound ids alone, and   *)
(* one that only unregisters connections, keep the invariant.                *)
LEMMA UnsubscribeKeepsReach ==
    ASSUME ReachInv, NEW C, UnsubscribeAll(C), rpc' = rpc, bound' = bound
    PROVE  ReachInv'
BY DEF ReachInv, UnsubscribeAll

LEMMA ReachStep == ReachInv /\ [Next]_vars => ReachInv'
<1> SUFFICES ASSUME ReachInv, [Next]_vars PROVE ReachInv' OBVIOUS
<1>0. ASSUME subs' = subs, connSubs' = connSubs, rpc' = rpc, bound' = bound PROVE ReachInv'
  BY <1>0 DEF ReachInv
<1>1. CASE UNCHANGED vars
  BY <1>0, <1>1 DEF vars
<1>2. ASSUME NEW c \in Conns, Accept(c) \/ RelayRegister(c) PROVE ReachInv'
  BY <1>0, <1>2, Zenon DEF Accept, RelayRegister, RegisterConn
<1>3. ASSUME NEW c \in Conns, RelayMapped(c) PROVE ReachInv'
  BY <1>3, UnsubscribeKeepsReach, Zenon DEF RelayMapped
<1>4. CASE CloseConn
  BY <1>4, UnsubscribeKeepsReach, Zenon DEF CloseConn
<1>5. ASSUME NEW c \in Conns, RunCleanup(c) PROVE ReachInv'
  BY <1>5, UnsubscribeKeepsReach, Zenon DEF RunCleanup
<1>6. ASSUME NEW c \in Conns, EndRequest(c) PROVE ReachInv'
  <2>1. /\ rpc[c] # None
        /\ subs' = subs \union {<<rpc[c], c>>}
        /\ connSubs' = connSubs \union {<<c, rpc[c]>>}
        /\ rpc' = [rpc EXCEPT ![c] = None]
        /\ bound' = bound
    BY <1>6, Zenon DEF EndRequest, Subscribe
  <2>2. rpc[c] \in Keys BY <2>1 DEF ReachInv
  <2>3. rpc' \in [Conns -> Keys \union {None}] BY <2>1 DEF ReachInv
  <2>4. ASSUME bound = {}, NEW p \in connSubs' PROVE p[2] \in Keys /\ <<p[2], p[1]>> \in subs'
    BY <2>1, <2>2, <2>4 DEF ReachInv
  <2> QED BY <2>1, <2>3, <2>4 DEF ReachInv
<1>7. ASSUME NEW r \in Rebinds, NEW k \in Keys, ResolveId(r, k) PROVE ReachInv'
  <2>1. rpc' = rpc /\ bound' = bound \union {r}
    BY <1>7, Zenon DEF ResolveId
  <2> QED BY <2>1 DEF ReachInv
<1>8. ASSUME NEW c \in Conns,
             \/ Authenticate(c) \/ RelayHello(c) \/ RegisterDevice(c) \/ SetCleanup(c)
             \/ PingTimeout(c) \/ WriteFails(c) \/ ReadLoopEnds(c)
             \/ HeartbeatFindsIdle(c) \/ PruneDeadDevice(c) \/ Consume(c) \/ RevokerCloses(c)
      PROVE ReachInv'
  <2>1. UNCHANGED tables /\ rpc' = rpc /\ bound' = bound
    BY <1>8, Zenon DEF Authenticate, RelayHello, RegisterDevice, SetCleanup, PingTimeout,
       WriteFails, ReadLoopEnds, HeartbeatFindsIdle, PruneDeadDevice, Consume, RevokerCloses
  <2> QED BY <1>0, <2>1 DEF tables
<1>9. ASSUME NEW c \in Conns, NEW k \in Keys, BeginRequest(c, k) PROVE ReachInv'
  <2>1. UNCHANGED tables /\ rpc' = [rpc EXCEPT ![c] = k] /\ bound' = bound
    BY <1>9, Zenon DEF BeginRequest
  <2> QED BY <2>1 DEF tables, ReachInv
<1>10. ASSUME NEW d \in Devices, RevokeStored(d) \/ DisconnectDevice(d) PROVE ReachInv'
  BY <1>0, <1>10 DEF RevokeStored, DisconnectDevice, tables
<1>11. ASSUME NEW s \in Sessions, TurnEnds(s[1], s[2]) PROVE ReachInv'
  BY <1>0, <1>11 DEF TurnEnds, tables
<1>12. CASE DirectNext
  BY <1>12, <1>2, <1>8 DEF DirectNext, Conns
<1>13. CASE RelayNext
  BY <1>13, <1>2, <1>3, <1>4, <1>8 DEF RelayNext, Conns
<1> QED BY <1>1, <1>5, <1>6, <1>7, <1>8, <1>9, <1>10, <1>11, <1>12, <1>13 DEF Next

(* Whatever connections come, go, subscribe and close in between, a connection *)
(* gets the events of every session in its record by one of the first steps of *)
(* Broadcaster.Send, never by the fallbacks, as long as no id was rebound      *)
(* (types.go; after a rebind it may not, README section 5).                    *)
THEOREM BroadcastReachesSubscribers == Spec => []SubscribersReached
<1>1. Init => ReachInv
  BY DEF Init, ReachInv
<1>2. ReachInv => SubscribersReached
  BY ListedIsReached DEF ReachInv, SubscribersReached
<1> QED BY <1>1, <1>2, ReachStep, PTL DEF Spec

=============================================================================
