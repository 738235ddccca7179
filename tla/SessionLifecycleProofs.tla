----------------------- MODULE SessionLifecycleProofs -----------------------
(***************************************************************************)
(* SendsSound and FlagHasOwner for any number of connections, agents, turns  *)
(* and relay goroutines.                                                    *)
(*                                                                         *)
(* FirstSendsLeaveNoOrphan is far from inductive: rebind writes over         *)
(* whatever the real id held, so an agent could lose its only entry there.   *)
(* It never does, because as long as no session ends the registry knows a    *)
(* single agent: the one the first check put under the pending id.  Nobody   *)
(* can name a real id before it is bound to that very session, hence no      *)
(* send resumes one, and every relay and every send belongs to the one       *)
(* agent (OneSession).                                                       *)
(***************************************************************************)
EXTENDS SessionLifecycle, FiniteSetTheorems, TLAPS

Events == Nat \X {"start", "result"}
Activities == {"idle", "running"}
ObjectStates == [agent : Agents \union {Nil}, state : Activities,
                 sid : Ids, aliased : BOOLEAN, old : BOOLEAN]
AgentStates == [st : {"none", "open", "condemned", "closing", "closed"}, rid : Ids,
                known : BOOLEAN, begun : BOOLEAN, turns : Seq(Nat), events : Seq(Events)]
RelayStates == [at : {"none", "run", "hand", "exit"}, agent : Agents \union {Nil},
                orig : Ids, cur : Ids, ev : Events \union {<<>>}]
RequestStates == [at : {"none", "lookup", "start", "check", "mark", "send", "relay", "closing"},
                  id : Ids, agent : Agents \union {Nil}, dup : Agents \union {Nil}]

RegistryTypes ==
    /\ registry \in [Ids -> Objects \union {Nil}]
    /\ object \in [Objects -> ObjectStates]

SessionTypes ==
    /\ mode \in Modes
    /\ RegistryTypes
    /\ agent \in [Agents -> AgentStates]
    /\ running \subseteq Ids /\ watcher \subseteq Ids /\ sweep \subseteq Ids /\ told \subseteq Ids
    /\ relay \in [RelaySlots -> RelayStates]
    /\ request \in [Clients -> RequestStates]
    /\ started \in 0..MaxAgents /\ sent \in Nat

(* A request past the second check, and a relay goroutine, have an agent.     *)
AgentsKnown ==
    /\ \A c \in Clients :
          request[c].at \in {"check", "mark", "send", "relay"} => request[c].agent # Nil
    /\ \A r \in RelaySlots : relay[r].at # "none" => relay[r].agent # Nil

(* getSession as a table, and the agent behind the pending id.                *)
Found == [i \in Ids |-> SessionOf(i)]
Only == Found[Pending]

(* A real id that is bound leads to that agent.                               *)
Bound(i) == i = Only /\ Found[i] = Only

RequestsOfOnly ==
    \A c \in Clients :
        /\ request[c].at = "lookup" => request[c].id \in told \union {Pending}
        /\ request[c].at \in {"start", "check"} => request[c].id = Pending
        /\ request[c].at = "check" => request[c].agent \in 1..started
        /\ request[c].at \in {"mark", "send", "relay"} =>
              request[c].agent = Only /\ (request[c].id # Pending => Bound(request[c].id))

RelaysOfOnly ==
    \A r \in RelaySlots :
        relay[r].at # "none" =>
            relay[r].agent = Only /\ (relay[r].cur # Pending => Bound(relay[r].cur))

OpenIsOnly ==
    \A a \in Agents :
        agent[a].st = "open" =>
            a = Only \/ \E c \in Clients : request[c].at = "check" /\ request[c].agent = a

OneSession ==
    /\ sweep = {}
    /\ Only \in 0..started
    /\ \A a \in 1..started : agent[a].rid = a
    /\ \A i \in Ids : Found[i] \in {Nil, Only}
    /\ \A i \in told : i # Pending /\ Bound(i)
    /\ RequestsOfOnly
    /\ RelaysOfOnly
    /\ OpenIsOnly

SessionInv ==
    /\ SessionTypes
    /\ AgentsKnown
    /\ FlagHasOwner
    /\ ~Closes => OneSession

-----------------------------------------------------------------------------
(* The registry operations, seen through getSession.                         *)

Registries == [Ids -> Objects \union {Nil}]
ObjectTables == [Objects -> ObjectStates]

(* SessionOf in a registry and an object table that are not stored yet.       *)
Sess(reg, obj, i) == IF reg[i] = Nil THEN Nil ELSE obj[reg[i]].agent

(* There are more objects than ids.                                          *)
LEMMA FreshIsFree ==
    ASSUME NEW reg \in Registries
    PROVE  LET o == CHOOSE o \in Objects : \A i \in Ids : reg[i] # o
           IN  o \in Objects /\ \A i \in Ids : reg[i] # o
<1>1. \E o \in Objects : \A i \in Ids : reg[i] # o
  <2> SUFFICES ASSUME \A o \in Objects : \E i \in Ids : reg[i] = o PROVE FALSE
    OBVIOUS
  <2> DEFINE f == [o \in Objects |-> CHOOSE i \in Ids : reg[i] = o]
  <2>1. f \in [Objects -> Ids] /\ \A o \in Objects : reg[f[o]] = o
    OBVIOUS
  <2>2. /\ IsFiniteSet(Objects) /\ IsFiniteSet(Ids)
        /\ Cardinality(Ids) < Cardinality(Objects)
    BY SessionAssumption, FS_Interval DEF Objects, Ids
  <2> HIDE DEF f
  <2>3. \E x, y \in Objects : x # y /\ f[x] = f[y]
    BY <2>1, <2>2, FS_PigeonHole
  <2> QED
    BY <2>1, <2>3
<1> QED
  BY <1>1

(* Changing other fields of an object does not change who is found.           *)
LEMMA SameAgents ==
    ASSUME NEW reg \in Registries, NEW obj \in ObjectTables, NEW new \in ObjectTables,
           \A o \in Objects : new[o].agent = obj[o].agent
    PROVE  \A j \in Ids : Sess(reg, new, j) = Sess(reg, obj, j)
BY DEF Registries, Sess

LEMMA StoreEffect ==
    ASSUME NEW reg \in Registries, NEW obj \in ObjectTables, Store(reg, obj)
    PROVE  RegistryTypes' /\ Found' = [i \in Ids |-> Sess(reg, obj, i)]
<1>1. Blank \in ObjectStates
  BY SessionAssumption DEF Blank, ObjectStates, Activities, Pending, Ids
<1>2. object' \in ObjectTables /\ registry' = reg
  BY <1>1 DEF Store, Collected, ObjectTables
<1>3. \A i \in Ids : reg[i] # Nil => object'[reg[i]] = obj[reg[i]]
  BY DEF Store, Collected, Registries
<1> QED
  BY <1>2, <1>3 DEF RegistryTypes, Registries, ObjectTables, Found, SessionOf, Sess

LEMMA SessIsSessionOf == Found = [i \in Ids |-> Sess(registry, object, i)]
BY DEF Found, SessionOf, Sess

LEMMA PutEffect ==
    ASSUME RegistryTypes, NEW i \in Ids, NEW a \in Agents, Put(i, a)
    PROVE  RegistryTypes' /\ Found' = [Found EXCEPT ![i] = a]
<1>1. registry \in Registries /\ object \in ObjectTables
  BY DEF RegistryTypes, Registries, ObjectTables
<1>2. Fresh \in Objects /\ \A j \in Ids : registry[j] # Fresh
  BY <1>1, FreshIsFree DEF Fresh
<1>3. Store([registry EXCEPT ![i] = Fresh], [object EXCEPT ![Fresh] = Entry(i, a, "idle")])
  BY DEF Put
<1> HIDE DEF Fresh
<1> DEFINE reg == [registry EXCEPT ![i] = Fresh]
           obj == [object EXCEPT ![Fresh] = Entry(i, a, "idle")]
<1>a. reg = [registry EXCEPT ![i] = Fresh] /\ obj = [object EXCEPT ![Fresh] = Entry(i, a, "idle")]
  OBVIOUS
<1> HIDE DEF reg, obj
<1>4. /\ reg \in Registries /\ obj \in ObjectTables
      /\ \A j \in Ids : Sess(reg, obj, j) = IF j = i THEN a ELSE Sess(registry, object, j)
  BY <1>1, <1>2, <1>a
  DEF Entry, ObjectStates, Activities, Registries, ObjectTables, Sess, Objects, Nil
<1>5. RegistryTypes' /\ Found' = [j \in Ids |-> Sess(reg, obj, j)]
  BY <1>3, <1>4, <1>a, StoreEffect
<1> QED
  BY <1>4, <1>5, SessIsSessionOf

LEMMA MarkRunningEffect ==
    ASSUME RegistryTypes, NEW i \in Ids, MarkRunning(i)
    PROVE  RegistryTypes' /\ Found' = Found
<1>1. registry \in Registries /\ object \in ObjectTables
  BY DEF RegistryTypes, Registries, ObjectTables
<1>2. CASE registry[i] # Nil
  <2> DEFINE new == [object EXCEPT ![registry[i]].state = "running"]
  <2>1. registry[i] \in Objects
    BY <1>1, <1>2 DEF Registries
  <2>2. new \in ObjectTables /\ \A o \in Objects : new[o].agent = object[o].agent
    BY <1>1, <2>1 DEF ObjectTables, ObjectStates, Activities
  <2>3. Store(registry, new)
    BY <1>2 DEF MarkRunning
  <2> HIDE DEF new
  <2> QED
    BY <1>1, <2>2, <2>3, SameAgents, StoreEffect, SessIsSessionOf
<1>3. CASE registry[i] = Nil
  <2>1. Fresh \in Objects /\ \A j \in Ids : registry[j] # Fresh
    BY <1>1, FreshIsFree DEF Fresh
  <2>2. Store([registry EXCEPT ![i] = Fresh], [object EXCEPT ![Fresh] = Entry(i, Nil, "running")])
    BY <1>3 DEF MarkRunning
  <2>3. Sess(registry, object, i) = Nil
    BY <1>3 DEF Sess
  <2> HIDE DEF Fresh
  <2> DEFINE reg == [registry EXCEPT ![i] = Fresh]
             obj == [object EXCEPT ![Fresh] = Entry(i, Nil, "running")]
  <2>a. reg = [registry EXCEPT ![i] = Fresh] /\ obj = [object EXCEPT ![Fresh] = Entry(i, Nil, "running")]
    OBVIOUS
  <2> HIDE DEF reg, obj
  <2>4. /\ reg \in Registries /\ obj \in ObjectTables
        /\ \A j \in Ids : Sess(reg, obj, j) = IF j = i THEN Nil ELSE Sess(registry, object, j)
    BY <1>1, <2>1, <2>a
    DEF Entry, ObjectStates, Activities, Registries, ObjectTables, Sess, Objects, Nil
  <2>5. RegistryTypes' /\ Found' = [j \in Ids |-> Sess(reg, obj, j)]
    BY <2>2, <2>4, <2>a, StoreEffect
  <2> QED
    BY <2>3, <2>4, <2>5, SessIsSessionOf
<1> QED
  BY <1>2, <1>3

LEMMA MarkedIdleEffect ==
    ASSUME NEW reg \in Registries, NEW obj \in ObjectTables, NEW i \in Ids
    PROVE  LET s == MarkedIdle(reg, obj, i)
           IN  /\ s[1] \in Registries /\ s[2] \in ObjectTables
               /\ \A j \in Ids : Sess(s[1], s[2], j) = Sess(reg, obj, j)
<1>1. CASE reg[i] # Nil
  <2> DEFINE new == [obj EXCEPT ![reg[i]].state = "idle", ![reg[i]].old = FALSE]
  <2>1. reg[i] \in Objects
    BY <1>1 DEF Registries
  <2>2. new \in ObjectTables /\ \A o \in Objects : new[o].agent = obj[o].agent
    BY <2>1, ZenonT(60) DEF ObjectTables, ObjectStates, Activities
  <2>3. MarkedIdle(reg, obj, i) = <<reg, new>>
    BY <1>1 DEF MarkedIdle
  <2> HIDE DEF new
  <2> QED
    BY <2>2, <2>3, SameAgents
<1>2. CASE reg[i] = Nil
  <2> DEFINE o == CHOOSE o \in Objects : \A j \in Ids : reg[j] # o
  <2>1. o \in Objects /\ \A j \in Ids : reg[j] # o
    BY FreshIsFree
  <2>2. MarkedIdle(reg, obj, i) = <<[reg EXCEPT ![i] = o], [obj EXCEPT ![o] = Entry(i, Nil, "idle")]>>
    BY <1>2, Zenon DEF MarkedIdle
  <2>3. Sess(reg, obj, i) = Nil
    BY <1>2 DEF Sess
  <2> HIDE DEF o
  <2> DEFINE new_r == [reg EXCEPT ![i] = o]
             new_o == [obj EXCEPT ![o] = Entry(i, Nil, "idle")]
  <2>a. new_r = [reg EXCEPT ![i] = o] /\ new_o = [obj EXCEPT ![o] = Entry(i, Nil, "idle")]
    OBVIOUS
  <2> HIDE DEF new_r, new_o
  <2>4. /\ new_r \in Registries /\ new_o \in ObjectTables
        /\ \A j \in Ids : Sess(new_r, new_o, j) = IF j = i THEN Nil ELSE Sess(reg, obj, j)
    BY <2>1, <2>a
    DEF Entry, ObjectStates, Activities, Registries, ObjectTables, Sess, Objects, Nil
  <2>5. MarkedIdle(reg, obj, i) = <<new_r, new_o>>
    BY <2>2, <2>a
  <2> QED
    BY <2>3, <2>4, <2>5
<1> QED
  BY <1>1, <1>2

LEMMA MarkIdleEffect ==
    ASSUME RegistryTypes, NEW i \in Ids, MarkIdle(i)
    PROVE  RegistryTypes' /\ Found' = Found
<1>1. registry \in Registries /\ object \in ObjectTables
  BY DEF RegistryTypes, Registries, ObjectTables
<1> QED
  BY <1>1, MarkedIdleEffect, StoreEffect, SessIsSessionOf DEF MarkIdle

LEMMA DeleteEffect ==
    ASSUME RegistryTypes, NEW i \in Ids, registry[i] # Nil, Store(Deleted(i), object)
    PROVE  RegistryTypes'
<1>1. Deleted(i) \in Registries /\ object \in ObjectTables
  BY DEF RegistryTypes, Registries, ObjectTables, Deleted
<1> QED
  BY <1>1, StoreEffect

LEMMA RebindEffect ==
    ASSUME RegistryTypes, NEW real \in Ids
    PROVE  LET s == Rebound(real)
           IN  /\ s[1] \in Registries /\ s[2] \in ObjectTables
               /\ \A j \in Ids : \E k \in Ids : s[1][j] = registry[k]
               /\ [j \in Ids |-> Sess(s[1], s[2], j)]
                    = IF registry[Pending] # Nil THEN [Found EXCEPT ![real] = Found[Pending]] ELSE Found
<1>0. Pending \in Ids
  BY SessionAssumption DEF Pending, Ids
<1>1. registry \in Registries /\ object \in ObjectTables
  BY DEF RegistryTypes, Registries, ObjectTables
<1>2. CASE registry[Pending] = Nil
  BY <1>1, <1>2, SessIsSessionOf DEF Rebound
<1>3. CASE registry[Pending] # Nil
  <2> DEFINE o == registry[Pending]
             reg == [registry EXCEPT ![real] = o]
             obj == [object EXCEPT ![o].sid = real, ![o].aliased = TRUE]
  <2>1. Rebound(real) = <<reg, obj>>
    BY <1>3 DEF Rebound
  <2>2. o \in Objects /\ o # Nil
    BY <1>0, <1>1, <1>3 DEF Registries
  <2>3. obj \in ObjectTables /\ \A x \in Objects : obj[x].agent = object[x].agent
    BY <1>1, <2>2, ZenonT(60) DEF ObjectTables, ObjectStates, Activities
  <2>4. reg \in Registries /\ \A j \in Ids : \E k \in Ids : reg[j] = registry[k]
    BY <1>0, <1>1, <2>2 DEF Registries
  <2>5. \A j \in Ids : Sess(registry, obj, j) = Found[j]
    <3> HIDE DEF obj
    <3>1. \A j \in Ids : Sess(registry, obj, j) = Sess(registry, object, j)
      BY <1>1, <2>3, SameAgents
    <3> QED
      BY <3>1, SessIsSessionOf
  <2>6. \A j \in Ids : Sess(reg, obj, j) = IF j = real THEN Sess(registry, obj, Pending)
                                                       ELSE Sess(registry, obj, j)
    <3> HIDE DEF obj
    <3> QED
      BY <1>0, <1>1 DEF Sess, Registries
  <2>7. Found = [j \in Ids |-> Found[j]]
    BY DEF Found
  <2> HIDE DEF reg, obj, o
  <2>8. [j \in Ids |-> Sess(reg, obj, j)] = [Found EXCEPT ![real] = Found[Pending]]
    BY <1>0, <2>5, <2>6, <2>7
  <2> QED
    BY <1>3, <2>1, <2>3, <2>4, <2>8
<1> QED
  BY <1>2, <1>3

LEMMA TouchedObject ==
    ASSUME NEW obj \in ObjectTables, NEW o \in Objects, NEW st \in Activities
    PROVE  [obj EXCEPT ![o] = [obj[o] EXCEPT !.old = FALSE, !.state = st]] \in ObjectTables
<1> DEFINE row == [obj[o] EXCEPT !.old = FALSE, !.state = st]
<1>1. row \in ObjectStates
  BY DEF ObjectTables, ObjectStates
<1> HIDE DEF row
<1>2. [obj EXCEPT ![o] = row] \in ObjectTables
  BY <1>1 DEF ObjectTables
<1> QED
  BY <1>2 DEF row

LEMMA ForwardEffect ==
    ASSUME RegistryTypes, NEW r \in RelaySlots, relay[r].cur \in Ids,
           agent[relay[r].agent].rid \in Ids, RelayForwards(r)
    PROVE  /\ RegistryTypes'
           /\ Found' = IF relay[r].cur = Pending /\ registry[Pending] # Nil
                        THEN [Found EXCEPT ![agent[relay[r].agent].rid] = Found[Pending]] ELSE Found
<1> DEFINE g == relay[r]
           real == agent[g.agent].rid
           cur == IF g.cur = Pending THEN real ELSE g.cur
           bound == IF g.cur = Pending THEN Rebound(real) ELSE <<registry, object>>
           done == g.ev[2] = "result"
           reg == IF done THEN MarkedIdle(bound[1], bound[2], cur) ELSE bound
           o == reg[1][cur]
           goal == IF g.cur = Pending /\ registry[Pending] # Nil
                   THEN [Found EXCEPT ![real] = Found[Pending]] ELSE Found
<1>1. registry \in Registries /\ object \in ObjectTables
  BY DEF RegistryTypes, Registries, ObjectTables
<1>2. cur \in Ids
  OBVIOUS
<1>3. /\ bound[1] \in Registries /\ bound[2] \in ObjectTables
      /\ \A j \in Ids : \E k \in Ids : bound[1][j] = registry[k]
      /\ [j \in Ids |-> Sess(bound[1], bound[2], j)] = goal
  <2>1. CASE g.cur = Pending
    <3>1. bound = Rebound(real) /\ real \in Ids
      BY <2>1
    <3>2. goal = IF registry[Pending] # Nil THEN [Found EXCEPT ![real] = Found[Pending]] ELSE Found
      BY <2>1
    <3> HIDE DEF bound, goal, real
    <3> QED
      BY <3>1, <3>2, RebindEffect
  <2>2. CASE g.cur # Pending
    BY <1>1, <2>2, SessIsSessionOf
  <2> QED
    BY <2>1, <2>2
<1>4. IF Backend = "codex" /\ ~ done /\ o = Nil
      THEN Store([reg[1] EXCEPT ![cur] = Fresh], [reg[2] EXCEPT ![Fresh] = Entry(cur, Nil, "running")])
      ELSE Store(reg[1],
                 IF o = Nil THEN reg[2]
                 ELSE [reg[2] EXCEPT ![o].old = FALSE,
                                     ![o].state = IF Backend = "codex" /\ ~ done
                                                  THEN "running" ELSE @])
  BY Zenon DEF RelayForwards
<1> HIDE DEF bound, cur, goal
<1>5. /\ reg[1] \in Registries /\ reg[2] \in ObjectTables
      /\ [j \in Ids |-> Sess(reg[1], reg[2], j)] = goal
  <2>1. CASE done
    <3>1. /\ reg[1] \in Registries /\ reg[2] \in ObjectTables
          /\ \A j \in Ids : Sess(reg[1], reg[2], j) = Sess(bound[1], bound[2], j)
      BY <1>2, <1>3, <2>1, MarkedIdleEffect
    <3> HIDE DEF reg
    <3> QED
      BY <1>3, <3>1
  <2>2. CASE ~done
    BY <1>3, <2>2
  <2> QED
    BY <2>1, <2>2
<1>6. CASE Backend = "codex" /\ ~ done /\ o = Nil
  <2> DEFINE new_r == [reg[1] EXCEPT ![cur] = Fresh]
             new_o == [reg[2] EXCEPT ![Fresh] = Entry(cur, Nil, "running")]
  <2>1. Fresh \in Objects /\ \A j \in Ids : registry[j] # Fresh
    BY <1>1, FreshIsFree DEF Fresh
  <2>2. reg = bound
    BY <1>6
  <2>3. \A j \in Ids : reg[1][j] # Fresh
    BY <1>3, <2>1, <2>2
  <2> HIDE DEF Fresh, reg
  <2>4. /\ new_r \in Registries /\ new_o \in ObjectTables
        /\ \A j \in Ids : Sess(new_r, new_o, j) = IF j = cur THEN Nil ELSE Sess(reg[1], reg[2], j)
    BY <1>2, <1>5, <2>1, <2>3
    DEF Entry, ObjectStates, Activities, Registries, ObjectTables, Sess, Objects, Nil
  <2>5. Sess(reg[1], reg[2], cur) = Nil
    BY <1>6 DEF Sess
  <2>6. Store(new_r, new_o)
    BY <1>4, <1>6
  <2> HIDE DEF new_r, new_o
  <2>7. RegistryTypes' /\ Found' = [j \in Ids |-> Sess(new_r, new_o, j)]
    BY <2>4, <2>6, StoreEffect
  <2> QED
    BY <1>5, <2>4, <2>5, <2>7 DEF goal
<1>7. CASE ~(Backend = "codex" /\ ~ done /\ o = Nil)
  <2> DEFINE new == IF o = Nil THEN reg[2]
                    ELSE [reg[2] EXCEPT ![o].old = FALSE,
                                        ![o].state = IF Backend = "codex" /\ ~ done
                                                     THEN "running" ELSE @]
  <2>1. Store(reg[1], new)
    BY <1>4, <1>7
  <2>2. new \in ObjectTables /\ \A x \in Objects : new[x].agent = reg[2][x].agent
    <3> HIDE DEF reg
    <3>1. o \in Objects \union {Nil}
      BY <1>2, <1>5 DEF Registries
    <3>2. CASE o = Nil
      BY <1>5, <3>2
    <3>3. CASE o # Nil
      <4>1. o \in Objects
        BY <3>1, <3>3
      <4> DEFINE obj == reg[2]
                 st == IF Backend = "codex" /\ ~ done THEN "running" ELSE obj[o].state
      <4>2. obj[o] \in ObjectStates
        BY <1>5, <4>1 DEF ObjectTables
      <4>3. st \in Activities
        BY <4>2 DEF ObjectStates, Activities
      <4>4. new = [obj EXCEPT ![o] = [obj[o] EXCEPT !.old = FALSE, !.state = st]]
        BY <1>5, <3>3, <4>1, <4>2 DEF ObjectTables, ObjectStates, Activities
      <4>5. obj \in ObjectTables
        BY <1>5
      <4> HIDE DEF o, st, obj, new
      <4>6. new \in ObjectTables
        BY <4>1, <4>3, <4>4, <4>5, TouchedObject
      <4>7. ASSUME NEW x \in Objects PROVE new[x].agent = obj[x].agent
        BY <4>1, <4>2, <4>4, <4>5 DEF ObjectTables, ObjectStates
      <4> QED
        BY <4>6, <4>7 DEF obj
    <3> QED
      BY <3>2, <3>3
  <2> HIDE DEF reg, new
  <2>3. \A j \in Ids : Sess(reg[1], new, j) = Sess(reg[1], reg[2], j)
    BY <1>5, <2>2, SameAgents
  <2>4. RegistryTypes' /\ Found' = [j \in Ids |-> Sess(reg[1], new, j)]
    BY <1>5, <2>1, <2>2, StoreEffect
  <2> QED
    BY <1>5, <2>3, <2>4 DEF goal
<1> QED
  BY <1>6, <1>7

-----------------------------------------------------------------------------
(* The steps.                                                                *)

LEMMA FoundTyped ==
    ASSUME RegistryTypes
    PROVE  /\ Found \in [Ids -> Agents \union {Nil}]
           /\ \A i \in Ids : SessionOf(i) = Found[i]
           /\ \A i \in Ids : Found[i] # Nil => registry[i] # Nil
BY DEF RegistryTypes, Found, SessionOf, ObjectStates

LEMMA FoundKept == UNCHANGED <<registry, object>> => Found' = Found /\ (RegistryTypes => RegistryTypes')
BY DEF Found, SessionOf, RegistryTypes

LEMMA IdFacts == Pending \in Ids /\ Pending = Nil /\ Agents \subseteq Ids /\ Nil \notin Agents
BY SessionAssumption DEF Pending, Nil, Ids, Agents

LEMMA ModesTyped ==
    ASSUME SessionTypes
    PROVE  mode.clients \subseteq Clients /\ Backend \in {"claude", "codex"} /\ Closes \in BOOLEAN
BY SessionAssumption DEF SessionTypes, Backend, Closes

(* What a request may turn into, whatever else it was before.                 *)
Fits(q) ==
    /\ q.at \in {"check", "mark", "send", "relay"} => q.agent # Nil
    /\ ~Closes =>
          /\ q.at = "lookup" => q.id \in told \union {Pending}
          /\ q.at \in {"start", "check"} => q.id = Pending
          /\ q.at = "check" => q.agent \in 1..started
          /\ q.at \in {"mark", "send", "relay"} =>
                q.agent = Only /\ (q.id # Pending => Bound(q.id))

LEMMA RequestsFit == SessionInv => \A c \in Clients : Fits(request[c])
BY DEF SessionInv, AgentsKnown, OneSession, RequestsOfOnly, Fits

(* A step that finds the same sessions afterwards, opens no agent, moves      *)
(* requests to states that fit and keeps what the relay goroutines serve.     *)
LEMMA QuietStepOrFlag ==
    ASSUME SessionInv, RegistryTypes', Found' = Found,
           agent' \in [Agents -> AgentStates],
           \A a \in Agents : /\ agent'[a].rid = agent[a].rid
                             /\ agent'[a].st = "open" => agent[a].st = "open",
           request' \in [Clients -> RequestStates],
           \A c \in Clients :
              \/ request'[c] = request[c]
              \/ /\ Fits(request'[c])
                 /\ request[c].at = "check" => agent'[request[c].agent].st # "open",
           relay' \in [RelaySlots -> RelayStates],
           \A r \in RelaySlots :
              /\ relay'[r].at = "none" <=> relay[r].at = "none"
              /\ relay'[r].agent = relay[r].agent
              /\ relay'[r].orig = relay[r].orig /\ relay'[r].cur = relay[r].cur,
           sent' \in Nat, running' \subseteq Ids, watcher' \subseteq Ids,
           UNCHANGED <<mode, running, watcher>> \/ FlagHasOwner',
           UNCHANGED <<mode, sweep, started, told>>
    PROVE  SessionInv'
<1>1. SessionTypes'
  BY DEF SessionInv, SessionTypes
<1>2. AgentsKnown'
  BY DEF SessionInv, AgentsKnown, Fits
<1>3. FlagHasOwner'
  BY DEF SessionInv, FlagHasOwner, Backend
<1>4. ASSUME ~Closes PROVE OneSession'
  <2>1. OneSession
    BY <1>4 DEF SessionInv
  <2>2. Only' = Only /\ \A i : Bound(i)' <=> Bound(i)
    BY DEF Only, Bound
  <2>3. RequestsOfOnly'
    BY <1>4, <2>1, <2>2 DEF OneSession, RequestsOfOnly, Fits
  <2>4. RelaysOfOnly'
    BY <2>1 DEF OneSession, RelaysOfOnly, Bound, Only
  <2>5. OpenIsOnly'
    <3> SUFFICES ASSUME NEW a \in Agents, agent'[a].st = "open"
                 PROVE  a = Only' \/ \E c \in Clients : request'[c].at = "check" /\ request'[c].agent = a
      BY DEF OpenIsOnly
    <3>1. agent[a].st = "open"
      OBVIOUS
    <3>2. CASE a = Only
      BY <2>2, <3>2
    <3>3. ASSUME NEW c \in Clients, request[c].at = "check", request[c].agent = a
          PROVE  request'[c] = request[c]
      BY <3>3
    <3> QED
      BY <2>1, <3>1, <3>2, <3>3 DEF OneSession, OpenIsOnly
  <2>6. \A a \in 1..started : agent'[a].rid = a
    BY <2>1, SessionAssumption, SMTT(30) DEF OneSession, SessionInv, SessionTypes, Agents
  <2> QED
    BY <2>1, <2>2, <2>3, <2>4, <2>5, <2>6 DEF OneSession, Only, Bound
<1> QED
  BY <1>1, <1>2, <1>3, <1>4 DEF SessionInv, Closes

LEMMA QuietStep ==
    ASSUME SessionInv, RegistryTypes', Found' = Found,
           agent' \in [Agents -> AgentStates],
           \A a \in Agents : /\ agent'[a].rid = agent[a].rid
                             /\ agent'[a].st = "open" => agent[a].st = "open",
           request' \in [Clients -> RequestStates],
           \A c \in Clients :
              \/ request'[c] = request[c]
              \/ /\ Fits(request'[c])
                 /\ request[c].at = "check" => agent'[request[c].agent].st # "open",
           relay' \in [RelaySlots -> RelayStates],
           \A r \in RelaySlots :
              /\ relay'[r].at = "none" <=> relay[r].at = "none"
              /\ relay'[r].agent = relay[r].agent
              /\ relay'[r].orig = relay[r].orig /\ relay'[r].cur = relay[r].cur,
           sent' \in Nat,
           UNCHANGED <<mode, running, watcher, sweep, started, told>>
    PROVE  SessionInv'
BY QuietStepOrFlag DEF SessionInv, SessionTypes

LEMMA BeginSendKeeps ==
    ASSUME SessionInv, NEW c \in Clients, NEW i \in Ids, BeginSend(c, i)
    PROVE  SessionInv'
<1>1. RegistryTypes' /\ Found' = Found
  BY FoundKept, Zenon DEF BeginSend, NoRequest, SessionInv, SessionTypes
<1>2. SessionTypes'
  BY <1>1, FoundTyped, IdFacts
  DEF BeginSend, NoRequest, SessionInv, SessionTypes, AgentStates, RelayStates, RequestStates
<1>3. AgentsKnown'
  BY IdFacts
  DEF BeginSend, NoRequest, SessionInv, SessionTypes, AgentsKnown, AgentStates, RelayStates,
      RequestStates
<1>4. FlagHasOwner'
  BY DEF BeginSend, NoRequest, SessionInv, SessionTypes, FlagHasOwner, Backend, AgentStates,
         RelayStates, RequestStates
<1>5. ASSUME ~Closes PROVE OneSession'
  BY <1>1, <1>5, FoundTyped, IdFacts
  DEF BeginSend, NoRequest, SessionInv, SessionTypes, AgentsKnown, OneSession, RequestsOfOnly,
      RelaysOfOnly, OpenIsOnly, Only, Bound, AgentStates, RelayStates, RequestStates
<1>6. UNCHANGED mode
  BY Zenon DEF BeginSend, NoRequest
<1> QED
  BY <1>2, <1>3, <1>4, <1>5, <1>6 DEF SessionInv, Closes

LEMMA LookupKeeps ==
    ASSUME SessionInv, NEW c \in Clients, Lookup(c)
    PROVE  SessionInv'
<1> DEFINE a == SessionOf(request[c].id)
           q == [request[c] EXCEPT !.at = IF a # Nil THEN "mark" ELSE "start", !.agent = a]
<1>1. /\ request[c].at = "lookup" /\ request' = [request EXCEPT ![c] = q]
      /\ UNCHANGED <<mode, registry, object, agent, running, relay, watcher, sweep, started,
                     sent, told>>
  BY Zenon DEF Lookup
<1>2. /\ request[c] \in RequestStates /\ request[c].id \in Ids
      /\ RegistryTypes /\ a = Found[request[c].id] /\ a \in Agents \union {Nil}
  BY FoundTyped DEF SessionInv, SessionTypes, RequestStates
<1>3. /\ q \in RequestStates /\ q.id = request[c].id /\ q.agent = a
      /\ q.at = IF a # Nil THEN "mark" ELSE "start"
  <2> HIDE DEF a
  <2> QED
    BY <1>2 DEF RequestStates
<1>4. Fits(q)
  <2> HIDE DEF q, a
  <2> QED
    BY <1>1, <1>2, <1>3, IdFacts DEF SessionInv, OneSession, RequestsOfOnly, Fits, Bound, Only
<1> HIDE DEF q
<1>5. Found' = Found /\ RegistryTypes'
  BY <1>1, <1>2, FoundKept
<1>6. /\ request' \in [Clients -> RequestStates]
      /\ \A x \in Clients : request'[x] = request[x] \/ (Fits(request'[x]) /\ request[x].at # "check")
  BY <1>1, <1>3, <1>4 DEF SessionInv, SessionTypes
<1> QED
  BY <1>1, <1>5, <1>6, QuietStep DEF SessionInv, SessionTypes

LEMMA StartAgentKeeps ==
    ASSUME SessionInv, NEW c \in Clients, StartAgent(c)
    PROVE  SessionInv'
<1> DEFINE a == started + 1
           i == request[c].id
           k == i # Pending
           id == IF i = Pending THEN a ELSE i
           b == [NoAgent EXCEPT !.st = "open", !.rid = id, !.known = k]
           q == [request[c] EXCEPT !.at = "check", !.agent = a]
<1>1. /\ request[c].at = "start" /\ started < MaxAgents /\ started' = a
      /\ agent' = [agent EXCEPT ![a] = b] /\ request' = [request EXCEPT ![c] = q]
      /\ UNCHANGED <<mode, registry, object, running, relay, watcher, sweep, sent, told>>
  BY Zenon DEF StartAgent
<1>2. /\ request[c] \in RequestStates /\ i \in Ids /\ RegistryTypes /\ started \in 0..MaxAgents
  BY DEF SessionInv, SessionTypes, RequestStates
<1>3. a \in Agents /\ a # Nil /\ a \in Ids
  BY <1>1, <1>2, SessionAssumption DEF Agents, Nil, Ids
<1>4. b \in AgentStates /\ b.rid = (IF i = Pending THEN a ELSE i)
  <2>1. k \in BOOLEAN /\ id \in Ids
    BY <1>2, <1>3
  <2>2. NoAgent \in AgentStates
    BY IdFacts DEF NoAgent, AgentStates
  <2> HIDE DEF k, id
  <2>3. b \in AgentStates /\ b.rid = id
    BY <2>1, <2>2 DEF AgentStates
  <2> QED
    BY <2>3 DEF id
<1>5. q \in RequestStates /\ q.id = i /\ q.agent = a /\ q.at = "check"
  BY <1>2, <1>3 DEF RequestStates
<1> HIDE DEF q, b
<1>6. Found' = Found /\ RegistryTypes'
  BY <1>1, <1>2, FoundKept
<1>7. /\ request' \in [Clients -> RequestStates]
      /\ \A x \in Clients : x # c => request'[x] = request[x]
      /\ request'[c] = q
  BY <1>1, <1>5 DEF SessionInv, SessionTypes
<1>8. /\ agent' \in [Agents -> AgentStates]
      /\ \A x \in Agents : x # a => agent'[x] = agent[x]
      /\ agent'[a] = b
  BY <1>1, <1>3, <1>4 DEF SessionInv, SessionTypes
<1>9. SessionTypes'
  BY <1>1, <1>2, <1>6, <1>7, <1>8, SessionAssumption DEF SessionInv, SessionTypes
<1>10. AgentsKnown'
  BY <1>1, <1>3, <1>5, <1>7 DEF SessionInv, AgentsKnown
<1>11. FlagHasOwner'
  BY <1>1 DEF SessionInv, FlagHasOwner, Backend
<1>12. ASSUME ~Closes PROVE OneSession'
  <2>1. OneSession /\ Only' = Only /\ \A x : Bound(x)' <=> Bound(x)
    BY <1>6, <1>12 DEF SessionInv, Only, Bound
  <2>2. i = Pending
    BY <1>1, <2>1 DEF OneSession, RequestsOfOnly
  <2>3. RequestsOfOnly'
    BY <1>1, <1>2, <1>5, <1>7, <2>1, <2>2 DEF OneSession, RequestsOfOnly
  <2>4. RelaysOfOnly'
    BY <1>1, <1>6, <2>1 DEF OneSession, RelaysOfOnly, Bound, Only
  <2>5. OpenIsOnly'
    <3> SUFFICES ASSUME NEW x \in Agents, agent'[x].st = "open"
                 PROVE  x = Only' \/ \E d \in Clients : request'[d].at = "check" /\ request'[d].agent = x
      BY DEF OpenIsOnly
    <3>1. CASE x = a
      BY <1>5, <1>7, <3>1
    <3>2. CASE x # a
      BY <1>1, <1>7, <1>8, <2>1, <3>2 DEF OneSession, OpenIsOnly
    <3> QED
      BY <3>1, <3>2
  <2>6. \A x \in 1..started' : agent'[x].rid = x
    BY <1>1, <1>2, <1>4, <1>8, <2>1, <2>2, SessionAssumption DEF OneSession, Agents
  <2> QED
    BY <1>1, <1>2, <1>6, <2>1, <2>3, <2>4, <2>5, <2>6 DEF OneSession, Only, Bound
<1> QED
  BY <1>1, <1>9, <1>10, <1>11, <1>12 DEF SessionInv, Closes

LEMMA StartFailsKeeps ==
    ASSUME SessionInv, NEW c \in Clients, StartFails(c)
    PROVE  SessionInv'
<1>1. RegistryTypes' /\ Found' = Found
  BY FoundKept, Zenon DEF StartFails, NoRequest, SessionInv, SessionTypes
<1>2. SessionTypes'
  BY <1>1, FoundTyped, IdFacts
  DEF StartFails, NoRequest, SessionInv, SessionTypes, AgentStates, RelayStates, RequestStates
<1>3. AgentsKnown'
  BY IdFacts
  DEF StartFails, NoRequest, SessionInv, SessionTypes, AgentsKnown, AgentStates, RelayStates,
      RequestStates
<1>4. FlagHasOwner'
  BY DEF StartFails, NoRequest, SessionInv, SessionTypes, FlagHasOwner, Backend, AgentStates,
         RelayStates, RequestStates
<1>5. ASSUME ~Closes PROVE OneSession'
  BY <1>1, <1>5, FoundTyped, IdFacts
  DEF StartFails, NoRequest, SessionInv, SessionTypes, AgentsKnown, OneSession, RequestsOfOnly,
      RelaysOfOnly, OpenIsOnly, Only, Bound, AgentStates, RelayStates, RequestStates
<1>6. UNCHANGED mode
  BY Zenon DEF StartFails, NoRequest
<1> QED
  BY <1>2, <1>3, <1>4, <1>5, <1>6 DEF SessionInv, Closes

LEMMA CondemnedTyped ==
    ASSUME SessionTypes, NEW a \in Agents
    PROVE  /\ Condemned(a) \in [Agents -> AgentStates]
           /\ \A x \in Agents : /\ Condemned(a)[x].rid = agent[x].rid
                                /\ Condemned(a)[x].st = "open" => x # a /\ agent[x].st = "open"
BY ZenonT(60) DEF SessionTypes, Condemned, AgentStates

LEMMA CheckKeeps ==
    ASSUME SessionInv, NEW c \in Clients, Check(c)
    PROVE  SessionInv'
<1> DEFINE old == request[c]
           existing == SessionOf(old.id)
           kept == [old EXCEPT !.at = "mark"]
           using == [old EXCEPT !.at = "mark", !.agent = existing, !.dup = old.agent]
<1>1. /\ old.at = "check"
      /\ UNCHANGED <<mode, running, relay, watcher, sweep, started, sent, told>>
  BY Zenon DEF Check
<1>2. /\ old \in RequestStates /\ old.id \in Ids /\ old.agent \in Agents
      /\ RegistryTypes /\ SessionTypes
      /\ existing = Found[old.id] /\ Found \in [Ids -> Agents \union {Nil}]
  BY <1>1, FoundTyped DEF SessionInv, SessionTypes, RequestStates, AgentsKnown
<1>3. CASE existing # Nil
  <2>1. /\ agent' = Condemned(old.agent) /\ UNCHANGED <<registry, object>>
        /\ request' = [request EXCEPT ![c] = using]
    BY <1>3, Zenon DEF Check
  <2>2. /\ using \in RequestStates /\ using.at = "mark" /\ using.id = old.id
        /\ using.agent = existing
    <3> HIDE DEF existing
    <3> QED
      BY <1>2 DEF RequestStates
  <2>3. Fits(using)
    <3> HIDE DEF using, existing, old
    <3> QED
      BY <1>1, <1>2, <1>3, <2>2 DEF Fits, SessionInv, OneSession, RequestsOfOnly, Only, old
  <2> HIDE DEF using
  <2>4. /\ agent' \in [Agents -> AgentStates]
        /\ \A x \in Agents : /\ agent'[x].rid = agent[x].rid
                             /\ agent'[x].st = "open" => x # old.agent /\ agent[x].st = "open"
    BY <1>2, <2>1, CondemnedTyped
  <2>5. Found' = Found /\ RegistryTypes'
    BY <1>2, <2>1, FoundKept
  <2>6. /\ request' \in [Clients -> RequestStates]
        /\ \A x \in Clients : x # c => request'[x] = request[x]
        /\ request'[c] = using
    BY <2>1, <2>2 DEF SessionInv, SessionTypes
  <2>7. \A x \in Clients : \/ request'[x] = request[x]
                           \/ Fits(request'[x]) /\ agent'[request[x].agent].st # "open"
    <3> TAKE x \in Clients
    <3>1. CASE x = c
      <4>1. agent'[old.agent].st # "open"
        BY <1>2, <2>4
      <4> QED
        BY <2>3, <2>6, <3>1, <4>1
    <3>2. CASE x # c
      BY <2>6, <3>2
    <3> QED
      BY <3>1, <3>2
  <2>8. \A x \in Agents : /\ agent'[x].rid = agent[x].rid
                          /\ agent'[x].st = "open" => agent[x].st = "open"
    BY <2>4
  <2> HIDE DEF old, existing, kept
  <2> QED
    BY <1>1, <2>4, <2>5, <2>6, <2>7, <2>8, QuietStep DEF SessionInv, SessionTypes
<1>4. CASE existing = Nil
  <2>1. /\ Put(old.id, old.agent) /\ UNCHANGED agent
        /\ request' = [request EXCEPT ![c] = kept]
    BY <1>4, Zenon DEF Check
  <2>2. kept \in RequestStates /\ kept.at = "mark" /\ kept.id = old.id /\ kept.agent = old.agent
    BY <1>2 DEF RequestStates
  <2>3. RegistryTypes' /\ Found' = [Found EXCEPT ![old.id] = old.agent]
    BY <1>2, <2>1, PutEffect
  <2> HIDE DEF kept, existing
  <2>4. /\ request' \in [Clients -> RequestStates]
        /\ \A x \in Clients : x # c => request'[x] = request[x]
        /\ request'[c] = kept
    BY <2>1, <2>2 DEF SessionInv, SessionTypes
  <2>5. SessionTypes'
    BY <1>1, <2>1, <2>3, <2>4 DEF SessionInv, SessionTypes
  <2>6. AgentsKnown'
    BY <1>1, <1>2, <2>2, <2>4, IdFacts DEF SessionInv, AgentsKnown
  <2>7. FlagHasOwner'
    BY <1>1 DEF SessionInv, FlagHasOwner, Backend
  <2>8. ASSUME ~Closes PROVE OneSession'
    <3>1. OneSession
      BY <2>8 DEF SessionInv
    <3>2. old.id = Pending /\ old.agent \in 1..started
      BY <1>1, <3>1 DEF OneSession, RequestsOfOnly
    <3>3. Only = Nil /\ \A i \in Ids : Found[i] = Nil
      BY <1>2, <1>4, <3>1, <3>2 DEF OneSession, Only
    <3>4. told = {}
      BY <1>2, <3>1, <3>3, IdFacts DEF OneSession, Bound, SessionTypes
    <3>5. /\ \A x \in Clients : request[x].at \notin {"mark", "send", "relay"}
          /\ \A r \in RelaySlots : relay[r].at = "none"
      BY <3>1, <3>3 DEF OneSession, RequestsOfOnly, RelaysOfOnly, SessionInv, AgentsKnown
    <3>6. Only' = old.agent /\ \A i \in Ids : Found'[i] \in {Nil, old.agent}
      BY <1>2, <2>3, <3>2, <3>3, IdFacts DEF Only
    <3>7. RequestsOfOnly'
      BY <1>1, <1>2, <2>2, <2>4, <3>1, <3>2, <3>5, <3>6 DEF OneSession, RequestsOfOnly
    <3>8. RelaysOfOnly'
      BY <1>1, <3>5 DEF RelaysOfOnly
    <3>9. OpenIsOnly'
      BY <2>1, <2>4, <3>1, <3>3, <3>6, IdFacts DEF OneSession, OpenIsOnly
    <3> QED
      BY <1>1, <1>2, <2>1, <3>1, <3>2, <3>4, <3>6, <3>7, <3>8, <3>9
      DEF OneSession, SessionTypes
  <2> QED
    BY <1>1, <2>5, <2>6, <2>7, <2>8 DEF SessionInv, Closes
<1> QED
  BY <1>3, <1>4

LEMMA MarkKeeps ==
    ASSUME SessionInv, NEW c \in Clients, Mark(c)
    PROVE  SessionInv'
<1> DEFINE q == [request[c] EXCEPT !.at = "send", !.dup = Nil]
<1>1. /\ request[c].at = "mark" /\ request' = [request EXCEPT ![c].at = "send", ![c].dup = Nil]
      /\ MarkRunning(request[c].id)
      /\ UNCHANGED <<mode, agent, running, relay, watcher, sweep, started, sent, told>>
  BY Zenon DEF Mark
<1>2. request[c] \in RequestStates /\ request[c].id \in Ids /\ RegistryTypes
  BY DEF SessionInv, SessionTypes, RequestStates
<1>3. /\ q \in RequestStates /\ q.id = request[c].id /\ q.agent = request[c].agent
      /\ q.at = "send"
  BY <1>2 DEF RequestStates
<1>4. Fits(q)
  <2> HIDE DEF q
  <2> QED
    BY <1>1, <1>3, RequestsFit DEF Fits
<1>5. request' = [request EXCEPT ![c] = q]
  BY <1>1, <1>2 DEF RequestStates, SessionInv, SessionTypes
<1> HIDE DEF q
<1>6. Found' = Found /\ RegistryTypes'
  BY <1>1, <1>2, MarkRunningEffect
<1>7. /\ request' \in [Clients -> RequestStates]
      /\ \A x \in Clients : request'[x] = request[x] \/ (Fits(request'[x]) /\ request[x].at # "check")
  BY <1>1, <1>3, <1>4, <1>5 DEF SessionInv, SessionTypes
<1> QED
  BY <1>1, <1>6, <1>7, QuietStep DEF SessionInv, SessionTypes

LEMMA SendKeeps ==
    ASSUME SessionInv, NEW c \in Clients, Send(c)
    PROVE  SessionInv'
<1> DEFINE a == request[c].agent
           b == [agent[a] EXCEPT !.turns = Append(@, sent + 1)]
           q == [request[c] EXCEPT !.at = "relay"]
<1>1. request[c].at = "send" /\ UNCHANGED <<mode, registry, object, running, relay, watcher, sweep, started, told>>
  BY Zenon DEF Send
<1>2. /\ request[c] \in RequestStates /\ RegistryTypes /\ a \in Agents
      /\ agent[a] \in AgentStates /\ sent \in Nat
  BY <1>1 DEF SessionInv, SessionTypes, RequestStates, AgentsKnown
<1>3. Found' = Found /\ RegistryTypes'
  BY <1>1, <1>2, FoundKept
<1>4. /\ b \in AgentStates /\ b.rid = agent[a].rid /\ b.st = agent[a].st
  <2>1. agent[a].turns \in Seq(Nat)
    BY <1>2 DEF AgentStates
  <2>2. Append(agent[a].turns, sent + 1) \in Seq(Nat)
    BY <1>2, <2>1
  <2> QED
    BY <1>2, <2>2 DEF AgentStates
<1>5. q \in RequestStates /\ q.id = request[c].id /\ q.agent = a /\ q.at = "relay"
  BY <1>2 DEF RequestStates
<1>6. Fits(q) /\ Fits(NoRequest)
  <2>1. Fits(NoRequest)
    BY DEF Fits, NoRequest
  <2> HIDE DEF q
  <2> QED
    BY <1>1, <1>5, <2>1, RequestsFit DEF Fits
<1>7. NoRequest \in RequestStates
  BY IdFacts DEF NoRequest, RequestStates
<1>8. CASE agent[a].st \in {"open", "condemned"}
  <2>1. /\ agent' = [agent EXCEPT ![a] = b] /\ sent' = sent + 1
        /\ request' = [request EXCEPT ![c] = q]
    BY <1>2, <1>8 DEF Send, SessionInv, SessionTypes, AgentStates, RequestStates
  <2> HIDE DEF q, b, a
  <2>2. /\ request' \in [Clients -> RequestStates]
        /\ \A x \in Clients : request'[x] = request[x] \/ (Fits(request'[x]) /\ request[x].at # "check")
    BY <1>1, <1>5, <1>6, <2>1 DEF SessionInv, SessionTypes
  <2>3. /\ agent' \in [Agents -> AgentStates]
        /\ \A x \in Agents : agent'[x].rid = agent[x].rid /\ agent'[x].st = agent[x].st
    BY <1>2, <1>4, <2>1 DEF SessionInv, SessionTypes
  <2> QED
    BY <1>1, <1>2, <1>3, <2>1, <2>2, <2>3, QuietStep DEF SessionInv, SessionTypes
<1>9. CASE agent[a].st \notin {"open", "condemned"}
  <2>1. request' = [request EXCEPT ![c] = NoRequest] /\ UNCHANGED <<agent, sent>>
    BY <1>9 DEF Send
  <2> HIDE DEF q, b, a
  <2>2. /\ request' \in [Clients -> RequestStates]
        /\ \A x \in Clients : request'[x] = request[x] \/ (Fits(request'[x]) /\ request[x].at # "check")
    BY <1>1, <1>6, <1>7, <2>1 DEF SessionInv, SessionTypes
  <2> QED
    BY <1>1, <1>3, <2>1, <2>2, QuietStep DEF SessionInv, SessionTypes
<1> QED
  BY <1>8, <1>9

LEMMA StartRelayKeeps ==
    ASSUME SessionInv, NEW c \in Clients, StartRelay(c)
    PROVE  SessionInv'
<1> DEFINE q == request[c]
           g == [at |-> "run", agent |-> q.agent, orig |-> q.id, cur |-> q.id, ev |-> <<>>]
<1>1. /\ q.at = "relay" /\ request' = [request EXCEPT ![c] = NoRequest]
      /\ UNCHANGED <<mode, registry, object, agent, watcher, sweep, started, sent, told>>
  BY Zenon DEF StartRelay
<1>2. q \in RequestStates /\ q.id \in Ids /\ q.agent \in Agents /\ RegistryTypes
  BY <1>1 DEF SessionInv, SessionTypes, RequestStates, AgentsKnown
<1>3. NoRequest \in RequestStates /\ NoRequest.at = "none" /\ Fits(NoRequest)
  BY IdFacts DEF NoRequest, RequestStates, Fits
<1>4. /\ request' \in [Clients -> RequestStates]
      /\ \A x \in Clients : x # c => request'[x] = request[x]
      /\ request'[c] = NoRequest
  BY <1>1, <1>3 DEF SessionInv, SessionTypes
<1>5. Found' = Found /\ RegistryTypes'
  BY <1>1, <1>2, FoundKept
<1>6. CASE q.id \in running
  <2>1. UNCHANGED <<running, relay>>
    BY <1>6 DEF StartRelay
  <2>2. \A x \in Clients : request'[x] = request[x] \/ (Fits(request'[x]) /\ request[x].at # "check")
    BY <1>1, <1>3, <1>4
  <2> HIDE DEF q
  <2> QED
    BY <1>1, <1>4, <1>5, <2>1, <2>2, QuietStep DEF SessionInv, SessionTypes
<1>7. CASE q.id \notin running
  <2>1. PICK r \in RelaySlots : /\ relay[r].at = "none" /\ relay' = [relay EXCEPT ![r] = g]
                                /\ running' = running \union {q.id}
    BY <1>7, Zenon DEF StartRelay
  <2>2. /\ g \in RelayStates /\ g.at = "run" /\ g.agent = q.agent
        /\ g.orig = q.id /\ g.cur = q.id
    BY <1>2 DEF RelayStates
  <2> HIDE DEF g
  <2>3. /\ relay' \in [RelaySlots -> RelayStates]
        /\ \A x \in RelaySlots : x # r => relay'[x] = relay[x]
        /\ relay'[r] = g
    BY <2>1, <2>2 DEF SessionInv, SessionTypes
  <2>4. SessionTypes'
    BY <1>1, <1>2, <1>4, <1>5, <2>1, <2>3 DEF SessionInv, SessionTypes
  <2>5. AgentsKnown'
    BY <1>1, <1>2, <1>3, <1>4, <2>2, <2>3, IdFacts DEF SessionInv, AgentsKnown
  <2>6. FlagHasOwner'
    BY <1>1, <2>1, <2>2, <2>3 DEF SessionInv, FlagHasOwner, Backend
  <2>7. ASSUME ~Closes PROVE OneSession'
    <3>1. OneSession /\ Only' = Only /\ \A x : Bound(x)' <=> Bound(x)
      BY <1>5, <2>7 DEF SessionInv, Only, Bound
    <3>2. RequestsOfOnly'
      BY <1>1, <1>3, <1>4, <1>5, <3>1 DEF OneSession, RequestsOfOnly, Bound, Only
    <3>3. RelaysOfOnly'
      <4>1. q.agent = Only /\ (q.id # Pending => Bound(q.id))
        BY <1>1, <3>1 DEF OneSession, RequestsOfOnly
      <4> QED
        BY <1>5, <2>2, <2>3, <3>1, <4>1 DEF OneSession, RelaysOfOnly, Bound, Only
    <3>4. OpenIsOnly'
      BY <1>1, <1>4, <3>1 DEF OneSession, OpenIsOnly
    <3> QED
      BY <1>1, <1>5, <3>1, <3>2, <3>3, <3>4 DEF OneSession, Only, Bound
  <2> QED
    BY <1>1, <2>4, <2>5, <2>6, <2>7 DEF SessionInv, Closes
<1> QED
  BY <1>6, <1>7

LEMMA AbortReturnsKeeps ==
    ASSUME SessionInv, NEW c \in Clients, AbortReturns(c)
    PROVE  SessionInv'
<1>1. RegistryTypes' /\ Found' = Found
  BY FoundKept, Zenon DEF AbortReturns, NoRequest, SessionInv, SessionTypes
<1>2. SessionTypes'
  BY <1>1, FoundTyped, IdFacts
  DEF AbortReturns, NoRequest, SessionInv, SessionTypes, AgentStates, RelayStates,
      RequestStates
<1>3. AgentsKnown'
  BY IdFacts
  DEF AbortReturns, NoRequest, SessionInv, SessionTypes, AgentsKnown, AgentStates, RelayStates,
      RequestStates
<1>4. FlagHasOwner'
  BY DEF AbortReturns, NoRequest, SessionInv, SessionTypes, FlagHasOwner, Backend, AgentStates,
         RelayStates, RequestStates
<1>5. ASSUME ~Closes PROVE OneSession'
  BY <1>1, <1>5, FoundTyped, IdFacts
  DEF AbortReturns, NoRequest, SessionInv, SessionTypes, AgentsKnown, OneSession,
      RequestsOfOnly, RelaysOfOnly, OpenIsOnly, Only, Bound, AgentStates, RelayStates,
      RequestStates
<1>6. UNCHANGED mode
  BY Zenon DEF AbortReturns, NoRequest
<1> QED
  BY <1>2, <1>3, <1>4, <1>5, <1>6 DEF SessionInv, Closes

LEMMA ViewKeeps ==
    ASSUME SessionInv, NEW c \in Clients, NEW i \in Ids, View(c, i)
    PROVE  SessionInv'
<1> DEFINE j == Resolve(i)
           a == SessionOf(j)
           q == [NoRequest EXCEPT !.at = "relay", !.id = j, !.agent = a]
<1>1. /\ request[c].at = "none" /\ i \in told \union {Pending}
      /\ request' = IF a = Nil THEN request ELSE [request EXCEPT ![c] = q]
      /\ watcher' = IF Backend = "codex" \/ (a = Nil /\ j \notin running)
                    THEN watcher \union {j} ELSE watcher
      /\ running' = IF Backend = "claude" /\ a = Nil THEN running \union {j} ELSE running
      /\ UNCHANGED <<mode, registry, object, agent, relay, sweep, started, sent, told>>
  BY Zenon DEF View
<1>2. RegistryTypes /\ Found \in [Ids -> Agents \union {Nil}] /\ SessionTypes
  BY FoundTyped DEF SessionInv, SessionTypes
<1>3. /\ j \in Ids
      /\ j = i \/ (i = Pending /\ Only # Nil /\ j = agent[Only].rid)
  BY <1>2, FoundTyped, IdFacts DEF Resolve, SessionTypes, AgentStates, Only
<1>4. a = Found[j] /\ a \in Agents \union {Nil}
  BY <1>2, <1>3, FoundTyped
<1>5. q \in RequestStates /\ q.at = "relay" /\ q.id = j /\ q.agent = a
  <2>1. NoRequest \in RequestStates
    BY IdFacts DEF NoRequest, RequestStates
  <2> HIDE DEF j, a
  <2> QED
    BY <1>3, <1>4, <2>1 DEF RequestStates
<1>6. a # Nil => Fits(q)
  <2> SUFFICES ASSUME a # Nil, ~Closes PROVE q.agent = Only /\ (q.id # Pending => Bound(q.id))
    BY <1>5 DEF Fits
  <2>1. OneSession
    BY DEF SessionInv
  <2>2. a = Only
    BY <1>3, <1>4, <2>1 DEF OneSession
  <2>3. j # Pending => j = Only
    <3>1. CASE j = i
      BY <1>1, <2>1, <3>1 DEF OneSession, Bound
    <3>2. CASE i = Pending /\ Only # Nil /\ j = agent[Only].rid
      <4>1. Only \in 1..started
        BY <1>2, <2>1, <3>2, IdFacts, SessionAssumption DEF OneSession, SessionTypes, Pending
      <4> QED
        BY <2>1, <3>2, <4>1 DEF OneSession
    <3> QED
      BY <1>3, <3>1, <3>2
  <2> HIDE DEF q, j, a
  <2> QED
    BY <1>4, <1>5, <2>2, <2>3 DEF Bound
<1> HIDE DEF q, j, a
<1>7. /\ request' \in [Clients -> RequestStates]
      /\ \A x \in Clients : request'[x] = request[x] \/ (Fits(request'[x]) /\ request[x].at # "check")
  BY <1>1, <1>2, <1>5, <1>6 DEF SessionTypes
<1>8. running' \subseteq Ids /\ watcher' \subseteq Ids
  BY <1>1, <1>2, <1>3 DEF SessionTypes
<1>9. FlagHasOwner'
  <2>1. Backend' = Backend
    BY <1>1 DEF Backend
  <2>2. watcher \subseteq watcher'
    BY <1>1
  <2>3. j \in running' \ running => Backend = "claude" /\ j \in watcher'
    BY <1>1
  <2>4. running' \subseteq running \union {j}
    BY <1>1
  <2> QED
    BY <1>1, <2>1, <2>2, <2>3, <2>4 DEF SessionInv, FlagHasOwner
<1>10. Found' = Found /\ RegistryTypes'
  BY <1>1, <1>2, FoundKept
<1> QED
  BY <1>1, <1>2, <1>7, <1>8, <1>9, <1>10, QuietStepOrFlag DEF SessionTypes

(* A step that takes a session from the registry: only where sessions end.    *)
LEMMA ClosingStep ==
    ASSUME SessionInv, Closes, RegistryTypes',
           agent' \in [Agents -> AgentStates],
           request' \in [Clients -> RequestStates],
           \A c \in Clients : request'[c] = request[c] \/ request'[c].at = "closing",
           sweep' \subseteq Ids,
           UNCHANGED <<mode, running, relay, watcher, started, sent, told>>
    PROVE  SessionInv'
<1>1. SessionTypes'
  BY DEF SessionInv, SessionTypes
<1>2. AgentsKnown'
  BY DEF SessionInv, AgentsKnown
<1>3. FlagHasOwner'
  BY DEF SessionInv, FlagHasOwner, Backend
<1> QED
  BY <1>1, <1>2, <1>3 DEF SessionInv, Closes

LEMMA AbortKeeps ==
    ASSUME SessionInv, NEW c \in Clients, NEW i \in Ids, Abort(c, i)
    PROVE  SessionInv'
<1> DEFINE a == SessionOf(i)
           q == [NoRequest EXCEPT !.at = "closing", !.id = i, !.agent = a]
<1>1. /\ Closes /\ registry[i] # Nil /\ Store(Deleted(i), object)
      /\ IF a = Nil THEN UNCHANGED <<agent, request>>
         ELSE agent' = Condemned(a) /\ request' = [request EXCEPT ![c] = q]
      /\ UNCHANGED <<mode, running, relay, watcher, sweep, started, sent, told>>
  BY Zenon DEF Abort
<1>2. RegistryTypes /\ SessionTypes
  BY DEF SessionInv, SessionTypes
<1>3. RegistryTypes'
  BY <1>1, <1>2, DeleteEffect
<1>4. a \in Agents \union {Nil}
  BY <1>2, FoundTyped
<1>5. q \in RequestStates /\ q.at = "closing"
  <2>1. NoRequest \in RequestStates
    BY IdFacts DEF NoRequest, RequestStates
  <2> HIDE DEF a
  <2> QED
    BY <1>4, <2>1 DEF RequestStates
<1> HIDE DEF a, q
<1>6. agent' \in [Agents -> AgentStates]
  BY <1>1, <1>2, <1>4, CondemnedTyped DEF SessionTypes
<1>7. /\ request' \in [Clients -> RequestStates]
      /\ \A x \in Clients : request'[x] = request[x] \/ request'[x].at = "closing"
  BY <1>1, <1>2, <1>5 DEF SessionTypes
<1> QED
  BY <1>1, <1>2, <1>3, <1>6, <1>7, ClosingStep DEF SessionTypes

LEMMA RelayTakesKeeps ==
    ASSUME SessionInv, NEW r \in RelaySlots, RelayTakes(r)
    PROVE  SessionInv'
<1> DEFINE a == relay[r].agent
           b == [agent[a] EXCEPT !.events = Tail(@)]
           g == [relay[r] EXCEPT !.at = "hand", !.ev = Head(agent[a].events)]
<1>1. /\ relay[r].at = "run" /\ agent[a].events # <<>>
      /\ relay' = [relay EXCEPT ![r].at = "hand", ![r].ev = Head(agent[a].events)]
      /\ agent' = [agent EXCEPT ![a].events = Tail(@)]
      /\ UNCHANGED <<mode, registry, object, running, watcher, request, sweep, started, sent, told>>
  BY Zenon DEF RelayTakes
<1>2. /\ relay[r] \in RelayStates /\ a \in Agents /\ agent[a] \in AgentStates
      /\ agent[a].events \in Seq(Events) /\ RegistryTypes
  BY <1>1 DEF SessionInv, SessionTypes, RelayStates, AgentStates, AgentsKnown
<1>3. Head(agent[a].events) \in Events /\ Tail(agent[a].events) \in Seq(Events)
  BY <1>1, <1>2
<1>4. agent' = [agent EXCEPT ![a] = b] /\ relay' = [relay EXCEPT ![r] = g]
  BY <1>1, <1>2 DEF SessionInv, SessionTypes, RelayStates, AgentStates
<1>5. b \in AgentStates /\ b.rid = agent[a].rid /\ b.st = agent[a].st
  BY <1>2, <1>3 DEF AgentStates
<1>6. /\ g \in RelayStates /\ g.at # "none" /\ g.agent = relay[r].agent
      /\ g.orig = relay[r].orig /\ g.cur = relay[r].cur
  BY <1>2, <1>3 DEF RelayStates
<1> HIDE DEF b, g
<1>7. Found' = Found /\ RegistryTypes'
  BY <1>1, <1>2, FoundKept
<1>8. /\ agent' \in [Agents -> AgentStates]
      /\ \A x \in Agents : agent'[x].rid = agent[x].rid /\ agent'[x].st = agent[x].st
  BY <1>2, <1>4, <1>5 DEF SessionInv, SessionTypes
<1>9. /\ relay' \in [RelaySlots -> RelayStates]
      /\ \A x \in RelaySlots :
            /\ relay'[x].at = "none" <=> relay[x].at = "none"
            /\ relay'[x].agent = relay[x].agent
            /\ relay'[x].orig = relay[x].orig /\ relay'[x].cur = relay[x].cur
  BY <1>1, <1>4, <1>6, ZenonT(60) DEF SessionInv, SessionTypes
<1> QED
  BY <1>1, <1>7, <1>8, <1>9, QuietStep DEF SessionInv, SessionTypes

LEMMA RelayForwardsKeeps ==
    ASSUME SessionInv, NEW r \in RelaySlots, RelayForwards(r)
    PROVE  SessionInv'
<1> DEFINE g == relay[r]
           real == agent[g.agent].rid
           cur == IF g.cur = Pending THEN real ELSE g.cur
           at == IF g.ev[2] = "result" THEN AfterResult ELSE "run"
           h == [g EXCEPT !.at = at, !.cur = cur, !.ev = <<>>]
<1>1. /\ g.at = "hand" /\ told' = told \union {cur} /\ relay' = [relay EXCEPT ![r] = h]
      /\ UNCHANGED <<mode, agent, running, watcher, request, sweep, started, sent>>
  BY Zenon DEF RelayForwards
<1>2. /\ SessionTypes /\ g \in RelayStates /\ g.cur \in Ids /\ g.agent \in Agents /\ real \in Ids
      /\ Found \in [Ids -> Agents \union {Nil}]
  BY <1>1, FoundTyped DEF SessionInv, SessionTypes, AgentsKnown, RelayStates, AgentStates
<1>3. /\ RegistryTypes'
      /\ Found' = IF g.cur = Pending /\ registry[Pending] # Nil
                   THEN [Found EXCEPT ![real] = Found[Pending]] ELSE Found
  BY <1>2, ForwardEffect, Zenon DEF SessionTypes
<1>4. cur \in Ids /\ at \in {"run", "exit"}
  BY <1>2 DEF AfterResult
<1>5. /\ h \in RelayStates /\ h.at # "none" /\ h.agent = g.agent
      /\ h.orig = g.orig /\ h.cur = cur
  <2> HIDE DEF cur, at
  <2> QED
    BY <1>2, <1>4 DEF RelayStates
<1> HIDE DEF h
<1>6. /\ relay' \in [RelaySlots -> RelayStates]
      /\ \A x \in RelaySlots : x # r => relay'[x] = relay[x]
      /\ relay'[r] = h
  BY <1>1, <1>2, <1>5 DEF SessionTypes
<1>7. SessionTypes'
  BY <1>1, <1>2, <1>3, <1>4, <1>6 DEF SessionTypes
<1>8. AgentsKnown'
  BY <1>1, <1>5, <1>6 DEF SessionInv, AgentsKnown
<1>9. FlagHasOwner'
  BY <1>1, <1>5, <1>6 DEF SessionInv, FlagHasOwner, Backend
<1>10. ASSUME ~Closes PROVE OneSession'
  <2>1. OneSession /\ g.agent = Only /\ (g.cur # Pending => Bound(g.cur))
    BY <1>1, <1>10 DEF SessionInv, OneSession, RelaysOfOnly
  <2>2. Only \in 1..started /\ real = Only /\ Only # Pending /\ Only \in Ids
    BY <1>2, <2>1, IdFacts, SessionAssumption DEF OneSession, SessionTypes, Agents, Pending
  <2>3. registry[Pending] # Nil
    BY <1>2, <2>2, FoundTyped, IdFacts DEF SessionTypes, Only
  <2>4. cur = Only /\ cur # Pending
    BY <2>1, <2>2 DEF Bound
  <2>5. Found' = [Found EXCEPT ![Only] = Only]
    BY <1>2, <1>3, <2>1, <2>2, <2>3, <2>4 DEF Only, Bound
  <2>6. /\ Only' = Only /\ Found'[Only] = Only
        /\ \A i \in Ids : Found'[i] \in {Nil, Only}
    BY <1>2, <2>1, <2>2, <2>5, IdFacts DEF OneSession, Only
  <2>7. \A i : Bound(i) => i = Only'  /\ Found'[i] = Only'
    BY <2>6 DEF Bound
  <2> HIDE DEF cur, real
  <2>8. RequestsOfOnly'
    BY <1>1, <2>1, <2>6, <2>7 DEF OneSession, RequestsOfOnly, Bound
  <2>9. RelaysOfOnly'
    BY <1>5, <1>6, <2>1, <2>4, <2>6, <2>7 DEF OneSession, RelaysOfOnly, Bound
  <2>10. OpenIsOnly'
    BY <1>1, <2>1, <2>6 DEF OneSession, OpenIsOnly
  <2>11. \A i \in told' : i # Pending /\ Bound(i)'
    BY <1>1, <2>1, <2>4, <2>6, <2>7 DEF OneSession, Bound
  <2> QED
    BY <1>1, <2>1, <2>6, <2>8, <2>9, <2>10, <2>11 DEF OneSession
<1> QED
  BY <1>1, <1>7, <1>8, <1>9, <1>10 DEF SessionInv, Closes

LEMMA RelaySeesCloseKeeps ==
    ASSUME SessionInv, NEW r \in RelaySlots, RelaySeesClose(r)
    PROVE  SessionInv'
<1> DEFINE g == [relay[r] EXCEPT !.at = "exit"]
<1>1. /\ relay[r].at = "run" /\ relay' = [relay EXCEPT ![r].at = "exit"]
      /\ UNCHANGED <<registry, object>> \/ MarkIdle(relay[r].cur)
      /\ UNCHANGED <<mode, agent, running, watcher, request, sweep, started, sent, told>>
  BY Zenon DEF RelaySeesClose
<1>2. relay[r] \in RelayStates /\ relay[r].cur \in Ids /\ RegistryTypes
  BY DEF SessionInv, SessionTypes, RelayStates
<1>3. relay' = [relay EXCEPT ![r] = g]
  BY <1>1, <1>2 DEF SessionInv, SessionTypes, RelayStates
<1>4. /\ g \in RelayStates /\ g.at # "none" /\ g.agent = relay[r].agent
      /\ g.orig = relay[r].orig /\ g.cur = relay[r].cur
  BY <1>2 DEF RelayStates
<1> HIDE DEF g
<1>5. Found' = Found /\ RegistryTypes'
  BY <1>1, <1>2, FoundKept, MarkIdleEffect
<1>6. /\ relay' \in [RelaySlots -> RelayStates]
      /\ \A x \in RelaySlots :
            /\ relay'[x].at = "none" <=> relay[x].at = "none"
            /\ relay'[x].agent = relay[x].agent
            /\ relay'[x].orig = relay[x].orig /\ relay'[x].cur = relay[x].cur
  BY <1>1, <1>3, <1>4 DEF SessionInv, SessionTypes
<1> QED
  BY <1>1, <1>5, <1>6, QuietStep DEF SessionInv, SessionTypes

LEMMA RelayExitsKeeps ==
    ASSUME SessionInv, NEW r \in RelaySlots, RelayExits(r)
    PROVE  SessionInv'
<1>1. RegistryTypes' /\ Found' = Found
  BY FoundKept, Zenon DEF RelayExits, NoRelay, SessionInv, SessionTypes
<1>2. SessionTypes'
  BY <1>1, FoundTyped, IdFacts
  DEF RelayExits, NoRelay, SessionInv, SessionTypes, AgentStates, RelayStates, RequestStates
<1>3. AgentsKnown'
  BY IdFacts
  DEF RelayExits, NoRelay, SessionInv, SessionTypes, AgentsKnown, AgentStates, RelayStates,
      RequestStates
<1>4. FlagHasOwner'
  BY DEF RelayExits, NoRelay, SessionInv, SessionTypes, FlagHasOwner, Backend, AgentStates,
         RelayStates, RequestStates
<1>5. ASSUME ~Closes PROVE OneSession'
  BY <1>1, <1>5, FoundTyped, IdFacts
  DEF RelayExits, NoRelay, SessionInv, SessionTypes, AgentsKnown, OneSession, RequestsOfOnly,
      RelaysOfOnly, OpenIsOnly, Only, Bound, AgentStates, RelayStates, RequestStates
<1>6. UNCHANGED mode
  BY Zenon DEF RelayExits, NoRelay
<1> QED
  BY <1>2, <1>3, <1>4, <1>5, <1>6 DEF SessionInv, Closes

(* A step of one agent that does not open it.                                 *)
LEMMA AgentMoves ==
    ASSUME SessionInv, NEW a \in Agents, NEW b \in AgentStates,
           agent' = [agent EXCEPT ![a] = b], b.rid = agent[a].rid,
           b.st = "open" => agent[a].st = "open",
           UNCHANGED <<mode, registry, object, running, relay, watcher, request, sweep,
                       started, sent, told>>
    PROVE  SessionInv'
<1>1. Found' = Found /\ RegistryTypes'
  BY FoundKept DEF SessionInv, SessionTypes
<1>2. /\ agent' \in [Agents -> AgentStates]
      /\ \A x \in Agents : /\ agent'[x].rid = agent[x].rid
                           /\ agent'[x].st = "open" => agent[x].st = "open"
  BY DEF SessionInv, SessionTypes
<1> QED
  BY <1>1, <1>2, QuietStep DEF SessionInv, SessionTypes

LEMMA AgentEmitsKeeps ==
    ASSUME SessionInv, NEW a \in Agents, AgentEmits(a)
    PROVE  SessionInv'
<1> DEFINE ag == agent[a]
           t == Head(ag.turns)
           b == IF ag.begun
                THEN [ag EXCEPT !.events = Append(@, <<t, "result">>),
                                !.turns = Tail(@), !.begun = FALSE]
                ELSE [ag EXCEPT !.events = Append(@, <<t, "start">>),
                                !.begun = TRUE, !.known = TRUE]
<1>1. /\ ag.turns # <<>> /\ agent' = [agent EXCEPT ![a] = b]
      /\ UNCHANGED <<mode, registry, object, running, relay, watcher, request, sweep,
                     started, sent, told>>
  BY Zenon DEF AgentEmits
<1>2. ag \in AgentStates /\ ag.turns \in Seq(Nat) /\ ag.events \in Seq(Events)
  BY DEF SessionInv, SessionTypes, AgentStates
<1>3. t \in Nat /\ Tail(ag.turns) \in Seq(Nat)
  BY <1>1, <1>2
<1>4. /\ Append(ag.events, <<t, "result">>) \in Seq(Events)
      /\ Append(ag.events, <<t, "start">>) \in Seq(Events)
  BY <1>2, <1>3 DEF Events
<1>5. b \in AgentStates /\ b.rid = ag.rid /\ b.st = ag.st
  <2> HIDE DEF t
  <2> QED
    BY <1>2, <1>3, <1>4 DEF AgentStates
<1> HIDE DEF b
<1> QED
  BY <1>1, <1>5, AgentMoves

LEMMA AgentSet ==
    ASSUME SessionInv, NEW a \in Agents, NEW st \in {"closing", "closed"}, SetAgent(a, st)
    PROVE  SessionInv'
<1> DEFINE left == IF st = "closed" THEN <<>> ELSE agent[a].turns
           half == agent[a].begun /\ st # "closed"
           b == [agent[a] EXCEPT !.st = st, !.turns = left, !.begun = half]
<1>1. agent[a] \in AgentStates
  BY DEF SessionInv, SessionTypes
<1>a. left \in Seq(Nat)
  BY <1>1 DEF AgentStates
<1>b. half \in BOOLEAN
  OBVIOUS
<1>2. /\ agent' = [agent EXCEPT ![a] = b]
      /\ UNCHANGED <<mode, registry, object, running, relay, watcher, request, sweep,
                     started, sent, told>>
  BY <1>1 DEF SetAgent, SessionInv, SessionTypes, AgentStates
<1>3. b \in AgentStates /\ b.rid = agent[a].rid /\ b.st = st
  <2> HIDE DEF left, half
  <2> QED
    BY <1>1, <1>a, <1>b DEF AgentStates
<1> HIDE DEF b
<1> QED
  BY <1>2, <1>3, AgentMoves

LEMMA BeginCloseKeeps ==
    ASSUME SessionInv, NEW a \in Agents, BeginClose(a)
    PROVE  SessionInv'
BY AgentSet DEF BeginClose

LEMMA AgentEndsKeeps ==
    ASSUME SessionInv, NEW a \in Agents, AgentEnds(a)
    PROVE  SessionInv'
BY AgentSet DEF AgentEnds

LEMMA WatcherSeesTurnKeeps ==
    ASSUME SessionInv, NEW i \in Ids, WatcherSeesTurn(i)
    PROVE  SessionInv'
<1>1. RegistryTypes' /\ Found' = Found
  BY MarkRunningEffect, FoundKept
  DEF WatcherSeesTurn, SessionInv, SessionTypes, RelayStates, RequestStates
<1>2. SessionTypes'
  BY <1>1, FoundTyped, IdFacts
  DEF WatcherSeesTurn, SessionInv, SessionTypes, AgentStates, RelayStates, RequestStates
<1>3. AgentsKnown'
  BY IdFacts
  DEF WatcherSeesTurn, SessionInv, SessionTypes, AgentsKnown, AgentStates, RelayStates,
      RequestStates
<1>4. FlagHasOwner'
  BY DEF WatcherSeesTurn, SessionInv, SessionTypes, FlagHasOwner, Backend, AgentStates,
         RelayStates, RequestStates
<1>5. ASSUME ~Closes PROVE OneSession'
  BY <1>1, <1>5, FoundTyped, IdFacts
  DEF WatcherSeesTurn, SessionInv, SessionTypes, AgentsKnown, OneSession, RequestsOfOnly,
      RelaysOfOnly, OpenIsOnly, Only, Bound, AgentStates, RelayStates, RequestStates
<1>6. UNCHANGED mode
  BY Zenon DEF WatcherSeesTurn
<1> QED
  BY <1>2, <1>3, <1>4, <1>5, <1>6 DEF SessionInv, Closes

LEMMA WatcherSeesInterruptKeeps ==
    ASSUME SessionInv, NEW i \in Ids, WatcherSeesInterrupt(i)
    PROVE  SessionInv'
<1>1. RegistryTypes' /\ Found' = Found
  BY MarkIdleEffect, FoundKept
  DEF WatcherSeesInterrupt, SessionInv, SessionTypes, RelayStates, RequestStates
<1>2. SessionTypes'
  BY <1>1, FoundTyped, IdFacts
  DEF WatcherSeesInterrupt, SessionInv, SessionTypes, AgentStates, RelayStates, RequestStates
<1>3. AgentsKnown'
  BY IdFacts
  DEF WatcherSeesInterrupt, SessionInv, SessionTypes, AgentsKnown, AgentStates, RelayStates,
      RequestStates
<1>4. FlagHasOwner'
  BY DEF WatcherSeesInterrupt, SessionInv, SessionTypes, FlagHasOwner, Backend, AgentStates,
         RelayStates, RequestStates
<1>5. ASSUME ~Closes PROVE OneSession'
  BY <1>1, <1>5, FoundTyped, IdFacts
  DEF WatcherSeesInterrupt, SessionInv, SessionTypes, AgentsKnown, OneSession, RequestsOfOnly,
      RelaysOfOnly, OpenIsOnly, Only, Bound, AgentStates, RelayStates, RequestStates
<1>6. UNCHANGED mode
  BY Zenon DEF WatcherSeesInterrupt
<1> QED
  BY <1>2, <1>3, <1>4, <1>5, <1>6 DEF SessionInv, Closes

LEMMA WatcherEndsKeeps ==
    ASSUME SessionInv, NEW i \in Ids, WatcherEnds(i)
    PROVE  SessionInv'
<1>1. RegistryTypes' /\ Found' = Found
  BY MarkIdleEffect, FoundKept
  DEF WatcherEnds, SessionInv, SessionTypes, RelayStates, RequestStates
<1>2. SessionTypes'
  BY <1>1, FoundTyped, IdFacts
  DEF WatcherEnds, SessionInv, SessionTypes, AgentStates, RelayStates, RequestStates
<1>3. AgentsKnown'
  BY IdFacts
  DEF WatcherEnds, SessionInv, SessionTypes, AgentsKnown, AgentStates, RelayStates,
      RequestStates
<1>4. FlagHasOwner'
  BY DEF WatcherEnds, SessionInv, SessionTypes, FlagHasOwner, Backend, AgentStates,
         RelayStates, RequestStates
<1>5. ASSUME ~Closes PROVE OneSession'
  BY <1>1, <1>5, FoundTyped, IdFacts
  DEF WatcherEnds, SessionInv, SessionTypes, AgentsKnown, OneSession, RequestsOfOnly,
      RelaysOfOnly, OpenIsOnly, Only, Bound, AgentStates, RelayStates, RequestStates
<1>6. UNCHANGED mode
  BY Zenon DEF WatcherEnds
<1> QED
  BY <1>2, <1>3, <1>4, <1>5, <1>6 DEF SessionInv, Closes

LEMMA EnrichKeeps ==
    ASSUME SessionInv, NEW i \in Ids, Enrich(i)
    PROVE  SessionInv'
<1>1. RegistryTypes' /\ Found' = Found
  BY MarkIdleEffect, FoundKept DEF Enrich, SessionInv, SessionTypes, RelayStates, RequestStates
<1>2. SessionTypes'
  BY <1>1, FoundTyped, IdFacts
  DEF Enrich, SessionInv, SessionTypes, AgentStates, RelayStates, RequestStates
<1>3. AgentsKnown'
  BY IdFacts
  DEF Enrich, SessionInv, SessionTypes, AgentsKnown, AgentStates, RelayStates, RequestStates
<1>4. FlagHasOwner'
  BY DEF Enrich, SessionInv, SessionTypes, FlagHasOwner, Backend, AgentStates, RelayStates,
         RequestStates
<1>5. ASSUME ~Closes PROVE OneSession'
  BY <1>1, <1>5, FoundTyped, IdFacts
  DEF Enrich, SessionInv, SessionTypes, AgentsKnown, OneSession, RequestsOfOnly, RelaysOfOnly,
      OpenIsOnly, Only, Bound, AgentStates, RelayStates, RequestStates
<1>6. UNCHANGED mode
  BY Zenon DEF Enrich
<1> QED
  BY <1>2, <1>3, <1>4, <1>5, <1>6 DEF SessionInv, Closes

LEMMA CleanupDeletesKeeps ==
    ASSUME SessionInv, NEW i \in Ids, CleanupDeletes(i)
    PROVE  SessionInv'
<1> DEFINE a == SessionOf(i)
<1>1. /\ i \in sweep /\ sweep' = sweep \ {i}
      /\ IF registry[i] = Nil THEN UNCHANGED <<registry, object>> ELSE Store(Deleted(i), object)
      /\ agent' = IF a = Nil THEN agent ELSE Condemned(a)
      /\ UNCHANGED <<mode, running, relay, watcher, request, started, sent, told>>
  BY Zenon DEF CleanupDeletes
<1>2. RegistryTypes /\ SessionTypes
  BY DEF SessionInv, SessionTypes
<1>3. RegistryTypes'
  BY <1>1, <1>2, DeleteEffect, FoundKept
<1>4. Closes
  BY <1>1 DEF SessionInv, OneSession
<1>5. agent' \in [Agents -> AgentStates]
  BY <1>1, <1>2, FoundTyped, CondemnedTyped DEF SessionTypes
<1>6. sweep' \subseteq Ids
  BY <1>1, <1>2 DEF SessionTypes
<1> HIDE DEF a
<1> QED
  BY <1>1, <1>2, <1>3, <1>4, <1>5, <1>6, ClosingStep DEF SessionTypes

LEMMA AgeKeeps ==
    ASSUME SessionInv, NEW o \in Objects, Age(o)
    PROVE  SessionInv'
<1>1. RegistryTypes' /\ Found' = Found
  BY ZenonT(60) DEF Age, SessionInv, SessionTypes, RegistryTypes, Found, SessionOf, ObjectStates
<1>2. SessionTypes'
  BY <1>1, FoundTyped, IdFacts
  DEF Age, SessionInv, SessionTypes, AgentStates, RelayStates, RequestStates
<1>3. AgentsKnown'
  BY IdFacts
  DEF Age, SessionInv, SessionTypes, AgentsKnown, AgentStates, RelayStates, RequestStates
<1>4. FlagHasOwner'
  BY DEF Age, SessionInv, SessionTypes, FlagHasOwner, Backend, AgentStates, RelayStates,
         RequestStates
<1>5. ASSUME ~Closes PROVE OneSession'
  BY <1>1, <1>5, FoundTyped, IdFacts
  DEF Age, SessionInv, SessionTypes, AgentsKnown, OneSession, RequestsOfOnly, RelaysOfOnly,
      OpenIsOnly, Only, Bound, AgentStates, RelayStates, RequestStates
<1>6. UNCHANGED mode
  BY Zenon DEF Age
<1> QED
  BY <1>2, <1>3, <1>4, <1>5, <1>6 DEF SessionInv, Closes

LEMMA CleanupScansKeeps ==
    ASSUME SessionInv, CleanupScans
    PROVE  SessionInv'
<1>1. RegistryTypes' /\ Found' = Found
  BY FoundKept, Zenon DEF CleanupScans, SessionInv, SessionTypes
<1>2. SessionTypes'
  BY <1>1, FoundTyped, IdFacts
  DEF CleanupScans, SessionInv, SessionTypes, AgentStates, RelayStates, RequestStates
<1>3. AgentsKnown'
  BY IdFacts
  DEF CleanupScans, SessionInv, SessionTypes, AgentsKnown, AgentStates, RelayStates,
      RequestStates
<1>4. FlagHasOwner'
  BY DEF CleanupScans, SessionInv, SessionTypes, FlagHasOwner, Backend, AgentStates,
         RelayStates, RequestStates
<1>5. ASSUME ~Closes PROVE OneSession'
  BY <1>1, <1>5, FoundTyped, IdFacts
  DEF CleanupScans, SessionInv, SessionTypes, AgentsKnown, OneSession, RequestsOfOnly,
      RelaysOfOnly, OpenIsOnly, Only, Bound, AgentStates, RelayStates, RequestStates
<1>6. UNCHANGED mode
  BY Zenon DEF CleanupScans
<1> QED
  BY <1>2, <1>3, <1>4, <1>5, <1>6 DEF SessionInv, Closes


LEMMA SessionInit == Init => SessionInv
<1> SUFFICES ASSUME Init PROVE SessionInv
  OBVIOUS
<1>1. Blank \in ObjectStates
  BY IdFacts DEF Blank, ObjectStates, Activities
<1>2. NoAgent \in AgentStates /\ NoAgent.st = "none"
  BY IdFacts DEF NoAgent, AgentStates
<1>3. NoRelay \in RelayStates /\ NoRelay.at = "none"
  BY IdFacts DEF NoRelay, RelayStates
<1>4. NoRequest \in RequestStates /\ NoRequest.at = "none"
  BY IdFacts DEF NoRequest, RequestStates
<1>5. SessionTypes
  BY <1>1, <1>2, <1>3, <1>4, SessionAssumption DEF Init, SessionTypes, RegistryTypes
<1>6. AgentsKnown /\ FlagHasOwner
  BY <1>3, <1>4 DEF Init, AgentsKnown, FlagHasOwner
<1>7. \A i \in Ids : Found[i] = Nil
  BY DEF Init, Found, SessionOf
<1>8. OneSession
  BY <1>2, <1>3, <1>4, <1>7, IdFacts, SessionAssumption
  DEF Init, OneSession, Only, Bound, RequestsOfOnly, RelaysOfOnly, OpenIsOnly, Nil
<1> QED
  BY <1>5, <1>6, <1>8 DEF SessionInv

LEMMA SessionStep == SessionInv /\ [Next]_vars => SessionInv'
<1> SUFFICES ASSUME SessionInv, [Next]_vars PROVE SessionInv'
  OBVIOUS
<1>1. CASE UNCHANGED vars
  <2>1. /\ UNCHANGED <<mode, registry, object, agent, running, relay, watcher, request, sweep,
                       started, sent, told>>
    BY <1>1 DEF vars
  <2>2. Found' = Found /\ RegistryTypes'
    BY <2>1, FoundKept DEF SessionInv, SessionTypes
  <2> QED
    BY <2>1, <2>2, QuietStep DEF SessionInv, SessionTypes
<1>2. CASE Next
  <2>1. mode.clients \subseteq Clients
    BY ModesTyped DEF SessionInv
  <2>2. ASSUME NEW c \in mode.clients, RequestStep(c) PROVE SessionInv'
    BY <2>1, <2>2, LookupKeeps, StartAgentKeeps, StartFailsKeeps, CheckKeeps, MarkKeeps,
       SendKeeps, StartRelayKeeps, AbortReturnsKeeps
    DEF RequestStep
  <2>3. ASSUME NEW c \in mode.clients, NEW i \in Ids, BeginSend(c, i) \/ View(c, i) \/ Abort(c, i)
        PROVE  SessionInv'
    BY <2>1, <2>3, BeginSendKeeps, ViewKeeps, AbortKeeps
  <2>4. ASSUME NEW r \in RelaySlots, RelayStep(r) PROVE SessionInv'
    BY <2>4, RelayTakesKeeps, RelayForwardsKeeps, RelaySeesCloseKeeps, RelayExitsKeeps
    DEF RelayStep
  <2>5. ASSUME NEW a \in Agents, AgentStep(a) PROVE SessionInv'
    BY <2>5, AgentEmitsKeeps, BeginCloseKeeps, AgentEndsKeeps DEF AgentStep
  <2>6. ASSUME NEW i \in Ids,
               \/ WatcherSeesTurn(i) \/ WatcherSeesInterrupt(i) \/ WatcherEnds(i)
               \/ Enrich(i) \/ CleanupDeletes(i)
        PROVE  SessionInv'
    BY <2>6, WatcherSeesTurnKeeps, WatcherSeesInterruptKeeps, WatcherEndsKeeps, EnrichKeeps,
       CleanupDeletesKeeps
  <2> QED
    BY <1>2, <2>2, <2>3, <2>4, <2>5, <2>6, AgeKeeps, CleanupScansKeeps, Zenon DEF Next
<1> QED
  BY <1>1, <1>2

LEMMA SessionInductive == Spec => []SessionInv
BY SessionInit, SessionStep, PTL DEF Spec

-----------------------------------------------------------------------------
(* Racing first messages and stub entries leave every send with an agent,     *)
(* and, as long as no session ends, every running agent with an entry         *)
(* (handleSendMessage: the double-checked start, and the lookup that counts a *)
(* stub as missing), whatever relays, watchers and listings do meanwhile.     *)
THEOREM SessionSendsSound == Spec => []SendsSound
<1>1. SessionInv => SendsSound
  <2> SUFFICES ASSUME SessionInv PROVE SendsSound
    OBVIOUS
  <2>1. SendHasSession
    BY DEF SessionInv, AgentsKnown, SendHasSession
  <2>2. ASSUME ~Closes, NEW a \in Agents, agent[a].st = "open",
               ~ \E c \in Clients : request[c].at = "check" /\ request[c].agent = a
        PROVE  \E i \in Ids : SessionOf(i) = a
    <3>1. a = Found[Pending]
      BY <2>2 DEF SessionInv, OneSession, OpenIsOnly, Only
    <3> QED
      BY <3>1, IdFacts DEF Found
  <2> QED
    BY <2>1, <2>2 DEF SendsSound, FirstSendsLeaveNoOrphan, NoOrphanAgent
<1> QED
  BY <1>1, SessionInductive, PTL

(* No id is barred from being relayed: whatever set relayRunning, a goroutine *)
(* or a transcript watcher, is still there to release it (relayEvents).       *)
THEOREM SessionFlagHasOwner == Spec => []FlagHasOwner
<1>1. SessionInv => FlagHasOwner
  BY DEF SessionInv
<1> QED
  BY <1>1, SessionInductive, PTL
=============================================================================
