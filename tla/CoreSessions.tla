---------------------------- MODULE CoreSessions ----------------------------
(***************************************************************************)
(* core.SessionManager: named conversations per user, the agent session    *)
(* ids they map to, and the JSON file that survives a restart.  Operations *)
(* of the manager hold sm.mu for writing and save before they return; the  *)
(* agent ids of one conversation change under its own mutex and reach the  *)
(* disk with the next save; Save itself holds sm.mu for reading only, so   *)
(* that several saves, and changes of ids, overlap it.                     *)
(***************************************************************************)
EXTENDS Naturals, Sequences, SequencesExt, FiniteSets, Lists

CONSTANTS
    UserKeys,       \* users (chat keys)
    AgentIDs,       \* agent session ids
    Savers,         \* goroutines that call Save
    MaxSessions,    \* bound: sessions created
    MaxChanges      \* bound: changes of agent ids and deletions

NoID == "none"      \* the empty agent session id
Sentinel == "__continue__"
Kinds == {"claudecode", "codex"}

ASSUME CoreSessionsAssumption ==
    /\ NoID \notin AgentIDs /\ Sentinel \notin AgentIDs
    /\ MaxSessions \in Nat /\ MaxChanges \in Nat

VARIABLES
    sessions,       \* id -> [agent, kind, past], the conversations in memory
    active,         \* user -> id, 0 when the user has no active conversation
    owned,          \* user -> sequence of ids
    counter,        \* the last id given out
    legacy,         \* loaded from a file that did not track past ids
    disk,           \* the saved snapshot
    saving,         \* Saver -> the snapshot it is about to write, as a set of at most one
    changes

manager == <<sessions, active, owned, counter, legacy>>
coreVars == <<manager, disk, saving, changes>>

Ids == 1..MaxSessions
Conversation == [agent : AgentIDs \cup {NoID, Sentinel}, kind : Kinds, past : SUBSET AgentIDs]
Fresh == [agent |-> NoID, kind |-> "codex", past |-> {}]

Tracked(s) == s.agent # NoID \/ s.past # {}
Recorded(s) == [s EXCEPT !.past = IF s.agent \in AgentIDs THEN @ \cup {s.agent} ELSE @]

(* saveLocked copies the conversations and ends the legacy state once each *)
(* of them has an id.                                                      *)
Snapshot(ss, ac, ow, ct, lg) ==
    [sessions |-> ss, active |-> ac, owned |-> ow, counter |-> ct,
     legacy |-> lg /\ \E i \in DOMAIN ss : ~Tracked(ss[i])]

(* The end of every operation that holds sm.mu for writing: what it        *)
(* changed is saved, or the write fails and is only logged.                *)
Commit(ss, ac, ow, ct) ==
    LET snap == Snapshot(ss, ac, ow, ct, legacy) IN
    /\ sessions' = ss /\ active' = ac /\ owned' = ow /\ counter' = ct
    /\ legacy' = snap.legacy
    /\ disk' \in {disk, snap}
    /\ UNCHANGED saving

Exclusive == \A c \in Savers : saving[c] = {}     \* no Save holds the read lock

-----------------------------------------------------------------------------
CreateLocked(u) ==
    /\ counter < MaxSessions
    /\ Commit([i \in DOMAIN sessions \cup {counter + 1} |->
                  IF i = counter + 1 THEN Fresh ELSE sessions[i]],
              [active EXCEPT ![u] = counter + 1],
              [owned EXCEPT ![u] = Append(@, counter + 1)], counter + 1)

GetOrCreateActive(u) ==
    /\ Exclusive /\ active[u] \notin DOMAIN sessions
    /\ CreateLocked(u) /\ UNCHANGED changes

NewSession(u) == Exclusive /\ CreateLocked(u) /\ UNCHANGED changes

NewSideSession(u) ==    \* the active conversation stays what it is
    /\ Exclusive /\ counter < MaxSessions
    /\ Commit([i \in DOMAIN sessions \cup {counter + 1} |->
                  IF i = counter + 1 THEN Fresh ELSE sessions[i]],
              active, [owned EXCEPT ![u] = Append(@, counter + 1)], counter + 1)
    /\ UNCHANGED changes

SwitchSession(u) ==
    /\ Exclusive
    /\ \E i \in ToSet(owned[u]) \cap DOMAIN sessions :
          Commit(sessions, [active EXCEPT ![u] = i], owned, counter)
    /\ UNCHANGED changes

(* The user's conversation with this agent id, or a new one.               *)
SwitchToAgentSession(u, a) ==
    LET hits == {i \in ToSet(owned[u]) \cap DOMAIN sessions : sessions[i].agent = a} IN
    /\ Exclusive
    /\ \/ \E i \in hits : Commit(sessions, [active EXCEPT ![u] = i], owned, counter)
       \/ /\ hits = {} /\ counter < MaxSessions
          /\ Commit([i \in DOMAIN sessions \cup {counter + 1} |->
                        IF i = counter + 1 THEN [Fresh EXCEPT !.agent = a] ELSE sessions[i]],
                    [active EXCEPT ![u] = counter + 1],
                    [owned EXCEPT ![u] = Append(@, counter + 1)], counter + 1)
    /\ UNCHANGED changes

Remaining(ids, removed) == KeptAt(ids, {k \in DOMAIN ids : ids[k] \notin removed})

DeleteLeavingActive(removed) ==
    Commit([i \in DOMAIN sessions \ removed |-> sessions[i]], active,
           [u \in UserKeys |-> Remaining(owned[u], removed)], counter)

DeleteLocked(removed) ==
    Commit([i \in DOMAIN sessions \ removed |-> sessions[i]],
           [u \in UserKeys |-> IF active[u] \in removed THEN 0 ELSE active[u]],
           [u \in UserKeys |-> Remaining(owned[u], removed)], counter)

DeleteByID(i) ==
    /\ Exclusive /\ i \in DOMAIN sessions /\ changes < MaxChanges
    /\ DeleteLocked({i}) /\ changes' = changes + 1

DeleteByAgentSessionID(a) ==
    LET removed == {i \in DOMAIN sessions : sessions[i].agent = a} IN
    /\ Exclusive /\ removed # {} /\ changes < MaxChanges
    /\ DeleteLocked(removed) /\ changes' = changes + 1

InvalidateForAgent(k) ==
    LET stale == {i \in DOMAIN sessions : sessions[i].agent # NoID /\ sessions[i].kind # k} IN
    /\ Exclusive /\ stale # {} /\ changes < MaxChanges
    /\ Commit([i \in DOMAIN sessions |->
                  IF i \in stale THEN [Recorded(sessions[i]) EXCEPT !.agent = NoID, !.kind = k]
                  ELSE sessions[i]], active, owned, counter)
    /\ changes' = changes + 1

(* Changes of one conversation, under its own mutex only.                  *)
Change(i, s) ==
    /\ i \in DOMAIN sessions /\ changes < MaxChanges
    /\ sessions' = [sessions EXCEPT ![i] = s]
    /\ changes' = changes + 1
    /\ UNCHANGED <<active, owned, counter, legacy, disk, saving>>

SetAgentSessionID(i, a, k) ==
    Change(i, [(IF sessions[i].agent # a THEN Recorded(sessions[i]) ELSE sessions[i])
               EXCEPT !.agent = a, !.kind = k])

CompareAndSetAgentSessionID(i, a, k) ==
    /\ i \in DOMAIN sessions /\ sessions[i].agent \in {NoID, Sentinel}
    /\ Change(i, [sessions[i] EXCEPT !.agent = a, !.kind = k])

-----------------------------------------------------------------------------
(* Save: the snapshot is taken and written under the read lock; the        *)
(* legacy flag is cleared by the reader that finds it so.                  *)
SaveReads(c) ==
    LET snap == Snapshot(sessions, active, owned, counter, legacy) IN
    /\ saving[c] = {} /\ changes < MaxChanges
    /\ saving' = [saving EXCEPT ![c] = {snap}]
    /\ legacy' = snap.legacy
    /\ UNCHANGED <<sessions, active, owned, counter, disk, changes>>

SaveWrites(c) ==
    \E snap \in saving[c] :
        /\ disk' \in {disk, snap}
        /\ saving' = [saving EXCEPT ![c] = {}]
        /\ UNCHANGED <<manager, changes>>

(* The process dies and starts again from the file; load strips a          *)
(* sentinel that older versions stored.                                    *)
Loaded(snap) == [i \in DOMAIN snap.sessions |->
                    IF snap.sessions[i].agent = Sentinel
                    THEN [snap.sessions[i] EXCEPT !.agent = NoID] ELSE snap.sessions[i]]
Restart ==
    /\ sessions' = Loaded(disk) /\ active' = disk.active /\ owned' = disk.owned
    /\ counter' = disk.counter /\ legacy' = disk.legacy
    /\ saving' = [c \in Savers |-> {}]
    /\ UNCHANGED <<disk, changes>>

Empty == [sessions |-> [i \in {} |-> Fresh], active |-> [u \in UserKeys |-> 0],
          owned |-> [u \in UserKeys |-> <<>>], counter |-> 0, legacy |-> FALSE]
OldFile(u, a) ==    \* written before past ids were tracked
    [Empty EXCEPT !.sessions = [i \in {1} |-> [Fresh EXCEPT !.agent = a]],
                  !.active[u] = 1, !.owned[u] = <<1>>, !.counter = 1, !.legacy = TRUE]

CoreInit ==
    /\ disk \in {Empty} \cup {OldFile(u, a) : u \in UserKeys, a \in {NoID, Sentinel}}
    /\ sessions = Loaded(disk) /\ active = disk.active /\ owned = disk.owned
    /\ counter = disk.counter /\ legacy = disk.legacy
    /\ saving = [c \in Savers |-> {}] /\ changes = 0

CoreNext ==
    \/ \E u \in UserKeys : GetOrCreateActive(u) \/ NewSession(u) \/ NewSideSession(u) \/ SwitchSession(u)
    \/ \E u \in UserKeys, a \in AgentIDs : SwitchToAgentSession(u, a)
    \/ \E i \in Ids : DeleteByID(i)
    \/ \E a \in AgentIDs : DeleteByAgentSessionID(a)
    \/ \E k \in Kinds : InvalidateForAgent(k)
    \/ \E i \in Ids, a \in AgentIDs \cup {NoID}, k \in Kinds : SetAgentSessionID(i, a, k)
    \/ \E i \in Ids, a \in AgentIDs, k \in Kinds : CompareAndSetAgentSessionID(i, a, k)
    \/ \E c \in Savers : SaveReads(c) \/ SaveWrites(c)
    \/ Restart

CoreSpec == CoreInit /\ [][CoreNext]_coreVars

-----------------------------------------------------------------------------
(* What a snapshot says of users and conversations fits together: every    *)
(* conversation belongs to exactly one user, an active one to its user,    *)
(* and no id beyond the counter is in use, so that the next id is new.     *)
Sound(ss, ac, ow, ct) ==
    /\ \A i \in DOMAIN ss : i <= ct /\ \E u \in UserKeys : i \in ToSet(ow[u])
    /\ \A u \in UserKeys : /\ ToSet(ow[u]) \subseteq DOMAIN ss /\ IsInjective(ow[u])
                           /\ ac[u] # 0 => ac[u] \in ToSet(ow[u])
    /\ \A u, v \in UserKeys : u # v => ToSet(ow[u]) \cap ToSet(ow[v]) = {}

(* Memory and the file a crash would bring back are sound whatever         *)
(* deletions, overlapping saves, failed writes and restarts came before.   *)
RegistrySound ==
    /\ Sound(sessions, active, owned, counter)
    /\ Sound(disk.sessions, disk.active, disk.owned, disk.counter)
=============================================================================
