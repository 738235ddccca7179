------------------------- MODULE RelayServerProofs --------------------------
(***************************************************************************)
(* The promises of the relay server for any number of devices, connections  *)
(* and envelopes, in two parts: the mailbox (RelayMailbox) with every        *)
(* capacity, time to live and bound, then the server around it               *)
(* (RelayServer), whose steps are steps of the store or leave it alone.      *)
(*                                                                         *)
(* Which rows survive an eviction matters through the order of their         *)
(* cursors, and for WithinCapacity alone through the sum of their sizes.     *)
(***************************************************************************)
EXTENDS RelayServer, FiniteSetTheorems, ListsProofs, TLAPS

(* next_cursor is ahead of every cursor anyone remembers.                    *)
NextIsFresh ==
    \A d \in Devices :
        /\ position[d] < next[d]
        /\ request[d].arg < next[d]
        /\ \A c \in evicted[d] : c < next[d]

(* An acknowledgement under way covers only rows the device was given.       *)
AckIsCovered ==
    \A d \in Devices : request[d].op = "ack" =>
        \A f \in mail[d] : f.cursor <= request[d].arg
                              => <<f.cursor, f.envelope>> \in served[d]

MailboxesFinite == \A d \in Devices : IsFiniteSet(mail[d])

(* The inductive invariant.                                                  *)
IInv ==
    /\ TypeOK
    /\ MailboxesFinite
    /\ RowsBelongToActive
    /\ NextIsFresh
    /\ AckIsCovered
    /\ NoFrameSkipped
    /\ CursorNamesOneEnvelope
    /\ AckedWereServed
    /\ EvictionIsAPrefix

-----------------------------------------------------------------------------
(* The rows FetchFrames returns are closed downwards: with a row it returns  *)
(* every candidate with a smaller cursor (ORDER BY cursor LIMIT k).          *)
LEMMA FirstByCursorIsAPrefix ==
    ASSUME NEW S \in SUBSET Frame, IsFiniteSet(S), NEW k \in Nat,
           NEW m \in FirstByCursor(S, k), NEW f \in S, f.cursor <= m.cursor
    PROVE  f \in FirstByCursor(S, k)
<1> DEFINE Below(r) == {g \in S : g.cursor < r.cursor}
<1>1. m \in S /\ Cardinality(Below(m)) < k
  BY DEF FirstByCursor
<1>2. \A g \in S : g.cursor \in Nat
  BY DEF Frame
<1>3. Below(f) \subseteq Below(m)
  BY <1>1, <1>2
<1>4. IsFiniteSet(Below(m))
  BY FS_Subset
<1>5. /\ IsFiniteSet(Below(f))
      /\ Cardinality(Below(f)) <= Cardinality(Below(m))
  BY <1>3, <1>4, FS_Subset
<1>6. Cardinality(Below(f)) \in Nat /\ Cardinality(Below(m)) \in Nat
  BY <1>4, <1>5, FS_CardinalityType
<1>7. Cardinality(Below(f)) < k
  BY <1>1, <1>5, <1>6
<1> QED
  BY <1>7 DEF FirstByCursor

(* The initial mailbox is empty.                                             *)
LEMMA InitEstablishes == Init => IInv
<1> SUFFICES ASSUME Init PROVE IInv
  OBVIOUS
<1>1. TypeOK
  BY DEF Init, TypeOK, NoRequest, Request
<1>2. MailboxesFinite
  BY FS_EmptySet DEF Init, MailboxesFinite
<1>3. RowsBelongToActive /\ AckIsCovered /\ NoFrameSkipped /\ AckedWereServed
  BY DEF Init, RowsBelongToActive, AckIsCovered, NoFrameSkipped, AckedWereServed
<1>4. NextIsFresh
  BY DEF Init, NextIsFresh, NoRequest
<1>5. CursorNamesOneEnvelope
  BY DEF Init, CursorNamesOneEnvelope
<1>6. EvictionIsAPrefix
  BY DEF Init, EvictionIsAPrefix
<1> QED
  BY <1>1, <1>2, <1>3, <1>4, <1>5, <1>6 DEF IInv

(* A step that only drops rows, and leaves the rest of the tables and the     *)
(* devices' memory alone, keeps the invariant.                               *)
LEMMA DroppingRows ==
    ASSUME IInv,
           mail' \in [Devices -> SUBSET Frame],
           \A d \in Devices : mail'[d] \subseteq mail[d],
           UNCHANGED <<status, next, arrived, request, position, served, evicted>>,
           now' \in Nat
    PROVE  IInv'
<1>1. TypeOK'
  BY DEF IInv, TypeOK
<1>2. MailboxesFinite'
  BY FS_Subset DEF IInv, MailboxesFinite
<1>3. RowsBelongToActive'
  BY DEF IInv, RowsBelongToActive
<1>4. NextIsFresh'
  BY DEF IInv, NextIsFresh
<1>5. AckIsCovered' /\ NoFrameSkipped' /\ AckedWereServed'
  BY DEF IInv, AckIsCovered, NoFrameSkipped, AckedWereServed
<1>6. CursorNamesOneEnvelope'
  <2>1. SUFFICES ASSUME NEW d \in Devices
                 PROVE LET known == served'[d] \union {<<f.cursor, f.envelope>> : f \in mail'[d]}
                       IN  /\ \A k \in known : k[1] < next'[d]
                           /\ \A k, l \in known : k[1] = l[1] => k = l
                           /\ \A f, g \in mail'[d] : f.cursor = g.cursor => f = g
    BY DEF CursorNamesOneEnvelope
  <2>2. {<<f.cursor, f.envelope>> : f \in mail'[d]} \subseteq {<<f.cursor, f.envelope>> : f \in mail[d]}
    OBVIOUS
  <2> QED
    BY <2>2 DEF IInv, CursorNamesOneEnvelope
<1>7. EvictionIsAPrefix'
  BY DEF IInv, EvictionIsAPrefix, Unacked
<1> QED
  BY <1>1, <1>2, <1>3, <1>4, <1>5, <1>6, <1>7 DEF IInv

(* Every operation of the store keeps the invariant.                         *)
LEMMA NextPreserves == IInv /\ [Next]_vars => IInv'
<1> SUFFICES ASSUME IInv, [Next]_vars PROVE IInv'
  OBVIOUS
<1> USE MailboxAssumption
<1>1. CASE UNCHANGED vars
  BY <1>1, DroppingRows DEF vars, IInv, TypeOK
<1>2. CASE Tick
  BY <1>2, DroppingRows DEF Tick, IInv, TypeOK
<1>3. CASE ExpireFrames
  BY <1>3, DroppingRows DEF ExpireFrames, Unacked, IInv, TypeOK
<1>4. ASSUME NEW d \in Devices, RegisterDevice(d) PROVE IInv'
  <2>1. PICK p \in {0, position[d]} : position' = [position EXCEPT ![d] = p]
    BY <1>4 DEF RegisterDevice
  <2>2. UNCHANGED <<now, next, arrived, mail, request, served, evicted>>
        /\ status' = [status EXCEPT ![d] = "active"]
    BY <1>4 DEF RegisterDevice
  <2>3. TypeOK' /\ \A e \in Devices : position'[e] <= position[e]
    BY <2>1, <2>2 DEF IInv, TypeOK
  <2>4. NextIsFresh'
    BY <2>2, <2>3 DEF IInv, TypeOK, NextIsFresh
  <2>5. NoFrameSkipped'
    BY <2>2, <2>3 DEF IInv, TypeOK, NoFrameSkipped, Frame
  <2>6. RowsBelongToActive'
    BY <2>2 DEF IInv, TypeOK, RowsBelongToActive
  <2>7. CursorNamesOneEnvelope'
    BY <2>2 DEF IInv, CursorNamesOneEnvelope
  <2>8. MailboxesFinite' /\ AckIsCovered' /\ AckedWereServed' /\ EvictionIsAPrefix'
    BY <2>2 DEF IInv, MailboxesFinite, AckIsCovered, AckedWereServed, EvictionIsAPrefix
  <2> QED
    BY <2>3, <2>4, <2>5, <2>6, <2>7, <2>8 DEF IInv
<1>5. ASSUME NEW d \in Devices, RevokeDevice(d) PROVE IInv'
  <2>1. /\ status' = [status EXCEPT ![d] = "revoked"]
        /\ mail' = [mail EXCEPT ![d] = {}]
        /\ UNCHANGED <<now, next, arrived, request, position, served, evicted>>
    BY <1>5 DEF RevokeDevice
  <2>2. /\ TypeOK'
        /\ \A e \in Devices : mail'[e] \subseteq mail[e]
    BY <2>1 DEF IInv, TypeOK
  <2>3. MailboxesFinite'
    BY <2>2, FS_Subset DEF IInv, MailboxesFinite
  <2>4. RowsBelongToActive'
    BY <2>1 DEF IInv, TypeOK, RowsBelongToActive
  <2>5. NextIsFresh'
    BY <2>1 DEF IInv, NextIsFresh
  <2>6. AckIsCovered' /\ NoFrameSkipped' /\ AckedWereServed'
    BY <2>1, <2>2 DEF IInv, AckIsCovered, NoFrameSkipped, AckedWereServed
  <2>7. CursorNamesOneEnvelope'
    <3>1. \A e \in Devices : {<<f.cursor, f.envelope>> : f \in mail'[e]}
                                \subseteq {<<f.cursor, f.envelope>> : f \in mail[e]}
      BY <2>2
    <3> QED
      BY <2>1, <2>2, <3>1 DEF IInv, CursorNamesOneEnvelope
  <2>8. EvictionIsAPrefix'
    BY <2>1, <2>2 DEF IInv, EvictionIsAPrefix, Unacked
  <2> QED
    BY <2>2, <2>3, <2>4, <2>5, <2>6, <2>7, <2>8 DEF IInv
<1>6. ASSUME NEW d \in Devices, NEW size \in Sizes, AppendFrame(d, size) PROVE IInv'
  <2> DEFINE live == Unacked(mail[d]) \ Expired(mail[d])
             kept == KeptAfterEviction(live, size)
             row == [cursor |-> next[d], envelope |-> arrived[d] + 1, size |-> size,
                     expires |-> ExpiresAt, acked |-> FALSE]
  <2>1. /\ status[d] = "active"
        /\ mail' = [mail EXCEPT ![d] = kept \union {row}]
        /\ next' = [next EXCEPT ![d] = @ + 1]
        /\ arrived' = [arrived EXCEPT ![d] = @ + 1]
        /\ evicted' = [evicted EXCEPT ![d] = @ \union Cursors(live \ kept)]
        /\ UNCHANGED <<now, status, request, position, served>>
    BY <1>6 DEF AppendFrame, CanAppend
  <2>2. kept \subseteq live /\ live \subseteq mail[d] /\ \A f \in live : ~f.acked
    BY DEF KeptAfterEviction, Unacked
  <2>3. /\ row \in Frame
        /\ row.cursor = next[d] /\ row.acked = FALSE
        /\ next[d] \in Nat /\ next'[d] = next[d] + 1
    BY <2>1 DEF ExpiresAt, IInv, TypeOK, Frame
  <2>4. /\ mail'[d] = kept \union {row}
        /\ \A e \in Devices \ {d} : mail'[e] = mail[e] /\ next'[e] = next[e] /\ evicted'[e] = evicted[e]
        /\ evicted'[d] = evicted[d] \union Cursors(live \ kept)
    BY <2>1 DEF IInv, TypeOK
  <2>5. \A f \in mail[d] : f \in Frame /\ f.cursor \in Nat /\ f.cursor < next[d]
    <3>1. \A f \in mail[d] : <<f.cursor, f.envelope>>[1] < next[d]
      BY DEF IInv, CursorNamesOneEnvelope
    <3> QED
      BY <3>1 DEF IInv, TypeOK, Frame
  <2> HIDE DEF row, kept, live
  <2>6. TypeOK'
    <3>1. mail' \in [Devices -> SUBSET Frame]
      BY <2>1, <2>2, <2>3 DEF IInv, TypeOK
    <3>2. Cursors(live \ kept) \subseteq Nat
      BY <2>2, <2>5 DEF Cursors
    <3>3. evicted' \in [Devices -> SUBSET Nat]
      BY <2>1, <3>2 DEF IInv, TypeOK
    <3>4. next' \in [Devices -> Nat] /\ arrived' \in [Devices -> Nat]
      BY <2>1 DEF IInv, TypeOK
    <3> QED
      BY <2>1, <3>1, <3>3, <3>4 DEF IInv, TypeOK
  <2>7. MailboxesFinite'
    <3>1. IsFiniteSet(kept)
      BY <2>2, FS_Subset DEF IInv, MailboxesFinite
    <3>2. IsFiniteSet(kept \union {row})
      BY <3>1, FS_AddElement
    <3> QED
      BY <2>4, <3>2 DEF IInv, MailboxesFinite
  <2>8. RowsBelongToActive'
    BY <2>1, <2>4 DEF IInv, RowsBelongToActive
  <2>9. NextIsFresh'
    <3>1. \A e \in Devices : position'[e] < next'[e] /\ request'[e].arg < next'[e]
      BY <2>1, <2>3, <2>4 DEF IInv, TypeOK, NextIsFresh, Request
    <3>2. \A c \in evicted'[d] : c < next'[d]
      <4>1. \A c \in evicted[d] : c \in Nat /\ c < next[d]
        BY DEF IInv, TypeOK, NextIsFresh
      <4>2. \A c \in Cursors(live \ kept) : c \in Nat /\ c < next[d]
        BY <2>2, <2>5 DEF Cursors
      <4> QED
        BY <2>3, <2>4, <4>1, <4>2, SMTT(30)
    <3> QED
      BY <2>4, <3>1, <3>2 DEF IInv, NextIsFresh
  <2>10. AckIsCovered' /\ NoFrameSkipped' /\ AckedWereServed'
    <3>1. ASSUME NEW e \in Devices, NEW f \in mail'[e]
          PROVE  f \in mail[e] \/ (e = d /\ f = row)
      BY <2>2, <2>4
    <3>2. ~(row.cursor <= request[d].arg) /\ ~(row.cursor <= position[d]) /\ ~row.acked
      BY <2>3 DEF IInv, TypeOK, NextIsFresh, Request
    <3> QED
      BY <2>1, <3>1, <3>2 DEF IInv, AckIsCovered, NoFrameSkipped, AckedWereServed
  <2>11. CursorNamesOneEnvelope'
    <3>1. SUFFICES ASSUME NEW e \in Devices
                   PROVE LET known == served'[e] \union {<<f.cursor, f.envelope>> : f \in mail'[e]}
                         IN  /\ \A k \in known : k[1] < next'[e]
                             /\ \A k, l \in known : k[1] = l[1] => k = l
                             /\ \A f, g \in mail'[e] : f.cursor = g.cursor => f = g
      BY DEF CursorNamesOneEnvelope
    <3>2. CASE e # d
      BY <2>1, <2>4, <3>2 DEF IInv, CursorNamesOneEnvelope
    <3>3. CASE e = d
      <4> DEFINE old == served[d] \union {<<f.cursor, f.envelope>> : f \in mail[d]}
                 fresh == <<row.cursor, row.envelope>>
      <4>1. /\ \A k \in old : k[1] < next[d]
            /\ \A k, l \in old : k[1] = l[1] => k = l
            /\ \A f, g \in mail[d] : f.cursor = g.cursor => f = g
        BY DEF IInv, CursorNamesOneEnvelope
      <4>2. \A k \in old : k[1] \in Nat
        <5>1. \A k \in served[d] : k[1] \in Nat
          BY DEF IInv, TypeOK
        <5>2. \A f \in mail[d] : <<f.cursor, f.envelope>>[1] \in Nat
          BY <2>5
        <5> QED
          BY <5>1, <5>2
      <4>3. served'[d] \union {<<f.cursor, f.envelope>> : f \in mail'[d]} \subseteq old \union {fresh}
        BY <2>1, <2>2, <2>4
      <4>4. fresh[1] = next[d]
        BY <2>3
      <4> HIDE DEF old, fresh
      <4>5. /\ \A k \in old \union {fresh} : k[1] < next'[d]
            /\ \A k, l \in old \union {fresh} : k[1] = l[1] => k = l
        BY <2>3, <4>1, <4>2, <4>4
      <4>6. \A f, g \in mail'[d] : f.cursor = g.cursor => f = g
        BY <2>2, <2>3, <2>4, <2>5, <4>1
      <4> QED
        BY <3>3, <4>3, <4>5, <4>6
    <3> QED
      BY <3>2, <3>3
  <2>12. EvictionIsAPrefix'
    <3>1. ASSUME NEW c \in evicted'[d], NEW f \in mail'[d], ~f.acked PROVE c < f.cursor
      <4>1. CASE f = row
        <5>1. c < next[d]
          BY <2>2, <2>4, <2>5 DEF Cursors, IInv, NextIsFresh
        <5> QED
          BY <2>3, <4>1, <5>1
      <4>2. CASE f \in kept /\ c \in evicted[d]
        BY <2>2, <3>1, <4>2 DEF IInv, EvictionIsAPrefix, Unacked
      <4>3. CASE f \in kept /\ c \in Cursors(live \ kept)
        <5>1. PICK g \in live \ kept : c = g.cursor
          BY <4>3 DEF Cursors
        <5>2. SUFFICES ASSUME f.cursor <= g.cursor PROVE FALSE
          BY <2>2, <2>5, <4>3, <5>1
        <5>3. PICK h \in live : h.cursor <= f.cursor /\ Bytes(From(live, h.cursor)) + size <= MaxBytes
          BY <4>3 DEF kept, KeptAfterEviction
        <5>4. h.cursor <= g.cursor
          BY <2>2, <2>5, <4>3, <5>2, <5>3
        <5> QED
          BY <5>1, <5>3, <5>4 DEF kept, KeptAfterEviction
      <4> QED
        BY <2>4, <4>1, <4>2, <4>3
    <3> QED
      BY <2>4, <3>1 DEF IInv, EvictionIsAPrefix, Unacked
  <2> QED
    BY <2>6, <2>7, <2>8, <2>9, <2>10, <2>11, <2>12 DEF IInv
<1>7. ASSUME NEW d \in Devices, NEW limit \in Limits, AuthenticateFetch(d, limit) PROVE IInv'
  <2>1. /\ request' = [request EXCEPT ![d] =
                         [op |-> "fetch", arg |-> position[d], limit |-> limit]]
        /\ UNCHANGED <<now, status, next, arrived, mail, position, served, evicted>>
    BY <1>7 DEF AuthenticateFetch
  <2>2. TypeOK'
    BY <2>1 DEF IInv, TypeOK, Request
  <2>3. NextIsFresh'
    BY <2>1 DEF IInv, TypeOK, NextIsFresh, Request
  <2>4. AckIsCovered'
    BY <2>1 DEF IInv, TypeOK, AckIsCovered, Request
  <2>5. CursorNamesOneEnvelope'
    BY <2>1 DEF IInv, CursorNamesOneEnvelope
  <2>6. MailboxesFinite' /\ RowsBelongToActive' /\ NoFrameSkipped' /\ AckedWereServed' /\ EvictionIsAPrefix'
    BY <2>1 DEF IInv, MailboxesFinite, RowsBelongToActive, NoFrameSkipped, AckedWereServed, EvictionIsAPrefix
  <2> QED
    BY <2>2, <2>3, <2>4, <2>5, <2>6 DEF IInv
<1>8. ASSUME NEW d \in Devices, NEW through \in 1 .. MaxAppends, AuthenticateAck(d, through) PROVE IInv'
  <2>1. /\ through \in 1 .. position[d]
        /\ request' = [request EXCEPT ![d] = [op |-> "ack", arg |-> through, limit |-> 0]]
        /\ UNCHANGED <<now, status, next, arrived, mail, position, served, evicted>>
    BY <1>8 DEF AuthenticateAck
  <2>2. TypeOK'
    BY <2>1 DEF IInv, TypeOK, Request
  <2>3. NextIsFresh'
    BY <2>1 DEF IInv, TypeOK, NextIsFresh, Request
  <2>4. AckIsCovered'
    <3>1. \A f \in mail[d] : f.cursor <= through => <<f.cursor, f.envelope>> \in served[d]
      BY <2>1 DEF IInv, TypeOK, NoFrameSkipped, Frame
    <3>2. request'[d].arg = through /\ \A e \in Devices \ {d} : request'[e] = request[e]
      BY <2>1 DEF IInv, TypeOK
    <3> QED
      BY <2>1, <3>1, <3>2 DEF IInv, AckIsCovered
  <2>5. CursorNamesOneEnvelope'
    BY <2>1 DEF IInv, CursorNamesOneEnvelope
  <2>6. MailboxesFinite' /\ RowsBelongToActive' /\ NoFrameSkipped' /\ AckedWereServed' /\ EvictionIsAPrefix'
    BY <2>1 DEF IInv, MailboxesFinite, RowsBelongToActive, NoFrameSkipped, AckedWereServed, EvictionIsAPrefix
  <2> QED
    BY <2>2, <2>3, <2>4, <2>5, <2>6 DEF IInv
<1>9. ASSUME NEW d \in Devices, FetchFrames(d) PROVE IInv'
  <2> DEFINE rows == mail[d] \ Expired(mail[d])
             asked == {f \in Unacked(rows) : f.cursor > request[d].arg}
             batch == FirstByCursor(asked, request[d].limit)
             pairs == {<<f.cursor, f.envelope>> : f \in batch}
  <2>1. /\ mail' = [mail EXCEPT ![d] = rows]
        /\ served' = [served EXCEPT ![d] = @ \union pairs]
        /\ IF position[d] = request[d].arg /\ batch # {}
           THEN \E last \in batch :
                   /\ \A f \in batch : f.cursor <= last.cursor
                   /\ position' = [position EXCEPT ![d] = last.cursor]
           ELSE position' = position
        /\ request' = [request EXCEPT ![d] = NoRequest]
        /\ UNCHANGED <<now, status, next, arrived, evicted>>
    BY <1>9 DEF FetchFrames
  <2>2. batch \subseteq asked /\ asked \subseteq rows /\ rows \subseteq mail[d]
        /\ \A f \in rows : f \in asked <=> (~f.acked /\ f.cursor > request[d].arg)
    BY DEF FirstByCursor, Unacked
  <2>3. \A f \in mail[d] : f \in Frame /\ f.cursor \in Nat /\ f.envelope \in Nat /\ f.cursor < next[d]
    <3>1. \A f \in mail[d] : <<f.cursor, f.envelope>>[1] < next[d]
      BY DEF IInv, CursorNamesOneEnvelope
    <3> QED
      BY <3>1 DEF IInv, TypeOK, Frame
  <2>4. /\ mail'[d] = rows
        /\ served'[d] = served[d] \union pairs
        /\ \A e \in Devices \ {d} : mail'[e] = mail[e] /\ served'[e] = served[e] /\ request'[e] = request[e]
        /\ request'[d] = NoRequest
        /\ \A e \in Devices : mail'[e] \subseteq mail[e] /\ served[e] \subseteq served'[e]
    BY <2>1, <2>2 DEF IInv, TypeOK
  <2>5. IsFiniteSet(asked) /\ asked \in SUBSET Frame /\ request[d].limit \in Nat
    BY <2>2, <2>3, FS_Subset DEF IInv, MailboxesFinite, TypeOK, Request
  <2>6. /\ pairs \subseteq Nat \X Nat
        /\ \A f \in batch : <<f.cursor, f.envelope>> \in pairs
    <3>1. \A f \in batch : f.cursor \in Nat /\ f.envelope \in Nat
      BY <2>2, <2>3
    <3> HIDE DEF batch
    <3> QED
      BY <3>1
  <2>7. /\ position' \in [Devices -> Nat]
        /\ \A e \in Devices \ {d} : position'[e] = position[e]
        /\ position'[d] < next[d]
    BY <2>1, <2>2, <2>3 DEF IInv, TypeOK, NextIsFresh
  <2>8. \A f \in rows : f.cursor <= position'[d] => <<f.cursor, f.envelope>> \in served'[d]
    <3>1. SUFFICES ASSUME NEW f \in rows, f.cursor <= position'[d]
                   PROVE  <<f.cursor, f.envelope>> \in served'[d]
      OBVIOUS
    <3>2. CASE f.cursor <= position[d]
      BY <2>2, <2>4, <3>2 DEF IInv, NoFrameSkipped
    <3>3. CASE f.acked
      BY <2>2, <2>4, <3>3 DEF IInv, AckedWereServed
    <3>4. CASE ~f.acked /\ ~(f.cursor <= position[d])
      <4>1. position'[d] # position[d]
        BY <3>1, <3>4
      <4>2. position[d] = request[d].arg /\ batch # {}
        BY <2>1, <4>1
      <4>3. PICK last \in batch : position' = [position EXCEPT ![d] = last.cursor]
        BY <2>1, <4>2
      <4>4. position'[d] = last.cursor
        BY <4>3 DEF IInv, TypeOK
      <4>5. f \in asked
        <5>1. f.cursor \in Nat /\ position[d] \in Nat
          BY <2>2, <2>3 DEF IInv, TypeOK
        <5>2. f.cursor > request[d].arg /\ ~f.acked
          BY <3>4, <4>2, <5>1
        <5> HIDE DEF rows, asked
        <5> QED
          BY <2>2, <5>2
      <4>6. f \in batch
        BY <2>5, <3>1, <4>3, <4>4, <4>5, FirstByCursorIsAPrefix
      <4> QED
        BY <2>4, <2>6, <4>6
    <3> QED
      BY <3>2, <3>3, <3>4
  <2> HIDE DEF batch, asked, pairs, rows
  <2>9. TypeOK'
    <3>1. mail' \in [Devices -> SUBSET Frame]
      BY <2>1, <2>2 DEF IInv, TypeOK
    <3>2. served' \in [Devices -> SUBSET (Nat \X Nat)]
      BY <2>1, <2>6 DEF IInv, TypeOK
    <3> QED
      BY <2>1, <2>7, <3>1, <3>2 DEF IInv, TypeOK, NoRequest, Request
  <2>10. MailboxesFinite'
    BY <2>4, FS_Subset DEF IInv, MailboxesFinite
  <2>11. RowsBelongToActive'
    BY <2>1, <2>4 DEF IInv, RowsBelongToActive
  <2>12. NextIsFresh'
    <3>1. position[d] \in Nat /\ next[d] \in Nat /\ position[d] < next[d]
      BY DEF IInv, TypeOK, NextIsFresh
    <3>2. request'[d].arg < next'[d]
      BY <2>1, <2>4, <3>1 DEF NoRequest
    <3> QED
      BY <2>1, <2>4, <2>7, <3>2 DEF IInv, NextIsFresh
  <2>13. AckIsCovered'
    BY <2>4 DEF IInv, AckIsCovered, NoRequest
  <2>14. NoFrameSkipped'
    BY <2>4, <2>7, <2>8 DEF IInv, NoFrameSkipped
  <2>15. CursorNamesOneEnvelope'
    <3>1. \A e \in Devices : served'[e] \union {<<f.cursor, f.envelope>> : f \in mail'[e]}
                               \subseteq served[e] \union {<<f.cursor, f.envelope>> : f \in mail[e]}
      <4>1. pairs \subseteq {<<f.cursor, f.envelope>> : f \in mail[d]}
        BY <2>2 DEF pairs
      <4> QED
        BY <2>4, <4>1
    <3> QED
      BY <2>1, <2>4, <3>1 DEF IInv, CursorNamesOneEnvelope
  <2>16. AckedWereServed'
    BY <2>4 DEF IInv, AckedWereServed
  <2>17. EvictionIsAPrefix'
    BY <2>1, <2>4 DEF IInv, EvictionIsAPrefix, Unacked
  <2> QED
    BY <2>9, <2>10, <2>11, <2>12, <2>13, <2>14, <2>15, <2>16, <2>17 DEF IInv
<1>10. ASSUME NEW d \in Devices, AckFrames(d) PROVE IInv'
  <2> DEFINE Mark(f) == [f EXCEPT !.acked = f.acked \/ f.cursor <= request[d].arg]
  <2>1. /\ request[d].op = "ack"
        /\ mail' = [mail EXCEPT ![d] = {Mark(f) : f \in mail[d]}]
        /\ request' = [request EXCEPT ![d] = NoRequest]
        /\ UNCHANGED <<now, status, next, arrived, position, served, evicted>>
    BY <1>10 DEF AckFrames, IInv, TypeOK
  <2>2. \A f \in Frame : /\ Mark(f) \in Frame
                         /\ Mark(f).cursor = f.cursor
                         /\ Mark(f).envelope = f.envelope
                         /\ Mark(f).acked <=> (f.acked \/ f.cursor <= request[d].arg)
    BY DEF Frame
  <2>3. /\ mail'[d] = {Mark(f) : f \in mail[d]}
        /\ \A e \in Devices \ {d} : mail'[e] = mail[e] /\ request'[e] = request[e]
        /\ request'[d] = NoRequest
        /\ mail[d] \subseteq Frame
    BY <2>1 DEF IInv, TypeOK
  <2> HIDE DEF Mark
  <2>4. TypeOK'
    <3>1. mail' \in [Devices -> SUBSET Frame]
      BY <2>1, <2>2, <2>3 DEF IInv, TypeOK
    <3> QED
      BY <2>1, <3>1 DEF IInv, TypeOK, NoRequest, Request
  <2>5. MailboxesFinite'
    <3>1. IsFiniteSet(mail[d])
      BY DEF IInv, MailboxesFinite
    <3> DEFINE marked == {Mark(f) : f \in mail[d]}
               mark == [f \in mail[d] |-> Mark(f)]
    <3>2. mark \in Surjection(mail[d], marked)
      BY DEF Surjection
    <3>3. IsFiniteSet(marked)
      BY <3>1, <3>2, FS_Surjection
    <3> QED
      BY <2>3, <3>3 DEF IInv, MailboxesFinite
  <2>6. RowsBelongToActive'
    BY <2>1, <2>3 DEF IInv, RowsBelongToActive
  <2>7. NextIsFresh'
    <3>1. position[d] \in Nat /\ next[d] \in Nat /\ position[d] < next[d]
      BY DEF IInv, TypeOK, NextIsFresh
    <3>2. request'[d].arg < next'[d]
      BY <2>1, <2>3, <3>1 DEF NoRequest
    <3> QED
      BY <2>1, <2>3, <3>2 DEF IInv, NextIsFresh
  <2>8. AckIsCovered'
    BY <2>1, <2>3 DEF IInv, AckIsCovered, NoRequest
  <2>9. NoFrameSkipped'
    BY <2>1, <2>2, <2>3 DEF IInv, NoFrameSkipped
  <2>10. AckedWereServed'
    <3>1. \A f \in mail[d] : Mark(f).acked => <<f.cursor, f.envelope>> \in served[d]
      BY <2>1, <2>2, <2>3 DEF IInv, AckedWereServed, AckIsCovered
    <3> QED
      BY <2>1, <2>2, <2>3, <3>1 DEF IInv, AckedWereServed
  <2>11. CursorNamesOneEnvelope'
    <3>1. \A e \in Devices : {<<f.cursor, f.envelope>> : f \in mail'[e]}
                               = {<<f.cursor, f.envelope>> : f \in mail[e]}
      BY <2>2, <2>3
    <3>2. \A f, g \in mail'[d] : f.cursor = g.cursor => f = g
      BY <2>2, <2>3 DEF IInv, CursorNamesOneEnvelope
    <3> QED
      BY <2>1, <2>3, <3>1, <3>2 DEF IInv, CursorNamesOneEnvelope
  <2>12. EvictionIsAPrefix'
    BY <2>1, <2>2, <2>3 DEF IInv, EvictionIsAPrefix, Unacked
  <2> QED
    BY <2>4, <2>5, <2>6, <2>7, <2>8, <2>9, <2>10, <2>11, <2>12 DEF IInv
<1> QED
  BY <1>1, <1>2, <1>3, <1>4, <1>5, <1>6, <1>7, <1>8, <1>9, <1>10 DEF Next

-----------------------------------------------------------------------------
(* The inductive invariant holds throughout.                                 *)
THEOREM MailboxInvariant == Spec => []IInv
BY InitEstablishes, NextPreserves, PTL DEF Spec

(* The tables keep their types.                                              *)
THEOREM MailboxTypeCorrect == Spec => []TypeOK
<1>1. IInv => TypeOK
  BY DEF IInv
<1> QED
  BY <1>1, MailboxInvariant, PTL

(* A device that fetches after the last cursor it was given misses nothing   *)
(* that is still stored, whatever is appended, evicted, acknowledged,        *)
(* expired or revoked between its requests.                                  *)
THEOREM MailboxNoFrameSkipped == Spec => []NoFrameSkipped
<1>1. IInv => NoFrameSkipped
  BY DEF IInv
<1> QED
  BY <1>1, MailboxInvariant, PTL

(* A cursor is never reused for another envelope.                            *)
THEOREM MailboxCursorIdentity == Spec => []CursorNamesOneEnvelope
<1>1. IInv => CursorNamesOneEnvelope
  BY DEF IInv
<1> QED
  BY <1>1, MailboxInvariant, PTL

(* An acknowledgement never discards a row the device was not given, and     *)
(* eviction only ever takes a prefix.                                        *)
THEOREM MailboxLossDiscipline == Spec => [](AckedWereServed /\ EvictionIsAPrefix)
<1>1. IInv => AckedWereServed /\ EvictionIsAPrefix
  BY DEF IInv
<1> QED
  BY <1>1, MailboxInvariant, PTL

(* Nothing is served to a revoked device, even by a fetch authenticated      *)
(* before the revocation.                                                    *)
THEOREM MailboxRevokedServesNothing == Spec => RevokedServesNothing
<1>1. ASSUME IInv, [Next]_vars
      PROVE  [\A d \in Devices : status[d] = "revoked" => served'[d] = served[d]]_vars
  <2>1. SUFFICES ASSUME Next, NEW d \in Devices, status[d] = "revoked"
                 PROVE  served'[d] = served[d]
    BY <1>1
  <2>2. mail[d] = {}
    BY <1>1, <2>1 DEF IInv, RowsBelongToActive
  <2>3. ASSUME NEW e \in Devices, FetchFrames(e) PROVE served'[d] = served[d]
    <3>1. CASE e # d
      BY <1>1, <2>3, <3>1 DEF FetchFrames, IInv, TypeOK
    <3>2. CASE e = d
      <4>1. FirstByCursor({f \in Unacked(mail[d] \ Expired(mail[d])) : f.cursor > request[d].arg},
                          request[d].limit) = {}
        BY <2>2 DEF FirstByCursor, Unacked
      <4>2. served' = [served EXCEPT ![d] = @ \union {<<f.cursor, f.envelope>> : f \in {}}]
        BY <2>3, <3>2, <4>1, Zenon DEF FetchFrames
      <4> QED
        BY <1>1, <4>2 DEF IInv, TypeOK
    <3> QED
      BY <3>1, <3>2
  <2> QED
    BY <2>1, <2>3 DEF Next, Tick, ExpireFrames, RegisterDevice, RevokeDevice,
       AppendFrame, AuthenticateFetch, AuthenticateAck, AckFrames
<1> QED
  BY <1>1, MailboxInvariant, PTL DEF Spec, RevokedServesNothing

-----------------------------------------------------------------------------
(* The bytes of some rows, and of a part of them.                            *)
LEMMA BytesFacts ==
    ASSUME NEW S \in SUBSET Frame, IsFiniteSet(S)
    PROVE  Bytes(S) \in Nat /\ \A T \in SUBSET S : Bytes(T) \in Nat /\ Bytes(T) <= Bytes(S)
<1> DEFINE a == [f \in S |-> f.size]
<1>1. \A f \in S : a[f] \in Nat
  BY DEF Frame
<1>2. ASSUME NEW T \in SUBSET S PROVE Bytes(T) = Total(a, T)
  <2> DEFINE b == [f \in T |-> f.size]
  <2>1. \A f \in T : b[f] = a[f]
    OBVIOUS
  <2> HIDE DEF a, b
  <2>2. Total(b, T) = Total(a, T)
    BY <2>1, TotalSame
  <2> QED
    BY <2>2 DEF Bytes, b
<1> HIDE DEF a
<1>3. Total(a, S) \in Nat
  BY <1>1, TotalType
<1>4. \A T \in SUBSET S : Total(a, T) \in Nat /\ Total(a, T) <= Total(a, S)
  BY <1>1, TotalSplit, TotalOfPart
<1> QED
  BY <1>2, <1>3, <1>4

(* A row more.                                                               *)
LEMMA BytesAppended ==
    ASSUME NEW S \in SUBSET Frame, IsFiniteSet(S), NEW row \in Frame, row \notin S
    PROVE  Bytes(S \union {row}) = Bytes(S) + row.size
<1> DEFINE a == [f \in S \union {row} |-> f.size]
           b == [f \in S |-> f.size]
<1>1. \A f \in S \union {row} : a[f] \in Nat /\ a[f] = f.size
  BY DEF Frame
<1>2. \A f \in S : b[f] = a[f]
  OBVIOUS
<1>3. Bytes(S \union {row}) = Total(a, S \union {row}) /\ Bytes(S) = Total(b, S)
  BY DEF Bytes
<1> HIDE DEF a, b
<1>4. Total(b, S) = Total(a, S)
  BY <1>2, TotalSame
<1>5. Total(a, S \union {row}) = Total(a, S) + a[row]
  BY <1>1, TotalAdd
<1> QED
  BY <1>1, <1>3, <1>4, <1>5

(* The rows that survive an eviction are those from the oldest row on with   *)
(* which the new envelope fits.                                              *)
LEMMA EvictionMakesRoom ==
    ASSUME NEW S \in SUBSET Frame, IsFiniteSet(S), NEW size \in Nat, size <= MaxBytes
    PROVE  Bytes(KeptAfterEviction(S, size)) + size <= MaxBytes
<1> DEFINE kept == KeptAfterEviction(S, size)
           I == {c \in Nat : \E g \in S : g.cursor = c /\ Bytes(From(S, c)) + size <= MaxBytes}
<1>1. kept \in SUBSET S
  BY DEF KeptAfterEviction
<1>2. \A f \in S : f.cursor \in Nat
  BY DEF Frame
<1>3. \A f \in kept : \E c \in I : c <= f.cursor
  BY <1>2 DEF KeptAfterEviction
<1>4. \A c \in I : From(S, c) \in SUBSET S /\ Bytes(From(S, c)) + size <= MaxBytes
  BY DEF From
<1>5. I \in SUBSET Nat
  OBVIOUS
<1> HIDE DEF kept, I
<1>6. CASE I = {}
  <2>1. kept = {}
    BY <1>3, <1>6
  <2>2. Bytes(kept) = 0
    BY <2>1, TotalSmall DEF Bytes
  <2> QED
    BY <2>2 DEF kept
<1>7. CASE I # {}
  <2>1. PICK c \in I : \A e \in I : c <= e
    BY <1>5, <1>7, LeastOf
  <2>2. \A f \in kept : c <= f.cursor
    <3> TAKE f \in kept
    <3>1. PICK e \in I : e <= f.cursor
      BY <1>3
    <3> QED
      BY <1>1, <1>2, <1>5, <2>1, <3>1
  <2>3. kept \in SUBSET From(S, c)
    BY <1>1, <1>2, <1>5, <2>1, <2>2 DEF From
  <2>4. From(S, c) \in SUBSET Frame /\ IsFiniteSet(From(S, c)) /\ Bytes(From(S, c)) + size <= MaxBytes
    BY <1>4, <2>1, FS_Subset
  <2>5. Bytes(kept) \in Nat /\ Bytes(From(S, c)) \in Nat /\ Bytes(kept) <= Bytes(From(S, c))
    BY <2>3, <2>4, BytesFacts
  <2> QED
    BY <2>4, <2>5, MailboxAssumption DEF kept
<1> QED
  BY <1>6, <1>7

(* A step after which no row is pending that was not pending before.         *)
LEMMA FewerPending ==
    ASSUME IInv, WithinCapacity, \A d \in Devices : Unacked(mail'[d]) \subseteq Unacked(mail[d])
    PROVE  WithinCapacity'
<1> SUFFICES ASSUME NEW d \in Devices PROVE Bytes(Unacked(mail'[d])) <= MaxBytes
  BY DEF WithinCapacity, Unacked, Bytes, Total
<1> DEFINE S == Unacked(mail[d])
           T == Unacked(mail'[d])
<1>1. S \in SUBSET Frame /\ IsFiniteSet(S)
  BY FS_Subset DEF IInv, TypeOK, MailboxesFinite, Unacked
<1>2. T \in SUBSET S
  OBVIOUS
<1>3. Bytes(S) <= MaxBytes
  BY DEF WithinCapacity
<1> HIDE DEF S, T
<1>4. Bytes(S) \in Nat /\ Bytes(T) \in Nat /\ Bytes(T) <= Bytes(S)
  BY <1>1, <1>2, BytesFacts
<1>5. Bytes(T) <= MaxBytes
  BY <1>3, <1>4, MailboxAssumption
<1> QED
  BY <1>5 DEF T

(* Only AppendFrame makes a row pending, and it makes room for it first.     *)
LEMMA CapacityStep == IInv /\ WithinCapacity /\ [Next]_vars => WithinCapacity'
<1> SUFFICES ASSUME IInv, WithinCapacity, [Next]_vars PROVE WithinCapacity'
  OBVIOUS
<1>0. mail \in [Devices -> SUBSET Frame]
  BY DEF IInv, TypeOK
<1>1. CASE UNCHANGED mail
  BY <1>1, FewerPending
<1>2. CASE ExpireFrames
  <2>1. \A d \in Devices : Unacked(mail'[d]) \subseteq Unacked(mail[d])
    BY <1>2 DEF ExpireFrames, Unacked
  <2> QED
    BY <2>1, FewerPending
<1>3. ASSUME NEW d \in Devices, RevokeDevice(d) \/ FetchFrames(d) PROVE WithinCapacity'
  <2>1. \A e \in Devices : mail'[e] \subseteq mail[e]
    BY <1>0, <1>3 DEF RevokeDevice, FetchFrames
  <2>2. \A e \in Devices : Unacked(mail'[e]) \subseteq Unacked(mail[e])
    BY <2>1 DEF Unacked
  <2> QED
    BY <2>2, FewerPending
<1>4. ASSUME NEW d \in Devices, AckFrames(d) PROVE WithinCapacity'
  <2> DEFINE Mark(f) == [f EXCEPT !.acked = f.acked \/ f.cursor <= request[d].arg]
  <2>1. mail' = [mail EXCEPT ![d] = {Mark(f) : f \in mail[d]}]
    BY <1>0, <1>4 DEF AckFrames
  <2>2. \A f \in Frame : ~Mark(f).acked => ~f.acked /\ Mark(f) = f
    BY DEF Frame
  <2> HIDE DEF Mark
  <2>3. \A e \in Devices : Unacked(mail'[e]) \subseteq Unacked(mail[e])
    BY <1>0, <2>1, <2>2 DEF Unacked
  <2> QED
    BY <2>3, FewerPending
<1>5. ASSUME NEW d \in Devices, NEW size \in Sizes, AppendFrame(d, size) PROVE WithinCapacity'
  <2> DEFINE live == Unacked(mail[d]) \ Expired(mail[d])
             kept == KeptAfterEviction(live, size)
             row == [cursor |-> next[d], envelope |-> arrived[d] + 1, size |-> size,
                     expires |-> ExpiresAt, acked |-> FALSE]
  <2>1. size <= MaxBytes /\ mail' = [mail EXCEPT ![d] = kept \union {row}]
    BY <1>5 DEF AppendFrame, CanAppend
  <2>2. live \in SUBSET Frame /\ IsFiniteSet(live)
    BY FS_Subset DEF IInv, TypeOK, MailboxesFinite, Unacked
  <2>3. size \in Nat
    BY MailboxAssumption
  <2>4. row \in Frame /\ row.size = size /\ row.cursor = next[d] /\ ~row.acked
    BY <2>3, MailboxAssumption DEF IInv, TypeOK, Frame, ExpiresAt
  <2>5. kept \in SUBSET live /\ \A f \in live : f \in mail[d] /\ ~f.acked
    BY DEF KeptAfterEviction, Unacked
  <2>6. \A f \in mail[d] : f.cursor < next[d] /\ f.cursor \in Nat /\ next[d] \in Nat
    <3>1. \A f \in mail[d] : <<f.cursor, f.envelope>>[1] < next[d]
      BY DEF IInv, CursorNamesOneEnvelope
    <3> QED
      BY <3>1 DEF IInv, TypeOK, Frame
  <2> HIDE DEF live, row
  <2>7. Bytes(kept) + size <= MaxBytes
    BY <2>1, <2>2, <2>3, EvictionMakesRoom
  <2> HIDE DEF kept
  <2>8. row \notin kept
    BY <2>4, <2>5, <2>6
  <2>9. IsFiniteSet(kept) /\ kept \in SUBSET Frame
    BY <2>2, <2>5, FS_Subset
  <2>10. Bytes(kept \union {row}) = Bytes(kept) + size
    BY <2>4, <2>8, <2>9, BytesAppended
  <2>11. mail'[d] = kept \union {row} /\ \A e \in Devices : e # d => mail'[e] = mail[e]
    BY <1>0, <2>1
  <2>12. Unacked(mail'[d]) = kept \union {row}
    BY <2>4, <2>5, <2>11 DEF Unacked
  <2>13. ASSUME NEW e \in Devices PROVE Bytes(Unacked(mail'[e])) <= MaxBytes
    <3>1. CASE e = d
      BY <2>7, <2>10, <2>12, <3>1
    <3>2. CASE e # d
      BY <2>11, <3>2 DEF WithinCapacity
    <3> QED
      BY <3>1, <3>2
  <2> QED
    BY <2>13 DEF WithinCapacity, Unacked, Bytes, Total
<1>6. \/ UNCHANGED mail
      \/ ExpireFrames
      \/ \E d \in Devices : RevokeDevice(d) \/ FetchFrames(d)
      \/ \E d \in Devices : AckFrames(d)
      \/ \E d \in Devices, size \in Sizes : AppendFrame(d, size)
  BY DEF Next, vars, Tick, RegisterDevice, AuthenticateFetch, AuthenticateAck
<1> QED
  BY <1>1, <1>2, <1>3, <1>4, <1>5, <1>6

(* The pending rows of a device never exceed MaxMailboxBytes, whatever was   *)
(* appended, evicted, acknowledged and expired before (relay-server:         *)
(* AppendFrame).                                                             *)
THEOREM MailboxWithinCapacity == Spec => []WithinCapacity
<1>1. Init => WithinCapacity
  <2> SUFFICES ASSUME Init, NEW d \in Devices PROVE Bytes(Unacked(mail[d])) <= MaxBytes
    BY DEF WithinCapacity
  <2>1. Unacked(mail[d]) = {}
    BY DEF Init, Unacked
  <2>2. Bytes({}) = 0
    BY TotalSmall DEF Bytes
  <2> QED
    BY <2>1, <2>2, MailboxAssumption
<1> QED
  BY <1>1, CapacityStep, MailboxInvariant, PTL DEF Spec

-----------------------------------------------------------------------------
(* The server.  None of the parts of ServerSound is inductive.  A handler   *)
(* between taking its place in the map and reading must be reachable as     *)
(* well, because CloseReplaced makes a reader of it without looking at the  *)
(* map (HeldOrDoomed).  The close that a displacement owes is only safe     *)
(* when the handler does not owe another one already (DebtsOfDisplacing),   *)
(* and what a bridge's reader carries from its lookup to its use must still *)
(* be the device and the peer it looked up (ReaderCarries).                 *)

(* A device handler knows its device as soon as it has authenticated.        *)
OwnersKnown ==
    \A p \in DevicePeers : phase[p] # "unused" => owner[p] \in Devices

(* Only a handler between the map update and the close owes a close.         *)
DebtsOfDisplacing ==
    \A p \in Peers : replaced[p] # None => phase[p] = "displacing"

(* A reader that handles an envelope is the read loop, has the destination,  *)
(* and from the lookup to the close the peer it found.                       *)
ReaderCarries ==
    \A b \in BridgePeers :
        /\ reader[b].at # "idle" => reader[b].dest \in Devices /\ phase[b] = "reading"
        /\ reader[b].at \in {"enqueue", "remove", "close"} => reader[b].target \in DevicePeers

(* NoOrphanSocket, also for a handler that is about to read.                 *)
HeldOrDoomed ==
    \A p \in Peers :
        phase[p] \in {"displacing", "reading"} /\ open[p] =>
            \/ p \in DevicePeers /\ devices[owner[p]] = p
            \/ p = bridge
            \/ ToBeClosed(p)

(* What reader[b] may hold.                                                  *)
ReaderStates ==
    [at: {"idle", "lookup", "enqueue", "remove", "close", "append"}, kind: Kinds,
     dest: Devices \union {None}, target: DevicePeers \union {None}]

SocketInv ==
    /\ ServerTypeOK
    /\ OwnersKnown
    /\ DebtsOfDisplacing
    /\ ReaderCarries
    /\ MapHeldByHandler
    /\ HeldOrDoomed

-----------------------------------------------------------------------------
(* The mailbox: every step of the server is a step of the store, or leaves   *)
(* the tables alone; a restart forgets the requests under way.               *)

LEMMA ServerStepKeepsMailbox ==
    ASSUME IInv, SocketInv, [ServerNext]_serverVars
    PROVE  IInv'
<1>1. CASE UNCHANGED vars
  BY <1>1, NextPreserves
<1>2. CASE Next
  BY <1>2, NextPreserves
<1>3. CASE Restart
  <2>1. UNCHANGED <<now, status, next, arrived, mail, position, served, evicted>>
    BY <1>3 DEF Restart
  <2>2. request' = [d \in Devices |-> NoRequest]
    BY <1>3 DEF Restart
  <2>3. NoRequest \in Request /\ NoRequest.op = "none" /\ NoRequest.arg = 0
    BY DEF NoRequest, Request
  <2>4. TypeOK'
    BY <2>1, <2>2, <2>3 DEF IInv, TypeOK
  <2>5. AckIsCovered'
    BY <2>1, <2>2, <2>3 DEF IInv, AckIsCovered
  <2>6. NextIsFresh'
    BY <2>1, <2>2, <2>3 DEF IInv, NextIsFresh, TypeOK
  <2> QED
    BY <2>1, <2>4, <2>5, <2>6
    DEF IInv, MailboxesFinite, RowsBelongToActive, NoFrameSkipped, AckedWereServed,
        CursorNamesOneEnvelope, EvictionIsAPrefix
<1>4. ServerNext => Restart \/ Next \/ UNCHANGED vars
  <2>1. ASSUME NEW p \in DevicePeers,
               \/ \E d \in Devices : DeviceConnect(p, d)
               \/ DeviceHandler(p) \/ DeviceWriter(p) \/ DeviceForwards(p)
        PROVE  UNCHANGED vars
    BY <2>1, Zenon
    DEF DeviceConnect, DeviceHandler, SetDevice, CloseReplaced, DeviceReadEnds, DeviceCleanup,
        DeviceWriter, WriterSends, WriterFails, WriterStops, DeviceForwards, mailboxVars
  <2>2. ASSUME NEW b \in BridgePeers, BridgeAppends(b)
        PROVE  Next \/ UNCHANGED vars
    <3>1. reader[b].dest \in Devices
      BY <2>2 DEF BridgeAppends, SocketInv, ReaderCarries
    <3>2. (\E size \in Sizes : AppendFrame(reader[b].dest, size)) \/ UNCHANGED vars
      BY <2>2, Zenon DEF BridgeAppends, mailboxVars
    <3> QED
      BY <3>1, <3>2, Zenon DEF Next
  <2>3. ASSUME NEW b \in BridgePeers,
               \/ BridgeConnect(b)
               \/ \E d \in Devices, kind \in Kinds : BridgeReads(b, d, kind)
               \/ BridgeHandler(b)
        PROVE  Next \/ UNCHANGED vars
    BY <2>2, <2>3, Zenon
    DEF BridgeConnect, BridgeReads, BridgeHandler, CloseReplaced, BridgeReadEnds, BridgeCleanup,
        BridgeLooksUp, BridgeEnqueues, BridgeRemovesSlow, BridgeClosesSlow, mailboxVars
  <2>4. ASSUME NEW p \in Peers, NetworkClose(p) \/ ReadGivesUp(p)
        PROVE  UNCHANGED vars
    BY <2>4, Zenon DEF NetworkClose, ReadGivesUp, mailboxVars
  <2>5. ASSUME NEW d \in Devices, Register(d) \/ Revoke(d) \/ RevokeHandler(d)
        PROVE  Next \/ UNCHANGED vars
    BY <2>5, Zenon
    DEF Register, Revoke, RevokeHandler, RevokeLooksUp, RevokeCloses, RevokeRemoves,
        mailboxVars,
        Next
  <2> QED
    BY <2>1, <2>3, <2>4, <2>5, Zenon DEF ServerNext
<1> QED
  BY <1>1, <1>2, <1>3, <1>4 DEF serverVars

-----------------------------------------------------------------------------
(* The sockets.                                                              *)

LEMMA SocketInit == ServerInit => SocketInv
<1> SUFFICES ASSUME ServerInit PROVE SocketInv
  OBVIOUS
<1> USE ServerAssumption
<1>1. ServerTypeOK
  BY DEF ServerInit, ServerTypeOK, Idle, Kinds, Peers
<1>2. OwnersKnown /\ DebtsOfDisplacing /\ MapHeldByHandler /\ HeldOrDoomed
  BY DEF ServerInit, OwnersKnown, DebtsOfDisplacing, MapHeldByHandler, HeldOrDoomed, Peers
<1>3. ReaderCarries
  BY DEF ServerInit, ReaderCarries, Idle
<1> QED
  BY <1>1, <1>2, <1>3 DEF SocketInv

LEMMA DeviceConnectKeeps ==
    ASSUME SocketInv, NEW p \in DevicePeers, NEW d \in Devices, DeviceConnect(p, d)
    PROVE  SocketInv'
<1> USE ServerAssumption
<1>1. ServerTypeOK'
  BY DEF SocketInv, ServerTypeOK, ReaderCarries, OwnersKnown, Kinds, Peers, DeviceConnect
<1>2. OwnersKnown' /\ DebtsOfDisplacing'
  BY DEF SocketInv, ServerTypeOK, OwnersKnown, DebtsOfDisplacing, Peers, DeviceConnect
<1>3. ReaderCarries'
  BY DEF SocketInv, ServerTypeOK, ReaderCarries, Kinds, Peers, DeviceConnect
<1>4. MapHeldByHandler'
  BY DEF SocketInv, ServerTypeOK, MapHeldByHandler, OwnersKnown, DebtsOfDisplacing, Peers,
         DeviceConnect
<1>5. HeldOrDoomed'
  BY DEF SocketInv, ServerTypeOK, MapHeldByHandler, OwnersKnown, DebtsOfDisplacing,
         HeldOrDoomed, ToBeClosed, Peers, DeviceConnect
<1> QED
  BY <1>1, <1>2, <1>3, <1>4, <1>5 DEF SocketInv

LEMMA SetDeviceKeeps ==
    ASSUME SocketInv, NEW p \in DevicePeers, SetDevice(p)
    PROVE  SocketInv'
<1> USE ServerAssumption
<1>1. ServerTypeOK'
  BY DEF SocketInv, ServerTypeOK, ReaderCarries, OwnersKnown, Kinds, Peers, SetDevice
<1>2. OwnersKnown' /\ DebtsOfDisplacing'
  BY DEF SocketInv, ServerTypeOK, OwnersKnown, DebtsOfDisplacing, Peers, SetDevice
<1>3. ReaderCarries'
  BY DEF SocketInv, ServerTypeOK, ReaderCarries, Kinds, Peers, SetDevice
<1>4. MapHeldByHandler'
  BY DEF SocketInv, ServerTypeOK, MapHeldByHandler, OwnersKnown, DebtsOfDisplacing, Peers,
         SetDevice
<1>5. HeldOrDoomed'
  BY DEF SocketInv, ServerTypeOK, MapHeldByHandler, OwnersKnown, DebtsOfDisplacing,
         HeldOrDoomed, ToBeClosed, Peers, SetDevice
<1> QED
  BY <1>1, <1>2, <1>3, <1>4, <1>5 DEF SocketInv

LEMMA DeviceReadEndsKeeps ==
    ASSUME SocketInv, NEW p \in DevicePeers, DeviceReadEnds(p)
    PROVE  SocketInv'
<1> USE ServerAssumption
<1>1. ServerTypeOK'
  BY DEF SocketInv, ServerTypeOK, ReaderCarries, OwnersKnown, Kinds, Peers, DeviceReadEnds
<1>2. OwnersKnown' /\ DebtsOfDisplacing'
  BY DEF SocketInv, ServerTypeOK, OwnersKnown, DebtsOfDisplacing, Peers, DeviceReadEnds
<1>3. ReaderCarries'
  BY DEF SocketInv, ServerTypeOK, ReaderCarries, Kinds, Peers, DeviceReadEnds
<1>4. MapHeldByHandler'
  BY DEF SocketInv, ServerTypeOK, MapHeldByHandler, OwnersKnown, DebtsOfDisplacing, Peers,
         DeviceReadEnds
<1>5. HeldOrDoomed'
  BY DEF SocketInv, ServerTypeOK, MapHeldByHandler, OwnersKnown, DebtsOfDisplacing,
         HeldOrDoomed, ToBeClosed, Peers, DeviceReadEnds
<1> QED
  BY <1>1, <1>2, <1>3, <1>4, <1>5 DEF SocketInv

LEMMA DeviceCleanupKeeps ==
    ASSUME SocketInv, NEW p \in DevicePeers, DeviceCleanup(p)
    PROVE  SocketInv'
<1> USE ServerAssumption
<1>1. ServerTypeOK'
  BY DEF SocketInv, ServerTypeOK, ReaderCarries, OwnersKnown, Kinds, Peers, DeviceCleanup,
         Without
<1>2. OwnersKnown' /\ DebtsOfDisplacing'
  BY DEF SocketInv, ServerTypeOK, OwnersKnown, DebtsOfDisplacing, Peers, DeviceCleanup, Without
<1>3. ReaderCarries'
  BY DEF SocketInv, ServerTypeOK, ReaderCarries, Kinds, Peers, DeviceCleanup, Without
<1>4. MapHeldByHandler'
  BY DEF SocketInv, ServerTypeOK, MapHeldByHandler, OwnersKnown, DebtsOfDisplacing, Peers,
         DeviceCleanup, Without
<1>5. HeldOrDoomed'
  BY DEF SocketInv, ServerTypeOK, MapHeldByHandler, OwnersKnown, DebtsOfDisplacing,
         HeldOrDoomed, ToBeClosed, Peers, DeviceCleanup, Without
<1> QED
  BY <1>1, <1>2, <1>3, <1>4, <1>5 DEF SocketInv

LEMMA WriterKeeps ==
    ASSUME SocketInv, NEW p \in DevicePeers, WriterSends(p) \/ WriterFails(p) \/ WriterStops(p)
    PROVE  SocketInv'
<1> USE ServerAssumption
<1>1. UNCHANGED <<devices, bridge, phase, owner, open, replaced, reader, revoking, sent>>
  BY Zenon DEF WriterSends, WriterFails, WriterStops
<1>2. queue' \in [DevicePeers -> 0 .. QueueFrames]
  BY DEF SocketInv, ServerTypeOK, WriterSends, WriterFails, WriterStops
<1>3. writer' \in [DevicePeers -> BOOLEAN]
  BY DEF SocketInv, ServerTypeOK, WriterSends, WriterFails, WriterStops
<1>4. ServerTypeOK'
  BY <1>1, <1>2, <1>3 DEF SocketInv, ServerTypeOK
<1>5. (OwnersKnown /\ DebtsOfDisplacing /\ ReaderCarries /\ MapHeldByHandler /\ HeldOrDoomed)'
  BY <1>1 DEF SocketInv, OwnersKnown, DebtsOfDisplacing, ReaderCarries, MapHeldByHandler,
              HeldOrDoomed, ToBeClosed
<1> QED
  BY <1>4, <1>5 DEF SocketInv

LEMMA DeviceForwardsKeeps ==
    ASSUME SocketInv, NEW p \in DevicePeers, DeviceForwards(p)
    PROVE  SocketInv'
<1> USE ServerAssumption
<1>1. ServerTypeOK'
  BY DEF SocketInv, ServerTypeOK, ReaderCarries, OwnersKnown, Kinds, Peers, DeviceForwards,
         Closed
<1>2. OwnersKnown' /\ DebtsOfDisplacing'
  BY DEF SocketInv, ServerTypeOK, OwnersKnown, DebtsOfDisplacing, Peers, DeviceForwards, Closed
<1>3. ReaderCarries'
  BY DEF SocketInv, ServerTypeOK, ReaderCarries, Kinds, Peers, DeviceForwards, Closed
<1>4. MapHeldByHandler'
  BY DEF SocketInv, ServerTypeOK, MapHeldByHandler, OwnersKnown, DebtsOfDisplacing, Peers,
         DeviceForwards, Closed
<1>5. HeldOrDoomed'
  BY DEF SocketInv, ServerTypeOK, MapHeldByHandler, OwnersKnown, DebtsOfDisplacing,
         HeldOrDoomed, ToBeClosed, Peers, DeviceForwards, Closed
<1> QED
  BY <1>1, <1>2, <1>3, <1>4, <1>5 DEF SocketInv

LEMMA CloseReplacedKeeps ==
    ASSUME SocketInv, NEW p \in Peers, CloseReplaced(p)
    PROVE  SocketInv'
<1> USE ServerAssumption
<1>1. ServerTypeOK'
  BY DEF SocketInv, ServerTypeOK, ReaderCarries, OwnersKnown, Kinds, Peers, CloseReplaced,
         Closed
<1>2. OwnersKnown' /\ DebtsOfDisplacing'
  BY DEF SocketInv, ServerTypeOK, OwnersKnown, DebtsOfDisplacing, Peers, CloseReplaced, Closed
<1>3. ReaderCarries'
  BY DEF SocketInv, ServerTypeOK, ReaderCarries, Kinds, Peers, CloseReplaced, Closed
<1>4. MapHeldByHandler'
  BY DEF SocketInv, ServerTypeOK, MapHeldByHandler, OwnersKnown, DebtsOfDisplacing, Peers,
         CloseReplaced, Closed
<1>5. HeldOrDoomed'
  BY DEF SocketInv, ServerTypeOK, MapHeldByHandler, OwnersKnown, DebtsOfDisplacing,
         HeldOrDoomed, ToBeClosed, Peers, CloseReplaced, Closed
<1> QED
  BY <1>1, <1>2, <1>3, <1>4, <1>5 DEF SocketInv

LEMMA NetworkCloseKeeps ==
    ASSUME SocketInv, NEW p \in Peers, NetworkClose(p)
    PROVE  SocketInv'
<1> USE ServerAssumption
<1>1. ServerTypeOK'
  BY DEF SocketInv, ServerTypeOK, ReaderCarries, OwnersKnown, Kinds, Peers, NetworkClose, Closed
<1>2. OwnersKnown' /\ DebtsOfDisplacing'
  BY DEF SocketInv, ServerTypeOK, OwnersKnown, DebtsOfDisplacing, Peers, NetworkClose, Closed
<1>3. ReaderCarries'
  BY DEF SocketInv, ServerTypeOK, ReaderCarries, Kinds, Peers, NetworkClose, Closed
<1>4. MapHeldByHandler'
  BY DEF SocketInv, ServerTypeOK, MapHeldByHandler, OwnersKnown, DebtsOfDisplacing, Peers,
         NetworkClose, Closed
<1>5. HeldOrDoomed'
  BY DEF SocketInv, ServerTypeOK, MapHeldByHandler, OwnersKnown, DebtsOfDisplacing,
         HeldOrDoomed, ToBeClosed, Peers, NetworkClose, Closed
<1> QED
  BY <1>1, <1>2, <1>3, <1>4, <1>5 DEF SocketInv

LEMMA ReadGivesUpKeeps ==
    ASSUME SocketInv, NEW p \in Peers, ReadGivesUp(p)
    PROVE  SocketInv'
<1> USE ServerAssumption
<1>1. ServerTypeOK'
  BY DEF SocketInv, ServerTypeOK, ReaderCarries, OwnersKnown, Kinds, Peers, ReadGivesUp, Idle
<1>2. OwnersKnown' /\ DebtsOfDisplacing'
  BY DEF SocketInv, ServerTypeOK, OwnersKnown, DebtsOfDisplacing, Peers, ReadGivesUp, Idle
<1>3. ReaderCarries'
  BY DEF SocketInv, ServerTypeOK, ReaderCarries, Kinds, Peers, ReadGivesUp, Idle
<1>4. MapHeldByHandler'
  BY DEF SocketInv, ServerTypeOK, MapHeldByHandler, OwnersKnown, DebtsOfDisplacing, Peers,
         ReadGivesUp, Idle
<1>5. HeldOrDoomed'
  BY DEF SocketInv, ServerTypeOK, MapHeldByHandler, OwnersKnown, DebtsOfDisplacing,
         HeldOrDoomed, ToBeClosed, Peers, ReadGivesUp, Idle
<1> QED
  BY <1>1, <1>2, <1>3, <1>4, <1>5 DEF SocketInv

(* A move of a bridge's reader that closes nothing: it changes the reader,    *)
(* perhaps a queue, and never to "close".                                    *)
LEMMA ReaderMoves ==
    ASSUME SocketInv, NEW b \in BridgePeers, phase[b] = "reading",
           NEW r \in ReaderStates, reader' = [reader EXCEPT ![b] = r],
           reader[b].at # "close", r.at # "close",
           r.at # "idle" => r.dest \in Devices,
           r.at \in {"enqueue", "remove"} => r.target \in DevicePeers,
           queue' \in [DevicePeers -> 0 .. QueueFrames], sent' \in 0 .. MaxEnvelopes,
           UNCHANGED <<devices, bridge, phase, owner, open, replaced, writer, revoking>>
    PROVE  SocketInv'
<1>1. reader' \in [BridgePeers -> ReaderStates]
  BY DEF SocketInv, ServerTypeOK, ReaderStates
<1>2. ServerTypeOK'
  BY <1>1 DEF SocketInv, ServerTypeOK, ReaderStates
<1>3. ReaderCarries'
  BY DEF SocketInv, ServerTypeOK, ReaderCarries, ReaderStates
<1>4. \A p : ToBeClosed(p) => ToBeClosed(p)'
  BY DEF SocketInv, ServerTypeOK, ToBeClosed, ReaderStates
<1>5. HeldOrDoomed'
  BY <1>4, Zenon DEF SocketInv, HeldOrDoomed
<1>6. (OwnersKnown /\ DebtsOfDisplacing /\ MapHeldByHandler)'
  BY DEF SocketInv, OwnersKnown, DebtsOfDisplacing, MapHeldByHandler
<1> QED
  BY <1>2, <1>3, <1>5, <1>6 DEF SocketInv

(* The read loop of a bridge closes its own connection and ends.             *)
LEMMA ReaderAborts ==
    ASSUME SocketInv, NEW b \in BridgePeers, phase[b] = "reading", reader[b].at # "close",
           reader' = [reader EXCEPT ![b] = Idle],
           open' = Closed(b), phase' = [phase EXCEPT ![b] = "shutdown"],
           sent' \in 0 .. MaxEnvelopes,
           UNCHANGED <<devices, bridge, owner, replaced, queue, writer, revoking>>
    PROVE  SocketInv'
<1> USE ServerAssumption
<1>0. Idle \in ReaderStates /\ Idle.at = "idle"
  BY DEF Idle, ReaderStates, Kinds
<1>1. /\ reader' \in [BridgePeers -> ReaderStates]
      /\ \A c \in BridgePeers : reader'[c] = IF c = b THEN Idle ELSE reader[c]
  BY <1>0 DEF SocketInv, ServerTypeOK, ReaderStates
<1>2. /\ phase' \in [Peers -> {"unused", "authenticated", "displacing", "reading", "shutdown", "gone"}]
      /\ open' \in [Peers -> BOOLEAN]
      /\ \A q \in Peers : phase'[q] = IF q = b THEN "shutdown" ELSE phase[q]
      /\ \A q \in Peers : open'[q] => open[q]
  BY DEF SocketInv, ServerTypeOK, Closed
<1>3. ServerTypeOK'
  BY <1>1, <1>2 DEF SocketInv, ServerTypeOK, ReaderStates
<1>4. ReaderCarries'
  BY <1>0, <1>1, <1>2 DEF SocketInv, ReaderCarries, Peers
<1>5. \A p : ToBeClosed(p) => ToBeClosed(p)'
  BY <1>1 DEF ToBeClosed
<1>6. OwnersKnown' /\ DebtsOfDisplacing'
  BY <1>2 DEF SocketInv, ServerTypeOK, OwnersKnown, DebtsOfDisplacing, Peers
<1>7. MapHeldByHandler'
  BY <1>2 DEF SocketInv, ServerTypeOK, MapHeldByHandler, Peers
<1>8. HeldOrDoomed'
  BY <1>2, <1>5 DEF SocketInv, HeldOrDoomed
<1> QED
  BY <1>3, <1>4, <1>6, <1>7, <1>8 DEF SocketInv

LEMMA BridgeConnectKeeps ==
    ASSUME SocketInv, NEW b \in BridgePeers, BridgeConnect(b)
    PROVE  SocketInv'
<1> USE ServerAssumption
<1>1. ServerTypeOK'
  BY DEF SocketInv, ServerTypeOK, ReaderCarries, OwnersKnown, Kinds, Peers, BridgeConnect
<1>2. OwnersKnown' /\ DebtsOfDisplacing'
  BY DEF SocketInv, ServerTypeOK, OwnersKnown, DebtsOfDisplacing, Peers, BridgeConnect
<1>3. ReaderCarries'
  BY DEF SocketInv, ServerTypeOK, ReaderCarries, Kinds, Peers, BridgeConnect
<1>4. MapHeldByHandler'
  BY DEF SocketInv, ServerTypeOK, MapHeldByHandler, OwnersKnown, DebtsOfDisplacing, Peers,
         BridgeConnect
<1>5. HeldOrDoomed'
  BY DEF SocketInv, ServerTypeOK, MapHeldByHandler, OwnersKnown, DebtsOfDisplacing,
         HeldOrDoomed, ToBeClosed, Peers, BridgeConnect
<1> QED
  BY <1>1, <1>2, <1>3, <1>4, <1>5 DEF SocketInv

LEMMA BridgeReadsKeeps ==
    ASSUME SocketInv, NEW b \in BridgePeers, NEW d \in Devices, NEW kind \in Kinds,
           BridgeReads(b, d, kind)
    PROVE  SocketInv'
<1> USE ServerAssumption
<1> DEFINE r == [at |-> IF kind = "mailbox" THEN "append" ELSE "lookup",
                 kind |-> kind, dest |-> d, target |-> None]
<1>1. /\ phase[b] = "reading" /\ reader[b] = Idle
      /\ UNCHANGED <<devices, bridge, owner, replaced, queue, writer, revoking>>
  BY Zenon DEF BridgeReads
<1>2. sent' \in 0 .. MaxEnvelopes /\ queue' \in [DevicePeers -> 0 .. QueueFrames]
  BY DEF BridgeReads, SocketInv, ServerTypeOK
<1>3. reader[b].at = "idle"
  BY <1>1 DEF Idle
<1>4. CASE status[d] = "active"
  <2>1. reader' = [reader EXCEPT ![b] = r] /\ UNCHANGED <<open, phase>>
    BY <1>4, Zenon DEF BridgeReads
  <2>2. r \in ReaderStates /\ r.at \in {"append", "lookup"} /\ r.dest \in Devices
    BY DEF ReaderStates
  <2> HIDE DEF r
  <2> QED
    BY <1>1, <1>2, <1>3, <2>1, <2>2, ReaderMoves
<1>5. CASE status[d] # "active"
  <2>1. /\ open' = Closed(b) /\ phase' = [phase EXCEPT ![b] = "shutdown"] /\ UNCHANGED reader
    BY <1>5, Zenon DEF BridgeReads
  <2>2. reader' = [reader EXCEPT ![b] = Idle]
    BY <1>1, <2>1 DEF SocketInv, ServerTypeOK
  <2> QED
    BY <1>1, <1>2, <1>3, <2>1, <2>2, ReaderAborts
<1> QED
  BY <1>4, <1>5

LEMMA BridgeLooksUpKeeps ==
    ASSUME SocketInv, NEW b \in BridgePeers, BridgeLooksUp(b)
    PROVE  SocketInv'
<1> USE ServerAssumption
<1> DEFINE r == reader[b]
           target == devices[r.dest]
           next_r == CASE target # None -> [r EXCEPT !.at = "enqueue", !.target = target]
                       [] target = None /\ r.kind = "hello" -> Idle
                       [] OTHER -> [r EXCEPT !.at = "append"]
<1>1. /\ r.at = "lookup"
      /\ reader' = [reader EXCEPT ![b] = next_r]
      /\ UNCHANGED <<devices, bridge, phase, owner, open, replaced, queue, writer, revoking, sent>>
  BY Zenon DEF BridgeLooksUp
<1>2. r \in ReaderStates /\ r.dest \in Devices /\ phase[b] = "reading"
  BY <1>1 DEF SocketInv, ServerTypeOK, ReaderCarries, ReaderStates
<1>3. target \in DevicePeers \union {None}
  BY <1>2 DEF SocketInv, ServerTypeOK
<1>4. /\ next_r \in ReaderStates /\ next_r.at \in {"idle", "enqueue", "append"}
      /\ next_r.at # "idle" => next_r.dest \in Devices
      /\ next_r.at = "enqueue" => next_r.target \in DevicePeers
  <2>1. CASE target # None
    <3> DEFINE found == [r EXCEPT !.at = "enqueue", !.target = target]
    <3>1. next_r = found
      BY <2>1
    <3>2. found \in ReaderStates /\ found.at = "enqueue" /\ found.dest = r.dest
          /\ found.target = target
      <4> HIDE DEF target
      <4> QED
        BY <1>2, <1>3 DEF ReaderStates
    <3>3. target \in DevicePeers
      BY <1>3, <2>1
    <3> HIDE DEF found, target, next_r
    <3> QED
      BY <1>2, <3>1, <3>2, <3>3
  <2>2. CASE target = None /\ r.kind = "hello"
    BY <2>2 DEF ReaderStates, Idle, Kinds
  <2>3. CASE target = None /\ r.kind # "hello"
    BY <1>2, <2>3 DEF ReaderStates
  <2> QED
    BY <2>1, <2>2, <2>3
<1>5. queue' \in [DevicePeers -> 0 .. QueueFrames] /\ sent' \in 0 .. MaxEnvelopes
  BY <1>1 DEF SocketInv, ServerTypeOK
<1> HIDE DEF next_r
<1> QED
  BY <1>1, <1>2, <1>4, <1>5, ReaderMoves

LEMMA BridgeEnqueuesKeeps ==
    ASSUME SocketInv, NEW b \in BridgePeers, BridgeEnqueues(b)
    PROVE  SocketInv'
<1> USE ServerAssumption
<1> DEFINE r == reader[b]
<1>1. /\ r.at = "enqueue"
      /\ UNCHANGED <<devices, bridge, phase, owner, open, replaced, writer, revoking, sent>>
  BY Zenon DEF BridgeEnqueues
<1>2. r \in ReaderStates /\ r.dest \in Devices /\ r.target \in DevicePeers /\ phase[b] = "reading"
  BY <1>1 DEF SocketInv, ServerTypeOK, ReaderCarries, ReaderStates
<1>3. sent' \in 0 .. MaxEnvelopes /\ queue \in [DevicePeers -> 0 .. QueueFrames]
  BY <1>1 DEF SocketInv, ServerTypeOK
<1>4. CASE queue[r.target] < QueueFrames
  <2>1. queue' = [queue EXCEPT ![r.target] = @ + 1] /\ reader' = [reader EXCEPT ![b] = Idle]
    BY <1>4 DEF BridgeEnqueues
  <2>2. queue' \in [DevicePeers -> 0 .. QueueFrames]
    BY <1>2, <1>3, <1>4, <2>1
  <2>3. Idle \in ReaderStates /\ Idle.at = "idle"
    BY DEF Idle, ReaderStates, Kinds
  <2> QED
    BY <1>1, <1>2, <1>3, <2>1, <2>2, <2>3, ReaderMoves
<1>5. CASE ~(queue[r.target] < QueueFrames)
  <2> DEFINE full == [r EXCEPT !.at = "remove"]
  <2>1. UNCHANGED queue /\ reader' = [reader EXCEPT ![b] = full]
    BY <1>5 DEF BridgeEnqueues
  <2>2. full \in ReaderStates /\ full.at = "remove" /\ full.dest \in Devices /\ full.target \in DevicePeers
    BY <1>2 DEF ReaderStates
  <2>3. queue' \in [DevicePeers -> 0 .. QueueFrames]
    BY <1>3, <2>1
  <2> HIDE DEF full
  <2> QED
    BY <1>1, <1>2, <1>3, <2>1, <2>2, <2>3, ReaderMoves
<1> QED
  BY <1>4, <1>5

LEMMA BridgeRemovesSlowKeeps ==
    ASSUME SocketInv, NEW b \in BridgePeers, BridgeRemovesSlow(b)
    PROVE  SocketInv'
<1> USE ServerAssumption
<1>1. ServerTypeOK'
  BY SMTT(30) DEF SocketInv, ServerTypeOK, ReaderCarries, OwnersKnown, Kinds, Peers, BridgeRemovesSlow,
         Without
<1>2. OwnersKnown' /\ DebtsOfDisplacing'
  BY DEF SocketInv, ServerTypeOK, OwnersKnown, DebtsOfDisplacing, Peers, BridgeRemovesSlow,
         Without
<1>3. ReaderCarries'
  BY DEF SocketInv, ServerTypeOK, ReaderCarries, Kinds, Peers, BridgeRemovesSlow, Without
<1>4. MapHeldByHandler'
  BY DEF SocketInv, ServerTypeOK, MapHeldByHandler, OwnersKnown, DebtsOfDisplacing, Peers,
         BridgeRemovesSlow, Without
<1>5. HeldOrDoomed'
  BY DEF SocketInv, ServerTypeOK, MapHeldByHandler, OwnersKnown, DebtsOfDisplacing,
         HeldOrDoomed, ToBeClosed, Peers, BridgeRemovesSlow, Without
<1> QED
  BY <1>1, <1>2, <1>3, <1>4, <1>5 DEF SocketInv

LEMMA BridgeClosesSlowKeeps ==
    ASSUME SocketInv, NEW b \in BridgePeers, BridgeClosesSlow(b)
    PROVE  SocketInv'
<1> USE ServerAssumption
<1> DEFINE r == reader[b]
           after == IF r.kind = "hello" THEN Idle ELSE [r EXCEPT !.at = "append", !.target = None]
<1>0. reader' = [reader EXCEPT ![b] = after]
  BY Zenon DEF BridgeClosesSlow
<1>a. r \in ReaderStates
  BY DEF SocketInv, ServerTypeOK, ReaderStates
<1>b. after \in ReaderStates
  <2>1. Idle \in ReaderStates
    BY DEF Idle, ReaderStates, Kinds
  <2>2. [r EXCEPT !.at = "append", !.target = None] \in ReaderStates
    BY <1>a DEF ReaderStates
  <2> QED
    BY <2>1, <2>2
<1>c. reader' \in [BridgePeers -> ReaderStates]
  <2> HIDE DEF after
  <2> QED
    BY <1>0, <1>b DEF SocketInv, ServerTypeOK, ReaderStates
<1>1. ServerTypeOK'
  BY <1>c DEF SocketInv, ServerTypeOK, ReaderStates, BridgeClosesSlow, Closed
<1>2. OwnersKnown' /\ DebtsOfDisplacing'
  BY DEF SocketInv, ServerTypeOK, OwnersKnown, DebtsOfDisplacing, Peers, BridgeClosesSlow,
         Closed, Idle
<1>3. ReaderCarries'
  BY DEF SocketInv, ServerTypeOK, ReaderCarries, Kinds, Peers, BridgeClosesSlow, Closed, Idle
<1>4. MapHeldByHandler'
  BY DEF SocketInv, ServerTypeOK, MapHeldByHandler, OwnersKnown, DebtsOfDisplacing, Peers,
         BridgeClosesSlow, Closed, Idle
<1>5. HeldOrDoomed'
  BY DEF SocketInv, ServerTypeOK, MapHeldByHandler, OwnersKnown, DebtsOfDisplacing,
         HeldOrDoomed, ToBeClosed, Peers, BridgeClosesSlow, Closed, Idle
<1> QED
  BY <1>1, <1>2, <1>3, <1>4, <1>5 DEF SocketInv

LEMMA BridgeAppendsKeeps ==
    ASSUME SocketInv, NEW b \in BridgePeers, BridgeAppends(b)
    PROVE  SocketInv'
<1> USE ServerAssumption
<1>1. /\ reader[b].at = "append"
      /\ reader' = [reader EXCEPT ![b] = Idle]
      /\ UNCHANGED <<devices, bridge, owner, replaced, queue, writer, revoking, sent>>
      /\ \/ UNCHANGED <<open, phase>>
         \/ open' = Closed(b) /\ phase' = [phase EXCEPT ![b] = "shutdown"]
  BY Zenon DEF BridgeAppends
<1>2. phase[b] = "reading"
  BY <1>1 DEF SocketInv, ReaderCarries
<1>3. sent' \in 0 .. MaxEnvelopes /\ queue' \in [DevicePeers -> 0 .. QueueFrames]
  BY <1>1 DEF SocketInv, ServerTypeOK
<1>4. Idle \in ReaderStates /\ Idle.at = "idle"
  BY DEF Idle, ReaderStates, Kinds
<1> QED
  BY <1>1, <1>2, <1>3, <1>4, ReaderMoves, ReaderAborts

LEMMA BridgeReadEndsKeeps ==
    ASSUME SocketInv, NEW b \in BridgePeers, BridgeReadEnds(b)
    PROVE  SocketInv'
<1> USE ServerAssumption
<1>1. ServerTypeOK'
  BY DEF SocketInv, ServerTypeOK, ReaderCarries, OwnersKnown, Kinds, Peers, BridgeReadEnds, Idle
<1>2. OwnersKnown' /\ DebtsOfDisplacing'
  BY DEF SocketInv, ServerTypeOK, OwnersKnown, DebtsOfDisplacing, Peers, BridgeReadEnds, Idle
<1>3. ReaderCarries'
  BY DEF SocketInv, ServerTypeOK, ReaderCarries, Kinds, Peers, BridgeReadEnds, Idle
<1>4. MapHeldByHandler'
  BY DEF SocketInv, ServerTypeOK, MapHeldByHandler, OwnersKnown, DebtsOfDisplacing, Peers,
         BridgeReadEnds, Idle
<1>5. HeldOrDoomed'
  BY DEF SocketInv, ServerTypeOK, MapHeldByHandler, OwnersKnown, DebtsOfDisplacing,
         HeldOrDoomed, ToBeClosed, Peers, BridgeReadEnds, Idle
<1> QED
  BY <1>1, <1>2, <1>3, <1>4, <1>5 DEF SocketInv

LEMMA BridgeCleanupKeeps ==
    ASSUME SocketInv, NEW b \in BridgePeers, BridgeCleanup(b)
    PROVE  SocketInv'
<1> USE ServerAssumption
<1>1. ServerTypeOK'
  BY DEF SocketInv, ServerTypeOK, ReaderCarries, OwnersKnown, Kinds, Peers, BridgeCleanup
<1>2. OwnersKnown' /\ DebtsOfDisplacing'
  BY DEF SocketInv, ServerTypeOK, OwnersKnown, DebtsOfDisplacing, Peers, BridgeCleanup
<1>3. ReaderCarries'
  BY DEF SocketInv, ServerTypeOK, ReaderCarries, Kinds, Peers, BridgeCleanup
<1>4. MapHeldByHandler'
  BY DEF SocketInv, ServerTypeOK, MapHeldByHandler, OwnersKnown, DebtsOfDisplacing, Peers,
         BridgeCleanup
<1>5. HeldOrDoomed'
  BY DEF SocketInv, ServerTypeOK, MapHeldByHandler, OwnersKnown, DebtsOfDisplacing,
         HeldOrDoomed, ToBeClosed, Peers, BridgeCleanup
<1> QED
  BY <1>1, <1>2, <1>3, <1>4, <1>5 DEF SocketInv

LEMMA RegisterKeeps ==
    ASSUME SocketInv, NEW d \in Devices, Register(d)
    PROVE  SocketInv'
<1> USE ServerAssumption
<1>1. ServerTypeOK'
  BY DEF SocketInv, ServerTypeOK, ReaderCarries, OwnersKnown, Kinds, Peers, Register, sockets
<1>2. OwnersKnown' /\ DebtsOfDisplacing'
  BY DEF SocketInv, ServerTypeOK, OwnersKnown, DebtsOfDisplacing, Peers, Register, sockets
<1>3. ReaderCarries'
  BY DEF SocketInv, ServerTypeOK, ReaderCarries, Kinds, Peers, Register, sockets
<1>4. MapHeldByHandler'
  BY DEF SocketInv, ServerTypeOK, MapHeldByHandler, OwnersKnown, DebtsOfDisplacing, Peers,
         Register, sockets
<1>5. HeldOrDoomed'
  BY DEF SocketInv, ServerTypeOK, MapHeldByHandler, OwnersKnown, DebtsOfDisplacing,
         HeldOrDoomed, ToBeClosed, Peers, Register, sockets
<1> QED
  BY <1>1, <1>2, <1>3, <1>4, <1>5 DEF SocketInv

LEMMA RevokeKeeps ==
    ASSUME SocketInv, NEW d \in Devices, Revoke(d)
    PROVE  SocketInv'
<1> USE ServerAssumption
<1>1. ServerTypeOK'
  BY DEF SocketInv, ServerTypeOK, ReaderCarries, OwnersKnown, Kinds, Peers, Revoke
<1>2. OwnersKnown' /\ DebtsOfDisplacing'
  BY DEF SocketInv, ServerTypeOK, OwnersKnown, DebtsOfDisplacing, Peers, Revoke
<1>3. ReaderCarries'
  BY DEF SocketInv, ServerTypeOK, ReaderCarries, Kinds, Peers, Revoke
<1>4. MapHeldByHandler'
  BY DEF SocketInv, ServerTypeOK, MapHeldByHandler, OwnersKnown, DebtsOfDisplacing, Peers,
         Revoke
<1>5. HeldOrDoomed'
  BY DEF SocketInv, ServerTypeOK, MapHeldByHandler, OwnersKnown, DebtsOfDisplacing,
         HeldOrDoomed, ToBeClosed, Peers, Revoke
<1> QED
  BY <1>1, <1>2, <1>3, <1>4, <1>5 DEF SocketInv

LEMMA RevokeLooksUpKeeps ==
    ASSUME SocketInv, NEW d \in Devices, RevokeLooksUp(d)
    PROVE  SocketInv'
<1> USE ServerAssumption
<1>1. ServerTypeOK'
  BY DEF SocketInv, ServerTypeOK, ReaderCarries, OwnersKnown, Kinds, Peers, RevokeLooksUp
<1>2. OwnersKnown' /\ DebtsOfDisplacing'
  BY DEF SocketInv, ServerTypeOK, OwnersKnown, DebtsOfDisplacing, Peers, RevokeLooksUp
<1>3. ReaderCarries'
  BY DEF SocketInv, ServerTypeOK, ReaderCarries, Kinds, Peers, RevokeLooksUp
<1>4. MapHeldByHandler'
  BY DEF SocketInv, ServerTypeOK, MapHeldByHandler, OwnersKnown, DebtsOfDisplacing, Peers,
         RevokeLooksUp
<1>5. HeldOrDoomed'
  BY DEF SocketInv, ServerTypeOK, MapHeldByHandler, OwnersKnown, DebtsOfDisplacing,
         HeldOrDoomed, ToBeClosed, Peers, RevokeLooksUp
<1> QED
  BY <1>1, <1>2, <1>3, <1>4, <1>5 DEF SocketInv

LEMMA RevokeClosesKeeps ==
    ASSUME SocketInv, NEW d \in Devices, RevokeCloses(d)
    PROVE  SocketInv'
<1> USE ServerAssumption
<1>1. ServerTypeOK'
  BY DEF SocketInv, ServerTypeOK, ReaderCarries, OwnersKnown, Kinds, Peers, RevokeCloses, Closed
<1>2. OwnersKnown' /\ DebtsOfDisplacing'
  BY DEF SocketInv, ServerTypeOK, OwnersKnown, DebtsOfDisplacing, Peers, RevokeCloses, Closed
<1>3. ReaderCarries'
  BY DEF SocketInv, ServerTypeOK, ReaderCarries, Kinds, Peers, RevokeCloses, Closed
<1>4. MapHeldByHandler'
  BY DEF SocketInv, ServerTypeOK, MapHeldByHandler, OwnersKnown, DebtsOfDisplacing, Peers,
         RevokeCloses, Closed
<1>5. HeldOrDoomed'
  BY DEF SocketInv, ServerTypeOK, MapHeldByHandler, OwnersKnown, DebtsOfDisplacing,
         HeldOrDoomed, ToBeClosed, Peers, RevokeCloses, Closed
<1> QED
  BY <1>1, <1>2, <1>3, <1>4, <1>5 DEF SocketInv

LEMMA RevokeRemovesKeeps ==
    ASSUME SocketInv, NEW d \in Devices, RevokeRemoves(d)
    PROVE  SocketInv'
<1> USE ServerAssumption
<1>1. ServerTypeOK'
  BY DEF SocketInv, ServerTypeOK, ReaderCarries, OwnersKnown, Kinds, Peers, RevokeRemoves,
         Without
<1>2. OwnersKnown' /\ DebtsOfDisplacing'
  BY DEF SocketInv, ServerTypeOK, OwnersKnown, DebtsOfDisplacing, Peers, RevokeRemoves, Without
<1>3. ReaderCarries'
  BY DEF SocketInv, ServerTypeOK, ReaderCarries, Kinds, Peers, RevokeRemoves, Without
<1>4. MapHeldByHandler'
  BY DEF SocketInv, ServerTypeOK, MapHeldByHandler, OwnersKnown, DebtsOfDisplacing, Peers,
         RevokeRemoves, Without
<1>5. HeldOrDoomed'
  BY DEF SocketInv, ServerTypeOK, MapHeldByHandler, OwnersKnown, DebtsOfDisplacing,
         HeldOrDoomed, ToBeClosed, Peers, RevokeRemoves, Without
<1> QED
  BY <1>1, <1>2, <1>3, <1>4, <1>5 DEF SocketInv

LEMMA RestartKeeps ==
    ASSUME SocketInv, Restart
    PROVE  SocketInv'
<1> USE ServerAssumption
<1>1. ServerTypeOK'
  BY DEF SocketInv, ServerTypeOK, Restart, Idle, Kinds, Peers
<1>2. OwnersKnown'
  BY DEF SocketInv, ServerTypeOK, OwnersKnown, Restart, Peers
<1>3. (DebtsOfDisplacing /\ ReaderCarries /\ MapHeldByHandler /\ HeldOrDoomed)'
  BY DEF Restart, DebtsOfDisplacing, ReaderCarries, MapHeldByHandler, HeldOrDoomed, Idle, Peers
<1> QED
  BY <1>1, <1>2, <1>3 DEF SocketInv

LEMMA SocketStep == SocketInv /\ [ServerNext]_serverVars => SocketInv'
<1> SUFFICES ASSUME SocketInv, [ServerNext]_serverVars PROVE SocketInv'
  OBVIOUS
<1>1. CASE UNCHANGED serverVars
  <2>1. UNCHANGED sockets
    BY <1>1 DEF serverVars
  <2> QED
    BY <2>1 DEF sockets, SocketInv, ServerTypeOK, OwnersKnown, DebtsOfDisplacing, ReaderCarries,
                MapHeldByHandler, HeldOrDoomed, ToBeClosed
<1>2. CASE ServerNext
  <2> DevicePeers \subseteq Peers /\ BridgePeers \subseteq Peers
    BY DEF Peers
  <2>1. ASSUME NEW p \in DevicePeers,
               \/ \E d \in Devices : DeviceConnect(p, d)
               \/ DeviceHandler(p) \/ DeviceWriter(p) \/ DeviceForwards(p)
        PROVE  SocketInv'
    BY <2>1, DeviceConnectKeeps, SetDeviceKeeps, CloseReplacedKeeps, DeviceReadEndsKeeps,
       DeviceCleanupKeeps, WriterKeeps, DeviceForwardsKeeps
    DEF DeviceHandler, DeviceWriter
  <2>2. ASSUME NEW b \in BridgePeers,
               \/ BridgeConnect(b)
               \/ \E d \in Devices, kind \in Kinds : BridgeReads(b, d, kind)
               \/ BridgeHandler(b)
        PROVE  SocketInv'
    BY <2>2, BridgeConnectKeeps, BridgeReadsKeeps, CloseReplacedKeeps, BridgeReadEndsKeeps,
       BridgeCleanupKeeps, BridgeLooksUpKeeps, BridgeEnqueuesKeeps, BridgeRemovesSlowKeeps,
       BridgeClosesSlowKeeps, BridgeAppendsKeeps
    DEF BridgeHandler
  <2>3. ASSUME NEW d \in Devices, Register(d) \/ Revoke(d) \/ RevokeHandler(d)
        PROVE  SocketInv'
    BY <2>3, RegisterKeeps, RevokeKeeps, RevokeLooksUpKeeps, RevokeClosesKeeps,
       RevokeRemovesKeeps
    DEF RevokeHandler
  <2> QED
    BY <1>2, <2>1, <2>2, <2>3, NetworkCloseKeeps, ReadGivesUpKeeps, RestartKeeps, Zenon
    DEF ServerNext
<1> QED
  BY <1>1, <1>2

-----------------------------------------------------------------------------
(* A connection that is open and being read is in the map or about to be     *)
(* closed, the maps hold only peers whose handler will remove them, and rows *)
(* exist only for active devices: in every order of connecting, replacing,   *)
(* overflowing, revoking, dying and restarting (server.go: setDevice,        *)
(* setBridge, removeDevice, readBridgeFrames, disconnectDevice).             *)
THEOREM RelayServerSound == ServerSpec => []ServerSound
<1>1. ServerInit => SocketInv /\ IInv
  BY SocketInit, InitEstablishes DEF ServerInit
<1>2. SocketInv /\ IInv /\ [ServerNext]_serverVars => (SocketInv /\ IInv)'
  BY SocketStep, ServerStepKeepsMailbox
<1>3. SocketInv /\ IInv => ServerSound
  <2>1. SocketInv => NoOrphanSocket
    BY DEF SocketInv, HeldOrDoomed, NoOrphanSocket
  <2> QED
    BY <2>1 DEF SocketInv, IInv, ServerSound
<1> QED
  BY <1>1, <1>2, <1>3, PTL DEF ServerSpec
=============================================================================
