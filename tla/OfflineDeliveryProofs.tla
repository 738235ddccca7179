----------------------- MODULE OfflineDeliveryProofs ------------------------
(***************************************************************************)
(* Offline delivery for any number of sessions that route events, any       *)
(* prekey batches, limits, events and restarts: no nonce and no prekey       *)
(* serves twice, a flush repeats and loses nothing, and the device           *)
(* reconciles exactly when it must.                                          *)
(***************************************************************************)
EXTENDS OfflineDelivery, SequenceTheorems, FiniteSetTheorems, TLAPS

Prekeys == UNION {ToSet(Batches[b]) : b \in DOMAIN Batches}
Epoch == [key : Nat, prekey : Prekeys, last : Nat]
Places == {"idle", "consume", "reserve", "enqueue", "flush"}

(* The frames encrypted under a key.                                         *)
UsesOf(frames, k) == {i \in DOMAIN frames : frames[i].key = k}

(* Types of the variables the arguments are about.                           *)
DeliveryTypes ==
    /\ pool \in Seq(Prekeys) /\ begun \in Seq(Prekeys) /\ epochs \in Seq(Epoch)
    /\ router \in [Routers -> [at : Places, frame : Frame]]
    /\ outbox \in Seq(Frame) /\ wire \in Seq(Frame) /\ mailbox \in Seq(Frame)
    /\ sealed \in Seq(Frame) /\ queued \in Seq(Frame) /\ sent \in Seq(Frame)
    /\ applied \in Nat /\ applied <= Len(mailbox)
    /\ counter \in Nat
    /\ reconcile \in {"clean", "required", "in_progress", "completed"}

(* An epoch's key is its own, and its counter the number of frames encrypted *)
(* under it.                                                                 *)
KeysSound ==
    /\ \A i \in DOMAIN epochs :
          /\ epochs[i].key \in 1 .. Len(begun)
          /\ epochs[i].last = Cardinality(UsesOf(sealed, epochs[i].key))
    /\ \A i, j \in DOMAIN epochs : epochs[i].key = epochs[j].key => i = j
    /\ \A n \in DOMAIN sealed : sealed[n].key \in 1 .. Len(begun)

(* A router past the check for an epoch finds one.                           *)
ReserveHasEpoch == \A r \in Routers : router[r].at = "reserve" => epochs # << >>

(* The prekeys of the epochs are marked consumed, those offered are not.     *)
PoolSound ==
    /\ \A i \in DOMAIN epochs : epochs[i].prekey \in consumed
    /\ ToSet(pool) \cap consumed = {}

(* Whatever is under way was encrypted.                                      *)
FramesSealed ==
    /\ \A r \in Routers : router[r].at = "enqueue" => router[r].frame \in ToSet(sealed)
    /\ ToSet(outbox) \subseteq ToSet(sealed)
    /\ ToSet(wire) \subseteq ToSet(sealed)
    /\ ToSet(mailbox) \subseteq ToSet(sealed)

(* The device is clean exactly when all it saw was in sequence.              *)
DeviceExact ==
    /\ reconcile = "clean" =>
          counter = applied /\ \A i \in 1 .. applied : mailbox[i].counter = i
    /\ reconcile # "clean" => \E i \in 1 .. applied : mailbox[i].counter # i

(* What the store keeps; the routers count, for the epoch they rely on.       *)
StoreInv == KeysSound /\ CountersDense /\ ReserveHasEpoch /\ PoolSound /\ PrekeyOnce

DeliveryInv ==
    /\ DeliveryTypes
    /\ StoreInv
    /\ FlushExactlyOnce
    /\ FramesSealed
    /\ DeviceExact

-----------------------------------------------------------------------------
(* Facts about sequences that the steps below need.                          *)

LEMMA ToSetOfAppend ==
    ASSUME NEW S, NEW s \in Seq(S), NEW x \in S
    PROVE  ToSet(Append(s, x)) = ToSet(s) \cup {x}
<1>1. /\ DOMAIN Append(s, x) = 1 .. Len(s) + 1 /\ DOMAIN s = 1 .. Len(s) /\ Len(s) \in Nat
      /\ \A i \in 1 .. Len(s) : Append(s, x)[i] = s[i]
      /\ Append(s, x)[Len(s) + 1] = x
  BY AppendProperties, LenProperties
<1>2. ASSUME NEW i \in DOMAIN Append(s, x) PROVE Append(s, x)[i] \in ToSet(s) \cup {x}
  BY <1>1, <1>2 DEF ToSet
<1>3. ASSUME NEW i \in DOMAIN s PROVE s[i] \in ToSet(Append(s, x))
  BY <1>1, <1>3 DEF ToSet
<1>4. x \in ToSet(Append(s, x))
  BY <1>1 DEF ToSet
<1> QED BY <1>2, <1>3, <1>4 DEF ToSet

LEMMA ToSetOfConcat ==
    ASSUME NEW S, NEW s \in Seq(S), NEW t \in Seq(S)
    PROVE  ToSet(s \o t) = ToSet(s) \cup ToSet(t)
<1>1. /\ DOMAIN (s \o t) = 1 .. Len(s) + Len(t)
      /\ DOMAIN s = 1 .. Len(s) /\ Len(s) \in Nat
      /\ DOMAIN t = 1 .. Len(t) /\ Len(t) \in Nat
      /\ \A i \in 1 .. Len(s) + Len(t) :
            (s \o t)[i] = IF i <= Len(s) THEN s[i] ELSE t[i - Len(s)]
  BY ConcatProperties, LenProperties
<1>2. ASSUME NEW i \in DOMAIN (s \o t) PROVE (s \o t)[i] \in ToSet(s) \cup ToSet(t)
  BY <1>1, <1>2 DEF ToSet
<1>3. ASSUME NEW i \in DOMAIN s PROVE s[i] \in ToSet(s \o t)
  <2>1. i \in DOMAIN (s \o t) /\ (s \o t)[i] = s[i] BY <1>1, <1>3
  <2> QED BY <2>1 DEF ToSet
<1>4. ASSUME NEW i \in DOMAIN t PROVE t[i] \in ToSet(s \o t)
  <2>1. Len(s) + i \in DOMAIN (s \o t) /\ (s \o t)[Len(s) + i] = t[i] BY <1>1, <1>4
  <2> QED BY <2>1 DEF ToSet
<1> QED BY <1>2, <1>3, <1>4 DEF ToSet

LEMMA HeadAndTail ==
    ASSUME NEW S, NEW s \in Seq(S), s # << >>
    PROVE  /\ Head(s) \in S /\ Head(s) \in ToSet(s)
           /\ Tail(s) \in Seq(S) /\ ToSet(Tail(s)) \subseteq ToSet(s)
           /\ IsInjective(s) => IsInjective(Tail(s)) /\ Head(s) \notin ToSet(Tail(s))
<1>1. /\ Tail(s) \in Seq(S) /\ Head(s) \in S /\ Head(s) = s[1]
      /\ Len(s) \in Nat \ {0} /\ DOMAIN s = 1 .. Len(s)
      /\ DOMAIN Tail(s) = 1 .. Len(s) - 1
      /\ \A i \in DOMAIN Tail(s) : Tail(s)[i] = s[i + 1]
  BY HeadTailProperties, LenProperties, EmptySeq
<1>2. Head(s) \in ToSet(s)
  BY <1>1 DEF ToSet
<1>3. \A i \in DOMAIN Tail(s) : i + 1 \in DOMAIN s /\ i + 1 # 1
  BY <1>1
<1>4. ToSet(Tail(s)) \subseteq ToSet(s)
  BY <1>1, <1>3 DEF ToSet
<1>5. ASSUME IsInjective(s) PROVE IsInjective(Tail(s)) /\ Head(s) \notin ToSet(Tail(s))
  BY <1>1, <1>3, <1>5 DEF IsInjective, ToSet
<1> QED BY <1>1, <1>2, <1>4, <1>5

(* A sequence cut in two.                                                    *)
LEMMA Cut ==
    ASSUME NEW S, NEW s \in Seq(S), NEW n \in 0 .. Len(s)
    PROVE  /\ SubSeq(s, 1, n) \in Seq(S) /\ SubSeq(s, n + 1, Len(s)) \in Seq(S)
           /\ SubSeq(s, 1, n) \o SubSeq(s, n + 1, Len(s)) = s
           /\ ToSet(SubSeq(s, 1, n)) \subseteq ToSet(s)
           /\ ToSet(SubSeq(s, n + 1, Len(s))) \subseteq ToSet(s)
<1> DEFINE a == SubSeq(s, 1, n)
           b == SubSeq(s, n + 1, Len(s))
<1>1. Len(s) \in Nat /\ \A i \in 1 .. Len(s) : s[i] \in S
  BY LenProperties, ElementOfSeq
<1>2. a \in Seq(S) /\ b \in Seq(S)
  <2>1. \A i \in 1 .. n : s[i] \in S BY <1>1
  <2>2. \A i \in n + 1 .. Len(s) : s[i] \in S BY <1>1
  <2>3. a \in Seq(S) BY <1>1, <2>1, SubSeqProperties
  <2>4. b \in Seq(S) BY <1>1, <2>2, SubSeqProperties
  <2> QED BY <2>3, <2>4
<1>3. a \o b = s
  <2>1. a \o b = SubSeq(s, 1, Len(s))
    <3>1. 1 \in 1 .. Len(s) + 1 /\ n \in 1 - 1 .. Len(s) /\ Len(s) \in n .. Len(s)
      BY <1>1
    <3> QED BY <3>1, ConcatAdjacentSubSeq
  <2> QED BY <2>1, SubSeqFull
<1> HIDE DEF a, b
<1>4. ToSet(s) = ToSet(a) \cup ToSet(b)
  BY <1>2, <1>3, ToSetOfConcat, ZenonT(60)
<1> QED BY <1>2, <1>3, <1>4 DEF a, b

LEMMA InjectiveConcat ==
    ASSUME NEW S, NEW s \in Seq(S), NEW t \in Seq(S), IsInjective(s), IsInjective(t),
           ToSet(s) \cap ToSet(t) = {}
    PROVE  IsInjective(s \o t)
<1>1. /\ DOMAIN (s \o t) = 1 .. Len(s) + Len(t)
      /\ DOMAIN s = 1 .. Len(s) /\ Len(s) \in Nat
      /\ DOMAIN t = 1 .. Len(t) /\ Len(t) \in Nat
      /\ \A i \in 1 .. Len(s) + Len(t) :
            (s \o t)[i] = IF i <= Len(s) THEN s[i] ELSE t[i - Len(s)]
  BY ConcatProperties, LenProperties
<1>2. ASSUME NEW i \in DOMAIN (s \o t), NEW j \in DOMAIN (s \o t),
             (s \o t)[i] = (s \o t)[j]
      PROVE  i = j
  <2>1. CASE i <= Len(s) /\ j <= Len(s)
    BY <1>1, <1>2, <2>1 DEF IsInjective
  <2>2. CASE ~(i <= Len(s)) /\ ~(j <= Len(s))
    <3>1. i - Len(s) \in DOMAIN t /\ j - Len(s) \in DOMAIN t BY <1>1, <2>2
    <3>2. t[i - Len(s)] = t[j - Len(s)] BY <1>1, <1>2, <2>2
    <3>3. i - Len(s) = j - Len(s) BY <3>1, <3>2 DEF IsInjective
    <3> QED BY <1>1, <3>3
  <2>3. ASSUME NEW x \in DOMAIN (s \o t), NEW y \in DOMAIN (s \o t),
               x <= Len(s), ~(y <= Len(s)), (s \o t)[x] = (s \o t)[y]
        PROVE  FALSE
    <3>1. x \in DOMAIN s /\ y - Len(s) \in DOMAIN t BY <1>1, <2>3
    <3>2. s[x] = t[y - Len(s)] BY <1>1, <2>3
    <3> QED BY <3>1, <3>2 DEF ToSet
  <2> QED BY <1>2, <2>1, <2>2, <2>3
<1> QED BY <1>2 DEF IsInjective

(* Encrypting one more frame under a key adds one use of this key.            *)
LEMMA UsesOfAppend ==
    ASSUME NEW frames \in Seq(Frame), NEW f \in Frame, NEW k
    PROVE  /\ IsFiniteSet(UsesOf(frames, k))
           /\ Cardinality(UsesOf(frames, k)) \in Nat
           /\ Cardinality(UsesOf(Append(frames, f), k)) =
                 IF f.key = k THEN Cardinality(UsesOf(frames, k)) + 1
                 ELSE Cardinality(UsesOf(frames, k))
<1> DEFINE old == UsesOf(frames, k)
           new == UsesOf(Append(frames, f), k)
           n == Len(frames) + 1
<1>1. /\ DOMAIN frames = 1 .. Len(frames) /\ Len(frames) \in Nat
      /\ DOMAIN Append(frames, f) = 1 .. n
      /\ \A i \in 1 .. Len(frames) : Append(frames, f)[i] = frames[i]
      /\ Append(frames, f)[n] = f
  BY AppendProperties, LenProperties
<1>2. IsFiniteSet(old) /\ Cardinality(old) \in Nat
  <2>1. IsFiniteSet(1 .. Len(frames)) BY <1>1, FS_Interval
  <2>2. old \in SUBSET (1 .. Len(frames)) BY <1>1 DEF UsesOf
  <2> QED BY <2>1, <2>2, FS_Subset, FS_CardinalityType
<1>3. CASE f.key = k
  <2>1. new = old \cup {n}
    BY <1>1, <1>3 DEF UsesOf
  <2>2. n \notin old
    BY <1>1 DEF UsesOf
  <2> HIDE DEF old, new, n
  <2>3. Cardinality(new) = Cardinality(old) + 1
    BY <1>2, <2>1, <2>2, FS_AddElement
  <2> QED BY <1>2, <1>3, <2>3 DEF old, new
<1>4. CASE f.key # k
  <2>1. new = old
    BY <1>1, <1>4 DEF UsesOf
  <2> QED BY <1>2, <1>4, <2>1
<1> QED BY <1>3, <1>4

-----------------------------------------------------------------------------
(* The prekey store.                                                         *)

(* A step that leaves the store alone keeps it, if no router comes to rely   *)
(* on an epoch that is not there.                                            *)
LEMMA StoreQuiet ==
    ASSUME StoreInv, UNCHANGED <<pool, consumed, epochs, begun, sealed>>,
           ReserveHasEpoch'
    PROVE  StoreInv'
BY DEF StoreInv, KeysSound, CountersDense, PoolSound, PrekeyOnce, UsesOf

LEMMA UploadKeeps ==
    ASSUME DeliveryTypes, StoreInv, NEW b \in DOMAIN Batches, UploadPrekeys(b)
    PROVE  pool' \in Seq(Prekeys) /\ StoreInv'
<1>1. /\ IsInjective(Batches[b])
      /\ ToSet(Batches[b]) \cap (ToSet(pool) \union consumed) = {}
      /\ pool' = pool \o Batches[b]
      /\ UNCHANGED <<consumed, epochs, begun, router, sealed>>
  BY DEF UploadPrekeys
<1>2. pool \in Seq(Prekeys) /\ Batches[b] \in Seq(Prekeys)
  <2>1. Batches[b] \in Seq(ToSet(Batches[b])) /\ ToSet(Batches[b]) \subseteq Prekeys
    BY DeliveryAssumption DEF Prekeys
  <2> QED BY <2>1, SeqMonotonic DEF DeliveryTypes
<1>3. pool' \in Seq(Prekeys) /\ ToSet(pool') = ToSet(pool) \cup ToSet(Batches[b])
  BY <1>1, <1>2, ConcatProperties, ToSetOfConcat
<1>4. IsInjective(pool')
  <2>1. IsInjective(pool) /\ ToSet(pool) \cap ToSet(Batches[b]) = {}
    BY <1>1 DEF StoreInv, PrekeyOnce
  <2> QED BY <1>1, <1>2, <2>1, InjectiveConcat
<1>5. PoolSound'
  BY <1>1, <1>3 DEF StoreInv, PoolSound
<1>6. PrekeyOnce'
  BY <1>1, <1>3, <1>4 DEF StoreInv, PoolSound, PrekeyOnce
<1>7. KeysSound' /\ CountersDense' /\ ReserveHasEpoch'
  BY <1>1 DEF StoreInv, KeysSound, CountersDense, ReserveHasEpoch, UsesOf
<1> QED BY <1>3, <1>5, <1>6, <1>7 DEF StoreInv

(* A new epoch has a key under which nothing was encrypted, and a prekey      *)
(* that no other epoch has.                                                  *)
LEMMA ConsumeKeeps ==
    ASSUME DeliveryTypes, StoreInv, NEW r \in Routers, ConsumePrekey(r), pool # << >>
    PROVE  /\ pool' \in Seq(Prekeys) /\ begun' \in Seq(Prekeys) /\ epochs' \in Seq(Epoch)
           /\ StoreInv'
<1> DEFINE new == [key |-> Len(begun) + 1, prekey |-> Head(pool), last |-> 0]
<1>1. /\ pool' = Tail(pool) /\ consumed' = consumed \union {Head(pool)}
      /\ begun' = Append(begun, Head(pool))
      /\ epochs' = Append(epochs, [key |-> Len(begun'), prekey |-> Head(pool), last |-> 0])
      /\ router' = [router EXCEPT ![r] = At("reserve")]
      /\ UNCHANGED sealed
  BY DEF ConsumePrekey
<1>2. /\ Head(pool) \in Prekeys /\ Head(pool) \in ToSet(pool)
      /\ pool' \in Seq(Prekeys) /\ ToSet(pool') \subseteq ToSet(pool)
      /\ IsInjective(pool') /\ Head(pool) \notin ToSet(pool')
  <2>1. pool \in Seq(Prekeys) /\ IsInjective(pool)
    BY DEF DeliveryTypes, StoreInv, PrekeyOnce
  <2> QED BY <1>1, <2>1, HeadAndTail
<1>3. begun' \in Seq(Prekeys) /\ Len(begun') = Len(begun) + 1 /\ Len(begun) \in Nat
  BY <1>1, <1>2, AppendProperties, LenProperties DEF DeliveryTypes
<1>4. new \in Epoch /\ epochs' = Append(epochs, new)
  BY <1>1, <1>2, <1>3 DEF Epoch
<1> HIDE DEF new
<1>5. /\ epochs' \in Seq(Epoch)
      /\ DOMAIN epochs = 1 .. Len(epochs) /\ Len(epochs) \in Nat
      /\ DOMAIN epochs' = 1 .. Len(epochs) + 1
      /\ \A i \in DOMAIN epochs : epochs'[i] = epochs[i]
      /\ epochs'[Len(epochs) + 1] = new
      /\ epochs' # << >>
  <2>1. epochs \in Seq(Epoch) BY DEF DeliveryTypes
  <2>2. DOMAIN epochs = 1 .. Len(epochs) /\ Len(epochs) \in Nat
    BY <2>1, LenProperties
  <2>3. /\ epochs' \in Seq(Epoch) /\ epochs' # << >> /\ Len(epochs') = Len(epochs) + 1
        /\ \A i \in 1 .. Len(epochs) : epochs'[i] = epochs[i]
        /\ epochs'[Len(epochs) + 1] = new
    BY <1>4, <2>1, AppendProperties
  <2>4. DOMAIN epochs' = 1 .. Len(epochs')
    BY <2>3, LenProperties
  <2> QED BY <2>2, <2>3, <2>4
<1>6. \A i \in DOMAIN epochs' : i \in DOMAIN epochs \/ i = Len(epochs) + 1
  BY <1>5
<1>7. new.key = Len(begun) + 1 /\ new.prekey = Head(pool) /\ new.last = 0
  BY DEF new
<1>8. KeysSound'
  <2>1. UsesOf(sealed, Len(begun) + 1) = {}
    BY <1>3 DEF UsesOf, StoreInv, KeysSound
  <2>2. ASSUME NEW i \in DOMAIN epochs'
        PROVE  /\ epochs'[i].key \in 1 .. Len(begun')
               /\ epochs'[i].last = Cardinality(UsesOf(sealed', epochs'[i].key))
    <3>1. CASE i \in DOMAIN epochs
      BY <1>1, <1>3, <1>5, <3>1 DEF StoreInv, KeysSound
    <3>2. CASE i = Len(epochs) + 1
      <4>1. epochs'[i].key = Len(begun) + 1 /\ epochs'[i].last = 0
        BY <1>5, <1>7, <3>2
      <4>2. Len(begun) + 1 \in 1 .. Len(begun') BY <1>3
      <4>3. Cardinality(UsesOf(sealed', Len(begun) + 1)) = 0
        BY <1>1, <2>1, FS_EmptySet
      <4> QED BY <4>1, <4>2, <4>3
    <3> QED BY <1>6, <3>1, <3>2
  <2>3. \A i \in DOMAIN epochs : epochs'[i].key # Len(begun) + 1
    BY <1>3, <1>5 DEF StoreInv, KeysSound
  <2>4. ASSUME NEW i \in DOMAIN epochs', NEW j \in DOMAIN epochs',
               epochs'[i].key = epochs'[j].key
        PROVE  i = j
    BY <1>5, <1>6, <1>7, <2>3, <2>4 DEF StoreInv, KeysSound
  <2>5. \A n \in DOMAIN sealed' : sealed'[n].key \in 1 .. Len(begun')
    BY <1>1, <1>3 DEF StoreInv, KeysSound
  <2> QED BY <2>2, <2>4, <2>5 DEF KeysSound
<1>9. PoolSound'
  BY <1>1, <1>2, <1>5, <1>6, <1>7 DEF StoreInv, PoolSound
<1>10. PrekeyOnce'
  <2>1. \A i \in DOMAIN epochs : epochs'[i].prekey # Head(pool)
    BY <1>2, <1>5 DEF StoreInv, PoolSound
  <2>2. ASSUME NEW i \in DOMAIN epochs', NEW j \in DOMAIN epochs',
               epochs'[i].prekey = epochs'[j].prekey
        PROVE  i = j
    BY <1>5, <1>6, <1>7, <2>1, <2>2 DEF StoreInv, PrekeyOnce
  <2>3. \A i \in DOMAIN epochs' : epochs'[i].prekey \notin ToSet(pool')
    BY <1>2, <1>5, <1>6, <1>7 DEF StoreInv, PrekeyOnce
  <2> QED BY <1>2, <2>2, <2>3 DEF PrekeyOnce
<1>11. CountersDense' /\ ReserveHasEpoch'
  BY <1>1, <1>5 DEF StoreInv, CountersDense, ReserveHasEpoch
<1> QED BY <1>2, <1>3, <1>5, <1>8, <1>9, <1>10, <1>11 DEF StoreInv

(* A reserved counter is the next one of the newest epoch's key.              *)
LEMMA ReserveKeeps ==
    ASSUME DeliveryTypes, StoreInv, NEW r \in Routers, ReserveNextFrameCounter(r)
    PROVE  /\ epochs' \in Seq(Epoch) /\ sealed' \in Seq(Frame)
           /\ \E frame \in Frame :
                 /\ sealed' = Append(sealed, frame)
                 /\ router' = [router EXCEPT ![r] = [at |-> "enqueue", frame |-> frame]]
           /\ StoreInv'
<1> DEFINE m == Len(epochs)
           epoch == epochs[m]
           frame == [key |-> epoch.key, counter |-> epoch.last + 1]
<1>1. /\ router[r].at = "reserve"
      /\ epochs' = [epochs EXCEPT ![m].last = @ + 1]
      /\ router' = [router EXCEPT ![r] = [at |-> "enqueue", frame |-> frame]]
      /\ sealed' = Append(sealed, frame)
      /\ UNCHANGED <<pool, consumed, begun>>
  BY DEF ReserveNextFrameCounter
<1>2. /\ m \in Nat \ {0} /\ DOMAIN epochs = 1 .. m /\ m \in DOMAIN epochs
      /\ epoch \in Epoch
  BY <1>1, LenProperties, EmptySeq, ElementOfSeq DEF DeliveryTypes, StoreInv, ReserveHasEpoch
<1>3. /\ frame \in Frame /\ frame.key = epoch.key /\ frame.counter = epoch.last + 1
      /\ epoch.last \in Nat
  BY <1>2 DEF Epoch, Frame
<1> HIDE DEF frame
<1>4. /\ sealed' \in Seq(Frame) /\ Len(sealed) \in Nat
      /\ DOMAIN sealed = 1 .. Len(sealed) /\ DOMAIN sealed' = 1 .. Len(sealed) + 1
      /\ \A n \in DOMAIN sealed : sealed'[n] = sealed[n]
      /\ sealed'[Len(sealed) + 1] = frame
  BY <1>1, <1>3, AppendProperties, LenProperties, SMTT(30) DEF DeliveryTypes
<1>5. /\ epochs' \in Seq(Epoch) /\ DOMAIN epochs' = DOMAIN epochs
      /\ \A i \in DOMAIN epochs :
            /\ epochs'[i].key = epochs[i].key /\ epochs'[i].prekey = epochs[i].prekey
            /\ epochs'[i].last = IF i = m THEN epochs[i].last + 1 ELSE epochs[i].last
  <2>1. epochs' = [epochs EXCEPT ![m] = [epoch EXCEPT !.last = @ + 1]]
    BY <1>1
  <2>2. [epoch EXCEPT !.last = @ + 1] \in Epoch
    BY <1>2 DEF Epoch
  <2>3. epochs' \in Seq(Epoch)
    BY <1>2, <2>1, <2>2, ExceptSeq DEF DeliveryTypes
  <2>4. \A i \in DOMAIN epochs : epochs[i] \in Epoch
    BY <1>2, ElementOfSeq DEF DeliveryTypes
  <2>5. DOMAIN epochs' = DOMAIN epochs
    BY <2>1
  <2>6. ASSUME NEW i \in DOMAIN epochs
        PROVE  /\ epochs'[i].key = epochs[i].key /\ epochs'[i].prekey = epochs[i].prekey
               /\ epochs'[i].last = IF i = m THEN epochs[i].last + 1 ELSE epochs[i].last
    <3>1. CASE i = m
      <4>1. epochs'[i] = [epochs[i] EXCEPT !.last = @ + 1] BY <1>2, <2>1, <3>1
      <4> QED BY <2>4, <3>1, <4>1 DEF Epoch
    <3>2. CASE i # m
      BY <2>1, <3>2
    <3> QED BY <3>1, <3>2
  <2> QED BY <2>3, <2>5, <2>6
<1>6. \A k : /\ IsFiniteSet(UsesOf(sealed, k)) /\ Cardinality(UsesOf(sealed, k)) \in Nat
             /\ Cardinality(UsesOf(sealed', k)) =
                   IF frame.key = k THEN Cardinality(UsesOf(sealed, k)) + 1
                   ELSE Cardinality(UsesOf(sealed, k))
  <2>1. sealed \in Seq(Frame) BY DEF DeliveryTypes
  <2>2. ASSUME NEW k
        PROVE  /\ IsFiniteSet(UsesOf(sealed, k)) /\ Cardinality(UsesOf(sealed, k)) \in Nat
               /\ Cardinality(UsesOf(Append(sealed, frame), k)) =
                     IF frame.key = k THEN Cardinality(UsesOf(sealed, k)) + 1
                     ELSE Cardinality(UsesOf(sealed, k))
    BY <1>3, <2>1, UsesOfAppend
  <2> QED BY <1>1, <2>2, Zenon
<1>7. epoch.last = Cardinality(UsesOf(sealed, frame.key)) /\ frame.key \in 1 .. Len(begun)
  BY <1>2, <1>3 DEF StoreInv, KeysSound
<1>8. KeysSound'
  <2>1. ASSUME NEW i \in DOMAIN epochs'
        PROVE  /\ epochs'[i].key \in 1 .. Len(begun')
               /\ epochs'[i].last = Cardinality(UsesOf(sealed', epochs'[i].key))
    <3>1. epochs[i].key \in 1 .. Len(begun)
          /\ epochs[i].last = Cardinality(UsesOf(sealed, epochs[i].key))
      BY <1>5 DEF StoreInv, KeysSound
    <3>2. epochs[i].key = frame.key <=> i = m
      BY <1>2, <1>3, <1>5 DEF StoreInv, KeysSound
    <3> QED BY <1>1, <1>5, <1>6, <3>1, <3>2
  <2>2. \A i, j \in DOMAIN epochs' : epochs'[i].key = epochs'[j].key => i = j
    BY <1>5 DEF StoreInv, KeysSound
  <2>3. ASSUME NEW n \in DOMAIN sealed' PROVE sealed'[n].key \in 1 .. Len(begun')
    BY <1>1, <1>4, <1>7, <2>3 DEF StoreInv, KeysSound
  <2> QED BY <2>1, <2>2, <2>3 DEF KeysSound
<1>9. CountersDense'
  <2>1. ASSUME NEW n \in DOMAIN sealed
        PROVE  sealed'[n].counter =
                 Cardinality({i \in 1 .. n : sealed'[i].key = sealed'[n].key})
    <3>1. {i \in 1 .. n : sealed'[i].key = sealed'[n].key}
            = {i \in 1 .. n : sealed[i].key = sealed[n].key}
      BY <1>4, <2>1
    <3> QED BY <1>4, <3>1 DEF StoreInv, CountersDense
  <2>2. LET n == Len(sealed) + 1
        IN  sealed'[n].counter = Cardinality({i \in 1 .. n : sealed'[i].key = sealed'[n].key})
    <3>1. {i \in 1 .. Len(sealed) + 1 : sealed'[i].key = sealed'[Len(sealed) + 1].key}
            = UsesOf(sealed', frame.key)
      BY <1>4 DEF UsesOf
    <3> QED BY <1>3, <1>4, <1>6, <1>7, <3>1
  <2>3. \A n \in DOMAIN sealed' : n \in DOMAIN sealed \/ n = Len(sealed) + 1
    BY <1>4
  <2> QED BY <2>1, <2>2, <2>3 DEF CountersDense
<1>10. PoolSound' /\ PrekeyOnce'
  BY <1>1, <1>5 DEF StoreInv, PoolSound, PrekeyOnce
<1>11. ReserveHasEpoch'
  <2>1. epochs' # << >> BY <1>2, <1>5
  <2> QED BY <2>1 DEF ReserveHasEpoch
<1> QED BY <1>1, <1>3, <1>4, <1>5, <1>8, <1>9, <1>10, <1>11 DEF StoreInv

-----------------------------------------------------------------------------
(* The outbox and the device.                                                *)

(* n frames are written and the rest is kept: nothing is repeated or lost.    *)
LEMMA WriteKeeps ==
    ASSUME DeliveryInv, NEW n \in 0 .. Len(outbox), Written(n),
           outbox' = SubSeq(outbox, n + 1, Len(outbox)), queued' = queued, sealed' = sealed
    PROVE  /\ outbox' \in Seq(Frame) /\ wire' \in Seq(Frame) /\ sent' \in Seq(Frame)
           /\ FlushExactlyOnce'
           /\ ToSet(outbox') \subseteq ToSet(sealed') /\ ToSet(wire') \subseteq ToSet(sealed')
<1> DEFINE a == SubSeq(outbox, 1, n)
           b == SubSeq(outbox, n + 1, Len(outbox))
<1>1. outbox \in Seq(Frame) /\ wire \in Seq(Frame) /\ sent \in Seq(Frame)
  BY DEF DeliveryInv, DeliveryTypes
<1>2. /\ a \in Seq(Frame) /\ b \in Seq(Frame) /\ a \o b = outbox
      /\ ToSet(a) \subseteq ToSet(outbox) /\ ToSet(b) \subseteq ToSet(outbox)
  BY <1>1, Cut
<1>3. wire' = wire \o a /\ sent' = sent \o a /\ outbox' = b
  BY DEF Written
<1> HIDE DEF a, b
<1>4. (sent \o a) \o b = sent \o (a \o b)
  <2>1. sent \in Seq(Frame) /\ a \in Seq(Frame) /\ b \in Seq(Frame)
    BY <1>1, <1>2
  <2> QED BY <2>1, ConcatAssociative, SMTT(30)
<1>5. FlushExactlyOnce'
  BY <1>2, <1>3, <1>4 DEF DeliveryInv, FlushExactlyOnce
<1>6. /\ wire' \in Seq(Frame) /\ sent' \in Seq(Frame)
      /\ ToSet(wire') = ToSet(wire) \cup ToSet(a)
  BY <1>1, <1>2, <1>3, ConcatProperties, ToSetOfConcat
<1> QED BY <1>2, <1>3, <1>5, <1>6 DEF DeliveryInv, FramesSealed

(* Flush writes all or, before the connection fails, some of the frames.      *)
LEMMA FlushKeeps ==
    ASSUME DeliveryInv,
           \/ Flush
           \/ Written(Len(outbox)) /\ outbox' = << >>,
           queued' = queued, sealed' = sealed
    PROVE  /\ outbox' \in Seq(Frame) /\ wire' \in Seq(Frame) /\ sent' \in Seq(Frame)
           /\ FlushExactlyOnce'
           /\ ToSet(outbox') \subseteq ToSet(sealed') /\ ToSet(wire') \subseteq ToSet(sealed')
<1>1. Len(outbox) \in Nat
  BY LenProperties DEF DeliveryInv, DeliveryTypes
<1>2. CASE Written(Len(outbox)) /\ outbox' = << >>
  <2>1. SubSeq(outbox, Len(outbox) + 1, Len(outbox)) = << >>
    BY <1>1, SubSeqEmpty
  <2>2. Len(outbox) \in 0 .. Len(outbox) BY <1>1
  <2> QED BY <1>2, <2>1, <2>2, WriteKeeps
<1>3. CASE \E n \in 0 .. Len(outbox) - 1 :
              Written(n) /\ outbox' = SubSeq(outbox, n + 1, Len(outbox))
  <2>1. PICK n \in 0 .. Len(outbox) - 1 :
           Written(n) /\ outbox' = SubSeq(outbox, n + 1, Len(outbox))
    BY <1>3
  <2>2. n \in 0 .. Len(outbox) BY <1>1
  <2> QED BY <2>1, <2>2, WriteKeeps
<1> QED BY <1>2, <1>3 DEF Flush

(* The mailbox grows at its end, which changes nothing for the device.        *)
LEMMA DeviceQuiet ==
    ASSUME DeliveryInv, UNCHANGED device,
           \A i \in 1 .. Len(mailbox) : mailbox'[i] = mailbox[i]
    PROVE  DeviceExact'
<1>1. applied \in Nat /\ Len(mailbox) \in Nat /\ applied <= Len(mailbox)
  BY LenProperties DEF DeliveryInv, DeliveryTypes
<1>2. \A i \in 1 .. applied : mailbox'[i] = mailbox[i]
  BY <1>1
<1> QED BY <1>2 DEF DeliveryInv, DeviceExact, device

(* A frame in sequence is committed; the first one that is not is the reason  *)
(* to reconcile.                                                             *)
LEMMA ApplyKeeps ==
    ASSUME DeliveryInv, ApplyFrame
    PROVE  /\ applied' \in Nat /\ applied' <= Len(mailbox') /\ counter' \in Nat
           /\ reconcile' \in {"clean", "required", "in_progress", "completed"}
           /\ DeviceExact'
<1>1. /\ applied < Len(mailbox) /\ applied' = applied + 1 /\ mailbox' = mailbox
      /\ \/ /\ reconcile # "required" /\ mailbox[applied + 1].counter = counter + 1
            /\ counter' = counter + 1 /\ reconcile' = reconcile
         \/ /\ ~(reconcile # "required" /\ mailbox[applied + 1].counter = counter + 1)
            /\ reconcile' = "required" /\ counter' = counter
  BY DEF ApplyFrame, line
<1>2. /\ applied \in Nat /\ counter \in Nat /\ Len(mailbox) \in Nat
      /\ reconcile \in {"clean", "required", "in_progress", "completed"}
  BY LenProperties DEF DeliveryInv, DeliveryTypes
<1>3. \A i \in 1 .. applied' : i \in 1 .. applied \/ i = applied + 1
  BY <1>1, <1>2
<1>4. 1 .. applied \subseteq 1 .. applied' /\ applied + 1 \in 1 .. applied'
  BY <1>1, <1>2
<1>5. ASSUME reconcile' = "clean"
      PROVE  counter' = applied' /\ \A i \in 1 .. applied' : mailbox'[i].counter = i
  BY <1>1, <1>2, <1>3, <1>5 DEF DeliveryInv, DeviceExact
<1>6. ASSUME reconcile' # "clean" PROVE \E i \in 1 .. applied' : mailbox'[i].counter # i
  <2>1. CASE reconcile # "clean"
    BY <1>1, <1>4, <2>1 DEF DeliveryInv, DeviceExact
  <2>2. CASE reconcile = "clean"
    <3>1. counter = applied BY <2>2 DEF DeliveryInv, DeviceExact
    <3>2. mailbox[applied + 1].counter # applied + 1 BY <1>1, <1>6, <2>2, <3>1
    <3> QED BY <1>1, <1>4, <3>2
  <2> QED BY <2>1, <2>2
<1> QED BY <1>1, <1>2, <1>5, <1>6 DEF DeviceExact

-----------------------------------------------------------------------------
LEMMA DeliveryInit == Init => DeliveryInv
<1> SUFFICES ASSUME Init PROVE DeliveryInv
  OBVIOUS
<1>1. DeliveryTypes
  BY DEF Init, DeliveryTypes, Idle, NoFrame, Frame, Places
<1>2. StoreInv
  BY DEF Init, StoreInv, KeysSound, CountersDense, ReserveHasEpoch, PoolSound, PrekeyOnce,
     IsInjective, ToSet, Idle
<1>3. FlushExactlyOnce
  BY DEF Init, FlushExactlyOnce
<1>4. FramesSealed
  BY DEF Init, FramesSealed, ToSet, Idle
<1>5. DeviceExact
  BY DEF Init, DeviceExact
<1> QED BY <1>1, <1>2, <1>3, <1>4, <1>5 DEF DeliveryInv

(* A step of a router that writes no frame: it goes to another place, and     *)
(* nothing but the event count and the overflow mark changes besides.         *)
LEMMA RouterMoves ==
    ASSUME DeliveryInv, NEW r \in Routers, NEW place \in Places \ {"enqueue"},
           router' = [router EXCEPT ![r] = At(place)],
           place = "reserve" => epochs # << >>,
           UNCHANGED <<pool, consumed, epochs, begun, sealed, outbox, wire, sent, mailbox,
                       device, queued>>
    PROVE  DeliveryInv'
<1>1. /\ router'[r].at = place /\ router' \in [Routers -> [at : Places, frame : Frame]]
      /\ \A x \in Routers : x # r => router'[x] = router[x]
  BY DEF DeliveryInv, DeliveryTypes, At, NoFrame, Frame
<1>2. DeliveryTypes'
  BY <1>1 DEF DeliveryInv, DeliveryTypes, device
<1>3. ReserveHasEpoch'
  BY <1>1 DEF DeliveryInv, StoreInv, ReserveHasEpoch
<1>4. StoreInv'
  BY <1>3, StoreQuiet DEF DeliveryInv
<1>5. FlushExactlyOnce' /\ DeviceExact'
  BY DEF DeliveryInv, FlushExactlyOnce, DeviceExact, device
<1>6. FramesSealed'
  BY <1>1 DEF DeliveryInv, FramesSealed
<1> QED BY <1>2, <1>4, <1>5, <1>6 DEF DeliveryInv

LEMMA DeliveryStep == DeliveryInv /\ [Next]_vars => DeliveryInv'
<1> SUFFICES ASSUME DeliveryInv, [Next]_vars PROVE DeliveryInv'
  OBVIOUS
<1>0. DeliveryTypes /\ StoreInv
  BY DEF DeliveryInv
<1>1. CASE UNCHANGED vars
  <2>1. UNCHANGED <<pool, consumed, epochs, begun, sealed, router>>
    BY <1>1 DEF vars, store
  <2>2. StoreInv'
    BY <1>0, <2>1, StoreQuiet DEF StoreInv, ReserveHasEpoch
  <2> QED BY <1>1, <2>2 DEF vars, store, line, device, DeliveryInv, DeliveryTypes,
             FlushExactlyOnce, FramesSealed, DeviceExact
<1>2. ASSUME NEW b \in DOMAIN Batches, UploadPrekeys(b) PROVE DeliveryInv'
  <2>1. UNCHANGED <<epochs, begun, router, outbox, line, device, sealed, queued>>
    BY <1>2 DEF UploadPrekeys
  <2>2. pool' \in Seq(Prekeys) /\ StoreInv'
    BY <1>0, <1>2, UploadKeeps
  <2> QED BY <2>1, <2>2 DEF line, device, DeliveryInv, DeliveryTypes, FlushExactlyOnce,
             FramesSealed, DeviceExact
<1>3. ASSUME NEW r \in Routers, RouteEvent(r) PROVE DeliveryInv'
  <2> DEFINE place == IF epochs = << >> THEN "consume" ELSE "reserve"
  <2>1. /\ router' = [router EXCEPT ![r] = At(place)]
        /\ UNCHANGED <<store, outbox, line, device, sealed, queued>>
    BY <1>3, Zenon DEF RouteEvent
  <2>2. place \in Places \ {"enqueue"} /\ (place = "reserve" => epochs # << >>)
    BY DEF Places
  <2> HIDE DEF place
  <2> QED BY <2>1, <2>2, RouterMoves DEF store, line
<1>4. ASSUME NEW r \in Routers, ConsumePrekey(r) PROVE DeliveryInv'
  <2>1. CASE pool = << >>
    <3>1. /\ router' = [router EXCEPT ![r] = At("flush")]
          /\ UNCHANGED <<store, outbox, line, device, sealed, queued>>
      BY <1>4, <2>1 DEF ConsumePrekey
    <3>2. "flush" \in Places \ {"enqueue"} BY DEF Places
    <3> QED BY <3>1, <3>2, RouterMoves DEF store, line
  <2>2. CASE pool # << >>
    <3>1. /\ router' = [router EXCEPT ![r] = At("reserve")]
          /\ UNCHANGED <<outbox, line, device, sealed, queued>>
      BY <1>4, <2>2 DEF ConsumePrekey
    <3>2. /\ pool' \in Seq(Prekeys) /\ begun' \in Seq(Prekeys) /\ epochs' \in Seq(Epoch)
          /\ StoreInv'
      BY <1>0, <1>4, <2>2, ConsumeKeeps
    <3>3. /\ router'[r].at = "reserve" /\ router' \in [Routers -> [at : Places, frame : Frame]]
          /\ \A x \in Routers : x # r => router'[x] = router[x]
      BY <1>0, <3>1 DEF DeliveryTypes, At, NoFrame, Frame, Places
    <3>4. DeliveryTypes'
      BY <1>0, <3>1, <3>2, <3>3 DEF DeliveryTypes, line, device
    <3>5. FlushExactlyOnce' /\ DeviceExact'
      BY <3>1 DEF DeliveryInv, FlushExactlyOnce, DeviceExact, line, device
    <3>6. FramesSealed'
      BY <3>1, <3>3 DEF DeliveryInv, FramesSealed, line
    <3> QED BY <3>2, <3>4, <3>5, <3>6 DEF DeliveryInv
  <2> QED BY <2>1, <2>2
<1>5. ASSUME NEW r \in Routers, ReserveNextFrameCounter(r) PROVE DeliveryInv'
  <2>1. UNCHANGED <<pool, begun, outbox, line, device, queued>>
    BY <1>5 DEF ReserveNextFrameCounter
  <2>2. epochs' \in Seq(Epoch) /\ sealed' \in Seq(Frame) /\ StoreInv'
    BY <1>0, <1>5, ReserveKeeps
  <2>3. PICK frame \in Frame :
           /\ sealed' = Append(sealed, frame)
           /\ router' = [router EXCEPT ![r] = [at |-> "enqueue", frame |-> frame]]
    BY <1>0, <1>5, ReserveKeeps
  <2>4. ToSet(sealed') = ToSet(sealed) \cup {frame}
    BY <1>0, <2>3, ToSetOfAppend DEF DeliveryTypes
  <2>5. /\ router'[r].frame = frame /\ router' \in [Routers -> [at : Places, frame : Frame]]
        /\ \A x \in Routers : x # r => router'[x] = router[x]
    BY <1>0, <2>3 DEF DeliveryTypes, Places
  <2>6. DeliveryTypes'
    BY <1>0, <2>1, <2>2, <2>5 DEF DeliveryTypes, line, device
  <2>7. FlushExactlyOnce' /\ DeviceExact'
    BY <2>1 DEF DeliveryInv, FlushExactlyOnce, DeviceExact, line, device
  <2>8. FramesSealed'
    BY <2>1, <2>4, <2>5 DEF DeliveryInv, FramesSealed, line
  <2> QED BY <2>2, <2>6, <2>7, <2>8 DEF DeliveryInv
<1>6. ASSUME NEW r \in Routers, Enqueue(r) PROVE DeliveryInv'
  <2>1. /\ router[r].at = "enqueue" /\ router' = [router EXCEPT ![r] = At("flush")]
        /\ UNCHANGED <<store, line, device, sealed>>
        /\ \/ UNCHANGED <<outbox, queued>>
           \/ /\ outbox' = Append(outbox, router[r].frame)
              /\ queued' = Append(queued, router[r].frame)
    BY <1>6, Zenon DEF Enqueue
  <2>2. CASE UNCHANGED <<outbox, queued>>
    <3>1. "flush" \in Places \ {"enqueue"} BY DEF Places
    <3> QED BY <2>1, <2>2, <3>1, RouterMoves DEF store, line
  <2>3. CASE /\ outbox' = Append(outbox, router[r].frame)
             /\ queued' = Append(queued, router[r].frame)
    <3> DEFINE f == router[r].frame
    <3>1. f \in Frame /\ f \in ToSet(sealed)
      BY <1>0, <2>1 DEF DeliveryTypes, DeliveryInv, FramesSealed
    <3>2. outbox \in Seq(Frame) /\ queued \in Seq(Frame) /\ sent \in Seq(Frame)
      BY <1>0 DEF DeliveryTypes
    <3> HIDE DEF f
    <3>3. outbox' = Append(outbox, f) /\ queued' = Append(queued, f)
      BY <2>3 DEF f
    <3>4. outbox' \in Seq(Frame) /\ queued' \in Seq(Frame)
      BY <3>1, <3>2, <3>3, AppendProperties
    <3>5. ToSet(outbox') = ToSet(outbox) \cup {f}
      BY <3>1, <3>2, <3>3, ToSetOfAppend
    <3>6. FlushExactlyOnce'
      <4>1. <<f>> \in Seq(Frame) BY <3>1
      <4>2. outbox' = outbox \o <<f>> /\ queued' = queued \o <<f>>
        BY <3>1, <3>2, <3>3, AppendIsConcat
      <4>3. sent \o (outbox \o <<f>>) = (sent \o outbox) \o <<f>>
        BY <3>2, <4>1, ConcatAssociative
      <4>4. sent' = sent /\ sent \o outbox = queued
        BY <2>1 DEF line, DeliveryInv, FlushExactlyOnce
      <4> QED BY <4>2, <4>3, <4>4, Zenon DEF FlushExactlyOnce
    <3>7. /\ router'[r].at = "flush" /\ router' \in [Routers -> [at : Places, frame : Frame]]
          /\ \A x \in Routers : x # r => router'[x] = router[x]
      BY <1>0, <2>1 DEF DeliveryTypes, At, NoFrame, Frame, Places
    <3>8. DeliveryTypes'
      BY <1>0, <2>1, <3>4, <3>7 DEF DeliveryTypes, store, line, device
    <3>9. ReserveHasEpoch'
      BY <1>0, <2>1, <3>7 DEF StoreInv, ReserveHasEpoch, store
    <3>10. StoreInv'
      BY <1>0, <2>1, <3>9, StoreQuiet DEF store
    <3>11. DeviceExact'
      BY <2>1 DEF DeliveryInv, DeviceExact, line, device
    <3>12. FramesSealed'
      BY <2>1, <3>1, <3>5, <3>7 DEF DeliveryInv, FramesSealed, line
    <3> QED BY <3>6, <3>8, <3>10, <3>11, <3>12 DEF DeliveryInv
  <2> QED BY <2>1, <2>2, <2>3
<1>7. ASSUME UNCHANGED <<store, mailbox, device, sealed, queued>>,
             Flush \/ (Written(Len(outbox)) /\ outbox' = << >>),
             \/ router' = router
             \/ \E r \in Routers : router' = [router EXCEPT ![r] = Idle]
      PROVE  DeliveryInv'
  <2>1. /\ outbox' \in Seq(Frame) /\ wire' \in Seq(Frame) /\ sent' \in Seq(Frame)
        /\ FlushExactlyOnce'
        /\ ToSet(outbox') \subseteq ToSet(sealed') /\ ToSet(wire') \subseteq ToSet(sealed')
    <3>1. queued' = queued /\ sealed' = sealed BY <1>7
    <3> QED BY <1>7, <3>1, FlushKeeps
  <2>2. /\ router' \in [Routers -> [at : Places, frame : Frame]]
        /\ \A x \in Routers : router'[x] = router[x] \/ router'[x].at = "idle"
    <3>1. /\ router \in [Routers -> [at : Places, frame : Frame]]
          /\ Idle \in [at : Places, frame : Frame] /\ Idle.at = "idle"
      BY <1>0 DEF DeliveryTypes, Idle, NoFrame, Frame, Places
    <3> QED BY <1>7, <3>1
  <2>3. DeliveryTypes'
    BY <1>0, <1>7, <2>1, <2>2 DEF DeliveryTypes, store, device
  <2>4. ReserveHasEpoch'
    BY <1>0, <1>7, <2>2 DEF StoreInv, ReserveHasEpoch, store
  <2>5. StoreInv'
    BY <1>0, <1>7, <2>4, StoreQuiet DEF store
  <2>6. DeviceExact'
    BY <1>7 DEF DeliveryInv, DeviceExact, device
  <2>7. FramesSealed'
    BY <1>7, <2>1, <2>2 DEF DeliveryInv, FramesSealed
  <2> QED BY <2>1, <2>3, <2>5, <2>6, <2>7 DEF DeliveryInv
<1>8. ASSUME NEW r \in Routers, RouterFlush(r) PROVE DeliveryInv'
  BY <1>7, <1>8, Zenon DEF RouterFlush
<1>9. CASE FlushRelayOutboxes
  <2>1. /\ UNCHANGED <<store, router, mailbox, device, sealed, queued>>
        /\ Flush \/ (Written(Len(outbox)) /\ outbox' = << >>)
    BY <1>9, Zenon DEF FlushRelayOutboxes
  <2> QED BY <1>7, <2>1
<1>10. CASE RelayStores
  <2>1. /\ wire # << >> /\ mailbox' = Append(mailbox, Head(wire)) /\ wire' = Tail(wire)
        /\ UNCHANGED <<store, router, outbox, sent, device, sealed, queued>>
    BY <1>10 DEF RelayStores
  <2>2. /\ Head(wire) \in Frame /\ Head(wire) \in ToSet(wire)
        /\ wire' \in Seq(Frame) /\ ToSet(wire') \subseteq ToSet(wire)
    BY <1>0, <2>1, HeadAndTail DEF DeliveryTypes
  <2>3. /\ mailbox' \in Seq(Frame) /\ Len(mailbox') = Len(mailbox) + 1
        /\ \A i \in 1 .. Len(mailbox) : mailbox'[i] = mailbox[i]
        /\ ToSet(mailbox') = ToSet(mailbox) \cup {Head(wire)}
    BY <1>0, <2>1, <2>2, AppendProperties, ToSetOfAppend DEF DeliveryTypes
  <2>4. applied \in Nat /\ Len(mailbox) \in Nat /\ applied <= Len(mailbox)
    BY <1>0, LenProperties DEF DeliveryTypes
  <2>5. DeliveryTypes'
    BY <1>0, <2>1, <2>2, <2>3, <2>4 DEF DeliveryTypes, store, device
  <2>6. StoreInv'
    BY <1>0, <2>1, StoreQuiet DEF StoreInv, ReserveHasEpoch, store
  <2>7. DeviceExact'
    BY <2>1, <2>3, DeviceQuiet
  <2>8. FlushExactlyOnce'
    BY <2>1 DEF DeliveryInv, FlushExactlyOnce
  <2>9. FramesSealed'
    BY <2>1, <2>2, <2>3 DEF DeliveryInv, FramesSealed
  <2> QED BY <2>5, <2>6, <2>7, <2>8, <2>9 DEF DeliveryInv
<1>11. CASE LinkDown \/ Connect
  <2>1. /\ wire' = wire \/ wire' = << >>
        /\ UNCHANGED <<store, router, outbox, sent, mailbox, device, sealed, queued>>
    BY <1>11 DEF LinkDown, Connect
  <2>2. wire' \in Seq(Frame) /\ ToSet(wire') \subseteq ToSet(wire)
    <3>1. wire \in Seq(Frame) /\ << >> \in Seq(Frame) BY <1>0 DEF DeliveryTypes
    <3>2. ToSet(<< >>) = {} BY DEF ToSet
    <3> QED BY <2>1, <3>1, <3>2
  <2>3. DeliveryTypes'
    BY <1>0, <2>1, <2>2 DEF DeliveryTypes, store, device
  <2>4. StoreInv'
    BY <1>0, <2>1, StoreQuiet DEF StoreInv, ReserveHasEpoch, store
  <2>5. DeviceExact' /\ FlushExactlyOnce'
    BY <2>1 DEF DeliveryInv, DeviceExact, FlushExactlyOnce, device
  <2>6. FramesSealed'
    BY <2>1, <2>2 DEF DeliveryInv, FramesSealed
  <2> QED BY <2>3, <2>4, <2>5, <2>6 DEF DeliveryInv
<1>12. ASSUME UNCHANGED <<store, router, outbox, line, sealed, queued>>,
              applied' \in Nat, applied' <= Len(mailbox'), counter' \in Nat,
              reconcile' \in {"clean", "required", "in_progress", "completed"},
              DeviceExact'
       PROVE  DeliveryInv'
  <2>1. DeliveryTypes'
    BY <1>0, <1>12 DEF DeliveryTypes, store, line
  <2>2. StoreInv'
    BY <1>0, <1>12, StoreQuiet DEF StoreInv, ReserveHasEpoch, store
  <2>3. FlushExactlyOnce' /\ FramesSealed'
    BY <1>12 DEF DeliveryInv, FlushExactlyOnce, FramesSealed, line
  <2> QED BY <1>12, <2>1, <2>2, <2>3 DEF DeliveryInv
<1>13. CASE ApplyFrame
  <2>1. UNCHANGED <<store, router, outbox, line, sealed, queued>>
    BY <1>13 DEF ApplyFrame
  <2> QED BY <1>12, <1>13, <2>1, ApplyKeeps
<1>14. CASE StartReconcile \/ CompleteReconcile
  <2>1. /\ UNCHANGED <<store, router, outbox, line, sealed, queued>>
        /\ applied' = applied /\ counter' \in {counter, 0}
        /\ reconcile # "clean" /\ reconcile' \in {"in_progress", "completed"}
    BY <1>14 DEF StartReconcile, CompleteReconcile
  <2>2. /\ applied' \in Nat /\ applied' <= Len(mailbox') /\ counter' \in Nat
        /\ reconcile' \in {"clean", "required", "in_progress", "completed"}
    BY <1>0, <2>1 DEF DeliveryTypes, line
  <2>3. DeviceExact'
    BY <2>1 DEF DeliveryInv, DeviceExact, line
  <2> QED BY <1>12, <2>1, <2>2, <2>3
<1>15. CASE Restart
  <2>1. /\ pool' = << >> /\ consumed' = {} /\ epochs' = << >>
        /\ router' = [r \in Routers |-> Idle]
        /\ outbox' = << >> /\ queued' = sent
        /\ UNCHANGED <<begun, wire, mailbox, sent, device, sealed>>
    BY <1>15 DEF Restart
  <2>2. DeliveryTypes'
    BY <1>0, <2>1 DEF DeliveryTypes, device, Idle, NoFrame, Frame, Places
  <2>3. KeysSound' /\ CountersDense' /\ ReserveHasEpoch' /\ PoolSound' /\ PrekeyOnce'
    BY <1>0, <2>1 DEF StoreInv, KeysSound, CountersDense, ReserveHasEpoch, PoolSound,
       PrekeyOnce, IsInjective, ToSet, Idle
  <2>4. FlushExactlyOnce'
    BY <1>0, <2>1, ConcatEmptySeq DEF DeliveryTypes, FlushExactlyOnce
  <2>5. DeviceExact'
    BY <2>1 DEF DeliveryInv, DeviceExact, device
  <2>6. FramesSealed'
    BY <2>1, SMTT(30) DEF DeliveryInv, FramesSealed, Idle, ToSet
  <2> QED BY <2>2, <2>3, <2>4, <2>5, <2>6 DEF DeliveryInv, StoreInv
<1> QED BY <1>1, <1>2, <1>3, <1>4, <1>5, <1>6, <1>8, <1>9, <1>10, <1>11, <1>13, <1>14, <1>15
    DEF Next, RouterStep

LEMMA DeliveryInvariant == Spec => []DeliveryInv
BY DeliveryInit, DeliveryStep, PTL DEF Spec

(* No nonce and no prekey serves twice: whatever sessions route at the same   *)
(* time and whichever batches are uploaded, the frames under an epoch key     *)
(* carry 1, 2, 3, ... and a prekey begins one epoch (relay_prekey.go,         *)
(* UploadPrekeys, ConsumePrekey, ReserveNextFrameCounter).                    *)
THEOREM DeliveryEpochsSound == Spec => []EpochsSound
<1>1. DeliveryInv => EpochsSound
  BY DEF DeliveryInv, StoreInv, EpochsSound
<1> QED BY <1>1, DeliveryInvariant, PTL

(* A flush cut short by the connection repeats, loses and reorders nothing    *)
(* the outbox accepted (OutboxManager.Enqueue and Flush).                     *)
THEOREM DeliveryFlushExactlyOnce == Spec => []FlushExactlyOnce
<1>1. DeliveryInv => FlushExactlyOnce
  BY DEF DeliveryInv
<1> QED BY <1>1, DeliveryInvariant, PTL

(* With one epoch begun, the n-th frame encrypted has the counter n.          *)
LEMMA OneEpochCounts ==
    ASSUME DeliveryInv, Len(begun) <= 1, NEW n \in DOMAIN sealed
    PROVE  sealed[n] = [key |-> 1, counter |-> n]
<1>1. /\ sealed \in Seq(Frame) /\ DOMAIN sealed = 1 .. Len(sealed) /\ Len(sealed) \in Nat
      /\ Len(begun) \in Nat
  BY LenProperties DEF DeliveryInv, DeliveryTypes
<1>2. \A i \in 1 .. n : sealed[i].key = 1
  <2>1. \A i \in DOMAIN sealed : sealed[i].key \in 1 .. Len(begun)
    BY DEF DeliveryInv, StoreInv, KeysSound
  <2> QED BY <1>1, <2>1
<1>3. {i \in 1 .. n : sealed[i].key = sealed[n].key} = 1 .. n
  BY <1>1, <1>2
<1>4. Cardinality(1 .. n) = n
  BY <1>1, FS_Interval
<1>5. sealed[n].counter = n
  BY <1>3, <1>4 DEF DeliveryInv, StoreInv, CountersDense
<1>6. sealed[n] \in Frame /\ sealed[n].key = 1
  BY <1>1, <1>2, ElementOfSeq
<1> QED BY <1>5, <1>6 DEF Frame

(* As long as one epoch has been begun the device reconciles exactly when a   *)
(* frame did not reach it in its turn, for any number of sessions, frames     *)
(* that overtake each other, full outboxes and broken connections             *)
(* (DeliveryState.ApplyFrame, relay_reconcile.go).                            *)
THEOREM DeliveryReconcileExact == Spec => []ReconcileExact
<1>1. DeliveryInv => ReconcileExact
  <2> SUFFICES ASSUME DeliveryInv, Len(begun) <= 1 PROVE NoSpuriousReconcile /\ LossIsNoticed
    BY DEF ReconcileExact
  <2>0. /\ mailbox \in Seq(Frame) /\ sealed \in Seq(Frame)
        /\ applied \in Nat /\ applied <= Len(mailbox)
        /\ Len(mailbox) \in Nat /\ DOMAIN mailbox = 1 .. Len(mailbox)
        /\ Len(sealed) \in Nat /\ DOMAIN sealed = 1 .. Len(sealed)
    BY LenProperties DEF DeliveryInv, DeliveryTypes
  <2>1. \A n \in DOMAIN sealed : sealed[n] = [key |-> 1, counter |-> n]
    BY OneEpochCounts
  <2>2. ASSUME IsPrefix(mailbox, sealed) PROVE reconcile = "clean" /\ counter = applied
    <3>1. Len(mailbox) <= Len(sealed)
          /\ SubSeq(mailbox, 1, Len(mailbox)) = SubSeq(sealed, 1, Len(mailbox))
      BY <2>2 DEF IsPrefix
    <3>2. ASSUME NEW i \in 1 .. applied PROVE mailbox[i].counter = i
      <4>1. i \in 1 .. Len(mailbox) /\ i \in DOMAIN sealed BY <2>0, <3>1
      <4>2. mailbox[i] = sealed[i]
        <5>1. SubSeq(mailbox, 1, Len(mailbox))[i] = mailbox[i] BY <2>0, <4>1
        <5>2. SubSeq(sealed, 1, Len(mailbox))[i] = sealed[i] BY <2>0, <3>1, <4>1
        <5> QED BY <3>1, <5>1, <5>2
      <4> QED BY <2>1, <4>1, <4>2
    <3> QED BY <3>2 DEF DeliveryInv, DeviceExact
  <2>3. ASSUME reconcile = "clean"
        PROVE  SubSeq(mailbox, 1, applied) = SubSeq(sealed, 1, applied)
    <3>1. \A i \in 1 .. applied : mailbox[i].counter = i
      BY <2>3 DEF DeliveryInv, DeviceExact
    <3>2. ASSUME NEW i \in 1 .. applied PROVE i \in DOMAIN sealed /\ mailbox[i] = sealed[i]
      <4>1. i \in DOMAIN mailbox BY <2>0
      <4>2. mailbox[i] \in ToSet(sealed)
        BY <4>1 DEF DeliveryInv, FramesSealed, ToSet
      <4>3. PICK j \in DOMAIN sealed : mailbox[i] = sealed[j]
        BY <4>2 DEF ToSet
      <4>4. j = i BY <2>1, <3>1, <4>3
      <4> QED BY <4>3, <4>4
    <3> DEFINE a == SubSeq(mailbox, 1, applied)
               b == SubSeq(sealed, 1, applied)
    <3>3. a \in Seq(Frame) /\ Len(a) = applied /\ \A i \in 1 .. applied : a[i] = mailbox[i]
      <4>1. \A i \in 1 .. applied : mailbox[i] \in Frame BY <2>0, ElementOfSeq
      <4> QED BY <2>0, <4>1, SubSeqProperties
    <3>4. b \in Seq(Frame) /\ Len(b) = applied /\ \A i \in 1 .. applied : b[i] = sealed[i]
      <4>1. \A i \in 1 .. applied : sealed[i] \in Frame BY <2>0, <3>2, ElementOfSeq
      <4> QED BY <2>0, <4>1, SubSeqProperties
    <3> HIDE DEF a, b
    <3>5. a = b
      BY <2>0, <3>2, <3>3, <3>4, SeqEqual
    <3> QED BY <3>5 DEF a, b
  <2> QED BY <2>2, <2>3 DEF NoSpuriousReconcile, LossIsNoticed
<1> QED BY <1>1, DeliveryInvariant, PTL
=============================================================================
