---------------------------- MODULE RequestProofs ---------------------------
(***************************************************************************)
(* Theorems about the two modules whose requests take several steps:       *)
(* Media, for any assets, requests and contestants and any size of the     *)
(* connection pool, and Identity, for any accounts, addresses, challenges, *)
(* organizations, pageants and requests.                                   *)
(*                                                                         *)
(* In both a handler writes on the strength of what it has read in an      *)
(* earlier step.  complete_upload writes a status without looking at the   *)
(* one it replaces: that is harmless because one request at a time is      *)
(* under the lock of an asset (Alone), and what that request has read is   *)
(* still so when it writes (ReadIsCurrent).  The handlers of identity.rs   *)
(* and manage.rs have no such lock, except setup: there, what they have    *)
(* read is of a kind that is never taken back (RequestInv).                *)
(***************************************************************************)
EXTENDS Media, Identity, TLAPS, FiniteSetTheorems

(* media_completion_lock: one request at a time handles an asset. *)
Alone ==
    \A p, q \in Requests :
        stage[p] \in Handling /\ stage[q] \in Handling
            /\ asset[p] = asset[q] => p = q

(* What the stage of a request says about its asset. *)
ReadIsCurrentOf(p) ==
    /\ stage[p] # "idle" => asset[p] \in Assets
    /\ stage[p] # "idle" => status[asset[p]] # None
    /\ stage[p] \in {"heading", "matching", "mismatching"} =>
            status[asset[p]] = "pending"
    /\ stage[p] = "matching" => object[asset[p]] # "none"
    /\ stage[p] = "deleting" => status[asset[p]] = "failed"

ReadIsCurrent == \A p \in Requests : ReadIsCurrentOf(p)

ReadyIsStored == \A a \in Assets : status[a] = "ready" => object[a] # "none"

ShownIsReady ==
    /\ \A row \in media : status[row[2]] = "ready"
    /\ \A c \in Contestants, a, b \in Assets :
            <<c, a, "portrait">> \in media /\ <<c, b, "portrait">> \in media
                => a = b

PoolHolds == IsFiniteSet(Holding) /\ Cardinality(Holding) <= poolSize

LockInv == Alone /\ ReadIsCurrent

IInv == TypeOK /\ LockInv /\ ReadyIsStored /\ ShownIsReady /\ PoolHolds
-----------------------------------------------------------------------------
(* Before the first request every part of the invariant holds.             *)
LEMMA MediaInit == Init => IInv
<1> SUFFICES ASSUME Init
             PROVE  IInv
  OBVIOUS
<1>1. TypeOK
  BY DEF Init, TypeOK, Stages
<1>2. LockInv /\ ReadyIsStored /\ ShownIsReady
  BY MediaAssumption DEF Init, LockInv, Alone, ReadIsCurrent,
     ReadIsCurrentOf, ReadyIsStored, ShownIsReady, Handling
<1>3. Holding = {}
  BY DEF Init, Holding, Handling
<1>4. IsFiniteSet(Holding) /\ Cardinality(Holding) = 0
  BY <1>3, FS_EmptySet
<1>5. PoolHolds
  BY <1>4, MediaAssumption DEF Init, PoolHolds
<1> QED
  BY <1>1, <1>2, <1>5 DEF IInv

(* A step of a request moves its stage alone (Leaves), sets the status of  *)
(* its asset (SetStatus) or deletes its object (DeleteObject).             *)
RequestStep(p) ==
    \/ BeginLock(p) \/ AcquireLock(p) \/ RollbackLock(p) \/ RetryLock(p)
    \/ FetchAsset(p) \/ HeadObject(p) \/ Answer(p) \/ AcquireTimeout(p)
    \/ Disconnect(p)

(* Every step is one of these.                                             *)
LEMMA MediaSteps ==
  ASSUME Next
  PROVE  \/ \E a \in Assets : CreateUploadIntent(a)
         \/ \E a \in Assets, body \in {"declared", "other"} :
                PutObject(a, body)
         \/ \E c \in Contestants, a \in Assets, slot \in Roles :
                AttachContestantMedia(c, a, slot)
         \/ \E p \in Requests, a \in Assets : Complete(p, a)
         \/ \E p \in Requests : LockDeadline(p)
         \/ \E p \in Requests : RequestStep(p)
         \/ \E p \in Requests : MarkReady(p)
         \/ \E p \in Requests : MarkFailed(p)
         \/ \E p \in Requests, deleted \in BOOLEAN : DeleteObject(p, deleted)
  BY DEF Next, Handle, BucketAnswers, RequestStep

(* A step of a request that writes nothing leaves every row as it is.      *)
LEMMA RequestKeepsRows ==
  ASSUME NEW p \in Requests, RequestStep(p)
  PROVE  UNCHANGED <<status, object, media, asset, expired, poolSize>>
  BY DEF RequestStep, BeginLock, AcquireLock, RollbackLock, RetryLock,
     FetchAsset, HeadObject, Answer, AcquireTimeout, Disconnect, Leaves, Goto

(* No step leaves the types.                                               *)
LEMMA MediaTypes ==
  ASSUME TypeOK, LockInv, [Next]_vars
  PROVE  TypeOK'
<1> USE DEF TypeOK
<1>1. CASE UNCHANGED vars
  BY <1>1 DEF vars
<1>2. ASSUME NEW a \in Assets, CreateUploadIntent(a)
      PROVE  TypeOK'
  BY <1>2 DEF CreateUploadIntent
<1>3. ASSUME NEW a \in Assets, NEW body \in {"declared", "other"},
             PutObject(a, body)
      PROVE  TypeOK'
  BY <1>3 DEF PutObject
<1>4. ASSUME NEW c \in Contestants, NEW a \in Assets, NEW slot \in Roles,
             AttachContestantMedia(c, a, slot)
      PROVE  TypeOK'
  BY <1>4 DEF AttachContestantMedia
<1>5. ASSUME NEW p \in Requests, NEW a \in Assets, Complete(p, a)
      PROVE  TypeOK'
  BY <1>5 DEF Complete, Stages
<1>6. ASSUME NEW p \in Requests, LockDeadline(p)
      PROVE  TypeOK'
  BY <1>6 DEF LockDeadline
<1>7. ASSUME NEW p \in Requests, RequestStep(p)
      PROVE  TypeOK'
  <2>1. \E to \in Stages :
            stage' = [stage EXCEPT ![p] = to]
    <3> USE DEF Leaves, Goto, Stages, Handling
    <3>1. CASE BeginLock(p) \/ AcquireLock(p)
      BY <3>1 DEF BeginLock, AcquireLock
    <3>2. CASE RetryLock(p) \/ Answer(p)
      BY <3>2 DEF RetryLock, Answer
    <3>3. CASE RollbackLock(p)
      BY <3>3 DEF RollbackLock
    <3>4. CASE FetchAsset(p)
      BY <3>4 DEF FetchAsset
    <3>5. CASE HeadObject(p)
      <4>1. asset[p] \in Assets
        BY <3>5 DEF HeadObject, LockInv, ReadIsCurrent, ReadIsCurrentOf
      <4> QED
        BY <3>5, <4>1 DEF HeadObject
    <3>6. CASE AcquireTimeout(p)
      BY <3>6 DEF AcquireTimeout
    <3>7. CASE Disconnect(p)
      BY <3>7 DEF Disconnect
    <3> QED
      BY <1>7, <3>1, <3>2, <3>3, <3>4, <3>5, <3>6, <3>7 DEF RequestStep
  <2>2. UNCHANGED <<status, object, media, asset, expired, poolSize>>
    BY <1>7, RequestKeepsRows
  <2> QED
    BY <2>1, <2>2
<1>8. ASSUME NEW p \in Requests, MarkReady(p) \/ MarkFailed(p)
      PROVE  TypeOK'
  BY <1>8 DEF MarkReady, MarkFailed, SetStatus, Goto, Stages, Handling
<1>9. ASSUME NEW p \in Requests, NEW deleted \in BOOLEAN,
             DeleteObject(p, deleted)
      PROVE  TypeOK'
  BY <1>9 DEF DeleteObject, Goto, Stages, Handling
<1> QED
  BY <1>1, <1>2, <1>3, <1>4, <1>5, <1>6, <1>7, <1>8, <1>9, MediaSteps
-----------------------------------------------------------------------------
(* The lock excludes: AcquireLock finds no other request under it, and     *)
(* what a request under it has read changes only by its own hand.          *)
LEMMA MediaLock ==
  ASSUME TypeOK, LockInv, [Next]_vars
  PROVE  LockInv'
<1> USE DEF TypeOK, LockInv, Alone, ReadIsCurrent, ReadIsCurrentOf
<1>1. CASE UNCHANGED vars
  BY <1>1 DEF vars, Handling
<1>2. ASSUME NEW a \in Assets, CreateUploadIntent(a)
      PROVE  LockInv'
  BY <1>2, MediaAssumption DEF CreateUploadIntent, Handling
<1>3. ASSUME NEW a \in Assets, NEW body \in {"declared", "other"},
             PutObject(a, body)
      PROVE  LockInv'
  BY <1>3 DEF PutObject, Handling
<1>4. ASSUME NEW c \in Contestants, NEW a \in Assets, NEW slot \in Roles,
             AttachContestantMedia(c, a, slot)
      PROVE  LockInv'
  BY <1>4 DEF AttachContestantMedia, Handling
<1>5. ASSUME NEW p \in Requests, NEW a \in Assets, Complete(p, a)
      PROVE  LockInv'
  BY <1>5 DEF Complete, Handling
<1>6. ASSUME NEW p \in Requests, LockDeadline(p)
      PROVE  LockInv'
  BY <1>6 DEF LockDeadline, Handling
<1>7. ASSUME NEW p \in Requests, RequestStep(p)
      PROVE  LockInv'
  <2>1. CASE AcquireLock(p)
    BY <2>1 DEF AcquireLock, LockFree, Leaves, Goto, Handling
  <2>2. CASE BeginLock(p) \/ RollbackLock(p) \/ RetryLock(p) \/ Answer(p)
    BY <2>2 DEF BeginLock, RollbackLock, RetryLock, Answer, Leaves, Goto,
       Handling
  <2>3. CASE FetchAsset(p)
    BY <2>3 DEF FetchAsset, Leaves, Goto, Handling
  <2>4. CASE HeadObject(p)
    BY <2>4 DEF HeadObject, Leaves, Goto, Handling
  <2>5. CASE AcquireTimeout(p)
    BY <2>5 DEF AcquireTimeout, Leaves, Goto, Handling
  <2>6. CASE Disconnect(p)
    BY <2>6 DEF Disconnect, Goto, Handling
  <2> QED
    BY <1>7, <2>1, <2>2, <2>3, <2>4, <2>5, <2>6 DEF RequestStep
<1>8. ASSUME NEW p \in Requests, MarkReady(p)
      PROVE  LockInv'
  BY <1>8, MediaAssumption DEF MarkReady, SetStatus, Goto, Handling
<1>9. ASSUME NEW p \in Requests, MarkFailed(p)
      PROVE  LockInv'
  BY <1>9, MediaAssumption DEF MarkFailed, SetStatus, Goto, Handling
<1>10. ASSUME NEW p \in Requests, NEW deleted \in BOOLEAN,
              DeleteObject(p, deleted)
       PROVE  LockInv'
  BY <1>10 DEF DeleteObject, Goto, Handling
<1> QED
  BY <1>1, <1>2, <1>3, <1>4, <1>5, <1>6, <1>7, <1>8, <1>9, <1>10,
     MediaSteps
-----------------------------------------------------------------------------
(* An object is in the bucket when its asset becomes ready, and only a     *)
(* request that found a mismatch, and so wrote 'failed', deletes one.      *)
LEMMA MediaReady ==
  ASSUME TypeOK, LockInv, ReadyIsStored, [Next]_vars
  PROVE  ReadyIsStored'
<1> USE DEF TypeOK, LockInv, ReadIsCurrent, ReadIsCurrentOf, ReadyIsStored
<1>1. CASE UNCHANGED <<status, object>>
  BY <1>1
<1>2. ASSUME NEW a \in Assets, CreateUploadIntent(a)
      PROVE  ReadyIsStored'
  BY <1>2 DEF CreateUploadIntent
<1>3. ASSUME NEW a \in Assets, NEW body \in {"declared", "other"},
             PutObject(a, body)
      PROVE  ReadyIsStored'
  BY <1>3 DEF PutObject
<1>4. ASSUME NEW p \in Requests, MarkReady(p) \/ MarkFailed(p)
      PROVE  ReadyIsStored'
  BY <1>4 DEF MarkReady, MarkFailed, SetStatus
<1>5. ASSUME NEW p \in Requests, NEW deleted \in BOOLEAN,
             DeleteObject(p, deleted)
      PROVE  ReadyIsStored'
  BY <1>5 DEF DeleteObject, Goto
<1>6. ASSUME \/ \E c \in Contestants, a \in Assets, slot \in Roles :
                    AttachContestantMedia(c, a, slot)
             \/ \E p \in Requests, a \in Assets : Complete(p, a)
             \/ \E p \in Requests : LockDeadline(p)
      PROVE  UNCHANGED <<status, object>>
  BY <1>6 DEF AttachContestantMedia, Complete, LockDeadline
<1> QED
  BY <1>1, <1>2, <1>3, <1>4, <1>5, <1>6, MediaSteps, RequestKeepsRows
     DEF vars

(* Ready and failed are never taken back.                                  *)
LEMMA MediaDecided ==
  ASSUME TypeOK, LockInv, ReadyIsStored, [Next]_vars, NEW a \in Assets
  PROVE  /\ status[a] \in {"ready", "failed"} => status'[a] = status[a]
         /\ status[a] = "ready" => object[a] # "none" /\ object'[a] # "none"
<1> USE DEF TypeOK, LockInv, ReadIsCurrent, ReadIsCurrentOf
<1> DEFINE Kept ==
      /\ status[a] \in {"ready", "failed"} => status'[a] = status[a]
      /\ status[a] = "ready" => object[a] # "none" /\ object'[a] # "none"
<1>1. CASE UNCHANGED <<status, object>>
  BY <1>1 DEF ReadyIsStored
<1>2. ASSUME NEW b \in Assets, CreateUploadIntent(b)
      PROVE  Kept
  BY <1>2, MediaAssumption DEF CreateUploadIntent, ReadyIsStored
<1>3. ASSUME NEW b \in Assets, NEW body \in {"declared", "other"},
             PutObject(b, body)
      PROVE  Kept
  BY <1>3 DEF PutObject, ReadyIsStored
<1>4. ASSUME NEW p \in Requests, MarkReady(p) \/ MarkFailed(p)
      PROVE  Kept
  BY <1>4 DEF MarkReady, MarkFailed, SetStatus, ReadyIsStored
<1>5. ASSUME NEW p \in Requests, NEW deleted \in BOOLEAN,
             DeleteObject(p, deleted)
      PROVE  Kept
  BY <1>5 DEF DeleteObject, Goto, ReadyIsStored
<1>6. ASSUME \/ \E c \in Contestants, b \in Assets, slot \in Roles :
                    AttachContestantMedia(c, b, slot)
             \/ \E p \in Requests, b \in Assets : Complete(p, b)
             \/ \E p \in Requests : LockDeadline(p)
      PROVE  UNCHANGED <<status, object>>
  BY <1>6 DEF AttachContestantMedia, Complete, LockDeadline
<1> QED
  BY <1>1, <1>2, <1>3, <1>4, <1>5, <1>6, MediaSteps, RequestKeepsRows
     DEF vars

(* Only a ready asset is attached, and a portrait replaces the one before. *)
LEMMA MediaShown ==
  ASSUME TypeOK, LockInv, ReadyIsStored, ShownIsReady, [Next]_vars
  PROVE  ShownIsReady'
<1>1. \A row \in media : row[2] \in Assets /\ status'[row[2]] = "ready"
  BY MediaDecided DEF TypeOK, ShownIsReady
<1>2. CASE media' = media
  BY <1>1, <1>2 DEF ShownIsReady
<1>3. ASSUME NEW c \in Contestants, NEW a \in Assets, NEW slot \in Roles,
             AttachContestantMedia(c, a, slot)
      PROVE  ShownIsReady'
  <2>1. /\ status[a] = "ready" /\ status' = status
        /\ media' = {row \in media : slot = "portrait" => row[1] # c
                                               \/ row[3] # "portrait"}
                    \union {<<c, a, slot>>}
    BY <1>3 DEF AttachContestantMedia
  <2>2. \A row \in media' : status'[row[2]] = "ready"
    BY <1>1, <2>1
  <2>3. ASSUME NEW d \in Contestants, NEW e \in Assets, NEW f \in Assets,
               <<d, e, "portrait">> \in media', <<d, f, "portrait">> \in media'
        PROVE  e = f
    <3>1. CASE slot = "portrait" /\ d = c
      BY <2>1, <2>3, <3>1
    <3>2. CASE ~(slot = "portrait" /\ d = c)
      <4>1. /\ <<d, e, "portrait">> \in media
            /\ <<d, f, "portrait">> \in media
        BY <2>1, <2>3, <3>2
      <4> QED
        BY <4>1 DEF ShownIsReady
    <3> QED
      BY <3>1, <3>2
  <2> QED
    BY <2>2, <2>3 DEF ShownIsReady
<1>4. ASSUME ~ \E c \in Contestants, a \in Assets, slot \in Roles :
                    AttachContestantMedia(c, a, slot)
      PROVE  media' = media
  BY <1>4, MediaSteps, RequestKeepsRows
     DEF vars, CreateUploadIntent, PutObject, Complete, LockDeadline,
         MarkReady, MarkFailed, SetStatus, DeleteObject, Goto
<1> QED
  BY <1>2, <1>3, <1>4
-----------------------------------------------------------------------------
(* The connections in use grow by BeginLock alone, which finds one free.   *)
LEMMA MediaPool ==
  ASSUME TypeOK, PoolHolds, [Next]_vars
  PROVE  PoolHolds'
<1> USE DEF TypeOK
<1>1. poolSize' = poolSize
  BY MediaSteps, RequestKeepsRows
     DEF vars, CreateUploadIntent, PutObject, AttachContestantMedia,
         Complete, LockDeadline, MarkReady, MarkFailed, SetStatus,
         DeleteObject, Goto
<1>2. poolSize \in Nat /\ Cardinality(Holding) \in Nat
  BY FS_CardinalityType, MediaAssumption DEF PoolHolds
<1>3. CASE Holding' \subseteq Holding
  <2>1. IsFiniteSet(Holding') /\ Cardinality(Holding') <= Cardinality(Holding)
    BY <1>3, FS_Subset DEF PoolHolds
  <2>2. Cardinality(Holding') \in Nat
    BY <2>1, FS_CardinalityType
  <2> QED
    BY <1>1, <1>2, <2>1, <2>2 DEF PoolHolds
<1>4. ASSUME NEW p \in Requests, BeginLock(p)
      PROVE  PoolHolds'
  <2>1. Holding' = Holding \union {p} /\ p \notin Holding
    BY <1>4 DEF BeginLock, Leaves, Goto, Holding, Handling
  <2>2. /\ IsFiniteSet(Holding')
        /\ Cardinality(Holding') = Cardinality(Holding) + 1
    BY <2>1, FS_AddElement DEF PoolHolds
  <2>3. Cardinality(Holding) < poolSize
    BY <1>4 DEF BeginLock, ConnectionFree
  <2> QED
    BY <1>1, <1>2, <2>2, <2>3 DEF PoolHolds
<1>5. CASE stage' = stage
  BY <1>3, <1>5 DEF Holding
<1>6. ASSUME NEW p \in Requests,
             \/ AcquireLock(p) \/ RollbackLock(p) \/ RetryLock(p)
             \/ FetchAsset(p) \/ HeadObject(p) \/ Answer(p)
             \/ AcquireTimeout(p) \/ Disconnect(p)
             \/ MarkReady(p) \/ MarkFailed(p)
             \/ \E deleted \in BOOLEAN : DeleteObject(p, deleted)
             \/ \E a \in Assets : Complete(p, a)
      PROVE  Holding' \subseteq Holding
  <2> USE DEF Leaves, Goto, Holding, Handling
  <2>1. CASE \/ AcquireLock(p) \/ RetryLock(p) \/ Answer(p)
             \/ AcquireTimeout(p) \/ Disconnect(p)
    BY <2>1 DEF AcquireLock, RetryLock, Answer, AcquireTimeout, Disconnect
  <2>2. CASE RollbackLock(p)
    BY <2>2 DEF RollbackLock
  <2>3. CASE FetchAsset(p)
    BY <2>3 DEF FetchAsset
  <2>4. CASE HeadObject(p)
    BY <2>4 DEF HeadObject
  <2>5. CASE MarkReady(p) \/ MarkFailed(p)
    BY <2>5 DEF MarkReady, MarkFailed, SetStatus
  <2>6. CASE \E deleted \in BOOLEAN : DeleteObject(p, deleted)
    BY <2>6 DEF DeleteObject
  <2>7. CASE \E a \in Assets : Complete(p, a)
    BY <2>7 DEF Complete
  <2> QED
    BY <1>6, <2>1, <2>2, <2>3, <2>4, <2>5, <2>6, <2>7
<1>7. ASSUME \/ UNCHANGED vars
             \/ \E a \in Assets : CreateUploadIntent(a)
             \/ \E a \in Assets, body \in {"declared", "other"} :
                    PutObject(a, body)
             \/ \E c \in Contestants, a \in Assets, slot \in Roles :
                    AttachContestantMedia(c, a, slot)
             \/ \E p \in Requests : LockDeadline(p)
      PROVE  stage' = stage
  BY <1>7 DEF vars, CreateUploadIntent, PutObject, AttachContestantMedia,
     LockDeadline
<1> QED
  BY <1>3, <1>4, <1>5, <1>6, <1>7, MediaSteps DEF RequestStep
-----------------------------------------------------------------------------
(* In every state of a behaviour: the types, one request under the lock of *)
(* an asset, ready objects in the bucket, and no more connections in use   *)
(* than the pool has.                                                      *)
THEOREM MediaInvariant == Spec => []IInv
<1>1. IInv /\ [Next]_vars => IInv'
  BY MediaTypes, MediaLock, MediaReady, MediaShown, MediaPool DEF IInv
<1> QED
  BY <1>1, MediaInit, PTL DEF Spec

(* What list_contestant_media shows is ready and in the bucket, nobody has *)
(* two portraits, and the pool is not exceeded.                            *)
THEOREM MediaShownIsStored == Spec => []ShownIsStored
<1>1. IInv => ShownIsStored
  <2> SUFFICES ASSUME IInv
               PROVE  ShownIsStored
    OBVIOUS
  <2> USE DEF IInv
  <2>1. \A row \in media :
            status[row[2]] = "ready" /\ object[row[2]] # "none"
    BY DEF ShownIsReady, ReadyIsStored, TypeOK
  <2>2. ASSUME NEW c \in Contestants
        PROVE  Cardinality({a \in Assets : <<c, a, "portrait">> \in media})
                    <= 1
    <3> DEFINE Shown == {a \in Assets : <<c, a, "portrait">> \in media}
    <3>1. ASSUME Shown = {}
          PROVE  Cardinality(Shown) <= 1
      <4>1. Cardinality(Shown) = 0
        BY <3>1, FS_EmptySet, Zenon
      <4> HIDE DEF Shown
      <4> QED
        BY <4>1
    <3>2. ASSUME NEW a \in Shown
          PROVE  Cardinality(Shown) <= 1
      <4>1. Shown = {a}
        BY DEF ShownIsReady
      <4>2. Cardinality(Shown) = 1
        BY <4>1, FS_Singleton, Zenon
      <4> HIDE DEF Shown
      <4> QED
        BY <4>2
    <3> QED
      BY <3>1, <3>2
  <2> QED
    BY <2>1, <2>2 DEF ShownIsStored, PoolHolds
<1> QED
  BY <1>1, MediaInvariant, PTL

(* complete_upload decides on an asset once, and never deletes the object  *)
(* of one that is ready, whoever completes it at the same time.            *)
THEOREM MediaDecidedOnce == Spec => DecidedOnce
<1>1. IInv /\ [Next]_vars =>
        [\A a \in Assets :
            /\ status[a] \in {"ready", "failed"} => status'[a] = status[a]
            /\ status[a] = "ready" /\ object[a] # "none" =>
                    object'[a] # "none"]_vars
  BY MediaDecided DEF IInv
<1> QED
  BY <1>1, MediaInvariant, PTL DEF Spec, DecidedOnce
-----------------------------------------------------------------------------
(* Accounts and rights: module Identity.                                   *)

(* Every table is a function of its keys, and what a request is about is   *)
(* what its kind of write needs.                                           *)
Tables ==
    /\ challenge \in [Challenges -> Challenge \union {None}]
    /\ pageant \in [Pageants -> Pageant \union {None}]
    /\ request \in [Requests -> UnderWay \union {None}]

(* Who may be asked for was there when a challenge was created, and is     *)
(* still there.                                                            *)
ChallengeInv ==
    \A c \in Challenges :
        challenge[c] # None /\ challenge[c].purpose = "link" =>
            challenge[c].user \in users

(* The account of a new wallet has a primary one, unless this one is.      *)
ConsumeOf(r) ==
    IsDoing(r, "consume") =>
        LET k == challenge[request[r].challenge]
        IN  /\ k # None
            /\ ~request[r].primary =>
                    k.purpose = "link" /\ Primaries(k.user, k.network) # {}

(* The row of the settings is locked, so nobody else completes the setup.  *)
SetupOf(r) ==
    IsDoing(r, "setup") =>
        /\ settings.setupBy = None
        /\ \A q \in Requests : IsDoing(q, "setup") => q = r

(* What the middleware and the handler have found still exists.            *)
WriteOf(r) ==
    IsDoing(r, "admitted") \/ IsDoing(r, "ready") =>
        LET write == request[r].write
        IN  /\ write.capability \in {"members", "pageants"} =>
                    request[r].organization \in Organizations
            /\ write.capability = "pageants" /\ write.status # "new" =>
                    pageant[write.pageant] # None

ReadyOf(r) ==
    /\ IsReady(r, "members") =>
            \E w \in wallets : w.user = request[r].write.user
    /\ IsReady(r, "settings") =>
            /\ settings.setupBy # None
            /\ request[r].write.network \in Networks
            /\ request[r].write.default \in Pageants \union {None}

RequestInv ==
    \A r \in Requests : ConsumeOf(r) /\ SetupOf(r) /\ WriteOf(r) /\ ReadyOf(r)

(* A wallet has one account, and that one primary wallet on its network.   *)
OneAccount(w) ==
    /\ w.user \in users
    /\ OwnersOf(w.network, w.address) = {w.user}
    /\ \E v \in wallets : Primaries(w.user, w.network) = {v}

Proven(w, c) ==
    /\ challenge[c] # None
    /\ challenge[c].status = "consumed"
    /\ challenge[c].network = w.network
    /\ challenge[c].address = w.address
    /\ challenge[c].purpose = "link" => challenge[c].user = w.user

WalletInv ==
    \A w \in wallets : OneAccount(w) /\ \E c \in Challenges : Proven(w, c)

HasWallet(u) == \E w \in wallets : w.user = u

(* An account is there for a wallet or an organization; an organization    *)
(* has one owner, and its other members have a wallet.                     *)
MemberInv ==
    /\ \A u \in users :
            HasWallet(u) \/ \E o \in Organizations : role[o][u] = "owner"
    /\ \A o \in Organizations :
        /\ \A u, v \in Users :
                role[o][u] = "owner" /\ role[o][v] = "owner" => u = v
        /\ \A u \in Users : role[o][u] \notin {"owner", None} => HasWallet(u)

AdminInv ==
    /\ admins = IF settings.setupBy = None THEN {} ELSE {settings.setupBy}
    /\ \A u \in admins : HasWallet(u)

IdentityInv ==
    /\ IdentityTypeOK /\ Tables /\ ChallengeInv /\ RequestInv
    /\ WalletInv /\ MemberInv /\ AdminInv
-----------------------------------------------------------------------------
(* What a request under way is about, by what it is doing.                 *)
LEMMA RequestShapes ==
  ASSUME NEW x \in UnderWay
  PROVE  /\ x # None
         /\ x.op \in {"consume", "setup", "admitted", "ready"}
         /\ x.op = "consume" =>
                x.challenge \in Challenges /\ x.primary \in BOOLEAN
                    /\ x.known \in BOOLEAN
         /\ x.op = "setup" =>
                /\ x.user \in Users /\ x.network \in Networks
                /\ x.organization \in Organizations
         /\ x.op \in {"admitted", "ready"} =>
                /\ x.organization \in Organizations \union {None}
                /\ x.write \in Grant \union PageantWrite \union Patch
  BY IdentityRecordAssumption DEF UnderWay

LEMMA WriteShapes ==
  ASSUME NEW write \in Grant \union PageantWrite \union Patch
  PROVE  /\ write.capability \in {"members", "pageants", "settings"}
         /\ write.capability = "members" =>
                write.user \in Users /\ write.role \in GrantedRoles
         /\ write.capability = "pageants" =>
                /\ write.pageant \in Pageants
                /\ write.status \in AskedStatuses \union {"new"}
         /\ write.capability = "settings" =>
                /\ write \in Patch
                /\ write.network \in Networks \union {None}
                /\ write.default \in Pageants \union {None, "clear"}
  BY DEF Grant, PageantWrite, Patch

(* What requests rest on is never taken back.                              *)
ChallengesKept ==
    \A c \in Challenges : challenge[c] # None =>
        /\ challenge'[c] # None
        /\ challenge'[c].purpose = challenge[c].purpose
        /\ challenge'[c].user = challenge[c].user
        /\ challenge'[c].network = challenge[c].network
        /\ challenge'[c].address = challenge[c].address
        /\ challenge[c].status = "consumed" =>
                challenge'[c].status = "consumed"

PageantsKept ==
    \A p \in Pageants : pageant[p] # None => pageant'[p] # None

WalletsKept == users \subseteq users' /\ wallets \subseteq wallets'

RequestOf(r) == ConsumeOf(r) /\ SetupOf(r) /\ WriteOf(r) /\ ReadyOf(r)

(* A request that nobody answers stays as it is, whatever the others do.   *)
LEMMA RequestStays ==
  ASSUME IdentityTypeOK, Tables, NEW r \in Requests, RequestOf(r),
         request'[r] = request[r],
         ChallengesKept, PageantsKept, WalletsKept,
         settings.setupBy # None => settings'.setupBy # None,
         IsDoing(r, "setup") =>
            /\ settings'.setupBy = None
            /\ \A q \in Requests : IsDoing(q, "setup")' => q = r
  PROVE  RequestOf(r)'
<1>1. CASE request[r] = None
  BY <1>1 DEF RequestOf, ConsumeOf, SetupOf, WriteOf, ReadyOf, IsDoing,
     IsReady
<1>2. CASE request[r] # None
  <2>1. request[r] \in UnderWay
    BY <1>2 DEF Tables
  <2> DEFINE x == request[r]
  <2>2. \A op : IsDoing(r, op)' <=> IsDoing(r, op)
    BY DEF IsDoing
  <2>3. \A a : IsReady(r, a)' <=> IsReady(r, a)
    BY <2>2 DEF IsReady
  <2>4. ConsumeOf(r)'
    <3>1. SUFFICES ASSUME IsDoing(r, "consume")
                   PROVE  ConsumeOf(r)'
      BY <2>2 DEF ConsumeOf
    <3>2. PICK c \in Challenges : c = request[r].challenge
      BY <2>1, <3>1, RequestShapes DEF IsDoing
    <3>3. /\ challenge[c] # None
          /\ ~request[r].primary =>
                /\ challenge[c].purpose = "link"
                /\ Primaries(challenge[c].user, challenge[c].network) # {}
      BY <3>1, <3>2 DEF RequestOf, ConsumeOf
    <3>4. \A u, n : Primaries(u, n) \subseteq Primaries(u, n)'
      BY DEF Primaries, WalletsKept
    <3>5. /\ challenge'[c] # None
          /\ challenge'[c].purpose = challenge[c].purpose
          /\ challenge'[c].user = challenge[c].user
          /\ challenge'[c].network = challenge[c].network
      BY <3>3 DEF ChallengesKept
    <3>6. ASSUME ~request[r].primary
          PROVE  {w \in wallets' : /\ w.user = challenge'[c].user
                                   /\ w.network = challenge'[c].network
                                   /\ w.primary} # {}
      BY <3>3, <3>4, <3>5, <3>6 DEF Primaries
    <3> QED
      BY <3>2, <3>3, <3>5, <3>6 DEF ConsumeOf, Primaries
  <2>5. SetupOf(r)'
    BY <2>2 DEF SetupOf
  <2>6. WriteOf(r)'
    <3>1. SUFFICES ASSUME IsDoing(r, "admitted") \/ IsDoing(r, "ready")
                   PROVE  WriteOf(r)'
      BY <2>2 DEF WriteOf
    <3>2. request[r].write \in Grant \union PageantWrite \union Patch
      BY <2>1, <3>1, RequestShapes DEF IsDoing
    <3>3. request[r].write.capability = "pageants" =>
            request[r].write.pageant \in Pageants
      BY <3>2, WriteShapes
    <3> QED
      BY <3>1, <3>3 DEF RequestOf, WriteOf, PageantsKept
  <2>7. ReadyOf(r)'
    BY <2>3 DEF RequestOf, ReadyOf, WalletsKept
  <2> QED
    BY <2>4, <2>5, <2>6, <2>7 DEF RequestOf
<1> QED
  BY <1>1, <1>2

LEMMA NoRequest ==
  ASSUME NEW r, request'[r] = None
  PROVE  RequestOf(r)'
  BY DEF RequestOf, ConsumeOf, SetupOf, WriteOf, ReadyOf, IsDoing, IsReady

(* The wallets stay proven and owned, if no other wallet is added.         *)
LEMMA WalletsStay ==
  ASSUME WalletInv, ChallengesKept, wallets' = wallets,
         users \subseteq users'
  PROVE  WalletInv'
<1>1. \A n, a : OwnersOf(n, a)' = OwnersOf(n, a)
  BY DEF OwnersOf
<1>2. \A u, n : Primaries(u, n)' = Primaries(u, n)
  BY DEF Primaries
<1>3. ASSUME NEW w \in wallets
      PROVE  OneAccount(w)' /\ \E c \in Challenges : Proven(w, c)'
  <2>1. OneAccount(w)'
    BY <1>1, <1>2 DEF WalletInv, OneAccount
  <2>2. \A c \in Challenges : Proven(w, c) => Proven(w, c)'
    BY DEF Proven, ChallengesKept
  <2> QED
    BY <2>1, <2>2 DEF WalletInv
<1> QED
  BY <1>3 DEF WalletInv

(* A step of a request that only reads writes nothing but the request.     *)
LEMMA ReadingKeepsInv ==
  ASSUME IdentityInv, NEW r \in Requests, NEW x \in UnderWay \union {None},
         request' = [request EXCEPT ![r] = x], RequestOf(r)',
         x # None /\ x.op = "setup" => SettingsUnlocked,
         UNCHANGED <<users, wallets, challenge, admins, role, settings,
                     pageant>>
  PROVE  IdentityInv'
<1>1. /\ ChallengesKept /\ PageantsKept /\ WalletsKept
      /\ settings' = settings /\ challenge' = challenge
  BY DEF ChallengesKept, PageantsKept, WalletsKept
<1>2. /\ request' \in [Requests -> UnderWay \union {None}]
      /\ request'[r] = x
      /\ \A q \in Requests \ {r} : request'[q] = request[q]
  BY DEF IdentityInv, Tables
<1>3. ASSUME NEW q \in Requests, q # r
      PROVE  RequestOf(q)'
  <2>1. RequestOf(q) /\ request'[q] = request[q]
    BY <1>2, <1>3 DEF IdentityInv, RequestInv, RequestOf
  <2>2. ASSUME IsDoing(q, "setup"),
               NEW p \in Requests, IsDoing(p, "setup")'
        PROVE  p = q
    <3>1. CASE p = r
      <4>1. x # None /\ x.op = "setup"
        BY <1>2, <2>2, <3>1 DEF IsDoing
      <4> QED
        BY <2>2, <4>1 DEF SettingsUnlocked
    <3>2. CASE p # r
      BY <1>2, <2>1, <2>2, <3>2 DEF IsDoing, RequestOf, SetupOf
    <3> QED
      BY <3>1, <3>2
  <2>3. IsDoing(q, "setup") => settings'.setupBy = None
    BY <1>1, <2>1 DEF RequestOf, SetupOf
  <2> QED
    BY <1>1, <2>1, <2>2, <2>3, RequestStays DEF IdentityInv
<1>4. RequestInv'
  BY <1>3 DEF RequestInv, RequestOf
<1>5. IdentityTypeOK' /\ Tables'
  BY <1>2 DEF IdentityInv, IdentityTypeOK, Tables
<1>6. ChallengeInv' /\ WalletInv'
  BY <1>1, WalletsStay DEF IdentityInv, ChallengeInv
<1>7. MemberInv' /\ AdminInv'
  BY DEF IdentityInv, MemberInv, AdminInv, HasWallet
<1> QED
  BY <1>4, <1>5, <1>6, <1>7 DEF IdentityInv

LEMMA BeginConsumeKeeps ==
  ASSUME IdentityInv, NEW r \in Requests, NEW c \in Challenges,
         BeginConsume(r, c)
  PROVE  IdentityInv'
<1> DEFINE k == challenge[c]
           known == OwnersOf(k.network, k.address)
           x == [op |-> "consume", challenge |-> c, known |-> known # {},
                 primary |-> k.purpose # "link"
                             \/ Primaries(k.user, k.network) = {}]
<1>1. /\ k # None
      /\ request' = [request EXCEPT ![r] = x]
      /\ UNCHANGED <<users, wallets, challenge, admins, role, settings,
                     pageant>>
  BY DEF BeginConsume
<1>2. /\ x \in UnderWay
      /\ x.op = "consume" /\ x.challenge = c
      /\ ~x.primary =>
            k.purpose = "link" /\ Primaries(k.user, k.network) # {}
  <2> HIDE DEF k, known
  <2> QED
    BY DEF UnderWay
<1>3. request'[r] = x
  BY <1>1 DEF IdentityInv, Tables
<1> HIDE DEF x
<1>4. RequestOf(r)'
  <2>1. \A op : IsDoing(r, op)' => op = "consume"
    BY <1>2, <1>3 DEF IsDoing
  <2>2. \A u, n : Primaries(u, n)' = Primaries(u, n)
    BY <1>1 DEF Primaries
  <2>3. ConsumeOf(r)'
    BY <1>1, <1>2, <1>3, <2>2 DEF ConsumeOf
  <2> QED
    BY <2>1, <2>3 DEF RequestOf, SetupOf, WriteOf, ReadyOf, IsReady
<1> QED
  BY <1>1, <1>2, <1>4, ReadingKeepsInv

LEMMA GiveUpKeeps ==
  ASSUME IdentityInv, NEW r \in Requests, GiveUp(r)
  PROVE  IdentityInv'
<1>1. /\ request' = [request EXCEPT ![r] = None]
      /\ UNCHANGED <<users, wallets, challenge, admins, role, settings,
                     pageant>>
  BY DEF GiveUp
<1>2. request'[r] = None
  BY <1>1 DEF IdentityInv, Tables
<1> QED
  BY <1>1, <1>2, NoRequest, ReadingKeepsInv

LEMMA BeginSetupKeeps ==
  ASSUME IdentityInv, NEW r \in Requests, BeginSetup(r)
  PROVE  IdentityInv'
<1>1. PICK u \in users, n \in Networks, o \in Organizations :
        /\ SettingsUnlocked
        /\ settings.setupBy = None
        /\ request' = [request EXCEPT ![r] =
                [op |-> "setup", user |-> u, network |-> n,
                 organization |-> o]]
        /\ UNCHANGED <<users, wallets, challenge, admins, role, settings,
                       pageant>>
  BY DEF BeginSetup
<1> DEFINE x == [op |-> "setup", user |-> u, network |-> n,
                 organization |-> o]
<1>2. x \in UnderWay /\ x.op = "setup"
  BY DEF UnderWay, IdentityInv, IdentityTypeOK
<1>3. /\ request'[r] = x
      /\ \A q \in Requests \ {r} : request'[q] = request[q]
  BY <1>1 DEF IdentityInv, Tables
<1> HIDE DEF x
<1>4. RequestOf(r)'
  <2>1. \A op : IsDoing(r, op)' => op = "setup"
    BY <1>2, <1>3 DEF IsDoing
  <2>2. \A q \in Requests : IsDoing(q, "setup")' => q = r
    BY <1>1, <1>3 DEF IsDoing, SettingsUnlocked
  <2>3. SetupOf(r)'
    BY <1>1, <2>2 DEF SetupOf
  <2> QED
    BY <2>1, <2>3 DEF RequestOf, ConsumeOf, WriteOf, ReadyOf, IsReady
<1> QED
  BY <1>1, <1>2, <1>4, ReadingKeepsInv DEF x

LEMMA EnforceKeeps ==
  ASSUME IdentityInv, NEW r \in Requests, Enforce(r)
  PROVE  IdentityInv'
<1>1. PICK u \in users, o \in Organizations \union {None},
           write \in Grant \union PageantWrite \union Patch :
        /\ InScope(o, write)
        /\ request' = [request EXCEPT ![r] =
                [op |-> "admitted", actor |-> u, organization |-> o,
                 write |-> write]]
        /\ UNCHANGED <<users, wallets, challenge, admins, role, settings,
                       pageant>>
  BY DEF Enforce
<1> DEFINE x == [op |-> "admitted", actor |-> u, organization |-> o,
                 write |-> write]
<1>2. /\ x \in UnderWay /\ x.op = "admitted"
      /\ x.organization = o /\ x.write = write
  BY DEF UnderWay, IdentityInv, IdentityTypeOK
<1>3. request'[r] = x
  BY <1>1 DEF IdentityInv, Tables
<1> HIDE DEF x
<1>4. RequestOf(r)'
  <2>1. \A op : IsDoing(r, op)' => op = "admitted"
    BY <1>2, <1>3 DEF IsDoing
  <2>2. write.capability = "members" => o \in Organizations
    BY <1>1 DEF InScope
  <2>3. ASSUME write.capability = "pageants"
        PROVE  /\ o \in Organizations
               /\ write.status # "new" => pageant[write.pageant] # None
    <3>1. CASE write.status = "new"
      BY <1>1, <2>3, <3>1 DEF InScope
    <3>2. CASE write.status # "new"
      <4>1. /\ pageant[write.pageant] # None
            /\ o = pageant[write.pageant].organization
        BY <1>1, <2>3, <3>2 DEF InScope
      <4>2. write.pageant \in Pageants
        BY <2>3, WriteShapes
      <4>3. pageant[write.pageant] \in Pageant
        BY <4>1, <4>2 DEF IdentityInv, Tables
      <4> QED
        BY <4>1, <4>3 DEF Pageant
    <3> QED
      BY <3>1, <3>2
  <2>4. WriteOf(r)'
    BY <1>1, <1>2, <1>3, <2>2, <2>3 DEF WriteOf
  <2> QED
    BY <2>1, <2>4 DEF RequestOf, ConsumeOf, SetupOf, ReadyOf, IsReady
<1> QED
  BY <1>1, <1>2, <1>4, ReadingKeepsInv DEF x

(* The handler's check: what is found for the write is what it needs.      *)
LEMMA ReadyKeeps ==
  ASSUME IdentityInv, NEW r \in Requests, IsDoing(r, "admitted"),
         NEW write \in Grant \union PageantWrite \union Patch,
         write.capability = request[r].write.capability,
         write.capability = "pageants" => write = request[r].write,
         write.capability = "members" =>
            \E w \in wallets : w.user = write.user,
         write.capability = "settings" =>
            /\ settings.setupBy # None
            /\ write.network \in Networks
            /\ write.default \in Pageants \union {None},
         Ready(r, write),
         UNCHANGED <<users, wallets, challenge, admins, role, settings,
                     pageant>>
  PROVE  IdentityInv'
<1> DEFINE x == [op |-> "ready", organization |-> request[r].organization,
                 write |-> write]
<1>1. request[r] \in UnderWay /\ request[r].op = "admitted"
  BY DEF IdentityInv, Tables, IsDoing
<1>2. /\ x \in UnderWay /\ x.op = "ready"
      /\ x.organization = request[r].organization /\ x.write = write
  <2>1. request[r].organization \in Organizations \union {None}
    BY <1>1, RequestShapes
  <2> QED
    BY <2>1 DEF UnderWay
<1>3. request' = [request EXCEPT ![r] = x] /\ request'[r] = x
  BY DEF Ready, IdentityInv, Tables
<1> HIDE DEF x
<1>4. RequestOf(r)'
  <2>1. \A op : IsDoing(r, op)' => op = "ready"
    BY <1>2, <1>3 DEF IsDoing
  <2>2. WriteOf(r)
    BY DEF IdentityInv, RequestInv
  <2>3. WriteOf(r)'
    BY <1>2, <1>3, <2>2 DEF WriteOf
  <2>4. ReadyOf(r)'
    BY <1>2, <1>3 DEF ReadyOf, IsReady
  <2> QED
    BY <2>1, <2>3, <2>4 DEF RequestOf, ConsumeOf, SetupOf
<1> QED
  BY <1>2, <1>3, <1>4, ReadingKeepsInv

(* What a request means to write is well formed.                           *)
LEMMA WriteIsKnown ==
  ASSUME IdentityInv, NEW r \in Requests,
         IsDoing(r, "admitted") \/ IsDoing(r, "ready")
  PROVE  /\ request[r].write \in Grant \union PageantWrite \union Patch
         /\ request[r].organization \in Organizations \union {None}
<1>1. request[r] \in UnderWay /\ request[r].op \in {"admitted", "ready"}
  BY DEF IdentityInv, Tables, IsDoing
<1> QED
  BY <1>1, RequestShapes

LEMMA CheckGrantKeeps ==
  ASSUME IdentityInv, NEW r \in Requests, CheckGrant(r)
  PROVE  IdentityInv'
<1> DEFINE write == request[r].write
<1>1. /\ IsDoing(r, "admitted") /\ write.capability = "members"
      /\ \E w \in wallets : w.user = write.user
      /\ Ready(r, write)
      /\ UNCHANGED <<users, wallets, challenge, admins, role, settings,
                     pageant>>
  BY DEF CheckGrant, IsAdmitted
<1>2. write \in Grant \union PageantWrite \union Patch
  BY <1>1, WriteIsKnown
<1> QED
  BY <1>1, <1>2, ReadyKeeps

LEMMA CheckPageantKeeps ==
  ASSUME IdentityInv, NEW r \in Requests, CheckPageant(r)
  PROVE  IdentityInv'
<1> DEFINE write == request[r].write
<1>1. /\ IsDoing(r, "admitted") /\ write.capability = "pageants"
      /\ Ready(r, write)
      /\ UNCHANGED <<users, wallets, challenge, admins, role, settings,
                     pageant>>
  BY DEF CheckPageant, IsAdmitted
<1>2. write \in Grant \union PageantWrite \union Patch
  BY <1>1, WriteIsKnown
<1> QED
  BY <1>1, <1>2, ReadyKeeps

LEMMA CheckSettingsKeeps ==
  ASSUME IdentityInv, NEW r \in Requests, CheckSettings(r)
  PROVE  IdentityInv'
<1> DEFINE patch == request[r].write
           network == IF patch.network = None THEN settings.network
                      ELSE patch.network
           default == CASE patch.default = "clear" -> None
                        [] patch.default = None -> settings.default
                        [] OTHER -> patch.default
           write == [patch EXCEPT !.network = network, !.default = default]
<1>1. /\ IsDoing(r, "admitted") /\ patch.capability = "settings"
      /\ request[r].actor \in admins
      /\ Ready(r, write)
      /\ UNCHANGED <<users, wallets, challenge, admins, role, settings,
                     pageant>>
  BY DEF CheckSettings, IsAdmitted, RequireSiteAdmin
<1>2. /\ patch \in Patch
      /\ patch.network \in Networks \union {None}
      /\ patch.default \in Pageants \union {None, "clear"}
  BY <1>1, WriteIsKnown, WriteShapes
<1>3. /\ settings.network \in Networks
      /\ settings.default \in Pageants \union {None}
  BY DEF IdentityInv, IdentityTypeOK, Settings
<1>4. network \in Networks
  BY <1>2, <1>3
<1>5. default \in Pageants \union {None}
  <2>1. None # "clear"
    BY IdentityAssumption
  <2>2. CASE patch.default = "clear"
    BY <2>1, <2>2
  <2>3. CASE patch.default = None
    BY <1>3, <2>1, <2>3
  <2>4. CASE patch.default \notin {"clear", None}
    BY <1>2, <2>4
  <2> QED
    BY <2>2, <2>3, <2>4
<1> HIDE DEF patch, network, default
<1>6. /\ write \in Patch
      /\ write.capability = patch.capability
      /\ write.network = network /\ write.default = default
  BY <1>2, <1>4, <1>5 DEF Patch
<1>7. settings.setupBy # None
  BY <1>1 DEF IdentityInv, AdminInv
<1> HIDE DEF write
<1> QED
  BY <1>1, <1>4, <1>5, <1>6, <1>7, ReadyKeeps DEF patch

(* Requests stay as they are when one of them is answered, or none.        *)
LEMMA RequestsStay ==
  ASSUME IdentityInv,
         \A q \in Requests : request'[q] \in {request[q], None},
         ChallengesKept, PageantsKept, WalletsKept,
         settings.setupBy # None => settings'.setupBy # None,
         \/ settings'.setupBy = settings.setupBy
         \/ \A q \in Requests : ~IsDoing(q, "setup")'
  PROVE  RequestInv'
<1>1. ASSUME NEW q \in Requests
      PROVE  RequestOf(q)'
  <2>1. CASE request'[q] = None
    BY <2>1, NoRequest
  <2>2. CASE request'[q] = request[q]
    <3>1. \A p \in Requests : IsDoing(p, "setup")' => IsDoing(p, "setup")
      BY DEF IsDoing
    <3>2. IsDoing(q, "setup")' <=> IsDoing(q, "setup")
      BY <2>2 DEF IsDoing
    <3>3. RequestOf(q)
      BY DEF IdentityInv, RequestInv, RequestOf
    <3>4. IsDoing(q, "setup") =>
            /\ settings'.setupBy = None
            /\ \A p \in Requests : IsDoing(p, "setup")' => p = q
      BY <3>1, <3>2, <3>3 DEF RequestOf, SetupOf
    <3> QED
      BY <2>2, <3>3, <3>4, RequestStays DEF IdentityInv
  <2> QED
    BY <2>1, <2>2
<1> QED
  BY <1>1 DEF RequestInv, RequestOf

LEMMA AnswerEndsRequest ==
  ASSUME Tables, NEW r \in Requests, request' = [request EXCEPT ![r] = None]
  PROVE  /\ request' \in [Requests -> UnderWay \union {None}]
         /\ \A q \in Requests : request'[q] \in {request[q], None}
         /\ request'[r] = None
  BY DEF Tables

(* A challenge is created for somebody who is there, and expires.          *)
LEMMA ChallengeChanges ==
  ASSUME IdentityInv, NEW c \in Challenges, NEW k \in Challenge,
         challenge' = [challenge EXCEPT ![c] = k],
         k.purpose = "link" => k.user \in users,
         challenge[c] # None =>
            /\ k.purpose = challenge[c].purpose
            /\ k.user = challenge[c].user
            /\ k.network = challenge[c].network
            /\ k.address = challenge[c].address
            /\ challenge[c].status # "consumed",
         UNCHANGED <<users, wallets, admins, role, settings, pageant,
                     request>>
  PROVE  IdentityInv'
<1>1. /\ challenge' \in [Challenges -> Challenge \union {None}]
      /\ challenge'[c] = k /\ k # None
      /\ \A d \in Challenges \ {c} : challenge'[d] = challenge[d]
  BY IdentityRecordAssumption DEF IdentityInv, Tables
<1>2. ChallengesKept /\ PageantsKept /\ WalletsKept
  BY <1>1 DEF ChallengesKept, PageantsKept, WalletsKept
<1>3. RequestInv'
  BY <1>2, RequestsStay
<1>4. ChallengeInv'
  BY <1>1 DEF IdentityInv, ChallengeInv
<1>5. IdentityTypeOK' /\ Tables'
  BY <1>1 DEF IdentityInv, IdentityTypeOK, Tables
<1>6. WalletInv'
  BY <1>2, WalletsStay DEF IdentityInv
<1>7. MemberInv' /\ AdminInv'
  BY DEF IdentityInv, MemberInv, AdminInv, HasWallet
<1> QED
  BY <1>3, <1>4, <1>5, <1>6, <1>7 DEF IdentityInv

LEMMA CreateChallengeKeeps ==
  ASSUME IdentityInv, NEW c \in Challenges, CreateWalletChallenge(c)
  PROVE  IdentityInv'
<1>1. PICK a \in Addresses, n \in Networks, p \in Purposes,
           u \in users \union {None} :
        /\ challenge[c] = None
        /\ p = "link" <=> u # None
        /\ challenge' = [challenge EXCEPT ![c] =
                [address |-> a, network |-> n, purpose |-> p,
                 user |-> u, status |-> "open"]]
        /\ UNCHANGED <<users, wallets, admins, role, settings, pageant,
                       request>>
  BY DEF CreateWalletChallenge
<1> DEFINE k == [address |-> a, network |-> n, purpose |-> p,
                 user |-> u, status |-> "open"]
<1>2. k \in Challenge /\ (k.purpose = "link" => k.user \in users)
  BY <1>1 DEF Challenge, IdentityInv, IdentityTypeOK
<1> HIDE DEF k
<1> QED
  BY <1>1, <1>2, ChallengeChanges DEF k

LEMMA ChallengeExpiresKeeps ==
  ASSUME IdentityInv, NEW c \in Challenges, ChallengeExpires(c)
  PROVE  IdentityInv'
<1> DEFINE k == [challenge[c] EXCEPT !.status = "expired"]
<1>1. /\ challenge[c] # None /\ challenge[c].status = "open"
      /\ challenge' = [challenge EXCEPT ![c] = k]
      /\ UNCHANGED <<users, wallets, admins, role, settings, pageant,
                     request>>
  BY DEF ChallengeExpires
<1>2. challenge[c] \in Challenge
  BY <1>1 DEF IdentityInv, Tables
<1>3. /\ k \in Challenge
      /\ k.purpose = challenge[c].purpose /\ k.user = challenge[c].user
      /\ k.network = challenge[c].network /\ k.address = challenge[c].address
  BY <1>2 DEF Challenge
<1>4. challenge[c].purpose = "link" => challenge[c].user \in users
  BY <1>1 DEF IdentityInv, ChallengeInv
<1> HIDE DEF k
<1> QED
  BY <1>1, <1>3, <1>4, ChallengeChanges

(* A pageant is created or updated, and never disappears.                  *)
LEMMA PageantChanges ==
  ASSUME IdentityInv, NEW r \in Requests,
         pageant' \in [Pageants -> Pageant \union {None}], PageantsKept,
         request' = [request EXCEPT ![r] = None],
         UNCHANGED <<users, wallets, challenge, admins, role, settings>>
  PROVE  IdentityInv'
<1>1. ChallengesKept /\ WalletsKept
  BY DEF ChallengesKept, WalletsKept
<1>2. /\ request' \in [Requests -> UnderWay \union {None}]
      /\ \A q \in Requests : request'[q] \in {request[q], None}
  BY AnswerEndsRequest DEF IdentityInv
<1>3. RequestInv'
  BY <1>1, <1>2, RequestsStay
<1>4. ChallengeInv' /\ WalletInv'
  BY <1>1, WalletsStay DEF IdentityInv, ChallengeInv
<1>5. IdentityTypeOK' /\ Tables'
  BY <1>2 DEF IdentityInv, IdentityTypeOK, Tables
<1>6. MemberInv' /\ AdminInv'
  BY DEF IdentityInv, MemberInv, AdminInv, HasWallet
<1> QED
  BY <1>3, <1>4, <1>5, <1>6 DEF IdentityInv

LEMMA CreatePageantKeeps ==
  ASSUME IdentityInv, NEW r \in Requests, CreatePageant(r)
  PROVE  IdentityInv'
<1> DEFINE p == request[r].write.pageant
           row == [organization |-> request[r].organization,
                   status |-> "draft"]
<1>1. /\ IsDoing(r, "ready") /\ request[r].write.capability = "pageants"
      /\ pageant' = [pageant EXCEPT ![p] = row]
      /\ request' = [request EXCEPT ![r] = None]
      /\ UNCHANGED <<users, wallets, challenge, admins, role, settings>>
  BY DEF CreatePageant, IsReady
<1>2. p \in Pageants
  BY <1>1, WriteIsKnown, WriteShapes
<1>3. request[r].organization \in Organizations
  BY <1>1 DEF IdentityInv, RequestInv, WriteOf
<1>4. row \in Pageant /\ row # None
  BY <1>3, IdentityRecordAssumption DEF Pageant, PageantStatuses
<1> HIDE DEF row, p
<1>5. /\ pageant' \in [Pageants -> Pageant \union {None}]
      /\ PageantsKept
  BY <1>1, <1>2, <1>4 DEF IdentityInv, Tables, PageantsKept
<1> QED
  BY <1>1, <1>5, PageantChanges

LEMMA UpdatePageantKeeps ==
  ASSUME IdentityInv, NEW r \in Requests, UpdatePageant(r)
  PROVE  IdentityInv'
<1> DEFINE p == request[r].write.pageant
           row == [pageant[p] EXCEPT !.status = request[r].write.status]
<1>1. /\ IsDoing(r, "ready") /\ request[r].write.capability = "pageants"
      /\ request[r].write.status # "new"
      /\ pageant' = [pageant EXCEPT ![p] = row]
      /\ request' = [request EXCEPT ![r] = None]
      /\ UNCHANGED <<users, wallets, challenge, admins, role, settings>>
  BY DEF UpdatePageant, IsReady
<1>2. /\ p \in Pageants
      /\ request[r].write.status \in PageantStatuses
  BY <1>1, WriteIsKnown, WriteShapes, IdentityAssumption
<1>3. pageant[p] \in Pageant
  BY <1>1, <1>2 DEF IdentityInv, RequestInv, WriteOf, Tables
<1>4. row \in Pageant /\ row # None
  BY <1>2, <1>3, IdentityRecordAssumption DEF Pageant
<1> HIDE DEF row, p
<1>5. /\ pageant' \in [Pageants -> Pageant \union {None}]
      /\ PageantsKept
  BY <1>1, <1>2, <1>4 DEF IdentityInv, Tables, PageantsKept
<1> QED
  BY <1>1, <1>5, PageantChanges

LEMMA UpdateSettingsKeeps ==
  ASSUME IdentityInv, NEW r \in Requests, UpdateSiteSettings(r)
  PROVE  IdentityInv'
<1>1. /\ IsReady(r, "settings")
      /\ settings' = [settings EXCEPT
                        !.network = request[r].write.network,
                        !.default = request[r].write.default]
      /\ request' = [request EXCEPT ![r] = None]
      /\ UNCHANGED <<users, wallets, challenge, admins, role, pageant>>
  BY DEF UpdateSiteSettings
<1>2. /\ request[r].write.network \in Networks
      /\ request[r].write.default \in Pageants \union {None}
  BY <1>1 DEF IdentityInv, RequestInv, ReadyOf
<1>3. settings' \in Settings /\ settings'.setupBy = settings.setupBy
  BY <1>1, <1>2 DEF IdentityInv, IdentityTypeOK, Settings
<1>4. ChallengesKept /\ PageantsKept /\ WalletsKept
  BY <1>1 DEF ChallengesKept, PageantsKept, WalletsKept
<1>5. /\ request' \in [Requests -> UnderWay \union {None}]
      /\ \A q \in Requests : request'[q] \in {request[q], None}
  BY <1>1, AnswerEndsRequest DEF IdentityInv
<1>6. RequestInv'
  BY <1>3, <1>4, <1>5, RequestsStay
<1>7. ChallengeInv' /\ WalletInv'
  BY <1>1, <1>4, WalletsStay DEF IdentityInv, ChallengeInv
<1>8. IdentityTypeOK' /\ Tables'
  BY <1>1, <1>3, <1>5 DEF IdentityInv, IdentityTypeOK, Tables
<1>9. MemberInv' /\ AdminInv'
  BY <1>1, <1>3 DEF IdentityInv, MemberInv, AdminInv, HasWallet
<1> QED
  BY <1>6, <1>7, <1>8, <1>9 DEF IdentityInv

(* Somebody becomes the first member of an organization and owns it, or    *)
(* one who has a wallet becomes a member in a lesser role.                 *)
LEMMA MemberChanges ==
  ASSUME IdentityInv, NEW o \in Organizations, NEW u \in Users,
         NEW x \in MemberRoles,
         role' = [role EXCEPT ![o][u] = x],
         wallets' = wallets, users' \subseteq users \union {u},
         \/ x = "owner" /\ ~Exists(o)
         \/ x # "owner" /\ HasWallet(u)
  PROVE  /\ MemberInv'
         /\ role' \in [Organizations -> [Users -> MemberRoles \union {None}]]
<1>1. role \in [Organizations -> [Users -> MemberRoles \union {None}]]
  BY DEF IdentityInv, IdentityTypeOK
<1>2. role' \in [Organizations -> [Users -> MemberRoles \union {None}]]
  BY <1>1
<1>3. /\ role'[o][u] = x
      /\ \A v \in Users \ {u} : role'[o][v] = role[o][v]
      /\ \A p \in Organizations \ {o} : role'[p] = role[p]
  BY <1>1
<1>4. \A v : HasWallet(v)' <=> HasWallet(v)
  BY DEF HasWallet
<1>5. None # "owner" /\ x # None
  BY IdentityAssumption DEF MemberRoles
<1>6. \A p \in Organizations, v \in Users :
        /\ role'[p][v] = "owner" /\ ~(p = o /\ v = u) => role[p][v] = "owner"
        /\ role[p][v] = "owner" /\ ~(p = o /\ v = u) => role'[p][v] = "owner"
  BY <1>3
<1>7. ASSUME NEW v \in users'
      PROVE  HasWallet(v) \/ \E p \in Organizations : role'[p][v] = "owner"
  <2>1. users \subseteq Users
    BY DEF IdentityInv, IdentityTypeOK
  <2>2. CASE v = u
    <3>1. CASE x = "owner"
      BY <1>3, <2>2, <3>1
    <3>2. CASE x # "owner"
      BY <2>2, <3>2
    <3> QED
      BY <3>1, <3>2
  <2>3. CASE v # u
    <3>1. v \in users /\ v \in Users
      BY <2>1, <2>3
    <3> QED
      BY <1>6, <2>3, <3>1 DEF IdentityInv, MemberInv
  <2> QED
    BY <2>2, <2>3
<1>8. ASSUME NEW p \in Organizations, NEW v \in Users, NEW w \in Users,
             role'[p][v] = "owner", role'[p][w] = "owner"
      PROVE  v = w
  <2>1. CASE p = o /\ x = "owner"
    <3>1. \A y \in Users : role[o][y] # "owner"
      BY <1>5, <2>1 DEF Exists
    <3> QED
      BY <1>6, <1>8, <2>1, <3>1
  <2>2. CASE ~(p = o /\ x = "owner")
    <3>1. role[p][v] = "owner" /\ role[p][w] = "owner"
      BY <1>3, <1>6, <1>8, <2>2
    <3> QED
      BY <3>1 DEF IdentityInv, MemberInv
  <2> QED
    BY <2>1, <2>2
<1>9. ASSUME NEW p \in Organizations, NEW v \in Users,
             role'[p][v] \notin {"owner", None}
      PROVE  HasWallet(v)
  <2>1. CASE p = o /\ v = u
    BY <1>3, <1>9, <2>1
  <2>2. CASE ~(p = o /\ v = u)
    BY <1>3, <1>9, <2>2 DEF IdentityInv, MemberInv
  <2> QED
    BY <2>1, <2>2
<1>10. MemberInv'
  BY <1>4, <1>7, <1>8, <1>9 DEF MemberInv
<1> QED
  BY <1>2, <1>10

LEMMA GrantKeeps ==
  ASSUME IdentityInv, NEW r \in Requests, GrantMembership(r)
  PROVE  IdentityInv'
<1> DEFINE write == request[r].write
           o == request[r].organization
<1>1. /\ IsReady(r, "members")
      /\ role' = [role EXCEPT ![o][write.user] = write.role]
      /\ request' = [request EXCEPT ![r] = None]
      /\ UNCHANGED <<users, wallets, challenge, admins, settings, pageant>>
  BY DEF GrantMembership
<1>2. IsDoing(r, "ready") /\ write.capability = "members"
  BY <1>1 DEF IsReady
<1>3. /\ o \in Organizations /\ HasWallet(write.user)
      /\ write.user \in Users /\ write.role \in GrantedRoles
  <2>1. write \in Grant \union PageantWrite \union Patch
    BY <1>2, WriteIsKnown
  <2>2. write.user \in Users /\ write.role \in GrantedRoles
    BY <1>2, <2>1, WriteShapes
  <2>3. WriteOf(r) /\ ReadyOf(r)
    BY DEF IdentityInv, RequestInv
  <2> QED
    BY <1>1, <1>2, <2>2, <2>3 DEF WriteOf, ReadyOf, HasWallet
<1>4. write.role \in MemberRoles /\ write.role # "owner"
  BY <1>3, IdentityAssumption
<1> HIDE DEF write, o
<1>5. /\ MemberInv'
      /\ role' \in [Organizations -> [Users -> MemberRoles \union {None}]]
  BY <1>1, <1>3, <1>4, MemberChanges
<1>6. ChallengesKept /\ PageantsKept /\ WalletsKept
  BY <1>1 DEF ChallengesKept, PageantsKept, WalletsKept
<1>7. /\ request' \in [Requests -> UnderWay \union {None}]
      /\ \A q \in Requests : request'[q] \in {request[q], None}
  BY <1>1, AnswerEndsRequest DEF IdentityInv
<1>8. RequestInv'
  BY <1>1, <1>6, <1>7, RequestsStay
<1>9. ChallengeInv' /\ WalletInv'
  BY <1>1, <1>6, WalletsStay DEF IdentityInv, ChallengeInv
<1>10. IdentityTypeOK' /\ Tables'
  BY <1>1, <1>5, <1>7 DEF IdentityInv, IdentityTypeOK, Tables
<1>11. AdminInv'
  BY <1>1 DEF IdentityInv, AdminInv, HasWallet
<1> QED
  BY <1>5, <1>8, <1>9, <1>10, <1>11 DEF IdentityInv

LEMMA BootstrapKeeps ==
  ASSUME IdentityInv, Bootstrap
  PROVE  IdentityInv'
<1>1. PICK u \in Users \ users, o \in Organizations :
        /\ ~Exists(o)
        /\ users' = users \union {u}
        /\ role' = [role EXCEPT ![o][u] = "owner"]
        /\ UNCHANGED <<wallets, challenge, admins, settings, pageant, request>>
  BY DEF Bootstrap
<1>2. /\ MemberInv'
      /\ role' \in [Organizations -> [Users -> MemberRoles \union {None}]]
  <2>1. "owner" \in MemberRoles
    BY DEF MemberRoles
  <2> QED
    BY <1>1, <2>1, MemberChanges
<1>3. ChallengesKept /\ PageantsKept /\ WalletsKept
  BY <1>1 DEF ChallengesKept, PageantsKept, WalletsKept
<1>4. RequestInv'
  BY <1>1, <1>3, RequestsStay
<1>5. ChallengeInv' /\ WalletInv'
  BY <1>1, <1>3, WalletsStay DEF IdentityInv, ChallengeInv
<1>6. IdentityTypeOK' /\ Tables'
  BY <1>1, <1>2 DEF IdentityInv, IdentityTypeOK, Tables
<1>7. AdminInv'
  BY <1>1 DEF IdentityInv, AdminInv, HasWallet
<1> QED
  BY <1>2, <1>4, <1>5, <1>6, <1>7 DEF IdentityInv

LEMMA CommitSetupKeeps ==
  ASSUME IdentityInv, NEW r \in Requests, CommitSetup(r)
  PROVE  IdentityInv'
<1> DEFINE u == request[r].user
           n == request[r].network
           o == request[r].organization
<1>1. /\ IsDoing(r, "setup")
      /\ \E w \in wallets : w.user = u /\ w.network = n
      /\ ~Exists(o)
      /\ role' = [role EXCEPT ![o][u] = "owner"]
      /\ admins' = admins \union {u}
      /\ settings' = [settings EXCEPT !.network = n, !.setupBy = u]
      /\ request' = [request EXCEPT ![r] = None]
      /\ UNCHANGED <<users, wallets, challenge, pageant>>
  BY DEF CommitSetup
<1>2. u \in Users /\ n \in Networks /\ o \in Organizations
  <2>1. request[r] \in UnderWay /\ request[r].op = "setup"
    BY <1>1 DEF IdentityInv, Tables, IsDoing
  <2> QED
    BY <2>1, RequestShapes
<1>3. u \in users /\ HasWallet(u) /\ u # None
  BY <1>1, <1>2, IdentityAssumption
     DEF IdentityInv, WalletInv, OneAccount, HasWallet
<1>4. /\ settings.setupBy = None
      /\ \A q \in Requests : IsDoing(q, "setup") => q = r
  BY <1>1 DEF IdentityInv, RequestInv, SetupOf
<1> HIDE DEF u, n, o
<1>5. /\ settings' \in Settings /\ settings'.setupBy = u
  BY <1>1, <1>2 DEF IdentityInv, IdentityTypeOK, Settings
<1>6. AdminInv'
  <2>1. admins = {}
    BY <1>4 DEF IdentityInv, AdminInv
  <2> QED
    BY <1>1, <1>3, <1>5, <2>1 DEF AdminInv, HasWallet
<1>7. /\ MemberInv'
      /\ role' \in [Organizations -> [Users -> MemberRoles \union {None}]]
  <2>1. "owner" \in MemberRoles
    BY DEF MemberRoles
  <2> QED
    BY <1>1, <1>2, <2>1, MemberChanges
<1>8. ChallengesKept /\ PageantsKept /\ WalletsKept
  BY <1>1 DEF ChallengesKept, PageantsKept, WalletsKept
<1>9. /\ request' \in [Requests -> UnderWay \union {None}]
      /\ \A q \in Requests : request'[q] \in {request[q], None}
      /\ request'[r] = None
  BY <1>1, AnswerEndsRequest DEF IdentityInv
<1>10. \A q \in Requests : ~IsDoing(q, "setup")'
  BY <1>4, <1>9 DEF IsDoing
<1>11. RequestInv'
  BY <1>4, <1>8, <1>9, <1>10, RequestsStay
<1>12. ChallengeInv' /\ WalletInv'
  BY <1>1, <1>8, WalletsStay DEF IdentityInv, ChallengeInv
<1>13. IdentityTypeOK' /\ Tables'
  BY <1>1, <1>3, <1>5, <1>7, <1>9 DEF IdentityInv, IdentityTypeOK, Tables
<1> QED
  BY <1>6, <1>7, <1>11, <1>12, <1>13 DEF IdentityInv

(* A wallet that the unique indexes let in.                                *)
LEMMA WalletAdded ==
  ASSUME IdentityInv, NEW w \in Wallet, Unique(w),
         wallets' = wallets \union {w}, users' = users \union {w.user},
         w.primary \/ Primaries(w.user, w.network) # {},
         ChallengesKept, NEW c \in Challenges, Proven(w, c)'
  PROVE  WalletInv'
<1>1. OwnersOf(w.network, w.address) = {}
  BY DEF Unique
<1>2. \A v \in wallets : ~(v.network = w.network /\ v.address = w.address)
  BY <1>1 DEF OwnersOf
<1>3. \A u, n : Primaries(u, n)' = Primaries(u, n) \union
                    (IF w.user = u /\ w.network = n /\ w.primary THEN {w}
                     ELSE {})
  BY DEF Primaries
<1>4. ASSUME NEW v \in wallets
      PROVE  OneAccount(v)' /\ \E d \in Challenges : Proven(v, d)'
  <2>1. OneAccount(v) /\ \E d \in Challenges : Proven(v, d)
    BY DEF IdentityInv, WalletInv
  <2>2. \A d \in Challenges : Proven(v, d) => Proven(v, d)'
    BY DEF Proven, ChallengesKept
  <2>3. OwnersOf(v.network, v.address)' = {v.user}
    <3>1. OwnersOf(v.network, v.address)' = OwnersOf(v.network, v.address)
      BY <1>2 DEF OwnersOf
    <3> QED
      BY <2>1, <3>1 DEF OneAccount
  <2>4. \E x \in wallets : Primaries(v.user, v.network)' = {x}
    <3>1. PICK x \in wallets : Primaries(v.user, v.network) = {x}
      BY <2>1 DEF OneAccount
    <3>2. ~(w.user = v.user /\ w.network = v.network /\ w.primary)
      BY <3>1 DEF Unique
    <3> QED
      BY <1>3, <3>1, <3>2
  <2> QED
    BY <2>1, <2>2, <2>3, <2>4 DEF OneAccount
<1>5. OneAccount(w)'
  <2>1. OwnersOf(w.network, w.address)' = {w.user}
    BY <1>2 DEF OwnersOf
  <2>2. CASE w.primary
    <3>1. Primaries(w.user, w.network) = {}
      BY <2>2 DEF Unique
    <3>2. Primaries(w.user, w.network)' = {w}
      BY <1>3, <2>2, <3>1
    <3> QED
      BY <2>1, <3>2 DEF OneAccount
  <2>3. CASE ~w.primary
    <3>1. PICK v \in wallets : v.user = w.user /\ v.network = w.network
      BY <2>3 DEF Primaries
    <3>2. PICK x \in wallets : Primaries(w.user, w.network) = {x}
      BY <3>1 DEF IdentityInv, WalletInv, OneAccount
    <3>3. Primaries(w.user, w.network)' = {x}
      BY <1>3, <2>3, <3>2
    <3> QED
      BY <2>1, <3>2, <3>3 DEF OneAccount
  <2> QED
    BY <2>2, <2>3
<1> QED
  BY <1>4, <1>5 DEF WalletInv

LEMMA CommitConsumeKeeps ==
  ASSUME IdentityInv, NEW r \in Requests, CommitConsume(r)
  PROVE  IdentityInv'
<1>1. IsDoing(r, "consume")
  BY DEF CommitConsume
<1>2. PICK c \in Challenges, primary \in BOOLEAN :
        c = request[r].challenge /\ primary = request[r].primary
  <2>1. request[r] \in UnderWay /\ request[r].op = "consume"
    BY <1>1 DEF IdentityInv, Tables, IsDoing
  <2> QED
    BY <2>1, RequestShapes
<1>3. challenge[c] # None
  BY <1>1, <1>2 DEF IdentityInv, RequestInv, ConsumeOf
<1>4. PICK k \in Challenge : k = challenge[c]
  BY <1>2, <1>3 DEF IdentityInv, Tables
<1> DEFINE Row(u) == [user |-> u, network |-> k.network,
                      address |-> k.address, primary |-> primary]
<1>5. k.network \in Networks /\ k.address \in Addresses
  BY <1>4 DEF Challenge
<1>6. /\ k.purpose = "link" => k.user \in users
      /\ ~primary => k.purpose = "link" /\ Primaries(k.user, k.network) # {}
  BY <1>1, <1>2, <1>3, <1>4
     DEF IdentityInv, ChallengeInv, RequestInv, ConsumeOf
<1>7. /\ challenge' = [challenge EXCEPT ![c].status = "consumed"]
      /\ \/ UNCHANGED <<users, wallets>>
         \/ \E u \in InsertFor(k) :
                /\ Unique(Row(u))
                /\ users' = users \union {u}
                /\ wallets' = wallets \union {Row(u)}
      /\ request' = [request EXCEPT ![r] = None]
      /\ UNCHANGED <<admins, role, settings, pageant>>
  BY <1>2, <1>4 DEF CommitConsume
<1>8. PICK K \in Challenge :
        /\ K = [k EXCEPT !.status = "consumed"]
        /\ K # None /\ K.status = "consumed"
        /\ K.purpose = k.purpose /\ K.user = k.user
        /\ K.network = k.network /\ K.address = k.address
  <2> DEFINE K == [k EXCEPT !.status = "consumed"]
  <2>1. /\ K \in Challenge /\ K.status = "consumed"
        /\ K.purpose = k.purpose /\ K.user = k.user
        /\ K.network = k.network /\ K.address = k.address
    BY <1>4 DEF Challenge
  <2>2. K # None
    BY <2>1, IdentityRecordAssumption
  <2> QED
    BY <2>1, <2>2
<1>9. /\ challenge' \in [Challenges -> Challenge \union {None}]
      /\ challenge'[c] = K
      /\ \A d \in Challenges \ {c} : challenge'[d] = challenge[d]
  BY <1>7, <1>2, <1>4, <1>8 DEF IdentityInv, Tables
<1>10. ChallengesKept /\ PageantsKept /\ WalletsKept
  BY <1>3, <1>4, <1>7, <1>8, <1>9
     DEF ChallengesKept, PageantsKept, WalletsKept
<1>11. WalletInv' /\ users' \subseteq Users /\ wallets' \subseteq Wallet
       /\ \A u \in users' \ users : HasWallet(u)'
  <2>1. CASE UNCHANGED <<users, wallets>>
    BY <1>10, <2>1, WalletsStay DEF IdentityInv, IdentityTypeOK
  <2>2. ASSUME NEW u \in InsertFor(k), Unique(Row(u)),
               users' = users \union {u},
               wallets' = wallets \union {Row(u)}
        PROVE  /\ WalletInv' /\ users' \subseteq Users
               /\ wallets' \subseteq Wallet
               /\ \A v \in users' \ users : HasWallet(v)'
    <3>1. /\ u \in Users
          /\ k.purpose = "link" => u = k.user
      BY <1>6, <2>2 DEF InsertFor, IdentityInv, IdentityTypeOK
    <3>2. PICK w \in Wallet :
            /\ w = Row(u)
            /\ w.user = u /\ w.network = k.network
            /\ w.address = k.address /\ w.primary = primary
      <4>1. Row(u) \in Wallet
        BY <1>5, <3>1 DEF Wallet
      <4> QED
        BY <4>1
    <3>3. w.primary \/ Primaries(w.user, w.network) # {}
      BY <1>6, <3>1, <3>2
    <3>4. Proven(w, c)'
      <4>1. /\ challenge'[c] # None /\ challenge'[c].status = "consumed"
            /\ challenge'[c].network = w.network
            /\ challenge'[c].address = w.address
        BY <1>8, <1>9, <3>2
      <4>2. challenge'[c].purpose = "link" => challenge'[c].user = w.user
        BY <1>8, <1>9, <3>1, <3>2
      <4> QED
        BY <4>1, <4>2 DEF Proven
    <3>5. /\ wallets' = wallets \union {w} /\ users' = users \union {w.user}
          /\ Unique(w)
      BY <2>2, <3>2
    <3>6. WalletInv'
      BY <1>2, <1>10, <3>2, <3>3, <3>4, <3>5, WalletAdded
    <3>7. \A v \in users' \ users : HasWallet(v)'
      BY <3>2, <3>5 DEF HasWallet
    <3> QED
      BY <3>1, <3>2, <3>5, <3>6, <3>7 DEF IdentityInv, IdentityTypeOK
  <2> QED
    BY <1>7, <2>1, <2>2
<1>12. /\ request' \in [Requests -> UnderWay \union {None}]
       /\ \A q \in Requests : request'[q] \in {request[q], None}
  BY <1>7, AnswerEndsRequest DEF IdentityInv
<1>13. RequestInv'
  BY <1>7, <1>10, <1>12, RequestsStay
<1>14. ChallengeInv'
  BY <1>6, <1>8, <1>9, <1>10
     DEF IdentityInv, ChallengeInv, WalletsKept
<1>15. IdentityTypeOK' /\ Tables'
  BY <1>7, <1>9, <1>10, <1>11, <1>12
     DEF IdentityInv, IdentityTypeOK, Tables, WalletsKept
<1>16. \A u : HasWallet(u) => HasWallet(u)'
  BY <1>10 DEF HasWallet, WalletsKept
<1>17. MemberInv' /\ AdminInv'
  <2>1. MemberInv /\ AdminInv
    BY DEF IdentityInv
  <2>2. AdminInv'
    BY <1>7, <1>16, <2>1 DEF AdminInv
  <2>3. \A u \in users' :
            HasWallet(u)' \/ \E o \in Organizations : role[o][u] = "owner"
    BY <1>11, <1>16, <2>1 DEF MemberInv
  <2>4. MemberInv'
    BY <1>7, <1>16, <2>1, <2>3 DEF MemberInv
  <2> QED
    BY <2>2, <2>4
<1> QED
  BY <1>11, <1>13, <1>14, <1>15, <1>17 DEF IdentityInv
-----------------------------------------------------------------------------
LEMMA IdentityStart == IdentityInit => IdentityInv
<1> SUFFICES ASSUME IdentityInit
             PROVE  IdentityInv
  OBVIOUS
<1>1. IdentityTypeOK /\ Tables
  BY DEF IdentityInit, IdentityTypeOK, Tables, Settings, Networks
<1>2. ChallengeInv /\ WalletInv /\ AdminInv
  BY DEF IdentityInit, ChallengeInv, WalletInv, AdminInv
<1>3. RequestInv
  BY DEF IdentityInit, RequestInv, ConsumeOf, SetupOf, WriteOf, ReadyOf,
     IsReady, IsDoing
<1>4. MemberInv
  BY IdentityAssumption DEF IdentityInit, MemberInv, MemberRoles
<1> QED
  BY <1>1, <1>2, <1>3, <1>4 DEF IdentityInv

LEMMA IdentityStutters ==
  ASSUME IdentityInv, UNCHANGED identityVars
  PROVE  IdentityInv'
<1>1. UNCHANGED <<users, wallets, challenge, admins, role, settings, pageant,
                  request>>
  BY DEF identityVars
<1>2. ChallengesKept /\ PageantsKept /\ WalletsKept
  BY <1>1 DEF ChallengesKept, PageantsKept, WalletsKept
<1>3. RequestInv'
  BY <1>1, <1>2, RequestsStay
<1>4. ChallengeInv' /\ WalletInv'
  BY <1>1, <1>2, WalletsStay DEF IdentityInv, ChallengeInv
<1>5. IdentityTypeOK' /\ Tables' /\ MemberInv' /\ AdminInv'
  BY <1>1 DEF IdentityInv, IdentityTypeOK, Tables, MemberInv, AdminInv,
     HasWallet
<1> QED
  BY <1>3, <1>4, <1>5 DEF IdentityInv

LEMMA IdentityStep ==
  IdentityInv /\ [IdentityNext]_identityVars => IdentityInv'
<1> SUFFICES ASSUME IdentityInv, [IdentityNext]_identityVars
             PROVE  IdentityInv'
  OBVIOUS
<1>1. CASE UNCHANGED identityVars
  BY <1>1, IdentityStutters
<1>2. CASE IdentityNext
  <2>1. ASSUME NEW c \in Challenges,
               \/ CreateWalletChallenge(c) \/ ChallengeExpires(c)
               \/ \E r \in Requests : BeginConsume(r, c)
        PROVE  IdentityInv'
    BY <2>1, CreateChallengeKeeps, ChallengeExpiresKeeps, BeginConsumeKeeps
  <2>2. ASSUME NEW r \in Requests,
               \/ CommitConsume(r) \/ GiveUp(r)
               \/ BeginSetup(r) \/ CommitSetup(r)
               \/ Enforce(r)
        PROVE  IdentityInv'
    BY <2>2, CommitConsumeKeeps, GiveUpKeeps, BeginSetupKeeps,
       CommitSetupKeeps, EnforceKeeps
  <2>3. ASSUME NEW r \in Requests,
               \/ CheckGrant(r) \/ CheckPageant(r) \/ CheckSettings(r)
               \/ GrantMembership(r) \/ CreatePageant(r) \/ UpdatePageant(r)
               \/ UpdateSiteSettings(r)
        PROVE  IdentityInv'
    BY <2>3, CheckGrantKeeps, CheckPageantKeeps, CheckSettingsKeeps,
       GrantKeeps, CreatePageantKeeps, UpdatePageantKeeps,
       UpdateSettingsKeeps
  <2> QED
    BY <1>2, <2>1, <2>2, <2>3, BootstrapKeeps DEF IdentityNext
<1> QED
  BY <1>1, <1>2

(* Types, challenges, requests under way, wallets, members and the         *)
(* administrator, in every state of the accounts and rights.               *)
THEOREM IdentityInvariant == IdentitySpec => []IdentityInv
  BY IdentityStart, IdentityStep, PTL DEF IdentitySpec

(* However logins and links overlap, a wallet has one account and an       *)
(* account one primary wallet on each of its networks, every wallet was    *)
(* proven by a challenge of its own, and nobody is left without one:       *)
(* consume_wallet_challenge.                                               *)
THEOREM IdentityAccountsFollowChallenges ==
  IdentitySpec => []AccountsFollowChallenges
<1>1. ASSUME IdentityInv
      PROVE  AccountsFollowChallenges
  <2>1. ASSUME NEW w \in wallets
        PROVE  /\ w.user \in users
               /\ OwnersOf(w.network, w.address) = {w.user}
               /\ Cardinality(Primaries(w.user, w.network)) = 1
    <3>1. OneAccount(w)
      BY <1>1 DEF IdentityInv, WalletInv
    <3>2. PICK v \in wallets : Primaries(w.user, w.network) = {v}
      BY <3>1 DEF OneAccount
    <3>3. Cardinality({v}) = 1
      BY FS_Singleton
    <3> QED
      BY <3>1, <3>2, <3>3 DEF OneAccount
  <2>2. \A w \in wallets : \E c \in Challenges : Proven(w, c)
    BY <1>1 DEF IdentityInv, WalletInv
  <2> QED
    BY <1>1, <2>1, <2>2
       DEF IdentityInv, MemberInv, HasWallet, Proven, AccountsFollowChallenges
<1> QED
  BY <1>1, IdentityInvariant, PTL

(* The site is set up once, by a user with a wallet who is then its only   *)
(* administrator; nobody else's settings get through; an organization has  *)
(* at most one owner, and its other members have signed in:                *)
(* complete_setup, grant_membership, update_site_settings.                 *)
THEOREM IdentityOneSetup == IdentitySpec => []OneSetup
<1>1. ASSUME IdentityInv
      PROVE  OneSetup
  <2>1. ASSUME NEW o \in Organizations
        PROVE  Cardinality({u \in Users : role[o][u] = "owner"}) <= 1
    <3> DEFINE S == {u \in Users : role[o][u] = "owner"}
    <3>1. \A u, v \in S : u = v
      BY <1>1 DEF IdentityInv, MemberInv
    <3>2. S = {} \/ \E u : S = {u}
      BY <3>1
    <3>3. /\ Cardinality({}) = 0
          /\ \A u : Cardinality({u}) = 1
      BY FS_EmptySet, FS_Singleton
    <3>4. Cardinality(S) = 0 \/ Cardinality(S) = 1
      <4> HIDE DEF S
      <4> QED
        BY <3>2, <3>3, Zenon
    <3> QED
      BY <3>4
  <2>2. \A r \in Requests : IsReady(r, "settings") => settings.setupBy # None
    BY <1>1 DEF IdentityInv, RequestInv, ReadyOf
  <2> QED
    BY <1>1, <2>1, <2>2
       DEF IdentityInv, MemberInv, AdminInv, HasWallet, OneSetup
<1> QED
  BY <1>1, IdentityInvariant, PTL
=============================================================================
