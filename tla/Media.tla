-------------------------------- MODULE Media -------------------------------
(***************************************************************************)
(* Upload of images: an intent, the object in the bucket, its completion   *)
(* under a lock, and its attachment to a contestant (services/api/src/     *)
(* media.rs, media_completion_lock.rs, storage.rs, and the connection pool *)
(* of database.rs).                                                        *)
(*                                                                         *)
(* A completion holds one connection of the pool for its advisory lock and *)
(* needs further ones, each for one statement, while the handler runs.     *)
(* Its steps interleave with those of other requests and with the client,  *)
(* which may store the object again as long as its signed address lives,   *)
(* or disconnect, which drops the handler where it waits.  A deadline or a *)
(* timeout is an action that may come at any time while one waits.         *)
(*                                                                         *)
(* A definition marked FAULT is not part of the model: it is the next      *)
(* definition with a plausible mistake, which a property has to notice.    *)
(***************************************************************************)
EXTENDS Integers, FiniteSets, ApiRequests

CONSTANTS
    Assets,         \* media assets that may be created
    Contestants,    \* contestants images are attached to
    PoolSizes       \* what max_connections may be configured to

Roles == {"portrait", "gallery"}

ASSUME MediaAssumption ==
    /\ PoolSizes \subseteq Nat \ {0}
    /\ None \notin Assets \union {"pending", "ready", "failed"}

VARIABLES
    status,     \* media_assets.status
    object,     \* what the bucket holds for an asset
    media,      \* rows of contestant_media
    asset,      \* the asset a request completes
    stage,      \* where a request is
    expired,    \* the requests whose thirty seconds for the lock are over
    poolSize    \* max_connections of the pool, fixed at the start

vars == <<status, object, media, asset, stage, expired, poolSize>>

(* Stages with a connection: the attempt at the lock and all under it. *)
Handling == {"locked", "heading", "matching", "mismatching", "deleting",
             "answering"}
Stages == {"idle", "connecting", "trying", "sleeping", "done"} \union Handling

Init ==
    /\ status = [a \in Assets |-> None]
    /\ object = [a \in Assets |-> "none"]
    /\ media = {}
    /\ asset = [p \in Requests |-> None]
    /\ stage = [p \in Requests |-> "idle"]
    /\ expired = {}
    /\ poolSize \in PoolSizes
-----------------------------------------------------------------------------
CreateUploadIntent(a) ==
    /\ status[a] = None
    /\ status' = [status EXCEPT ![a] = "pending"]
    /\ UNCHANGED <<object, media, asset, stage, expired, poolSize>>

(* The client puts the declared bytes to the signed address, or others. *)
PutObject(a, body) ==
    /\ status[a] # None
    /\ object[a] # body
    /\ object' = [object EXCEPT ![a] = body]
    /\ UNCHANGED <<status, media, asset, stage, expired, poolSize>>

(* The unlocked read and the insert are one step: ready is for good. *)
AttachContestantMedia(c, a, role) ==
    /\ status[a] = "ready"
    /\ media' = {row \in media : role = "portrait" => row[1] # c
                                                  \/ row[3] # "portrait"}
                \union {<<c, a, role>>}
    /\ media' # media
    /\ UNCHANGED <<status, object, asset, stage, expired, poolSize>>
-----------------------------------------------------------------------------
(* The connection pool and the lock. *)

Holding == {p \in Requests : stage[p] \in Handling \union {"trying"}}

ConnectionFree == Cardinality(Holding) < poolSize

(* FAULT: two completions of an asset may run at once. *)
LockAlwaysFree(a) == TRUE

LockFree(a) == \A q \in Requests : asset[q] = a => stage[q] \notin Handling

Goto(p, next) ==
    /\ stage' = [stage EXCEPT ![p] = next]
    /\ UNCHANGED <<media, asset, expired, poolSize>>

Leaves(p, from, to) ==
    /\ stage[p] = from
    /\ Goto(p, to)
    /\ UNCHANGED <<status, object>>

Complete(p, a) ==
    /\ stage[p] = "idle"
    /\ status[a] # None
    /\ asset' = [asset EXCEPT ![p] = a]
    /\ stage' = [stage EXCEPT ![p] = "connecting"]
    /\ UNCHANGED <<status, object, media, expired, poolSize>>

BeginLock(p) == ConnectionFree /\ Leaves(p, "connecting", "trying")

AcquireLock(p) == LockFree(asset[p]) /\ Leaves(p, "trying", "locked")

(* Not acquired: the transaction is rolled back, and the request sleeps    *)
(* unless its deadline has passed.                                         *)
RollbackLock(p) ==
    /\ ~LockFree(asset[p])
    /\ Leaves(p, "trying", IF p \in expired THEN "done" ELSE "sleeping")

RetryLock(p) == Leaves(p, "sleeping", "connecting")

LockDeadline(p) ==
    /\ stage[p] \in {"connecting", "trying", "sleeping"}
    /\ p \notin expired
    /\ expired' = expired \union {p}
    /\ UNCHANGED <<status, object, media, asset, stage, poolSize>>

(* FAULT: the pool waits for a connection for ever. *)
WaitsForEver(p) == FALSE

(* acquire_timeout of the pool passes while a request waits: before the    *)
(* lock it ends, under the lock it answers and lets go of the lock.        *)
AcquireTimeout(p) ==
    \/ Leaves(p, "connecting", "done")
    \/ Leaves(p, "locked", "answering")
    \/ Leaves(p, "matching", "answering")
    \/ Leaves(p, "mismatching", "answering")
-----------------------------------------------------------------------------
(* complete_upload; every statement takes a connection and returns it. *)

FetchAsset(p) ==
    /\ ConnectionFree
    /\ Leaves(p, "locked",
              IF status[asset[p]] = "pending" THEN "heading" ELSE "answering")

(* head_object fails if there is none, else compares length, type, hash. *)
HeadObject(p) ==
    Leaves(p, "heading",
           CASE object[asset[p]] = "none" -> "answering"
             [] object[asset[p]] = "declared" -> "matching"
             [] object[asset[p]] = "other" -> "mismatching")

SetStatus(p, from, new, to) ==
    /\ ConnectionFree
    /\ stage[p] = from
    /\ status' = [status EXCEPT ![asset[p]] = new]
    /\ Goto(p, to)
    /\ UNCHANGED object

MarkReady(p) == SetStatus(p, "matching", "ready", "answering")

MarkFailed(p) == SetStatus(p, "mismatching", "failed", "deleting")

(* The bucket may refuse; that is logged and nothing more. *)
DeleteObject(p, deleted) ==
    /\ stage[p] = "deleting"
    /\ object' = IF deleted THEN [object EXCEPT ![asset[p]] = "none"]
                            ELSE object
    /\ Goto(p, "answering")
    /\ UNCHANGED status

(* The response is ready and the lock transaction commits. *)
Answer(p) == Leaves(p, "answering", "done")

Disconnect(p) ==
    /\ stage[p] \notin {"idle", "done"}
    /\ Goto(p, "done")
    /\ UNCHANGED <<status, object>>
-----------------------------------------------------------------------------
Handle(p) ==
    \/ BeginLock(p) \/ AcquireLock(p) \/ RollbackLock(p) \/ RetryLock(p)
    \/ FetchAsset(p) \/ MarkReady(p) \/ MarkFailed(p)
    \/ Answer(p)

BucketAnswers(p) ==
    HeadObject(p) \/ \E deleted \in BOOLEAN : DeleteObject(p, deleted)

Next ==
    \/ \E a \in Assets : CreateUploadIntent(a)
    \/ \E a \in Assets, body \in {"declared", "other"} : PutObject(a, body)
    \/ \E c \in Contestants, a \in Assets, role \in Roles :
            AttachContestantMedia(c, a, role)
    \/ \E p \in Requests, a \in Assets : Complete(p, a)
    \/ \E p \in Requests :
            \/ Handle(p)
            \/ BucketAnswers(p)
            \/ LockDeadline(p)
            \/ AcquireTimeout(p)
            \/ Disconnect(p)

(* The runtime polls every task that is ready, the database answers, and   *)
(* timers fire.  Nothing bounds a call of the bucket, which may hang.      *)
Fairness ==
    \A p \in Requests :
        /\ WF_vars(Handle(p))
        /\ WF_vars(LockDeadline(p))
        /\ WF_vars(AcquireTimeout(p))

Spec == Init /\ [][Next]_vars /\ Fairness
-----------------------------------------------------------------------------
TypeOK ==
    /\ status \in [Assets -> {"pending", "ready", "failed", None}]
    /\ object \in [Assets -> {"none", "declared", "other"}]
    /\ media \in SUBSET (Contestants \X Assets \X Roles)
    /\ asset \in [Requests -> Assets \union {None}]
    /\ stage \in [Requests -> Stages]
    /\ expired \in SUBSET Requests
    /\ poolSize \in PoolSizes

(* What list_contestant_media shows is there: every image attached to a    *)
(* contestant is ready and in the bucket, whatever completions of it ran   *)
(* at the same time, and nobody has two portraits.                         *)
ShownIsStored ==
    /\ TypeOK
    /\ Cardinality(Holding) <= poolSize
    /\ \A row \in media :
            status[row[2]] = "ready" /\ object[row[2]] # "none"
    /\ \A c \in Contestants :
            Cardinality({a \in Assets : <<c, a, "portrait">> \in media}) <= 1

(* complete_upload decides on an asset once: ready and failed are never    *)
(* taken back, although both are written without looking at the status     *)
(* again, and an object of a ready asset is never deleted.                 *)
DecidedOnce ==
    [][\A a \in Assets :
        /\ status[a] \in {"ready", "failed"} => status'[a] = status[a]
        /\ status[a] = "ready" /\ object[a] # "none" => object'[a] # "none"
      ]_vars

AwaitsBucket(p) == stage[p] \in {"heading", "deleting"}

(* Every completion is answered, even where all connections of the pool    *)
(* are held by requests that wait for one more, or where another request   *)
(* hangs in a call of the bucket with a connection and the lock: the       *)
(* timeouts of the pool and of the lock see to it.  Only a request whose   *)
(* own call the bucket never answers (head_object, delete_object of        *)
(* storage.rs, which set no timeout) waits for ever.                       *)
EveryRequestEnds ==
    \A p \in Requests :
        \/ <>[]AwaitsBucket(p)
        \/ stage[p] # "idle" ~> stage[p] = "done"
=============================================================================
