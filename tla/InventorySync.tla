--------------------------- MODULE InventorySync ---------------------------
(***************************************************************************)
(* How the inventory follows the Kubernetes API: the review of its         *)
(* permissions, the informers of internal/collector/kubernetes.go, the     *)
(* channel they share, and the manager and store of                        *)
(* internal/inventory/inventory.go.                                        *)
(*                                                                         *)
(* Permissions are reviewed once, before the informers are made, and a     *)
(* kind that could not be listed and watched then is not followed.  The    *)
(* cluster's administrator may change them at any time afterwards.         *)
(*                                                                         *)
(* The cluster and client-go are the environment.  An object has one       *)
(* lifetime, for its UID is never used again; its state is a version       *)
(* number: 0 before its creation, Gone after its deletion.  Another object *)
(* may then be created under its name.  An informer lists its kind once    *)
(* and then watches it; after a broken watch it lists again, so it may     *)
(* skip versions but never goes back.  Its cache is keyed by name, while   *)
(* the store is keyed by UID.  Its listener is one goroutine, which calls  *)
(* emit for one notification after another.                                *)
(***************************************************************************)
EXTENDS Naturals, Sequences, SequencesExt

CONSTANTS
  Objects, Kinds, KindOf,
  NameOf,      \* the namespace and name of an object, within its kind
  Permissions, \* the sets of verbs the API server may grant on a kind
  ChanCap,     \* capacity of the changes channel (4096 in the code)
  MaxVersion,  \* bound: versions of an object
  LastVersion, \* bound: the last version of each object
  MaxGrants,   \* bound: changes of permissions after the review
  NoChange

Gone == MaxVersion + 1
Versions == 0 .. Gone
Change == [object : Objects, version : 1 .. Gone]

ASSUME SyncAssumption ==
  /\ IsFiniteSet(Objects)
  /\ KindOf \in [Objects -> Kinds]
  /\ Permissions \subseteq SUBSET {"get", "list", "watch"}
  /\ ChanCap \in Nat \ {0}
  /\ MaxVersion \in Nat \ {0}
  /\ MaxGrants \in Nat
  /\ NoChange \notin Change

ASSUME NameAssumption ==
  /\ \A o, p \in Objects : NameOf[o] = NameOf[p] => KindOf[o] = KindOf[p]
  /\ LastVersion \in [Objects -> 1 .. MaxVersion]

VARIABLES
  granted,    \* verbs the API server grants on each kind
  grants,     \* changes of permissions so far
  access,     \* Store.access: status, and the granted verbs it found
  cluster,    \* version of each object in the API server
  listed,     \* kinds whose informer has synced
  seen,       \* version of each object its informer last gave its listener
  replaced,   \* objects whose name another one has in the informer's cache
  pending,    \* per kind: notifications its listener has yet to emit
  changes,    \* the collector's channel
  hand,       \* the change the apply loop has received, or NoChange
  looping,    \* the apply loop runs
  resources,  \* Store.resources: version of each object, 0 for none
  status,     \* Connection.Status
  stopped     \* the application context is done

vars == <<granted, grants, access, cluster, listed, seen, replaced, pending, changes,
          hand, looping, resources, status, stopped>>
permissions == <<granted, grants, access>>
environment == <<permissions, cluster, listed, seen, replaced>>

Verbs == {"get", "list", "watch"}
FollowVerbs == {"list", "watch"}

(* checkAccess: each verb of each kind is reviewed, and one failing review *)
(* makes the whole report unavailable.                                     *)
Reviewed(verbs) ==
  [status |-> IF \A k \in Kinds : verbs[k] = Verbs THEN "complete" ELSE "partial",
   verbs  |-> verbs]
Unavailable == [status |-> "unavailable", verbs |-> [k \in Kinds |-> {}]]

(* The kinds NewAuto has informers for.  Without a review, it tries all;   *)
(* without a connection there is no collector.                             *)
FollowedIfListed ==
  IF status = "disconnected" THEN {}
  ELSE IF access.status = "unavailable" THEN Kinds
  ELSE {k \in Kinds : "list" \in access.verbs[k]}

Followed ==
  IF status = "disconnected" THEN {}
  ELSE IF access.status = "unavailable" THEN Kinds
  ELSE {k \in Kinds : FollowVerbs \subseteq access.verbs[k]}

Live(version) == IF version = Gone THEN 0 ELSE version

(* The other objects that have, will have or had the name of an object.    *)
Namesakes(o) == {p \in Objects \ {o} : NameOf[p] = NameOf[o]}

(* What the cache of an informer holds of an object.                       *)
Held(o) == IF o \in replaced THEN 0 ELSE Live(seen[o])

(* NewAuto has reviewed the permissions, or there is no connection to a    *)
(* cluster; the collector and the manager have just been started.          *)
Init ==
  /\ granted \in [Kinds -> Permissions]
  /\ grants = 0
  /\ \/ status = "syncing" /\ access \in {Reviewed(granted), Unavailable}
     \/ status = "disconnected" /\ access = Unavailable
  /\ looping = (status = "syncing")
  /\ cluster \in [Objects -> {0, 1}]
  /\ \A o \in Objects : \A p \in Namesakes(o) : cluster[o] = 0 \/ cluster[p] = 0
  /\ listed = {}
  /\ seen = [o \in Objects |-> 0]
  /\ replaced = {}
  /\ pending = [k \in Kinds |-> <<>>]
  /\ changes = <<>>
  /\ hand = NoChange
  /\ resources = [o \in Objects |-> 0]
  /\ stopped = FALSE

-----------------------------------------------------------------------------
(* The environment.                                                        *)

(* An object is created under a name that is free, changes or is deleted.  *)
ClusterChange(o) ==
  /\ cluster[o] < Gone
  /\ \/ /\ cluster[o] < LastVersion[o]
        /\ \A p \in Namesakes(o) : Live(cluster[p]) = 0
        /\ cluster' = [cluster EXCEPT ![o] = @ + 1]
     \/ cluster[o] > 0 /\ cluster' = [cluster EXCEPT ![o] = Gone]
  /\ UNCHANGED <<permissions, listed, seen, replaced, pending, changes, hand, looping,
                 resources, status, stopped>>

(* The administrator changes what KDiag may do with a kind.                *)
Grant(k) ==
  /\ grants < MaxGrants
  /\ grants' = grants + 1
  /\ \E verbs \in Permissions \ {granted[k]} : granted' = [granted EXCEPT ![k] = verbs]
  /\ UNCHANGED <<access, cluster, listed, seen, replaced, pending, changes, hand,
                 looping, resources, status, stopped>>

(* The first list of an informer: what exists is new to it, and HasSynced  *)
(* turns true when the objects are handed to its listener, emitted or not. *)
List(k) ==
  /\ k \in Followed \ listed
  /\ "list" \in granted[k]
  /\ listed' = listed \union {k}
  /\ seen' = [o \in Objects |-> IF KindOf[o] = k THEN cluster[o] ELSE seen[o]]
  /\ LET existing == {o \in Objects : KindOf[o] = k /\ Live(cluster[o]) # 0}
         added(o) == [object |-> o, version |-> cluster[o]]
     IN  pending' = [pending EXCEPT ![k] = SetToSeq({added(o) : o \in existing})]
  /\ UNCHANGED <<permissions, cluster, replaced, changes, hand, looping, resources,
                 status, stopped>>

(* The watch, or another list when the watch is broken or refused, brings  *)
(* the latest version.  (A watch that lags is one that ran earlier and     *)
(* whose notification is still pending.)  A deletion of an object the      *)
(* informer never held is no news.  An object that takes over a name comes *)
(* after the deletion of the one the informer holds under it.              *)
Watch(o) ==
  /\ KindOf[o] \in listed
  /\ FollowVerbs \intersect granted[KindOf[o]] # {}
  /\ o \notin replaced /\ seen[o] # cluster[o]
  /\ \A p \in Namesakes(o) : Held(p) = 0
  /\ seen' = [seen EXCEPT ![o] = cluster[o]]
  /\ pending' = IF cluster[o] = Gone /\ seen[o] = 0
                THEN pending
                ELSE [pending EXCEPT ![KindOf[o]] =
                        Append(@, [object |-> o, version |-> cluster[o]])]
  /\ UNCHANGED <<permissions, cluster, listed, replaced, changes, hand, looping,
                 resources, status, stopped>>

(* Another list after a broken watch that missed both the deletion of an   *)
(* object and the creation of its namesake: the cache replaces one by the  *)
(* other and the listener gets a single update.  Its handler drops the old *)
(* object, so that nobody hears of the deletion.                           *)
Relist(o, p) ==
  /\ KindOf[o] \in listed
  /\ "list" \in granted[KindOf[o]]
  /\ Held(p) # 0 /\ cluster[p] = Gone
  /\ seen[o] = 0 /\ Live(cluster[o]) # 0
  /\ replaced' = replaced \union {p}
  /\ seen' = [seen EXCEPT ![o] = cluster[o]]
  /\ pending' = [pending EXCEPT ![KindOf[o]] =
                   Append(@, [object |-> o, version |-> cluster[o]])]
  /\ UNCHANGED <<permissions, cluster, listed, changes, hand, looping, resources, status,
                 stopped>>

(* main cancels the application context.                                   *)
Stop ==
  /\ ~stopped
  /\ stopped' = TRUE
  /\ UNCHANGED <<environment, pending, changes, hand, looping, resources, status>>

-----------------------------------------------------------------------------
(* The collector.                                                          *)

(* emit: the listener of a kind waits for room in the shared channel.      *)
EmitConcurrently(k) ==
  /\ Len(changes) < ChanCap
  /\ \E i \in DOMAIN pending[k] :
       /\ changes' = Append(changes, pending[k][i])
       /\ pending' = [pending EXCEPT ![k] = RemoveAt(@, i)]
  /\ UNCHANGED <<environment, hand, looping, resources, status, stopped>>

EmitDropsWhenFull(k) ==
  /\ pending[k] # <<>>
  /\ pending' = [pending EXCEPT ![k] = Tail(@)]
  /\ changes' = IF Len(changes) < ChanCap THEN Append(changes, Head(pending[k]))
                ELSE changes
  /\ UNCHANGED <<environment, hand, looping, resources, status, stopped>>

Emit(k) ==
  /\ pending[k] # <<>>
  /\ Len(changes) < ChanCap
  /\ changes' = Append(changes, Head(pending[k]))
  /\ pending' = [pending EXCEPT ![k] = Tail(@)]
  /\ UNCHANGED <<environment, hand, looping, resources, status, stopped>>

-----------------------------------------------------------------------------
(* The manager and the store.                                              *)

(* One turn of the apply loop: receive, then Store.Apply under its lock.   *)
Receive ==
  /\ looping
  /\ hand = NoChange
  /\ changes # <<>>
  /\ hand' = Head(changes)
  /\ changes' = Tail(changes)
  /\ UNCHANGED <<environment, pending, looping, resources, status, stopped>>

Apply ==
  /\ hand # NoChange
  /\ resources' = [resources EXCEPT ![hand.object] = Live(hand.version)]
  /\ hand' = NoChange
  /\ UNCHANGED <<environment, pending, changes, looping, status, stopped>>

(* The loop takes ctx.Done, which select may pick before a waiting change. *)
LoopEndsWithSync ==
  /\ looping
  /\ hand = NoChange
  /\ stopped \/ status # "syncing"
  /\ looping' = FALSE
  /\ UNCHANGED <<environment, pending, changes, hand, resources, status, stopped>>

LoopEnds ==
  /\ looping
  /\ hand = NoChange
  /\ stopped
  /\ looping' = FALSE
  /\ UNCHANGED <<environment, pending, changes, hand, resources, status, stopped>>

(* Run: the wait for the informers succeeds once all have synced ...       *)
Connected ==
  /\ status = "syncing"
  /\ Followed \subseteq listed
  /\ status' = "connected"
  /\ UNCHANGED <<environment, pending, changes, hand, looping, resources, stopped>>

(* ... or ends after 60 seconds, or with the application; the connection   *)
(* is then degraded and stays so, while the apply loop goes on.            *)
Degraded ==
  /\ status = "syncing"
  /\ status' = "degraded"
  /\ UNCHANGED <<environment, pending, changes, hand, looping, resources, stopped>>

Next ==
  \/ \E o \in Objects : ClusterChange(o) \/ Watch(o)
  \/ \E o \in Objects : \E p \in Namesakes(o) : Relist(o, p)
  \/ \E k \in Kinds : Grant(k) \/ List(k) \/ Emit(k)
  \/ Stop \/ Receive \/ Apply \/ LoopEnds \/ Connected \/ Degraded

Spec == Init /\ [][Next]_vars

(* Goroutines that can move are scheduled, client-go reconnects, and the   *)
(* wait for the informers has a timeout.  Nothing makes the cluster, its   *)
(* permissions or the process change, or breaks a watch at a given moment; *)
(* a watch is only sure to go on with both verbs granted.                  *)
FairSpec ==
  /\ Spec
  /\ \A o \in Objects : WF_vars(FollowVerbs \subseteq granted[KindOf[o]] /\ Watch(o))
  /\ \A k \in Kinds : WF_vars(List(k)) /\ WF_vars(Emit(k))
  /\ WF_vars(Receive) /\ WF_vars(Apply) /\ WF_vars(LoopEnds)
  /\ WF_vars(Connected \/ Degraded)

-----------------------------------------------------------------------------
(* The variables hold what the code can put there; the channel never holds *)
(* more than its capacity.                                                 *)
TypeOK ==
  /\ granted \in [Kinds -> Permissions]
  /\ grants \in 0 .. MaxGrants
  /\ access \in [status : {"complete", "partial", "unavailable"},
                 verbs : [Kinds -> SUBSET Verbs]]
  /\ cluster \in [Objects -> Versions]
  /\ listed \subseteq Kinds
  /\ seen \in [Objects -> Versions]
  /\ replaced \subseteq Objects
  /\ pending \in [Kinds -> Seq(Change)]
  /\ changes \in Seq(Change) /\ Len(changes) <= ChanCap
  /\ hand \in Change \union {NoChange}
  /\ looping \in BOOLEAN
  /\ resources \in [Objects -> 0 .. MaxVersion]
  /\ status \in {"disconnected", "syncing", "connected", "degraded"}
  /\ stopped \in BOOLEAN

(* The changes of an object on their way to the store.                     *)
OnTheWay(o) ==
  {c \in Range(pending[KindOf[o]]) \union Range(changes) \union ({hand} \ {NoChange}) :
     c.object = o}

(* The store lags behind the informers: an object none of whose changes    *)
(* is on its way is stored exactly as its informer holds it, deleted ones  *)
(* not at all.  The exception is the object a relist replaced by its       *)
(* namesake: no informer holds it any more, and the store keeps the last   *)
(* version it was told, with nothing on the way to remove it.              *)
QuietIsCurrent ==
  \A o \in Objects :
    OnTheWay(o) = {} =>
      IF o \in replaced THEN resources[o] = seen[o] /\ resources[o] # 0
      ELSE resources[o] = Held(o)

(* The store never replaces a version of an object by an older one,        *)
(* although no change carries a sequence number, and what has left it      *)
(* never comes back, however many of its changes were queued then: an      *)
(* object enters the store only while its informer has not seen its end,   *)
(* or the change that tells of its end is still on its way.                *)
OnlyForward ==
  [][\A o \in Objects :
       /\ resources'[o] # 0 => resources'[o] >= resources[o]
       /\ resources[o] = 0 /\ resources'[o] # 0 =>
            seen[o] # Gone \/ \E c \in OnTheWay(o) : c.version = Gone]_vars

(* When the cluster and its permissions come to rest, the inventory shows  *)
(* every object of the kinds it follows and may still list and watch, also *)
(* when the connection has been called degraded, and none that is gone but *)
(* those a relist replaced, which it shows until the end of the process.   *)
(* A full channel delays the listeners but never stops them, unless the    *)
(* process is stopping.                                                    *)
EventuallyCurrent ==
  <>[](stopped \/ \A o \in Objects :
         KindOf[o] \in Followed /\ FollowVerbs \subseteq granted[KindOf[o]] =>
           IF o \in replaced THEN cluster[o] = Gone /\ resources[o] # 0
           ELSE resources[o] = Live(cluster[o]))

(* A connection is called connected although kinds are missing from the    *)
(* inventory, but then the access report says so: it is partial and lacks  *)
(* one of the two verbs for each of them.  A kind that has been listed is  *)
(* never reported without them.  This is about the permissions at the      *)
(* start: a kind granted later is not followed, and one that is revoked    *)
(* later stays as it was.                                                  *)
UnfollowedIsTold ==
  /\ status = "connected" =>
       \A k \in Kinds \ listed :
         access.status = "partial" /\ ~(FollowVerbs \subseteq access.verbs[k])
  /\ access.status # "unavailable" =>
       \A k \in listed : FollowVerbs \subseteq access.verbs[k]
=============================================================================
