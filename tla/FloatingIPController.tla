------------------------ MODULE FloatingIPController ------------------------
(***************************************************************************)
(* pkg/controller/floatingip: one worker that gives every FloatingIP       *)
(* object a public IP and writes it into the object's status.              *)
(*                                                                         *)
(* It follows the service controller, with no type to look at: every       *)
(* FloatingIP wants an IP, and an empty status is the empty string.        *)
(* fipLog[k] is the history of object k from the version in the informer's *)
(* cache (Head) to the one the API server stores (Last).                   *)
(***************************************************************************)
EXTENDS PublicIPAllocator, SequencesExt

CONSTANTS
  FipKeys,             \* the keys of FloatingIP objects
  NoFloatingIP,        \* the object does not exist
  InitialFloatingIPs,  \* what the API server may store when the process starts
  FipOps,              \* what may happen: "create", "ip", "touch", "status", "delete", "resync"
  MaxFipOps,           \* bound on the number of such operations
  MaxFipFaults,        \* bound on the number of failing status requests
  MaxFipRetries        \* maxRetries

ASSUME FipAssumption ==
  /\ FipKeys \subseteq Keys
  /\ InitialFloatingIPs \subseteq
       [want : IPStrings \cup {NoIP}, status : IPs \cup {NoIP}] \cup {NoFloatingIP}
  /\ MaxFipOps \in Nat /\ MaxFipFaults \in Nat /\ MaxFipRetries \in Nat

VARIABLES
  fipLog,        \* versions of each object from the cached to the stored one
  fipQueued,     \* keys in the work queue
  fipDelayed,    \* keys AddRateLimited will put there
  fipRequeues,   \* NumRequeues of each key
  fipWork,       \* the worker: program counter, key, its copy of the object
  fipLeft        \* what is left of the bounds

fipQueueVars == <<fipQueued, fipDelayed, fipRequeues>>
fipCtlVars == <<fipQueueVars, fipWork>>
fipVars == <<fipLog, fipCtlVars, fipLeft>>

\* spec.externalIP and status.allocatedIP
FloatingIPs == [want : IPStrings \cup {NoIP}, status : IPs \cup {NoIP}]

FipIdle == [pc |-> "idle", key |-> NoKey, fip |-> NoFloatingIP, fresh |-> FALSE, status |-> NoIP]

FipPCs == {"idle", "deleted", "recheck", "reclaim", "clear", "allocate", "commit",
           "giveup", "update"}

FipTypeOK ==
  /\ fipLog \in [FipKeys -> Seq(FloatingIPs \cup {NoFloatingIP})]
  /\ \A k \in FipKeys : fipLog[k] # <<>>
  /\ fipQueued \subseteq FipKeys /\ fipDelayed \subseteq FipKeys
  /\ fipRequeues \in [FipKeys -> 0 .. MaxFipRetries]
  /\ fipWork \in [pc : FipPCs, key : FipKeys \cup {NoKey}, fip : FloatingIPs \cup {NoFloatingIP},
                  fresh : BOOLEAN, status : IPs \cup {NoIP}]
  /\ fipLeft \in [ops : 0 .. MaxFipOps, faults : 0 .. MaxFipFaults]

FipInit ==
  \E stored \in [FipKeys -> InitialFloatingIPs] :
    /\ fipLog = [k \in FipKeys |-> <<stored[k]>>]
    /\ fipQueued = {k \in FipKeys : stored[k] # NoFloatingIP}
    /\ fipDelayed = {} /\ fipRequeues = [k \in FipKeys |-> 0]
    /\ fipWork = FipIdle
    /\ fipLeft = [ops |-> MaxFipOps, faults |-> MaxFipFaults]

CachedFloatingIP(k) == Head(fipLog[k])
StoredFloatingIP(k) == Last(fipLog[k])
-----------------------------------------------------------------------------
(* The API server and its users.                                           *)

StoreFloatingIP(k, v) ==
  /\ fipLog' = [fipLog EXCEPT ![k] = Append(@, v)]
  /\ fipWork' = [fipWork EXCEPT !.fresh = @ /\ fipWork.key # k]

UserFipOp(op) ==
  /\ op \in FipOps
  /\ fipLeft.ops > 0
  /\ fipLeft' = [fipLeft EXCEPT !.ops = @ - 1]
  /\ UNCHANGED <<fipQueueVars, allocVars>>

FipCreate(k) ==
  /\ UserFipOp("create")
  /\ StoredFloatingIP(k) = NoFloatingIP
  /\ \E want \in IPStrings \cup {NoIP} :
       StoreFloatingIP(k, [want |-> want, status |-> NoIP])

FipSetIP(k) ==
  /\ UserFipOp("ip")
  /\ StoredFloatingIP(k) # NoFloatingIP
  /\ \E want \in (IPStrings \cup {NoIP}) \ {StoredFloatingIP(k).want} :
       StoreFloatingIP(k, [StoredFloatingIP(k) EXCEPT !.want = want])

\* Anything the controller does not look at, spec.podName included.
FipTouch(k) ==
  /\ UserFipOp("touch")
  /\ StoredFloatingIP(k) # NoFloatingIP
  /\ StoreFloatingIP(k, StoredFloatingIP(k))

\* As for services
FipSetStatus(k) ==
  /\ UserFipOp("status")
  /\ StoredFloatingIP(k) # NoFloatingIP
  /\ \E status \in (IPs \cup {NoIP}) \ {StoredFloatingIP(k).status} :
       StoreFloatingIP(k, [StoredFloatingIP(k) EXCEPT !.status = status])

FipDelete(k) ==
  /\ UserFipOp("delete")
  /\ StoredFloatingIP(k) # NoFloatingIP
  /\ StoreFloatingIP(k, NoFloatingIP)
-----------------------------------------------------------------------------
(* The informer and the event handlers.                                    *)

\* onFloatingIPUpdate and onFloatingIPDelete
FipDeliver(k) ==
  /\ Len(fipLog[k]) > 1
  /\ fipLog' = [fipLog EXCEPT ![k] = Tail(@)]
  /\ fipQueued' = fipQueued \cup {k}
  /\ UNCHANGED <<fipDelayed, fipRequeues, fipWork, fipLeft, allocVars>>

CachedFloatingIPs == {k \in FipKeys : CachedFloatingIP(k) # NoFloatingIP}

FipSettled ==
  /\ fipWork.pc = "idle" /\ fipQueued = {} /\ fipDelayed = {}
  /\ \A k \in FipKeys : Len(fipLog[k]) = 1

\* The periodic resync, as for services
FipMayResync ==
  /\ "resync" \in FipOps
  /\ \/ /\ FipSettled
        /\ UNCHANGED fipLeft
     \/ /\ fipLeft.ops > 0
        /\ fipLeft' = [fipLeft EXCEPT !.ops = @ - 1]

FipResync ==
  /\ FipMayResync
  /\ fipQueued' = fipQueued \cup CachedFloatingIPs
  /\ UNCHANGED <<fipLog, fipDelayed, fipRequeues, fipWork, allocVars>>

\* onPublicIPPoolUpdate (of a pool whose status records its generation) and
\* onPublicIPPoolDelete do the same.
FipOnPoolChange ==
  /\ fipQueued' = fipQueued \cup CachedFloatingIPs
  /\ UNCHANGED <<fipLog, fipDelayed, fipRequeues, fipWork, fipLeft, allocVars>>
-----------------------------------------------------------------------------
(* The work queue: handleErr, with queue.Done, and AddRateLimited's timer. *)

FipDone ==
  /\ fipWork' = FipIdle
  /\ fipRequeues' = [fipRequeues EXCEPT ![fipWork.key] = 0]
  /\ UNCHANGED <<fipQueued, fipDelayed>>

FipFailed ==
  /\ fipWork' = FipIdle
  /\ \/ /\ fipRequeues[fipWork.key] < MaxFipRetries
        /\ fipDelayed' = fipDelayed \cup {fipWork.key}
        /\ fipRequeues' = [fipRequeues EXCEPT ![fipWork.key] = @ + 1]
     \/ /\ fipRequeues[fipWork.key] >= MaxFipRetries
        /\ fipRequeues' = [fipRequeues EXCEPT ![fipWork.key] = 0]
        /\ UNCHANGED fipDelayed
  /\ UNCHANGED fipQueued

FipRetry(k) ==
  /\ k \in fipDelayed
  /\ fipDelayed' = fipDelayed \ {k}
  /\ fipQueued' = fipQueued \cup {k}
  /\ UNCHANGED <<fipLog, fipRequeues, fipWork, fipLeft, allocVars>>
-----------------------------------------------------------------------------
(* The worker: syncFloatingIP and syncFloatingIPStatus, one allocator call *)
(* a step.  Calls of FreeFloatingIP that directly follow one another are   *)
(* one step: nobody else allocates for the key.                            *)

FipOwner == FloatingIP(fipWork.key)

FipGoto(pc) ==
  /\ fipWork' = [fipWork EXCEPT !.pc = pc]
  /\ UNCHANGED fipQueueVars

FipSettle(status) ==
  \/ /\ status = fipWork.fip.status
     /\ FipDone
  \/ /\ status # fipWork.fip.status
     /\ fipWork' = [fipWork EXCEPT !.pc = "update", !.status = status]
     /\ UNCHANGED fipQueueVars

\* queue.Get, the lister, and the branch on what the cache holds
FipGet(k) ==
  /\ fipWork.pc = "idle" /\ k \in fipQueued
  /\ fipQueued' = fipQueued \ {k}
  /\ LET fip == CachedFloatingIP(k)
         pc == IF fip = NoFloatingIP THEN "deleted"
               ELSE IF fip.status \in IPs THEN "recheck" ELSE "clear"
     IN fipWork' = [pc |-> pc, key |-> k, fip |-> fip,
                    fresh |-> Len(fipLog[k]) = 1, status |-> NoIP]
  /\ UNCHANGED <<fipDelayed, fipRequeues, fipLog, fipLeft, allocVars>>

FipFreeDeleted_KeepsLease ==
  /\ fipWork.pc = "deleted"
  /\ FipDone
  /\ UNCHANGED <<fipLog, fipLeft, allocVars>>

\* The object is gone: just release its public IP.
FipFreeDeleted ==
  /\ fipWork.pc = "deleted"
  /\ FreeFloatingIP(fipWork.key)
  /\ FipDone
  /\ UNCHANGED <<fipLog, fipLeft>>

\* AllocateFloatingIP of the status IP, up to containsIP
FipRecheck ==
  /\ fipWork.pc = "recheck"
  /\ \/ /\ CheckDesiredIP(FipOwner, fipWork.fip.status)
        /\ FipGoto("reclaim")
     \/ /\ Rejected(fipWork.fip.status)
        /\ FipGoto("clear")
        /\ UNCHANGED allocVars
  /\ UNCHANGED <<fipLog, fipLeft>>

\* The user asked for another IP than the one in the status.
FipDesiredChanged == fipWork.fip.want \notin {NoIP, fipWork.fip.status}

FipReclaim_Trusting ==
  /\ fipWork.pc = "reclaim"
  /\ AllocateFloatingIP(fipWork.key)
  /\ IF FipDesiredChanged THEN FipGoto("clear") ELSE FipSettle(fipWork.fip.status)
  /\ UNCHANGED <<fipLog, fipLeft>>

FipReclaim_KeepsOld ==
  /\ fipWork.pc = "reclaim"
  /\ AllocateFloatingIP(fipWork.key)
  /\ \/ allocated'[FipOwner] = fipWork.fip.status /\ FipSettle(fipWork.fip.status)
     \/ allocated'[FipOwner] # fipWork.fip.status /\ FipGoto("clear")
  /\ UNCHANGED <<fipLog, fipLeft>>

FipReclaim ==
  /\ fipWork.pc = "reclaim"
  /\ AllocateFloatingIP(fipWork.key)
  /\ LET reclaimed == allocated'[FipOwner] = fipWork.fip.status
     IN \/ reclaimed /\ ~FipDesiredChanged /\ FipSettle(fipWork.fip.status)
        \/ ~reclaimed /\ FipGoto("clear")
        \/ FipDesiredChanged /\ FipGoto("clear")
  /\ UNCHANGED <<fipLog, fipLeft>>

FipClear_StatusOnly ==
  /\ fipWork.pc = "clear"
  /\ FipGoto("allocate")
  /\ UNCHANGED <<fipLog, fipLeft, allocVars>>

\* clearFloatingIPStatus, before a public IP is allocated anew
FipClear ==
  /\ fipWork.pc = "clear"
  /\ FreeFloatingIP(fipWork.key)
  /\ FipGoto("allocate")
  /\ UNCHANGED <<fipLog, fipLeft>>

\* AllocateFloatingIP of spec.externalIP, up to containsIP if one is given
FipAllocate ==
  /\ fipWork.pc = "allocate"
  /\ \/ /\ fipWork.fip.want = NoIP
        /\ AllocateFloatingIPFromPool(fipWork.key)
        /\ IF allocated'[FipOwner] # NoIP
           THEN FipSettle(allocated'[FipOwner])
           ELSE FipGoto("giveup")
     \/ /\ fipWork.fip.want # NoIP
        /\ CheckDesiredIP(FipOwner, fipWork.fip.want)
        /\ FipGoto("commit")
     \/ /\ fipWork.fip.want # NoIP
        /\ Rejected(fipWork.fip.want)
        /\ FipGoto("giveup")
        /\ UNCHANGED allocVars
  /\ UNCHANGED <<fipLog, fipLeft>>

FipCommit ==
  /\ fipWork.pc = "commit"
  /\ AllocateFloatingIP(fipWork.key)
  /\ LET desired == Canonical[fipWork.fip.want]
     IN \/ allocated'[FipOwner] = desired /\ FipSettle(desired)
        \/ allocated'[FipOwner] # desired /\ FipGoto("giveup")
  /\ UNCHANGED <<fipLog, fipLeft>>

\* Allocation failed: clearFloatingIPStatus, and the status is empty.
FipGiveUp ==
  /\ fipWork.pc = "giveup"
  /\ FreeFloatingIP(fipWork.key)
  /\ FipSettle(NoIP)
  /\ UNCHANGED <<fipLog, fipLeft>>

WriteFipStatus ==
  fipLog' = [fipLog EXCEPT ![fipWork.key] = Append(@, [fipWork.fip EXCEPT !.status = fipWork.status])]

\* UpdateStatus: accepted; refused because the copy is not fresh; failed before,
\* or after, it took effect.
FipUpdateStatus ==
  /\ fipWork.pc = "update"
  /\ \/ /\ fipWork.fresh
        /\ WriteFipStatus
        /\ FipDone
        /\ UNCHANGED fipLeft
     \/ /\ ~fipWork.fresh
        /\ FipFailed
        /\ UNCHANGED <<fipLog, fipLeft>>
     \/ /\ fipLeft.faults > 0
        /\ fipLeft' = [fipLeft EXCEPT !.faults = @ - 1]
        /\ FipFailed
        /\ \/ UNCHANGED fipLog
           \/ fipWork.fresh /\ WriteFipStatus
  /\ UNCHANGED allocVars
-----------------------------------------------------------------------------
FipUser ==
  \E k \in FipKeys :
    FipCreate(k) \/ FipSetIP(k) \/ FipTouch(k) \/ FipSetStatus(k) \/ FipDelete(k)

FipWorker ==
  \/ \E k \in FipKeys : FipGet(k)
  \/ FipFreeDeleted \/ FipRecheck \/ FipReclaim
  \/ FipClear \/ FipAllocate \/ FipCommit \/ FipGiveUp \/ FipUpdateStatus

FipNext ==
  \/ FipUser
  \/ \E k \in FipKeys : FipDeliver(k) \/ FipRetry(k)
  \/ FipResync
  \/ FipWorker

\* A new process: the objects are listed and queued; their statuses survive.
FipRestart ==
  /\ fipLog' = [k \in FipKeys |-> <<StoredFloatingIP(k)>>]
  /\ fipQueued' = {k \in FipKeys : StoredFloatingIP(k) # NoFloatingIP}
  /\ fipDelayed' = {} /\ fipRequeues' = [k \in FipKeys |-> 0]
  /\ fipWork' = FipIdle
  /\ UNCHANGED fipLeft

=============================================================================
