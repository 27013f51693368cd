------------------------------ MODULE StoneLB ------------------------------
(***************************************************************************)
(* main.go: three controllers in one process, around one allocator and one *)
(* shared informer for the pool, with the process's restarts.              *)
(***************************************************************************)
EXTENDS PublicIPPoolController, ServiceController, FloatingIPController

vars == <<allocVars, poolVars, svcVars, fipVars>>

SystemInit == Init /\ PoolInit /\ SvcInit /\ FipInit

\* The listener of one controller takes the next notification of the pool.
PoolEvent(kind) ==
  /\ kind \in Listeners
  /\ poolEvents[kind] # <<>>
  /\ poolEvents' = [poolEvents EXCEPT ![kind] = Tail(@)]
  /\ UNCHANGED <<poolLog, poolCtlVars, poolLeft>>

SvcPoolEvent == PoolEvent("Service") /\ SvcOnPoolChange /\ UNCHANGED fipVars
FipPoolEvent == PoolEvent("FloatingIP") /\ FipOnPoolChange /\ UNCHANGED svcVars

Restart == PoolRestart /\ SvcRestart /\ FipRestart /\ Crash

PoolStep == PoolNext /\ UNCHANGED <<svcVars, fipVars>>
SvcStep == SvcNext /\ UNCHANGED <<poolVars, fipVars>>
FipStep == FipNext /\ UNCHANGED <<poolVars, svcVars>>

SystemNext == PoolStep \/ SvcStep \/ FipStep \/ SvcPoolEvent \/ FipPoolEvent \/ Restart

\* The informers' goroutines, with their periodic resync, the three workers and
\* the queues' timers run forever; nothing is assumed of users, faults and
\* restarts.
Fairness ==
  /\ WF_vars(PoolDeliver /\ UNCHANGED <<svcVars, fipVars>>)
  /\ WF_vars(PoolWorker /\ UNCHANGED <<svcVars, fipVars>>)
  /\ WF_vars(PoolRetry /\ UNCHANGED <<svcVars, fipVars>>)
  /\ WF_vars(SvcPoolEvent) /\ WF_vars(FipPoolEvent)
  /\ \A k \in SvcKeys : WF_vars(SvcDeliver(k) /\ UNCHANGED <<poolVars, fipVars>>)
  /\ \A k \in SvcKeys : WF_vars(SvcRetry(k) /\ UNCHANGED <<poolVars, fipVars>>)
  /\ WF_vars(SvcResync /\ UNCHANGED <<poolVars, fipVars>>)
  /\ WF_vars(SvcWorker /\ UNCHANGED <<poolVars, fipVars>>)
  /\ \A k \in FipKeys : WF_vars(FipDeliver(k) /\ UNCHANGED <<poolVars, svcVars>>)
  /\ \A k \in FipKeys : WF_vars(FipRetry(k) /\ UNCHANGED <<poolVars, svcVars>>)
  /\ WF_vars(FipResync /\ UNCHANGED <<poolVars, svcVars>>)
  /\ WF_vars(FipWorker /\ UNCHANGED <<poolVars, svcVars>>)

SystemSpec == SystemInit /\ [][SystemNext]_vars /\ Fairness
-----------------------------------------------------------------------------
(* Properties.                                                             *)

SystemTypeOK == PoolTypeOK /\ SvcTypeOK /\ FipTypeOK

\* A worker asks for a new IP only while its object holds none, whatever the
\* other controllers do between its calls: an allocation for spec's IP never
\* overwrites a lease, which allocateServiceIP would leave in usedIPs forever.
AsksEmptyHanded ==
  /\ svcWork.pc \in {"allocate", "commit"} => allocated[SvcOwner] = NoIP
  /\ fipWork.pc \in {"allocate", "commit"} => allocated[FipOwner] = NoIP

\* Nothing is queued, delayed, in flight or in progress: until the next resync.
Settled ==
  /\ PoolSettled /\ SvcSettled /\ FipSettled
  /\ \A kind \in Listeners : poolEvents[kind] = <<>>

\* The object shows public IP ip in its stored status.
SvcShows(k, ip) == StoredService(k) # NoService /\ StoredService(k).status = ip
FipShows(k, ip) == StoredFloatingIP(k) # NoFloatingIP /\ StoredFloatingIP(k).status = ip

\* The IP an object shows is an IP of the pool the allocator has recorded for it,
\* so no two objects show the same one.
AllLeased ==
  \A ip \in IPs :
    /\ \A k \in SvcKeys : SvcShows(k, ip) => allocated[Service(k)] = ip /\ ContainsIP(ip)
    /\ \A k \in FipKeys : FipShows(k, ip) => allocated[FloatingIP(k)] = ip /\ ContainsIP(ip)

\* When all is done, every IP shown is leased: every load of a pool, which forgets
\* all leases, is followed by syncs that renew them.
StatusIsLeased == Settled => AllLeased

\* When all is done, no public IP is shown by two objects.
NoSharedIP ==
  Settled => \A ip \in IPs :
    Cardinality({k \in SvcKeys : SvcShows(k, ip)}) + Cardinality({k \in FipKeys : FipShows(k, ip)})
      <= 1

\* When all is done, an object shows the IP its spec asks for, if it shows one.
Grants(want, ip) == want # NoIP => Canonical[want] = ip
StatusAsAsked ==
  Settled => \A ip \in IPs :
    /\ \A k \in SvcKeys : SvcShows(k, ip) => Grants(StoredService(k).want, ip)
    /\ \A k \in FipKeys : FipShows(k, ip) => Grants(StoredFloatingIP(k).want, ip)

\* The copy its worker syncs shows lease ip and asks for nothing else.
SvcContent(k, ip) ==
  /\ svcWork.key = k /\ svcWork.svc # NoService /\ svcWork.svc.lb
  /\ svcWork.svc.status = ip /\ Grants(svcWork.svc.want, ip)
FipContent(k, ip) ==
  /\ fipWork.key = k /\ fipWork.fip # NoFloatingIP
  /\ fipWork.fip.status = ip /\ Grants(fipWork.fip.want, ip)

\* The addresses the API server's pool lists, if it parses.
StoredIPs ==
  IF PoolParses
  THEN UNION {Range(ParseCIDR[StoredPool.addresses[i]]) : i \in DOMAIN StoredPool.addresses}
  ELSE {}

\* A sync never gives up an IP of the pool that its object holds, shows and is
\* content with ("AllocateService MUST return same IP if service is allocated
\* before"): a rival would take it at once.  Only a load or a restart may.
KeepsLease ==
  [][\A ip \in IPs : (ContainsIP(ip) /\ UNCHANGED <<poolWork, poolLeft>>) =>
       /\ \A k \in SvcKeys :
            SvcContent(k, ip) /\ allocated[Service(k)] = ip => allocated'[Service(k)] = ip
       /\ \A k \in FipKeys :
            FipContent(k, ip) /\ allocated[FloatingIP(k)] = ip => allocated'[FloatingIP(k)] = ip
    ]_vars

\* A status update never withdraws an IP of the pool from a service that shows it
\* and is content with it: a service keeps its public IP, also over a restart.
KeepsShown ==
  [][\A k \in SvcKeys, ip \in StoredIPs :
       /\ svcWork.pc = "update" /\ svcWork.key = k /\ svcWork'.pc = "idle"
       /\ SvcShows(k, ip) /\ StoredService(k).lb /\ Grants(StoredService(k).want, ip)
       => SvcShows(k, ip)'
    ]_vars

\* When all is done, a deleted object holds nothing, even if it was deleted in
\* the middle of its own sync.
DeletedHoldsNothing ==
  Settled =>
    /\ \A k \in SvcKeys : StoredService(k) = NoService => allocated[Service(k)] = NoIP
    /\ \A k \in FipKeys : StoredFloatingIP(k) = NoFloatingIP => allocated[FloatingIP(k)] = NoIP

\* When all is done, an IP marked used is somebody's ("FreeService frees object
\* and IP from IP Pool"): none is lost for the objects to come.
Leaked(ip) == usedIPs[ip] # NoKey /\ \A o \in Owners : allocated[o] # ip
NoLeak == Settled => \A ip \in IPs : ~Leaked(ip)

LoadBalancers == {k \in SvcKeys : StoredService(k) # NoService /\ StoredService(k).lb}
StoredFloatingIPs == {k \in FipKeys : StoredFloatingIP(k) # NoFloatingIP}

AllServed ==
  /\ \A k \in LoadBalancers : StoredService(k).status \in IPs
  /\ \A k \in StoredFloatingIPs : StoredFloatingIP(k).status \in IPs

Suffice(ips) ==
  /\ \A k \in LoadBalancers : StoredService(k).want = NoIP
  /\ \A k \in StoredFloatingIPs : StoredFloatingIP(k).want = NoIP
  /\ Cardinality(ips) >= Cardinality(LoadBalancers) + Cardinality(StoredFloatingIPs)

\* Every object that leaves the choice to the allocator ends up with an IP if the
\* pool has one for each, not counting those that leaked.  The refusal of one
\* that came before the pool was loaded, or before a rival freed its IP, and a
\* status that was not written in maxRetries attempts, are made up for.
EventuallyServed ==
  <>[](Suffice({ip \in StoredIPs : ~Leaked(ip)}) => AllServed)

\* Whatever was done with stale copies, refused and failed status updates and
\* repeated loads, in the end every IP shown is leased to the object that shows
\* it, and stays so.
EventuallyLeased == <>[]AllLeased
=============================================================================
