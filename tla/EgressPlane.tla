----------------------------- MODULE EgressPlane -----------------------------
(***************************************************************************)
(* The filtering backend, sandbox/filtering-container-backend.js: one      *)
(* egress proxy for the process and one internal network per project, both *)
(* established once for all runs that overlap, and a proxy that dies.  The *)
(* runs are the processes; each step ends where the code awaits the CLI.   *)
(***************************************************************************)
EXTENDS Naturals, FiniteSets

CONSTANTS
  Run,        \* one-shot runs, each of some project
  Network,    \* the networks their projects are given
  MaxProxy    \* bound: proxy containers started, one after the other

ASSUME EgressAssumption == MaxProxy \in Nat \ {0} /\ "none" \notin Run

VARIABLES
  at,           \* what a run awaits
  on,           \* its network
  proxy,        \* the proxy container that runs, 0 for none
  ours,         \* its label carries this process's allowlist
  started,      \* proxies started so far
  proxyPromise, \* the run that establishes the proxy, or none
  proxySettled, \* proxySettled
  flight,       \* how the proxy promise of a run ended
  networkPromises, \* per network: the run that establishes it, or none
  netFlight,    \* how the network promise of a run ended
  ownNetworks,  \* the networks the backend lets a run use
  network,      \* per network: absent, internal, or open and not ours
  attached,     \* per network: the proxy it was connected to
  raced,        \* auxiliary: a proxy was established while another was, or while a
                \* network was being connected, and the plane not forgotten since
  launchedOn    \* auxiliary: what the network of a run was when it started

egressVars == <<at, on, proxy, ours, started, proxyPromise, proxySettled, flight,
                networkPromises, netFlight, ownNetworks, network, attached, raced, launchedOn>>
planeVars == <<on, networkPromises, netFlight, ownNetworks, network, attached, raced, launchedOn>>
proxyVars == <<on, proxy, ours, started, proxyPromise, proxySettled, flight, launchedOn>>

EgressInit ==
  /\ at = [r \in Run |-> "new"] /\ on \in [Run -> Network]
  /\ proxy \in {0, 1} /\ ours \in BOOLEAN /\ started = 1
  /\ proxyPromise = "none" /\ proxySettled = FALSE
  /\ flight = [r \in Run |-> "none"] /\ netFlight = [r \in Run |-> "none"]
  /\ networkPromises = [n \in Network |-> "none"] /\ ownNetworks = {}
  /\ network \in [Network -> {"absent", "open"}]
  /\ attached = [n \in Network |-> 0] /\ raced = FALSE /\ launchedOn = [r \in Run |-> "none"]

Flights == {"none", "pending", "ok", "failed"}
EgressTypeOK ==
  /\ at \in [Run -> {"new", "check", "proxy", "inspect", "start", "listen", "plane", "net",
                     "create", "attach", "attachNew", "ready", "launched", "refused"}]
  /\ proxy \in 0..started /\ started \in 1..MaxProxy /\ ours \in BOOLEAN
  /\ proxyPromise \in Run \cup {"none"} /\ proxySettled \in BOOLEAN
  /\ flight \in [Run -> Flights] /\ netFlight \in [Run -> Flights]
  /\ networkPromises \in [Network -> Run \cup {"none"}]
  /\ network \in [Network -> {"absent", "internal", "open"}] /\ ownNetworks \subseteq Network
  /\ attached \in [Network -> 0..MaxProxy] /\ raced \in BOOLEAN

Goes(r, to) == at' = [at EXCEPT ![r] = to]

Establishing == \E r \in Run : flight[r] = "pending"

-----------------------------------------------------------------------------
LeadProxy(r) ==
  /\ proxyPromise' = r /\ proxySettled' = FALSE
  /\ flight' = [flight EXCEPT ![r] = "pending"] /\ Goes(r, "inspect")

\* ensureProxy(): wait for a flight, look whether a settled one still lives,
\* or establish the proxy.
EnsureProxy(r) ==
  /\ at[r] = "new"
  /\ IF proxyPromise = "none" THEN LeadProxy(r) /\ raced' = (raced \/ Establishing)
     ELSE /\ Goes(r, IF proxySettled THEN "check" ELSE "proxy")
          /\ UNCHANGED <<proxyPromise, proxySettled, flight, raced>>
  /\ UNCHANGED <<on, networkPromises, netFlight, ownNetworks, network, attached, launchedOn,
                 proxy, ours, started>>

ProxyLives(r) ==
  /\ at[r] = "check" /\ proxy # 0 /\ Goes(r, "plane")
  /\ UNCHANGED <<planeVars, proxy, ours, started, proxyPromise, proxySettled, flight>>

\* What of the plane is forgotten with a proxy that died.
\* (Mutant: the networks are still taken for connected.)
ForgetProxyOnly == UNCHANGED <<networkPromises, ownNetworks>>
ForgetPlane ==
  /\ networkPromises' = [n \in Network |-> "none"] /\ ownNetworks' = {}

ProxyFoundDead(r) ==
  /\ at[r] = "check" /\ proxy = 0 /\ ForgetPlane /\ LeadProxy(r)
  /\ raced' = Establishing
  /\ UNCHANGED <<on, proxy, ours, started, netFlight, network, attached, launchedOn>>

\* The promise settles; its run, and those that wait for it, go on.
Settle(r, how) ==
  /\ flight' = [flight EXCEPT ![r] = how]
  /\ proxyPromise' = IF how = "ok" THEN proxyPromise ELSE "none"
  /\ proxySettled' = (how = "ok")
  /\ at' = [q \in Run |-> IF q = r \/ (at[q] = "proxy" /\ proxyPromise = r)
                          THEN (IF how = "ok" THEN "plane" ELSE "refused") ELSE at[q]]

\* establishProxy(): adopt a proxy with this allowlist, replace another.
Inspect(r) ==
  /\ at[r] = "inspect"
  /\ IF proxy # 0 /\ ours THEN Settle(r, "ok") /\ UNCHANGED proxy
     ELSE /\ Goes(r, "start") /\ proxy' = 0
          /\ UNCHANGED <<proxyPromise, proxySettled, flight>>
  /\ UNCHANGED <<planeVars, ours, started>>

\* The name is taken while a proxy runs, and the CLI may fail anyway.
StartProxy(r) ==
  /\ at[r] = "start"
  /\ \/ /\ proxy = 0 /\ started < MaxProxy
        /\ started' = started + 1 /\ proxy' = started' /\ ours' = TRUE
        /\ Goes(r, "listen") /\ UNCHANGED <<proxyPromise, proxySettled, flight>>
     \/ Settle(r, "failed") /\ UNCHANGED <<proxy, ours, started>>
  /\ UNCHANGED planeVars

WaitForProxyListening(r) ==
  /\ at[r] = "listen"
  /\ \/ proxy # 0 /\ Settle(r, "ok") /\ UNCHANGED proxy
     \/ Settle(r, "failed") /\ proxy' = 0
  /\ UNCHANGED <<planeVars, ours, started>>

-----------------------------------------------------------------------------
\* ensureNetwork(): join the promise of the network, or make one.
EnsureNetwork(r) ==
  /\ at[r] = "plane"
  /\ IF networkPromises[on[r]] = "none"
     THEN /\ networkPromises' = [networkPromises EXCEPT ![on[r]] = r]
          /\ netFlight' = [netFlight EXCEPT ![r] = "pending"] /\ Goes(r, "create")
     ELSE /\ CASE netFlight[networkPromises[on[r]]] = "pending" -> Goes(r, "net")
               [] netFlight[networkPromises[on[r]]] = "ok" -> Goes(r, "ready")
          /\ UNCHANGED <<networkPromises, netFlight>>
  /\ UNCHANGED <<proxyVars, ownNetworks, network, attached, raced>>

SettleNetwork(r, how, deleted) ==
  /\ netFlight' = [netFlight EXCEPT ![r] = how]
  /\ networkPromises' = IF how = "ok" /\ ~deleted THEN networkPromises
                        ELSE [networkPromises EXCEPT ![on[r]] = "none"]
  /\ at' = [q \in Run |-> IF q = r \/ (at[q] = "net" /\ networkPromises[on[q]] = r)
                          THEN (IF how = "ok" THEN "ready" ELSE "refused") ELSE at[q]]

\* establishNetwork(): an existing network must be internal.
CreateNetwork(r) ==
  LET n == on[r]
  IN /\ at[r] = "create"
     /\ \/ /\ network[n] = "absent" /\ network' = [network EXCEPT ![n] = "internal"]
           /\ Goes(r, "attachNew") /\ UNCHANGED <<networkPromises, netFlight>>
        \/ /\ network[n] = "internal" /\ Goes(r, "attach")
           /\ UNCHANGED <<network, networkPromises, netFlight>>
        \/ network[n] # "internal" /\ SettleNetwork(r, "failed", TRUE) /\ UNCHANGED network
     /\ UNCHANGED <<proxyVars, ownNetworks, attached, raced>>

AttachProxy(r) ==
  /\ at[r] \in {"attach", "attachNew"} /\ proxy # 0
  /\ attached' = [attached EXCEPT ![on[r]] = proxy]
  /\ raced' = (raced \/ Establishing)
  /\ ownNetworks' = ownNetworks \cup {on[r]} /\ SettleNetwork(r, "ok", FALSE)
  /\ UNCHANGED <<proxyVars, network>>

\* A network of this call is removed again, if nothing is connected to it.
AttachFails(r) ==
  LET n == on[r]
  IN /\ at[r] \in {"attach", "attachNew"} /\ SettleNetwork(r, "failed", TRUE)
     /\ ownNetworks' = IF at[r] = "attachNew" THEN ownNetworks \ {n} ELSE ownNetworks
     /\ network' = IF at[r] = "attachNew" /\ (proxy = 0 \/ attached[n] # proxy)
                   THEN [network EXCEPT ![n] = "absent"] ELSE network
     /\ UNCHANGED <<proxyVars, attached, raced>>

\* runOneShot(): the base backend refuses a network that is not ours.
Launch(r) ==
  /\ at[r] = "ready"
  /\ Goes(r, IF on[r] \in ownNetworks THEN "launched" ELSE "refused")
  /\ launchedOn' = IF on[r] \in ownNetworks
                   THEN [launchedOn EXCEPT ![r] = network[on[r]]] ELSE launchedOn
  /\ UNCHANGED <<on, proxy, ours, started, proxyPromise, proxySettled, flight,
                 networkPromises, netFlight, ownNetworks, network, attached, raced>>

\* A run ends, and its slot stands for a later run of any project.
RunEnds(r) ==
  /\ at[r] \in {"launched", "refused"} /\ proxyPromise # r
  /\ \A n \in Network : networkPromises[n] # r
  /\ Goes(r, "new") /\ \E n \in Network : on' = [on EXCEPT ![r] = n]
  /\ launchedOn' = [launchedOn EXCEPT ![r] = "none"]
  /\ flight' = [flight EXCEPT ![r] = "none"] /\ netFlight' = [netFlight EXCEPT ![r] = "none"]
  /\ UNCHANGED <<proxy, ours, started, proxyPromise, proxySettled, networkPromises,
                 ownNetworks, network, attached, raced>>

ProxyDies ==
  /\ proxy # 0 /\ proxy' = 0
  /\ UNCHANGED <<at, planeVars, ours, started, proxyPromise, proxySettled, flight>>

EgressNext ==
  \/ ProxyDies
  \/ \E r \in Run :
        \/ EnsureProxy(r) \/ ProxyLives(r) \/ ProxyFoundDead(r) \/ Inspect(r)
        \/ StartProxy(r) \/ WaitForProxyListening(r) \/ EnsureNetwork(r)
        \/ CreateNetwork(r) \/ AttachProxy(r) \/ AttachFails(r) \/ Launch(r) \/ RunEnds(r)

-----------------------------------------------------------------------------
\* A run starts on an internal network only, in whatever order runs overlap,
\* fail and remove networks.
RunsAreContained == \A r \in Run : launchedOn[r] # "open"

\* A network that is taken for established is connected to the proxy that
\* runs: a proxy that died and was replaced has taken its networks along.  Only
\* a race with the establishment of the proxy may leave one behind.
CachedPlaneWorks ==
  ~raced => \A n \in Network :
    (proxy # 0 /\ \E r \in Run : networkPromises[n] = r /\ netFlight[r] = "ok")
      => attached[n] = proxy
=============================================================================
