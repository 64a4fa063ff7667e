----------------------------- MODULE Pheromone -----------------------------
(***************************************************************************)
(* One key of the pheromone store and the processes that write it: the Lua *)
(* scripts of transport/valkey.py, the decay worker (swarm/decay.py) and   *)
(* the priors of threat intelligence (cti/stix_priors.py,                  *)
(* taxii_ingest.py).                                                       *)
(*                                                                         *)
(* Beliefs and tau are thousandths.  A script is atomic, and Valkey keeps  *)
(* through a restart what it has answered (appendonly), but for its cache  *)
(* of scripts.  The other keys are left out, as is the plausibility of     *)
(* this one.                                                               *)
(***************************************************************************)
EXTENDS Naturals, Sequences, FiniteSets, SequencesExt

CONSTANTS
    BoardKey,       \* the key: its dimension and its name
    Sensors,        \* the names of sensors, with the one of the priors
    TauMax,         \* SwarmCfg.tau_max
    Rho,            \* SwarmCfg.decay_rho, as numerator and denominator
    Bundles,        \* the STIX bundles that are ingested
    MaxBundles,     \* bound: bundles ingested
    MaxFaults       \* bound: deaths of processes and of Valkey

ASSUME PheromoneAssumption ==
    /\ "cti.taxii" \in Sensors
    /\ TauMax \in Nat
    /\ Rho \in (Nat \ {0}) \X (Nat \ {0}) /\ Rho[1] < Rho[2]
    /\ MaxBundles \in Nat /\ MaxFaults \in Nat

VARIABLES
    store,      \* the hash of the key, with the set of its sensors, its tau
                \* after the last deposit, and whether a window has deposited
    valkey,     \* Valkey runs
    scripts,    \* Valkey knows the scripts
    up,         \* the processes that run: "ingest", "decay" and "mcp"
    due,        \* the decay worker has read a belief below the bar
    iocs,       \* what is left of the bundle being ingested
    bundles, faults     \* counters of the bounds

boardVars == <<store, valkey, scripts, up, due, iocs, bundles, faults>>

Processes == {"ingest", "decay", "mcp"}

Trail == [tau : Nat, bel : Nat, sensors : SUBSET Sensors, diversity : Nat,
          left : Nat, witnessed : BOOLEAN]

Believed == store.bel >= 150

Exists == store.sensors # {}

(* The store is empty and every process has connected.                     *)
BoardInit ==
    /\ store = [tau |-> 0, bel |-> 0, sensors |-> {}, diversity |-> 0,
                left |-> 0, witnessed |-> FALSE]
    /\ valkey = TRUE
    /\ scripts = TRUE
    /\ up = Processes
    /\ due = FALSE
    /\ iocs = <<>>
    /\ bundles = 0 /\ faults = 0

-----------------------------------------------------------------------------
(* The scripts.                                                            *)

Capped(x, cap) == IF x > cap THEN cap ELSE x

(* LUA_DEPOSIT of d = [delta, bel, sensor, tauMax].                        *)
Deposited(s, d) ==
    LET tau == Capped(s.tau + d.delta, d.tauMax)
    IN  [s EXCEPT !.tau = tau, !.left = tau, !.bel = d.bel,
                  !.sensors = @ \cup {d.sensor},
                  !.diversity = Cardinality(s.sensors \cup {d.sensor})]

(* LUA_DECAY: (1 - rho) tau, clamped, and rounded as it is stored.         *)
Evaporated(tau) ==
    LET twice == 2 * (Rho[2] - Rho[1]) * tau
    IN  Capped((twice + Rho[2]) \div (2 * Rho[2]), TauMax)

(* A script can run: evalsha knows the hash that the client loaded.        *)
Callable == valkey /\ scripts

-----------------------------------------------------------------------------
(* Priors.                                                                 *)

(* iocs_from_stix_objects: an object holds the [otype, value] of each      *)
(* comparison in its pattern, a URL standing for its host.                 *)
Iocs(objects) ==
    LET usable == SelectSeq(objects, LAMBDA o :
                      o.type = "indicator" /\ ~o.revoked /\ o.patternType = "stix")
        Ioc(o, found) ==
            [dim |-> CASE found.otype \in {"ipv4-addr", "ipv6-addr"} -> "ip"
                       [] found.otype = "file" -> "hash"
                       [] OTHER -> "domain",
             id |-> found.value,
             confidence |-> Capped(o.confidence, 100)]
    IN  FlattenSeq([i \in DOMAIN usable |->
            [j \in DOMAIN usable[i].pattern |-> Ioc(usable[i], usable[i].pattern[j])]])

Ioc == [dim : {"ip", "hash", "domain"}, id : STRING, confidence : 0 .. 100]

ASSUME BundlesAssumption == \A b \in Bundles : Iocs(b) \in Seq(Ioc)

BoardTypeOK ==
    /\ store \in Trail /\ IsFiniteSet(store.sensors)
    /\ valkey \in BOOLEAN /\ scripts \in BOOLEAN /\ due \in BOOLEAN
    /\ up \subseteq Processes
    /\ iocs \in Seq(Ioc)
    /\ bundles \in Nat /\ faults \in Nat

(* Mutation: a prior may fill the trail like a window.                     *)
PriorUncapped(ioc) ==
    [delta |-> 100 + (5 * ioc.confidence) \div 2, bel |-> 200 + 3 * ioc.confidence,
     sensor |-> "cti.taxii", tauMax |-> TauMax]

(* prior_for_ioc                                                           *)
PriorForIoc(ioc) ==
    [delta |-> 100 + (5 * ioc.confidence) \div 2,
     bel |-> Capped(200 + 3 * ioc.confidence, 450),
     sensor |-> "cti.taxii", tauMax |-> 350]

(* A bundle file is read, or a collection polled; one that cannot be read  *)
(* leaves no trace.                                                        *)
IngestBundle(b) ==
    /\ "mcp" \in up
    /\ iocs = <<>>
    /\ bundles < MaxBundles
    /\ iocs' = Iocs(b)
    /\ bundles' = bundles + 1
    /\ UNCHANGED <<store, valkey, scripts, up, due, faults>>

(* deposit_priors, one IOC: an error ends the ingestion.                   *)
DepositPrior ==
    /\ iocs # <<>>
    /\ IF ~Callable THEN iocs' = <<>> /\ UNCHANGED store
       ELSE /\ iocs' = Tail(iocs)
            /\ store' = IF [dim |-> Head(iocs).dim, id |-> Head(iocs).id] = BoardKey
                        THEN Deposited(store, PriorForIoc(Head(iocs))) ELSE store
    /\ UNCHANGED <<valkey, scripts, up, due, bundles, faults>>

-----------------------------------------------------------------------------
(* The decay worker.                                                       *)

(* Mutation: the belief of the key is not looked at.                       *)
ScanBlind ==
    /\ "decay" \in up /\ valkey /\ ~due
    /\ Exists
    /\ due' = TRUE
    /\ UNCHANGED <<store, valkey, scripts, up, iocs, bundles, faults>>

(* decay_tick comes to the key and reads it; a believed one is skipped.    *)
Scan ==
    /\ "decay" \in up /\ valkey /\ ~due
    /\ Exists /\ ~Believed
    /\ due' = TRUE
    /\ UNCHANGED <<store, valkey, scripts, up, iocs, bundles, faults>>

(* Its second call.  run_forever logs an error and goes on to the next     *)
(* tick.                                                                   *)
Decay ==
    /\ due
    /\ due' = FALSE
    /\ store' = IF Callable THEN [store EXCEPT !.tau = Evaporated(@)] ELSE store
    /\ UNCHANGED <<valkey, scripts, up, iocs, bundles, faults>>

-----------------------------------------------------------------------------
(* Processes.                                                              *)

(* What a process that dies leaves behind of its work here.                *)
Drop(dead) ==
    /\ due' = (due /\ "decay" \notin dead)
    /\ iocs' = IF "mcp" \in dead THEN <<>> ELSE iocs

(* A process connects and loads the scripts; without Valkey it fails and   *)
(* is started again.                                                       *)
Start(p) ==
    /\ p \notin up
    /\ valkey
    /\ up' = up \cup {p}
    /\ scripts' = TRUE
    /\ UNCHANGED <<store, valkey, due, iocs, bundles, faults>>

Die(p) ==
    /\ p \in up
    /\ faults < MaxFaults
    /\ faults' = faults + 1
    /\ up' = up \ {p}
    /\ Drop({p})
    /\ UNCHANGED <<store, valkey, scripts, bundles>>

ValkeyDies ==
    /\ valkey
    /\ faults < MaxFaults
    /\ faults' = faults + 1
    /\ valkey' = FALSE
    /\ scripts' = FALSE
    /\ UNCHANGED <<store, up, due, iocs, bundles>>

(* Mutation: the units of the clients do not require Valkey's.             *)
ValkeyReturnsAlone ==
    /\ ~valkey
    /\ valkey' = TRUE
    /\ UNCHANGED <<store, scripts, up, due, iocs, bundles, faults>>

(* systemd starts Valkey again, and with it the units that require it.     *)
ValkeyReturns ==
    /\ ~valkey
    /\ valkey' = TRUE
    /\ up' = {}
    /\ Drop(up)
    /\ UNCHANGED <<store, scripts, bundles, faults>>

-----------------------------------------------------------------------------
(* Properties.                                                             *)

(* A key that the last deposit made believable is not worn down: of the    *)
(* tau that deposit left, the worker takes one decay at most, the one it   *)
(* had decided on before (decay.py:61-66).                                 *)
Reinforced == Believed => store.tau \in {store.left, Evaporated(store.left)}

(* However often and in whatever number indicators for the key are         *)
(* ingested: as long as no window has reported on it, its tau stays within *)
(* 0.35 and the belief that is shown of it within 0.45.  That is far from  *)
(* theta_mitigate, 0.80, as is promised, and more than theta_finding,      *)
(* 0.40, of which nothing is (stix_priors.py:29-32, settings.py:53-54).    *)
PriorsModest == ~store.witnessed => store.tau <= 350 /\ store.bel <= 450

Faded == Believed \/ 2 * Rho[1] * store.tau <= Rho[2]

(* What nobody believes in fades in the end, through restarts of Valkey    *)
(* which forget the scripts that the worker calls by hash, down to where   *)
(* the rounding of the stored text holds it (valkey.py:34-43, 100-121).    *)
Fades == <>[]Faded
=============================================================================
