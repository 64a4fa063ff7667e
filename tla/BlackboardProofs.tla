-------------------------- MODULE BlackboardProofs --------------------------
(***************************************************************************)
(* What holds of the blackboard, of the frames and of their order for      *)
(* every outcome of the fusion, every bundle of priors, every rate of      *)
(* decay and any number of windows and deaths of processes.                *)
(***************************************************************************)
EXTENDS Blackboard, FiniteSetTheorems, SequenceTheorems, TLAPS

-----------------------------------------------------------------------------
(* Arithmetic and deposits.                                                *)

LEMMA CappedNat ==
    ASSUME NEW x \in Nat, NEW cap \in Nat
    PROVE  Capped(x, cap) \in Nat /\ Capped(x, cap) <= cap
BY DEF Capped

(* A decay leaves a trail that is one.                                     *)
LEMMA EvaporatedTrail ==
    ASSUME NEW tau \in Nat
    PROVE  Evaporated(tau) \in Nat /\ Evaporated(tau) <= TauMax
<1> DEFINE kept == 2 * (Rho[2] - Rho[1]) * tau + Rho[2]
           rest == kept \div (2 * Rho[2])
<1>1. Rho[1] \in Nat \ {0} /\ Rho[2] \in Nat \ {0} /\ Rho[1] < Rho[2] /\ TauMax \in Nat
    BY PheromoneAssumption
<1>2. (Rho[2] - Rho[1]) \in Nat
    BY <1>1
<1>3. 2 * (Rho[2] - Rho[1]) * tau \in Nat
    BY <1>2
<1>4. kept \in Nat /\ 2 * Rho[2] \in Nat \ {0}
    BY <1>1, <1>3
<1> HIDE DEF kept
<1>5. rest \in Nat
    BY <1>4
<1> HIDE DEF rest
<1>6. Evaporated(tau) = Capped(rest, TauMax)
    BY DEF Evaporated, kept, rest
<1> QED
    BY <1>1, <1>5, <1>6, CappedNat

(* A deposit: what the windows and the priors give to the script.          *)
Gift == [delta : Nat, bel : Nat, sensor : Sensors, tauMax : Nat]

LEMMA DepositedTrail ==
    ASSUME NEW s \in Trail, IsFiniteSet(s.sensors), NEW d \in Gift
    PROVE  LET t == Deposited(s, d) IN
           /\ t \in Trail /\ IsFiniteSet(t.sensors)
           /\ t.sensors = s.sensors \cup {d.sensor}
           /\ t.diversity = Cardinality(t.sensors)
           /\ t.tau = t.left /\ t.tau <= d.tauMax
           /\ t.bel = d.bel /\ t.witnessed = s.witnessed
<1> DEFINE tau == Capped(s.tau + d.delta, d.tauMax)
           sensors == s.sensors \cup {d.sensor}
           t == Deposited(s, d)
<1>1. d.tauMax \in Nat /\ s.tau + d.delta \in Nat /\ d.bel \in Nat /\ d.sensor \in Sensors
    BY DEF Gift, Trail
<1>2. tau \in Nat /\ tau <= d.tauMax
    BY <1>1, CappedNat
<1>3. sensors \in SUBSET Sensors
    BY <1>1 DEF Trail
<1>4. IsFiniteSet(sensors)
    BY FS_AddElement
<1>5. Cardinality(sensors) \in Nat
    BY <1>4, FS_CardinalityType
<1>6. t = [s EXCEPT !.tau = tau, !.left = tau, !.bel = d.bel, !.sensors = sensors,
                    !.diversity = Cardinality(sensors)]
    BY DEF Deposited
<1> HIDE DEF tau, sensors, t
<1>7. /\ t.tau = tau /\ t.left = tau /\ t.bel = d.bel /\ t.sensors = sensors
      /\ t.diversity = Cardinality(sensors) /\ t.witnessed = s.witnessed
    BY <1>6 DEF Trail
<1> DEFINE t1 == [s EXCEPT !.tau = tau]
           t2 == [t1 EXCEPT !.left = tau]
           t3 == [t2 EXCEPT !.bel = d.bel]
           t4 == [t3 EXCEPT !.sensors = sensors]
           t5 == [t4 EXCEPT !.diversity = Cardinality(sensors)]
<1>8. t = t5
    BY <1>6
<1>9. t1 \in Trail
    BY <1>2 DEF Trail
<1> HIDE DEF t1
<1>10. t2 \in Trail
    BY <1>2, <1>9 DEF Trail
<1> HIDE DEF t2
<1>11. t3 \in Trail
    BY <1>1, <1>10 DEF Trail
<1> HIDE DEF t3
<1>12. t4 \in Trail
    BY <1>3, <1>11 DEF Trail
<1> HIDE DEF t4
<1>13. t5 \in Trail
    BY <1>5, <1>12 DEF Trail
<1> HIDE DEF t5
<1> QED
    BY <1>2, <1>4, <1>7, <1>8, <1>13 DEF sensors, t

LEMMA HalfDelta ==
    ASSUME NEW bel \in 0 .. 1000, NEW pl \in 0 .. 1000, bel <= pl
    PROVE  LET half == (pl - bel) \div 2
           IN  (IF bel > half + 10 THEN bel - half ELSE 10) \in Nat
<1> DEFINE half == (pl - bel) \div 2
<1>1. half \in Nat
    OBVIOUS
<1> HIDE DEF half
<1>2. (IF bel > half + 10 THEN bel - half ELSE 10) \in Nat
    BY <1>1
<1> QED
    BY <1>2 DEF half

LEMMA GiftMade ==
    ASSUME NEW delta \in Nat, NEW bel \in Nat, NEW sensor \in Sensors, NEW most \in Nat,
           NEW d, d = [delta |-> delta, bel |-> bel, sensor |-> sensor, tauMax |-> most]
    PROVE  /\ d \in Gift
           /\ d.delta = delta /\ d.bel = bel /\ d.sensor = sensor /\ d.tauMax = most
BY DEF Gift

LEMMA PriorIsGift ==
    ASSUME NEW ioc \in Ioc
    PROVE  /\ PriorForIoc(ioc) \in Gift
           /\ PriorForIoc(ioc).tauMax = 350 /\ PriorForIoc(ioc).bel <= 450
<1>1. ioc.confidence \in 0 .. 100
    BY DEF Ioc
<1> DEFINE bel == 200 + 3 * ioc.confidence
           delta == 100 + (5 * ioc.confidence) \div 2
<1>2. bel \in Nat /\ delta \in Nat
  <2>1. \A n \in Nat : n \div 2 \in Nat
      OBVIOUS
  <2>2. \A n \in 0 .. 100 : 5 * n \in Nat /\ 200 + 3 * n \in Nat
      OBVIOUS
  <2>3. (5 * ioc.confidence) \div 2 \in Nat
      BY <1>1, <2>1, <2>2
  <2> QED
      BY <1>1, <2>2, <2>3
<1> HIDE DEF bel, delta
<1>3. Capped(bel, 450) \in Nat /\ Capped(bel, 450) <= 450
    BY <1>2, CappedNat
<1> DEFINE most == Capped(bel, 450)
<1>4. PriorForIoc(ioc) = [delta |-> delta, bel |-> most, sensor |-> "cti.taxii", tauMax |-> 350]
    BY DEF PriorForIoc, bel, delta
<1> HIDE DEF most
<1>5. most \in Nat /\ most <= 450
    BY <1>3 DEF most
<1> QED
    BY <1>2, <1>4, <1>5, GiftMade, PheromoneAssumption

LEMMA OutcomeTyped ==
    ASSUME NEW o \in Outcomes
    PROVE  /\ o.bel \in 0 .. 1000 /\ o.pl \in 0 .. 1000 /\ o.bel <= o.pl
           /\ o.sensors \in SUBSET Sensors /\ o.sensors # {} /\ IsFiniteSet(o.sensors)
<1>1. o \in [bel : 0 .. 1000, pl : 0 .. 1000, action : STRING, sensors : SUBSET Sensors]
      /\ o.bel <= o.pl /\ o.sensors # {} /\ IsFiniteSet(o.sensors)
    BY BlackboardAssumption
<1> QED
    BY <1>1

LEMMA WindowIsGift ==
    ASSUME outcome \in Outcomes, NEW sensor \in outcome.sensors
    PROVE  OfWindow(sensor) \in Gift /\ OfWindow(sensor).sensor = sensor
<1>1. /\ outcome.bel \in 0 .. 1000 /\ outcome.pl \in 0 .. 1000
      /\ outcome.bel <= outcome.pl /\ sensor \in Sensors
    BY OutcomeTyped
<1> DEFINE delta == LET half == (outcome.pl - outcome.bel) \div 2
                    IN  IF outcome.bel > half + 10 THEN outcome.bel - half ELSE 10
<1>2. delta \in Nat
    BY <1>1, HalfDelta, ZenonT(30)
<1>3. outcome.bel \in Nat /\ TauMax \in Nat
    BY <1>1, PheromoneAssumption, SMTT(30)
<1>4. OfWindow(sensor) = [delta |-> delta, bel |-> outcome.bel, sensor |-> sensor,
                          tauMax |-> TauMax]
    BY DEF OfWindow
<1> HIDE DEF delta
<1> QED
    BY <1>1, <1>2, <1>3, <1>4, GiftMade

(* Decay never adds.                                                       *)
LEMMA EvaporatedLess ==
    ASSUME NEW tau \in Nat
    PROVE  Evaporated(tau) <= tau
<1> DEFINE a == Rho[2] - Rho[1]
           b == Rho[2]
           kept == 2 * a * tau + b
<1>1. a \in Nat /\ b \in Nat \ {0} /\ a <= b
    BY PheromoneAssumption
<1> HIDE DEF a, b
<1>2. a * tau <= b * tau /\ a * tau \in Nat /\ b * tau \in Nat
    BY <1>1
<1>3. 2 * a * tau = 2 * (a * tau) /\ (2 * b) * (tau + 1) = 2 * (b * tau) + 2 * b
    BY <1>1
<1>4. kept \in Nat /\ kept < (2 * b) * (tau + 1) /\ 2 * b \in Nat \ {0}
    BY <1>1, <1>2, <1>3
<1> HIDE DEF kept
<1>5. \A k, n \in Nat, q \in Nat \ {0} : k < q * (n + 1) => k \div q <= n /\ k \div q \in Nat
    OBVIOUS
<1> DEFINE rest == kept \div (2 * b)
<1>6. rest \in Nat /\ rest <= tau
    BY <1>4, <1>5
<1> HIDE DEF rest
<1>7. Evaporated(tau) = Capped(rest, TauMax)
    BY DEF Evaporated, rest, kept, a, b
<1> QED
    BY <1>6, <1>7, PheromoneAssumption DEF Capped

-----------------------------------------------------------------------------
(* The invariant.                                                          *)

(* What the worker has decided on is the trail as a deposit left it, and   *)
(* between SADD and HSET the key has the sensors of the window.            *)
StoreInv ==
    /\ Believed /\ due => store.tau = store.left
    /\ Reinforced
    /\ PriorsModest
    /\ DiversityWitnessed
    /\ stage = "named" => outcome.sensors \subseteq store.sensors

FlowTypeOK ==
    /\ stage \in {"idle", "fused", "deposited", "named", "described", "recorded",
                  "published", "sent"}
    /\ outcome \in Outcomes \cup {NoOutcome}
    /\ stage # "idle" => outcome \in Outcomes
    /\ id \in Nat
    /\ entries \subseteq 1 .. id /\ failed \subseteq 1 .. id
    /\ frame \in [id : 0 .. id, parent : 0 .. id]
    /\ pivot \in 0 .. id /\ tries \in 0 .. 2 /\ stored \in 0 .. id
    /\ inbox \in Seq(1 .. id) /\ shown \in Seq(1 .. id)

Early == {"fused", "deposited", "named", "described", "recorded"}

(* Frames queue in the order of their numbers, behind those shown; the one *)
(* under way has not been offered before it is published.                  *)
Queued ==
    /\ \A i, j \in DOMAIN inbox : i < j => inbox[i] < inbox[j]
    /\ \A i \in DOMAIN inbox : \A k \in DOMAIN shown : shown[k] < inbox[i]
    /\ stage \in Early => /\ \A i \in DOMAIN inbox : inbox[i] < id
                          /\ \A k \in DOMAIN shown : shown[k] < id

Backed ==
    /\ stage # "idle" => id # 0
    /\ frame.parent # 0 => frame.parent \in entries
    /\ pivot # 0 => pivot \in entries \cup failed
    /\ stage \in {"recorded", "published", "sent"} /\ ShouldAppend(outcome) =>
           id \in entries \cup failed

FlowInv == FlowTypeOK /\ Queued /\ Backed

Inv == BoardTypeOK /\ StoreInv /\ FlowInv

flowVars == <<windowVars, ledgerVars, sinkVars, natsVars, shadowVars>>

LEMMA TypeParts == TypeOK <=> BoardTypeOK /\ FlowTypeOK
BY DEF TypeOK, FlowTypeOK

LEMMA FlowSame == FlowInv /\ UNCHANGED flowVars => FlowInv'
BY DEF FlowInv, FlowTypeOK, Queued, Backed, ShouldAppend, flowVars, windowVars, ledgerVars,
       sinkVars, natsVars, shadowVars

(* The processor goes on to a later stage of the same frame.               *)
LEMMA FlowOn ==
    ASSUME FlowInv, stage # "idle", UNCHANGED <<outcome, id, tries, stored>>,
           UNCHANGED <<ledgerVars, sinkVars, shadowVars>>,
           \/ stage \in Early /\ stage' \in Early \ {"recorded"}
           \/ stage \in {"recorded", "published", "sent"} /\ stage' \in {"published", "sent"}
    PROVE  FlowInv'
<1>1. FlowTypeOK'
    BY DEF FlowInv, FlowTypeOK, ledgerVars, sinkVars, shadowVars, Early
<1>2. Queued'
    BY DEF FlowInv, Queued, shadowVars, Early
<1>3. Backed'
    BY DEF FlowInv, Backed, ShouldAppend, ledgerVars, sinkVars, Early
<1> QED
    BY <1>1, <1>2, <1>3 DEF FlowInv

(* Nothing changes in the store, and no window comes to be named.          *)
LEMMA StoreSame ==
    ASSUME StoreInv, store' = store, due' => due,
           stage' = "named" => stage = "named" /\ outcome' = outcome
    PROVE  StoreInv'
BY DEF StoreInv, Believed, Reinforced, PriorsModest, DiversityWitnessed

LEMMA BoardSame == BoardTypeOK /\ UNCHANGED boardVars => BoardTypeOK'
BY DEF BoardTypeOK, boardVars

LEMMA InitInv == Init => Inv
<1> SUFFICES ASSUME Init PROVE Inv
    OBVIOUS
<1>1. store = [tau |-> 0, bel |-> 0, sensors |-> {}, diversity |-> 0, left |-> 0,
               witnessed |-> FALSE]
    BY DEF Init, BoardInit
<1>2. /\ store.tau = 0 /\ store.bel = 0 /\ store.sensors = {} /\ store.diversity = 0
      /\ store.left = 0 /\ store.witnessed = FALSE
    BY <1>1
<1>3. IsFiniteSet({}) /\ Cardinality({}) = 0
    BY FS_EmptySet
<1>4. BoardTypeOK
  <2>1. store \in Trail
      BY <1>1 DEF Trail
  <2>2. iocs \in Seq(Ioc)
      BY EmptySeq DEF Init, BoardInit
  <2> QED
      BY <1>2, <1>3, <2>1, <2>2 DEF Init, BoardInit, BoardTypeOK
<1>5. StoreInv
    BY <1>2, <1>3 DEF Init, BoardInit, StoreInv, Believed, Reinforced, PriorsModest,
                      DiversityWitnessed
<1>6. FlowTypeOK
  <2>1. <<>> \in Seq(1 .. 0)
      BY EmptySeq
  <2> QED
      BY <2>1 DEF Init, FlowTypeOK
<1>7. Queued /\ Backed
    BY DEF Init, Queued, Backed, Early
<1> QED
    BY <1>4, <1>5, <1>6, <1>7 DEF Inv, FlowInv

-----------------------------------------------------------------------------
(* The store.                                                              *)

(* A deposit, by whomever: the trail is as it left it.                     *)
LEMMA DepositKeeps ==
    ASSUME BoardTypeOK, StoreInv, NEW d \in Gift,
           stage' = "named" => stage = "named" /\ outcome' = outcome,
           \/ store' = Deposited(store, d) /\ d.tauMax <= 350 /\ d.bel <= 450
           \/ store' = [Deposited(store, d) EXCEPT !.witnessed = TRUE]
    PROVE  store' \in Trail /\ IsFiniteSet(store'.sensors) /\ StoreInv'
<1> DEFINE t == Deposited(store, d)
<1>1. /\ t \in Trail /\ IsFiniteSet(t.sensors)
      /\ t.diversity = Cardinality(t.sensors)
      /\ t.tau = t.left /\ t.tau <= d.tauMax
      /\ t.bel = d.bel /\ t.witnessed = store.witnessed
      /\ store.sensors \subseteq t.sensors
    BY DepositedTrail DEF BoardTypeOK
<1> HIDE DEF t
<1>2. /\ store' \in Trail /\ store'.sensors = t.sensors
      /\ store'.diversity = t.diversity /\ store'.tau = t.tau /\ store'.left = t.left
      /\ \/ store'.bel = t.bel /\ store'.witnessed = t.witnessed
            /\ d.tauMax <= 350 /\ d.bel <= 450
         \/ store'.witnessed = TRUE
  <2>1. CASE store' = t /\ d.tauMax <= 350 /\ d.bel <= 450
      BY <1>1, <2>1
  <2>2. CASE store' = [t EXCEPT !.witnessed = TRUE]
      BY <1>1, <2>2 DEF Trail
  <2> QED
      BY <2>1, <2>2 DEF t
<1>3. IsFiniteSet(store'.sensors) /\ Cardinality(store'.sensors) \in Nat
    BY <1>1, <1>2, FS_CardinalityType
<1>4. store'.diversity <= Cardinality(store'.sensors)
    BY <1>1, <1>2, <1>3
<1>5. store'.tau = store'.left
    BY <1>1, <1>2
<1>6. ~store'.witnessed => store'.tau <= 350 /\ store'.bel <= 450
  <2>1. d.tauMax \in Nat /\ d.bel \in Nat /\ t.tau \in Nat
      BY <1>1 DEF Gift, Trail
  <2> QED
      BY <1>1, <1>2, <2>1
<1>7. stage' = "named" => outcome'.sensors \subseteq store'.sensors
    BY <1>1, <1>2 DEF StoreInv
<1>8. StoreInv'
    BY <1>4, <1>5, <1>6, <1>7 DEF StoreInv, Reinforced, PriorsModest, DiversityWitnessed
<1> QED
    BY <1>2, <1>3, <1>8

LEMMA IocTyped ==
    ASSUME iocs \in Seq(Ioc), iocs # <<>>
    PROVE  Head(iocs) \in Ioc /\ Tail(iocs) \in Seq(Ioc)
BY HeadTailProperties

LEMMA PriorKeeps ==
    ASSUME BoardTypeOK, StoreInv, DepositPrior, UNCHANGED windowVars
    PROVE  BoardTypeOK' /\ StoreInv'
<1>1. stage' = stage /\ outcome' = outcome /\ due' = due
    BY DEF windowVars, DepositPrior
<1>2. CASE store' = store
  <2>1. StoreInv'
      BY <1>1, <1>2, StoreSame
  <2>2. iocs' \in Seq(Ioc)
      BY IocTyped, EmptySeq DEF DepositPrior, BoardTypeOK
  <2> QED
      BY <1>2, <2>1, <2>2 DEF BoardTypeOK, DepositPrior
<1>3. CASE store' = Deposited(store, PriorForIoc(Head(iocs))) /\ iocs' = Tail(iocs)
  <2>1. Head(iocs) \in Ioc /\ iocs' \in Seq(Ioc)
      BY <1>3, IocTyped DEF BoardTypeOK, DepositPrior
  <2> DEFINE d == PriorForIoc(Head(iocs))
  <2>2. d \in Gift /\ d.tauMax = 350 /\ d.bel <= 450
      BY <2>1, PriorIsGift
  <2> HIDE DEF d
  <2>3. store' = Deposited(store, d) /\ d.tauMax <= 350
      BY <1>3, <2>2 DEF d
  <2>4. store' \in Trail /\ IsFiniteSet(store'.sensors) /\ StoreInv'
      BY <1>1, <2>2, <2>3, DepositKeeps
  <2> QED
      BY <2>1, <2>4 DEF BoardTypeOK, DepositPrior
<1> QED
    BY <1>2, <1>3 DEF DepositPrior

(* A decay after the belief was read, whatever has been deposited since.   *)
LEMMA DecayKeeps ==
    ASSUME BoardTypeOK, StoreInv, Decay, UNCHANGED windowVars
    PROVE  BoardTypeOK' /\ StoreInv'
<1>1. /\ stage' = stage /\ outcome' = outcome /\ due /\ due' = FALSE
      /\ UNCHANGED <<valkey, scripts, up, iocs, bundles, faults>>
    BY DEF windowVars, Decay
<1>2. CASE store' = store
    BY <1>1, <1>2, StoreSame DEF BoardTypeOK
<1>3. CASE store' = [store EXCEPT !.tau = Evaporated(store.tau)]
  <2>1. store \in Trail /\ store.tau \in Nat
      BY DEF BoardTypeOK, Trail
  <2>2. Evaporated(store.tau) \in Nat /\ Evaporated(store.tau) <= store.tau
      BY <2>1, EvaporatedTrail, EvaporatedLess
  <2> DEFINE tau == Evaporated(store.tau)
  <2> HIDE DEF tau
  <2>3. tau \in Nat /\ store' = [store EXCEPT !.tau = tau]
      BY <1>3, <2>2 DEF tau
  <2>4. /\ store' \in Trail /\ store'.tau = tau /\ store'.bel = store.bel
        /\ store'.sensors = store.sensors /\ store'.left = store.left
        /\ store'.diversity = store.diversity /\ store'.witnessed = store.witnessed
      BY <2>1, <2>3 DEF Trail
  <2>5. BoardTypeOK'
      BY <1>1, <2>4 DEF BoardTypeOK
  <2>6. Believed => tau = Evaporated(store.left)
      BY <1>1 DEF StoreInv, tau
  <2>7. ~store.witnessed => tau <= 350
      BY <2>1, <2>2 DEF tau, StoreInv, PriorsModest
  <2>8. Reinforced'
      BY <2>4, <2>6 DEF Reinforced, Believed
  <2>9. PriorsModest'
      BY <2>4, <2>7 DEF StoreInv, PriorsModest
  <2>10. DiversityWitnessed'
      BY <2>4 DEF StoreInv, DiversityWitnessed
  <2> QED
      BY <1>1, <2>4, <2>5, <2>8, <2>9, <2>10 DEF StoreInv
<1> QED
    BY <1>2, <1>3 DEF Decay

(* The other actions of the board do not write to the store.               *)
LEMMA BoardKeeps ==
    ASSUME BoardTypeOK, StoreInv, Board, UNCHANGED windowVars
    PROVE  BoardTypeOK' /\ StoreInv'
<1>1. stage' = stage /\ outcome' = outcome
    BY DEF windowVars
<1>2. ASSUME NEW b \in Bundles, IngestBundle(b)
      PROVE  BoardTypeOK' /\ StoreInv'
  <2>1. iocs' \in Seq(Ioc)
      BY <1>2, BundlesAssumption DEF IngestBundle
  <2>2. BoardTypeOK'
      BY <1>2, <2>1 DEF IngestBundle, BoardTypeOK
  <2> QED
      BY <1>1, <1>2, <2>2, StoreSame DEF IngestBundle
<1>3. CASE Scan
  <2>1. ~Believed /\ store' = store
      BY <1>3 DEF Scan
  <2>2. BoardTypeOK'
      BY <1>3 DEF Scan, BoardTypeOK
  <2>3. StoreInv'
      BY <1>1, <2>1 DEF StoreInv, Believed, Reinforced, PriorsModest, DiversityWitnessed
  <2> QED
      BY <2>2, <2>3
<1>4. CASE ValkeyDies
  <2>1. BoardTypeOK'
    <3>1. valkey' = FALSE /\ scripts' = FALSE /\ faults' = faults + 1
          /\ UNCHANGED <<store, up, due, iocs, bundles>>
        BY <1>4 DEF ValkeyDies
    <3>2. faults' \in Nat
        BY <3>1 DEF BoardTypeOK
    <3>3. valkey' \in BOOLEAN /\ scripts' \in BOOLEAN
        BY <3>1, Zenon
    <3> QED
        BY <3>1, <3>2, <3>3, Zenon DEF BoardTypeOK
  <2> QED
      BY <1>1, <1>4, <2>1, StoreSame DEF ValkeyDies
<1>5. ASSUME NEW p \in Processes, Start(p)
      PROVE  BoardTypeOK' /\ StoreInv'
  <2>1. BoardTypeOK'
      BY <1>5 DEF Start, BoardTypeOK
  <2> QED
      BY <1>1, <1>5, <2>1, StoreSame DEF Start
<1> QED
    BY <1>2, <1>3, <1>4, <1>5, PriorKeeps, DecayKeeps DEF Board

(* The processes that die take their work with them.                       *)
LEMMA GoneKeeps ==
    ASSUME BoardTypeOK, StoreInv, FlowInv, NEW dead, Gone(dead), Drop(dead),
           up' \subseteq Processes, valkey' \in BOOLEAN, faults' \in Nat,
           UNCHANGED <<store, scripts, bundles>>
    PROVE  Inv'
<1>1. \/ stage' = "idle" /\ outcome' = NoOutcome /\ tries' = 0
      \/ UNCHANGED <<stage, outcome, tries>>
    BY DEF Gone, Idle
<1>2. (inbox' = <<>> \/ inbox' = inbox) /\ UNCHANGED <<id, ledgerVars, sinkVars, stored, shown>>
    BY DEF Gone
<1>3. due' \in BOOLEAN /\ (due' => due)
    BY DEF Drop
<1>4. iocs' \in Seq(Ioc)
    BY EmptySeq DEF Drop, BoardTypeOK
<1>5. BoardTypeOK'
    BY <1>3, <1>4, Zenon DEF BoardTypeOK
<1>6. StoreInv'
    BY <1>1, <1>3, StoreSame
<1>7. FlowTypeOK'
  <2>1. inbox' \in Seq(1 .. id)
      BY <1>2, EmptySeq DEF FlowInv, FlowTypeOK
  <2>2. CASE stage' = "idle" /\ outcome' = NoOutcome /\ tries' = 0
      BY <1>2, <2>1, <2>2 DEF FlowInv, FlowTypeOK, ledgerVars, sinkVars
  <2>3. CASE UNCHANGED <<stage, outcome, tries>>
      BY <1>2, <2>1, <2>3 DEF FlowInv, FlowTypeOK, ledgerVars, sinkVars
  <2> QED
      BY <1>1, <2>2, <2>3
<1>8. Queued'
  <2>1. CASE inbox' = <<>>
      BY <1>1, <1>2, <2>1 DEF FlowInv, Queued, Early
  <2>2. CASE inbox' = inbox
      BY <1>1, <1>2, <2>2 DEF FlowInv, Queued, Early
  <2> QED
      BY <1>2, <2>1, <2>2
<1>9. Backed'
    BY <1>1, <1>2 DEF FlowInv, Backed, ShouldAppend, ledgerVars, sinkVars
<1> QED
    BY <1>5, <1>6, <1>7, <1>8, <1>9 DEF Inv, FlowInv

LEMMA DeathKeeps ==
    ASSUME Inv
    PROVE  /\ (\E p \in Processes : Die(p) /\ Gone({p})) => Inv'
           /\ ValkeyReturns /\ Gone(up) => Inv'
<1>1. ASSUME NEW p \in Processes, Die(p), Gone({p})
      PROVE  Inv'
  <2>1. up' \subseteq Processes /\ faults' \in Nat
      BY <1>1 DEF Die, Inv, BoardTypeOK
  <2>2. valkey' \in BOOLEAN /\ Drop({p}) /\ UNCHANGED <<store, scripts, bundles>>
      BY <1>1 DEF Die, Inv, BoardTypeOK
  <2> QED
      BY <1>1, <2>1, <2>2, GoneKeeps DEF Inv
<1>2. ASSUME ValkeyReturns, Gone(up)
      PROVE  Inv'
  <2>1. up' \subseteq Processes /\ faults' \in Nat
      BY <1>2 DEF ValkeyReturns, Inv, BoardTypeOK
  <2>2. valkey' \in BOOLEAN
      BY <1>2, Zenon DEF ValkeyReturns
  <2>3. Drop(up) /\ UNCHANGED <<store, scripts, bundles>>
      BY <1>2 DEF ValkeyReturns
  <2> QED
      BY <1>2, <2>1, <2>2, <2>3, GoneKeeps DEF Inv
<1> QED
    BY <1>1, <1>2

-----------------------------------------------------------------------------
(* The window processor and its sinks.                                     *)

(* A step that leaves the board alone, whatever becomes of the window.     *)
LEMMA StoreStill ==
    ASSUME BoardTypeOK, StoreInv, UNCHANGED boardVars, stage' # "named"
    PROVE  BoardTypeOK' /\ StoreInv'
<1>1. store' = store /\ due' = due
    BY DEF boardVars
<1> QED
    BY <1>1, StoreSame, BoardSame

LEMMA WiderSeq ==
    ASSUME NEW n \in Nat, NEW s \in Seq(1 .. n)
    PROVE  s \in Seq(1 .. (n + 1))
<1>1. 1 .. n \subseteq 1 .. (n + 1)
    OBVIOUS
<1> QED
    BY <1>1, SeqMonotonic

LEMMA FirstOfSeq ==
    ASSUME NEW S, NEW s \in Seq(S), s # <<>>
    PROVE  /\ Head(s) = s[1] /\ Head(s) \in S /\ Tail(s) \in Seq(S)
           /\ Len(s) \in Nat \ {0} /\ DOMAIN s = 1 .. Len(s) /\ s[Len(s)] \in S
           /\ Len(Tail(s)) = Len(s) - 1 /\ DOMAIN Tail(s) = 1 .. (Len(s) - 1)
           /\ \A i \in DOMAIN Tail(s) : Tail(s)[i] = s[i + 1]
<1>1. /\ Head(s) \in S /\ Tail(s) \in Seq(S) /\ Len(Tail(s)) = Len(s) - 1
      /\ \A i \in 1 .. Len(Tail(s)) : Tail(s)[i] = s[i + 1]
    BY HeadTailProperties
<1>2. Len(s) \in Nat \ {0} /\ DOMAIN s = 1 .. Len(s)
    BY EmptySeq, LenProperties
<1>3. DOMAIN Tail(s) = 1 .. (Len(s) - 1)
    BY <1>1, LenProperties
<1>4. s[Len(s)] \in S
    BY <1>2, ElementOfSeq
<1>5. Head(s) = s[1]
    OBVIOUS
<1> QED
    BY <1>1, <1>2, <1>3, <1>4, <1>5

LEMMA FireKeeps ==
    ASSUME Inv, NEW o \in Outcomes, Fire(o)
    PROVE  Inv'
<1>1. BoardTypeOK' /\ StoreInv'
    BY StoreStill DEF Inv, Fire
<1>2. /\ stage = "idle" /\ stage' = "fused" /\ outcome' = o /\ id' = id + 1
      /\ UNCHANGED <<entries, failed, frame, pivot, tries, stored, inbox, shown>>
    BY DEF Fire, ledgerVars, sinkVars, natsVars, shadowVars
<1>3. FlowTypeOK /\ Queued /\ Backed
    BY DEF Inv, FlowInv
<1>4. id \in Nat /\ inbox \in Seq(1 .. id) /\ shown \in Seq(1 .. id)
    BY <1>3 DEF FlowTypeOK
<1>5. inbox' \in Seq(1 .. id') /\ shown' \in Seq(1 .. id')
    BY <1>2, <1>4, WiderSeq
<1>6. FlowTypeOK'
    BY <1>2, <1>3, <1>5 DEF FlowTypeOK
<1>7. /\ \A i \in DOMAIN inbox : inbox[i] \in 1 .. id
      /\ \A k \in DOMAIN shown : shown[k] \in 1 .. id
    BY <1>4, ElementOfSeq, LenProperties
<1>8. Queued'
    BY <1>2, <1>3, <1>4, <1>7 DEF Queued
<1>9. Backed'
    BY <1>2, <1>3, <1>4 DEF Backed
<1> QED
    BY <1>1, <1>6, <1>8, <1>9 DEF Inv, FlowInv

LEMMA DepositStepKeeps ==
    ASSUME Inv, Deposit
    PROVE  Inv'
<1>1. BoardTypeOK /\ StoreInv /\ FlowInv
    BY DEF Inv
<1>2. stage = "fused" /\ stage' = "deposited" /\ outcome' = outcome
    BY DEF Deposit
<1>3. outcome \in Outcomes
    BY <1>1, <1>2 DEF FlowInv, FlowTypeOK
<1>4. PICK sensor \in outcome.sensors :
          store' = [Deposited(store, OfWindow(sensor)) EXCEPT !.witnessed = TRUE]
    BY DEF Deposit
<1>5. OfWindow(sensor) \in Gift
    BY <1>3, WindowIsGift
<1>6. store' \in Trail /\ IsFiniteSet(store'.sensors) /\ StoreInv'
    BY <1>1, <1>2, <1>4, <1>5, DepositKeeps
<1>7. BoardTypeOK'
    BY <1>1, <1>6, Zenon DEF Deposit, BoardTypeOK
<1>8. FlowInv'
    BY <1>1, <1>2, FlowOn DEF Deposit, natsVars, Early
<1> QED
    BY <1>6, <1>7, <1>8 DEF Inv

LEMMA DepositFailsKeeps ==
    ASSUME Inv, DepositFails
    PROVE  Inv'
<1>1. BoardTypeOK /\ StoreInv /\ FlowInv
    BY DEF Inv
<1>2. /\ stage' = "idle" /\ outcome' = NoOutcome /\ tries' = 0
      /\ UNCHANGED <<store, valkey, scripts, due, iocs, bundles, faults>>
      /\ UNCHANGED <<id, entries, failed, frame, pivot, stored, inbox, shown>>
    BY DEF DepositFails, Idle, ledgerVars, sinkVars, shadowVars
<1>3. up' \subseteq Processes
    BY <1>1 DEF DepositFails, BoardTypeOK
<1>4. BoardTypeOK'
    BY <1>1, <1>2, <1>3, Zenon DEF BoardTypeOK
<1>5. StoreInv'
    BY <1>1, <1>2, StoreSame
<1>6. FlowTypeOK'
    BY <1>1, <1>2 DEF FlowInv, FlowTypeOK
<1>7. Queued' /\ Backed'
    BY <1>1, <1>2 DEF FlowInv, Queued, Backed, Early
<1> QED
    BY <1>4, <1>5, <1>6, <1>7 DEF Inv, FlowInv

LEMMA AddSensorsKeeps ==
    ASSUME Inv, AddSensors
    PROVE  Inv'
<1>1. BoardTypeOK /\ StoreInv /\ FlowInv
    BY DEF Inv
<1>2. /\ stage = "deposited" /\ stage' \in {"named", "described"}
      /\ UNCHANGED <<valkey, scripts, up, due, iocs, bundles, faults>>
      /\ UNCHANGED <<outcome, id, tries, stored>>
      /\ UNCHANGED <<ledgerVars, sinkVars, shadowVars>>
    BY DEF AddSensors, natsVars
<1>3. FlowInv'
    BY <1>1, <1>2, FlowOn DEF Early
<1>4. CASE store' = store /\ stage' = "described"
  <2>1. BoardTypeOK'
      BY <1>1, <1>2, <1>4, Zenon DEF BoardTypeOK
  <2>2. StoreInv'
      BY <1>1, <1>2, <1>4, StoreSame
  <2> QED
      BY <1>3, <2>1, <2>2 DEF Inv
<1>5. CASE store' = [store EXCEPT !.sensors = @ \cup outcome.sensors]
  <2> DEFINE sensors == store.sensors \cup outcome.sensors
  <2>1. outcome.sensors \in SUBSET Sensors /\ IsFiniteSet(outcome.sensors)
      BY <1>1, <1>2, OutcomeTyped DEF FlowInv, FlowTypeOK
  <2>2. store \in Trail /\ IsFiniteSet(store.sensors)
      BY <1>1 DEF BoardTypeOK
  <2>3. sensors \in SUBSET Sensors
      BY <2>1, <2>2 DEF Trail
  <2>4. IsFiniteSet(sensors)
      BY <2>1, <2>2, FS_Union
  <2>5. store.sensors \subseteq sensors /\ outcome.sensors \subseteq sensors
      OBVIOUS
  <2>6. Cardinality(store.sensors) <= Cardinality(sensors)
      BY <2>4, <2>5, FS_Subset
  <2>7. Cardinality(store.sensors) \in Nat /\ Cardinality(sensors) \in Nat
      BY <2>2, <2>4, FS_CardinalityType
  <2>8. store' = [store EXCEPT !.sensors = sensors]
      BY <1>5
  <2> HIDE DEF sensors
  <2>9. /\ store' \in Trail /\ store'.sensors = sensors /\ store'.tau = store.tau
        /\ store'.bel = store.bel /\ store'.left = store.left
        /\ store'.diversity = store.diversity /\ store'.witnessed = store.witnessed
      BY <2>2, <2>3, <2>8 DEF Trail
  <2>10. BoardTypeOK'
      BY <1>1, <1>2, <2>4, <2>9, Zenon DEF BoardTypeOK
  <2>11. store'.diversity <= Cardinality(store'.sensors)
    <3>1. store.diversity \in Nat /\ store.diversity <= Cardinality(store.sensors)
        BY <1>1, <2>2 DEF Trail, StoreInv, DiversityWitnessed
    <3>2. store.diversity <= Cardinality(sensors)
        BY <2>6, <2>7, <3>1
    <3> QED
        BY <2>9, <3>2
  <2>12. StoreInv'
      BY <1>1, <1>2, <2>5, <2>9, <2>11
         DEF StoreInv, Believed, Reinforced, PriorsModest, DiversityWitnessed
  <2> QED
      BY <1>3, <2>10, <2>12 DEF Inv
<1> QED
    BY <1>4, <1>5 DEF AddSensors

LEMMA SetDiversityKeeps ==
    ASSUME Inv, SetDiversity
    PROVE  Inv'
<1>1. BoardTypeOK /\ StoreInv /\ FlowInv
    BY DEF Inv
<1>2. /\ stage = "named" /\ stage' = "described"
      /\ UNCHANGED <<valkey, scripts, up, due, iocs, bundles, faults>>
      /\ UNCHANGED <<outcome, id, tries, stored>>
      /\ UNCHANGED <<ledgerVars, sinkVars, shadowVars>>
    BY DEF SetDiversity, natsVars
<1>3. FlowInv'
    BY <1>1, <1>2, FlowOn DEF Early
<1>4. CASE store' = store
  <2>1. BoardTypeOK'
      BY <1>1, <1>2, <1>4, Zenon DEF BoardTypeOK
  <2>2. StoreInv'
      BY <1>1, <1>2, <1>4, StoreSame
  <2> QED
      BY <1>3, <2>1, <2>2 DEF Inv
<1>5. CASE store' = [store EXCEPT !.diversity = Cardinality(outcome.sensors)]
  <2> DEFINE n == Cardinality(outcome.sensors)
  <2>1. outcome.sensors \subseteq store.sensors /\ IsFiniteSet(store.sensors) /\ store \in Trail
      BY <1>1, <1>2 DEF StoreInv, BoardTypeOK
  <2>2. IsFiniteSet(outcome.sensors) /\ n <= Cardinality(store.sensors)
      BY <2>1, FS_Subset
  <2>3. n \in Nat
      BY <2>2, FS_CardinalityType
  <2>4. store' = [store EXCEPT !.diversity = n]
      BY <1>5
  <2> HIDE DEF n
  <2>5. /\ store' \in Trail /\ store'.diversity = n /\ store'.sensors = store.sensors
        /\ store'.tau = store.tau /\ store'.bel = store.bel
        /\ store'.left = store.left /\ store'.witnessed = store.witnessed
      BY <2>1, <2>3, <2>4 DEF Trail
  <2>6. BoardTypeOK'
      BY <1>1, <1>2, <2>5, Zenon DEF BoardTypeOK
  <2>7. StoreInv'
      BY <1>1, <1>2, <2>2, <2>5
         DEF StoreInv, Believed, Reinforced, PriorsModest, DiversityWitnessed
  <2> QED
      BY <1>3, <2>6, <2>7 DEF Inv
<1> QED
    BY <1>4, <1>5 DEF SetDiversity

LEMMA RecordKeeps ==
    ASSUME Inv, Record
    PROVE  Inv'
<1>1. BoardTypeOK' /\ StoreInv'
    BY StoreStill DEF Inv, Record
<1>2. /\ stage = "described" /\ stage' = "recorded"
      /\ UNCHANGED <<outcome, id, frame, pivot, tries, stored, inbox, shown>>
      /\ entries' \in {entries, entries \cup {id}} /\ failed' \in {failed, failed \cup {id}}
      /\ ShouldAppend(outcome) => id \in entries' \cup failed'
    BY DEF Record, ledgerVars, sinkVars, natsVars, shadowVars
<1>3. FlowTypeOK /\ Queued /\ Backed
    BY DEF Inv, FlowInv
<1>4. id \in 1 .. id
    BY <1>2, <1>3 DEF FlowTypeOK, Backed
<1>5. FlowTypeOK'
    BY <1>2, <1>3, <1>4 DEF FlowTypeOK
<1>6. Queued'
    BY <1>2, <1>3 DEF Queued, Early
<1>7. Backed'
    BY <1>2, <1>3 DEF Backed, ShouldAppend
<1> QED
    BY <1>1, <1>5, <1>6, <1>7 DEF Inv, FlowInv

LEMMA PublishKeeps ==
    ASSUME Inv, Publish
    PROVE  Inv'
<1>1. BoardTypeOK' /\ StoreInv'
    BY StoreStill DEF Inv, Publish
<1>2. /\ stage = "recorded" /\ stage' = "published"
      /\ UNCHANGED <<outcome, id, entries, failed, pivot, tries, stored, shown>>
      /\ frame' = [id |-> id, parent |-> IF id \in entries THEN id ELSE 0]
      /\ (inbox' = inbox \/ inbox' = Append(inbox, id))
    BY DEF Publish, Offered, ledgerVars, natsVars
<1>3. FlowTypeOK /\ Queued /\ Backed
    BY DEF Inv, FlowInv
<1>4. id \in Nat /\ id > 0 /\ inbox \in Seq(1 .. id) /\ shown \in Seq(1 .. id)
    BY <1>2, <1>3 DEF FlowTypeOK, Backed
<1>5. CASE inbox' = inbox
  <2>1. FlowTypeOK'
      BY <1>2, <1>3, <1>4, <1>5 DEF FlowTypeOK
  <2>2. Queued'
      BY <1>2, <1>3, <1>5 DEF Queued, Early
  <2>3. Backed'
      BY <1>2, <1>3 DEF Backed, ShouldAppend
  <2> QED
      BY <1>1, <2>1, <2>2, <2>3 DEF Inv, FlowInv
<1>6. CASE inbox' = Append(inbox, id)
  <2>1. id \in 1 .. id
      BY <1>4
  <2>2. /\ inbox' \in Seq(1 .. id) /\ Len(inbox') = Len(inbox) + 1
        /\ \A i \in 1 .. Len(inbox) : inbox'[i] = inbox[i]
        /\ inbox'[Len(inbox) + 1] = id
      BY <1>4, <1>6, <2>1, AppendProperties
  <2>3. /\ Len(inbox) \in Nat /\ DOMAIN inbox = 1 .. Len(inbox)
        /\ DOMAIN inbox' = 1 .. (Len(inbox) + 1)
      BY <1>4, <2>2, LenProperties
  <2>4. FlowTypeOK'
      BY <1>2, <1>3, <1>4, <2>2 DEF FlowTypeOK
  <2>5. /\ \A i \in DOMAIN inbox : inbox[i] < id
        /\ \A k \in DOMAIN shown : shown[k] < id
        /\ \A i, j \in DOMAIN inbox : i < j => inbox[i] < inbox[j]
        /\ \A i \in DOMAIN inbox : \A k \in DOMAIN shown : shown[k] < inbox[i]
      BY <1>2, <1>3 DEF Queued, Early
  <2>6. \A i, j \in DOMAIN inbox' : i < j => inbox'[i] < inbox'[j]
      BY <2>2, <2>3, <2>5
  <2>7. \A i \in DOMAIN inbox' : \A k \in DOMAIN shown : shown[k] < inbox'[i]
      BY <2>2, <2>3, <2>5
  <2>8. Queued'
      BY <1>2, <2>6, <2>7 DEF Queued, Early
  <2>9. Backed'
      BY <1>2, <1>3 DEF Backed, ShouldAppend
  <2> QED
      BY <1>1, <2>4, <2>8, <2>9 DEF Inv, FlowInv
<1> QED
    BY <1>2, <1>5, <1>6

LEMMA NatsAttemptKeeps ==
    ASSUME Inv, NatsAttempt
    PROVE  Inv'
<1>1. BoardTypeOK' /\ StoreInv'
    BY StoreStill DEF Inv, NatsAttempt, Sent
<1>2. /\ stage = "published" /\ stage' \in {"published", "sent"}
      /\ UNCHANGED <<outcome, id, entries, failed, frame, pivot, inbox, shown>>
      /\ stored' \in {stored, id}
      /\ (tries' = 0 \/ (tries < 2 /\ tries' = tries + 1))
    BY DEF NatsAttempt, Sent, ledgerVars, sinkVars, shadowVars
<1>3. FlowTypeOK /\ Queued /\ Backed
    BY DEF Inv, FlowInv
<1>4. tries' \in 0 .. 2 /\ stored' \in 0 .. id
    BY <1>2, <1>3 DEF FlowTypeOK
<1>5. FlowTypeOK'
    BY <1>2, <1>3, <1>4 DEF FlowTypeOK
<1>6. Queued'
    BY <1>2, <1>3 DEF Queued, Early
<1>7. Backed'
    BY <1>2, <1>3 DEF Backed, ShouldAppend
<1> QED
    BY <1>1, <1>5, <1>6, <1>7 DEF Inv, FlowInv

LEMMA SpawnKeeps ==
    ASSUME Inv, Spawn
    PROVE  Inv'
<1>1. BoardTypeOK' /\ StoreInv'
    BY StoreStill DEF Inv, Spawn, Idle
<1>2. /\ stage = "sent" /\ stage' = "idle" /\ outcome' = NoOutcome /\ tries' = 0
      /\ UNCHANGED <<id, entries, failed, frame, stored, inbox, shown>>
      /\ (pivot' = pivot \/ (pivot' = id /\ ShouldSpawn(outcome)))
    BY DEF Spawn, Idle, ledgerVars, shadowVars
<1>3. FlowTypeOK /\ Queued /\ Backed
    BY DEF Inv, FlowInv
<1>4. FlowTypeOK'
    BY <1>2, <1>3 DEF FlowTypeOK
<1>5. Queued'
    BY <1>2, <1>3 DEF Queued, Early
<1>6. ShouldSpawn(outcome) => ShouldAppend(outcome)
  <2>1. outcome.bel \in 0 .. 1000
      BY <1>2, <1>3, OutcomeTyped DEF FlowTypeOK
  <2> QED
      BY <2>1 DEF ShouldSpawn, ShouldAppend
<1>7. Backed'
    BY <1>2, <1>3, <1>6 DEF Backed
<1> QED
    BY <1>1, <1>4, <1>5, <1>7 DEF Inv, FlowInv

-----------------------------------------------------------------------------
(* The shadow channel.                                                     *)

LEMMA ForwardKeeps ==
    ASSUME Inv, Forward
    PROVE  Inv'
<1>1. BoardTypeOK' /\ StoreInv'
  <2>1. UNCHANGED boardVars /\ stage' = stage /\ outcome' = outcome
      BY DEF Forward, windowVars
  <2>2. store' = store /\ due' = due
      BY <2>1 DEF boardVars
  <2> QED
      BY <2>1, <2>2, BoardSame, StoreSame DEF Inv
<1>2. /\ inbox # <<>> /\ inbox' = Tail(inbox)
      /\ UNCHANGED <<stage, outcome, id, entries, failed, frame, pivot, tries, stored>>
      /\ (shown' = shown \/ shown' = Append(shown, Head(inbox)))
    BY DEF Forward, Relay, windowVars, ledgerVars, sinkVars, natsVars
<1>3. FlowTypeOK /\ Queued /\ Backed
    BY DEF Inv, FlowInv
<1>4. inbox \in Seq(1 .. id) /\ shown \in Seq(1 .. id)
    BY <1>3 DEF FlowTypeOK
<1> DEFINE S == 1 .. id
<1>5. /\ inbox' \in Seq(1 .. id) /\ Head(inbox) \in 1 .. id /\ Head(inbox) = inbox[1]
      /\ \A i \in DOMAIN inbox' : inbox'[i] = inbox[i + 1]
      /\ Len(inbox) \in Nat \ {0} /\ DOMAIN inbox = 1 .. Len(inbox)
      /\ DOMAIN inbox' = 1 .. (Len(inbox) - 1)
  <2>1. inbox \in Seq(S)
      BY <1>4
  <2> HIDE DEF S
  <2>2. /\ inbox' \in Seq(S) /\ Head(inbox) \in S /\ Head(inbox) = inbox[1]
        /\ \A i \in DOMAIN inbox' : inbox'[i] = inbox[i + 1]
        /\ Len(inbox) \in Nat \ {0} /\ DOMAIN inbox = 1 .. Len(inbox)
        /\ DOMAIN inbox' = 1 .. (Len(inbox) - 1)
      BY <1>2, <2>1, FirstOfSeq
  <2> QED
      BY <2>2 DEF S
<1>6. Len(inbox) \in Nat /\ Len(inbox) > 0
    BY <1>5
<1>7. /\ \A i, j \in DOMAIN inbox : i < j => inbox[i] < inbox[j]
      /\ \A i \in DOMAIN inbox : \A k \in DOMAIN shown : shown[k] < inbox[i]
    BY <1>3 DEF Queued
<1>8. /\ \A i \in DOMAIN inbox' : i + 1 \in DOMAIN inbox /\ inbox'[i] = inbox[i + 1]
      /\ 1 \in DOMAIN inbox
    BY <1>5, <1>6
<1>9. \A i, j \in DOMAIN inbox' : i < j => inbox'[i] < inbox'[j]
    BY <1>6, <1>7, <1>8
<1>10. ASSUME NEW i \in DOMAIN inbox'
       PROVE  inbox[1] < inbox'[i]
  <2>1. i + 1 \in DOMAIN inbox /\ inbox'[i] = inbox[i + 1] /\ 1 \in DOMAIN inbox
      BY <1>8
  <2>2. 1 < i + 1
      BY <1>5
  <2> QED
      BY <1>7, <2>1, <2>2
<1>11. Backed'
    BY <1>2, <1>3 DEF Backed, ShouldAppend
<1>12. CASE shown' = shown
  <2>1. FlowTypeOK'
      BY <1>2, <1>3, <1>5, <1>12 DEF FlowTypeOK
  <2>2. Queued'
      BY <1>2, <1>3, <1>7, <1>8, <1>9, <1>12 DEF Queued
  <2> QED
      BY <1>1, <1>11, <2>1, <2>2 DEF Inv, FlowInv
<1>13. CASE shown' = Append(shown, Head(inbox))
  <2>1. /\ shown' \in Seq(1 .. id) /\ Len(shown') = Len(shown) + 1
        /\ \A k \in 1 .. Len(shown) : shown'[k] = shown[k]
        /\ shown'[Len(shown) + 1] = inbox[1]
      BY <1>4, <1>5, <1>13, AppendProperties
  <2>2. /\ Len(shown) \in Nat /\ DOMAIN shown = 1 .. Len(shown)
        /\ DOMAIN shown' = 1 .. (Len(shown) + 1)
      BY <1>4, <2>1, LenProperties
  <2>3. \A k \in DOMAIN shown' :
            \/ k \in DOMAIN shown /\ shown'[k] = shown[k]
            \/ shown'[k] = inbox[1]
      BY <2>1, <2>2
  <2>4. FlowTypeOK'
      BY <1>2, <1>3, <1>5, <2>1 DEF FlowTypeOK
  <2>5. \A i \in DOMAIN inbox' : \A k \in DOMAIN shown' : shown'[k] < inbox'[i]
      BY <1>7, <1>8, <1>10, <2>3
  <2>6. stage' \in Early => /\ \A i \in DOMAIN inbox' : inbox'[i] < id
                            /\ \A k \in DOMAIN shown' : shown'[k] < id
      BY <1>2, <1>3, <1>8, <2>3 DEF Queued
  <2>7. Queued'
      BY <1>2, <1>9, <2>5, <2>6 DEF Queued
  <2> QED
      BY <1>1, <1>11, <2>4, <2>7 DEF Inv, FlowInv
<1> QED
    BY <1>2, <1>12, <1>13

-----------------------------------------------------------------------------
(* Every step keeps the invariant.                                         *)

LEMMA NextInv == Inv /\ [Next]_vars => Inv'
<1> SUFFICES ASSUME Inv, [Next]_vars PROVE Inv'
    OBVIOUS
<1>1. CASE Board /\ UNCHANGED <<windowVars, ledgerVars, sinkVars, natsVars, shadowVars>>
    BY <1>1, BoardKeeps, FlowSame DEF Inv, flowVars
<1>2. CASE UNCHANGED vars
  <2>1. UNCHANGED boardVars /\ UNCHANGED flowVars /\ stage' = stage /\ outcome' = outcome
      BY <1>2 DEF vars, flowVars, windowVars
  <2>2. store' = store /\ due' = due
      BY <2>1 DEF boardVars
  <2> QED
      BY <2>1, <2>2, BoardSame, StoreSame, FlowSame DEF Inv
<1>3. CASE Process
    BY <1>3, DepositStepKeeps, DepositFailsKeeps, AddSensorsKeeps, SetDiversityKeeps,
       RecordKeeps, PublishKeeps, NatsAttemptKeeps, SpawnKeeps DEF Process
<1> QED
    BY <1>1, <1>2, <1>3, DeathKeeps, FireKeeps, ForwardKeeps DEF Next

LEMMA Invariance == Spec => []Inv
<1> QED
    BY InitInv, NextInv, PTL DEF Spec

-----------------------------------------------------------------------------
(* Results.                                                                *)

(* Whatever fires, is ingested or dies, every variable is of its type.     *)
THEOREM TypeCorrect == Spec => []TypeOK
<1>1. Inv => TypeOK
    BY TypeParts DEF Inv, FlowInv
<1> QED
    BY <1>1, Invariance, PTL

(* Of the tau that a believed deposit left, the worker takes one decay at  *)
(* most, however often processes die between its two calls.                *)
THEOREM TrailsReinforced == Spec => []Reinforced
<1>1. Inv => Reinforced
    BY DEF Inv, StoreInv
<1> QED
    BY <1>1, Invariance, PTL

(* However many indicators name a key that no window has reported on, its  *)
(* tau stays within 0.35 and the belief shown of it within 0.45, which is  *)
(* short of theta_mitigate though not of theta_finding                     *)
(* (stix_priors.py:29-32, settings.py:53-54).                              *)
THEOREM PriorsAlwaysModest == Spec => []PriorsModest
<1>1. Inv => PriorsModest
    BY DEF Inv, StoreInv
<1> QED
    BY <1>1, Invariance, PTL

(* The diversity shown is never more than the sensors named, whichever of  *)
(* the three commands of a window fail, and whoever deposits in between.   *)
THEOREM DiversityAlwaysWitnessed == Spec => []DiversityWitnessed
<1>1. Inv => DiversityWitnessed
    BY DEF Inv, StoreInv
<1> QED
    BY <1>1, Invariance, PTL

(* No frame names an entry that the ledger does not have, and none asks    *)
(* for an action before its entry was written or refused.                  *)
THEOREM FramesAlwaysBacked == Spec => []FramesBacked
<1>1. Inv => FramesBacked
    BY DEF Inv, FlowInv, Backed, FramesBacked
<1> QED
    BY <1>1, Invariance, PTL

(* The consensus stream and the dashboard never go back to an earlier      *)
(* frame, whatever is lost, sent again or restarted.                       *)
THEOREM FramesInOrder == Spec => InOrder
<1> DEFINE A == /\ stored' >= stored
                /\ shown' # shown => shown = <<>> \/ Last(shown') > Last(shown)
<1>1. Inv /\ [Next]_vars => [A]_vars
  <2> SUFFICES ASSUME Inv, Next PROVE A
      BY DEF vars, natsVars, shadowVars
  <2>1. CASE Forward
    <3>1. stored' = stored /\ stored \in Nat
        BY <2>1 DEF Forward, natsVars, Inv, FlowInv, FlowTypeOK
    <3>2. CASE shown' = shown
        BY <3>1, <3>2
    <3>3. CASE shown' = Append(shown, Head(inbox)) /\ shown # <<>>
      <4>1. inbox \in Seq(1 .. id) /\ shown \in Seq(1 .. id) /\ inbox # <<>>
          BY <2>1 DEF Forward, Inv, FlowInv, FlowTypeOK
      <4> DEFINE S == 1 .. id
      <4>2. inbox \in Seq(S) /\ shown \in Seq(S)
          BY <4>1
      <4> HIDE DEF S
      <4>3. /\ Head(inbox) \in S /\ Head(inbox) = inbox[1] /\ shown[Len(shown)] \in S
             /\ Len(inbox) \in Nat \ {0} /\ DOMAIN inbox = 1 .. Len(inbox)
             /\ Len(shown) \in Nat \ {0} /\ DOMAIN shown = 1 .. Len(shown)
          BY <3>3, <4>1, <4>2, FirstOfSeq
      <4>4. Head(inbox) \in 1 .. id /\ Head(inbox) = inbox[1] /\ shown[Len(shown)] \in 1 .. id
          BY <4>3 DEF S
      <4>5. /\ Len(inbox) \in Nat \ {0} /\ 1 \in DOMAIN inbox
            /\ Len(shown) \in Nat \ {0} /\ Len(shown) \in DOMAIN shown
          BY <4>3
      <4>6. shown[Len(shown)] < inbox[1]
          BY <4>5 DEF Inv, FlowInv, Queued
      <4>7. Len(shown') = Len(shown) + 1 /\ shown'[Len(shown) + 1] = inbox[1]
          BY <3>3, <4>1, <4>4, AppendProperties
      <4>8. Last(shown) = shown[Len(shown)] /\ Last(shown') = inbox[1]
          BY <4>7 DEF Last
      <4>9. shown[Len(shown)] \in Nat /\ inbox[1] \in Nat
          BY <4>4
      <4> QED
          BY <3>1, <4>6, <4>8, <4>9
    <3> QED
        BY <2>1, <3>1, <3>2, <3>3 DEF Forward, Relay
  <2>2. CASE ~Forward
    <3>1. stored \in 0 .. id /\ id \in Nat
        BY DEF Inv, FlowInv, FlowTypeOK
    <3>2. shown' = shown /\ stored' \in {stored, id}
        BY <2>2 DEF Next, Process, Fire, Deposit, DepositFails, AddSensors, SetDiversity, Record,
              Publish, NatsAttempt, Spawn, Gone, natsVars, shadowVars
    <3> QED
        BY <3>1, <3>2
  <2> QED
      BY <2>1, <2>2
<1>2. [][A]_vars => InOrder
    BY DEF InOrder
<1> QED
    BY <1>1, <1>2, Invariance, PTL DEF Spec
=============================================================================
