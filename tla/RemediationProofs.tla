---------------------------- MODULE RemediationProofs --------------------------
(***************************************************************************)
(* The bounds of AlertManager and Remediation hold for any number of       *)
(* evaluators, workers and rules, and any cooldown.                        *)
(***************************************************************************)
EXTENDS Remediation, FiniteSetTheorems, TLAPS

(* Moving one element into or out of a part of a finite set.               *)
LEMMA PartSize ==
  ASSUME NEW W, IsFiniteSet(W), NEW S \in SUBSET W
  PROVE  /\ IsFiniteSet(S) /\ Cardinality(S) \in Nat /\ Cardinality(W) \in Nat
         /\ Cardinality(S) <= Cardinality(W)
  BY FS_Subset, FS_CardinalityType

LEMMA PartGains ==
  ASSUME NEW W, IsFiniteSet(W), NEW S \in SUBSET W, NEW T, NEW x, T \subseteq S \cup {x}
  PROVE  IsFiniteSet(T) /\ Cardinality(T) \in Nat /\ Cardinality(T) <= Cardinality(S) + 1
<1>1. IsFiniteSet(S) /\ Cardinality(S) \in Nat
  BY PartSize
<1>2. /\ IsFiniteSet(S \cup {x}) /\ Cardinality(S \cup {x}) \in Nat
      /\ Cardinality(S \cup {x}) <= Cardinality(S) + 1
  BY <1>1, FS_AddElement, FS_CardinalityType
<1>3. QED BY <1>1, <1>2, FS_Subset, FS_CardinalityType

LEMMA PartLoses ==
  ASSUME NEW W, IsFiniteSet(W), NEW S \in SUBSET W, NEW T, NEW x \in S, T \subseteq S \ {x}
  PROVE  IsFiniteSet(T) /\ Cardinality(T) \in Nat /\ Cardinality(T) + 1 <= Cardinality(S)
<1>1. IsFiniteSet(S) /\ Cardinality(S) \in Nat
  BY PartSize
<1>2. /\ IsFiniteSet(S \ {x}) /\ Cardinality(S \ {x}) \in Nat
      /\ Cardinality(S \ {x}) = Cardinality(S) - 1
  BY <1>1, FS_RemoveElement, FS_CardinalityType
<1>3. QED BY <1>1, <1>2, FS_Subset, FS_CardinalityType

-------------------------------------------------------------------------------
(* Alerts: a rule's firing alerts and the evaluators about to raise one    *)
(* for it are together at most the evaluators.                             *)
Firing(al, r)  == {a \in AlertIds : al[a] = [rule |-> r, status |-> "firing"]}
RaisingFor(ra, r) == {e \in Evaluators : ra[e] = r}

AlertInv ==
  /\ AlertTypeOK
  /\ EveryAlertIsTold
  /\ \A e \in Evaluators : raising[e] # None => telling[e] = None
  /\ \A r \in AlertRules :
       Cardinality(Firing(alerts, r)) + Cardinality(RaisingFor(raising, r))
         <= Cardinality(Evaluators)

LEMMA AlertSizes ==
  ASSUME NEW al, NEW ra, NEW r
  PROVE  /\ Cardinality(Firing(al, r)) \in Nat
         /\ Cardinality(RaisingFor(ra, r)) \in Nat /\ Cardinality(Evaluators) \in Nat
         /\ Cardinality(RaisingFor(ra, r)) <= Cardinality(Evaluators)
<1>1. Firing(al, r) \in SUBSET AlertIds /\ RaisingFor(ra, r) \in SUBSET Evaluators
  BY DEF Firing, RaisingFor
<1>2. IsFiniteSet(AlertIds) /\ IsFiniteSet(Evaluators)
  BY AlertAssumption DEF AlertAssumption
<1>3. QED BY <1>1, <1>2, PartSize

(* An initial or a restarted manager.                                      *)
LEMMA NoAlertsFiring ==
  ASSUME NEW r \in AlertRules, NEW al, NEW ra,
         al = [a \in AlertIds |-> NoAlert], ra = [e \in Evaluators |-> None]
  PROVE  Cardinality(Firing(al, r)) + Cardinality(RaisingFor(ra, r)) <= Cardinality(Evaluators)
<1>1. Firing(al, r) = {} /\ RaisingFor(ra, r) = {}
  BY AlertAssumption DEF AlertAssumption, Firing, RaisingFor, NoAlert
<1>2. Cardinality({}) = 0
  BY FS_EmptySet
<1>3. QED BY <1>1, <1>2, AlertSizes

LEMMA AlertInitially == AlertInit => AlertInv
<1> SUFFICES ASSUME AlertInit PROVE AlertInv
  OBVIOUS
<1>1. AlertTypeOK
  BY DEF AlertInit, AlertTypeOK, NoAlert
<1>2. EveryAlertIsTold
  BY DEF AlertInit, EveryAlertIsTold, Raised
<1>3. QED BY <1>1, <1>2, NoAlertsFiring DEF AlertInit, AlertInv

LEMMA AlertsForgotten == ForgetAlerts => AlertInv'
<1> SUFFICES ASSUME ForgetAlerts PROVE AlertInv'
  OBVIOUS
<1>1. AlertTypeOK'
  BY DEF ForgetAlerts, AlertTypeOK, NoAlert
<1>2. EveryAlertIsTold'
  BY DEF ForgetAlerts, EveryAlertIsTold, Raised
<1>3. QED BY <1>1, <1>2, NoAlertsFiring DEF ForgetAlerts, AlertInv

LEMMA EvaluateKeeps ==
  ASSUME AlertInv, NEW e \in Evaluators, Evaluate(e)
  PROVE  AlertInv'
<1>1. AlertTypeOK'
  BY DEF Evaluate, AlertInv, AlertTypeOK
<1>2. EveryAlertIsTold'
  BY DEF Evaluate, AlertInv, EveryAlertIsTold, Raised
<1>3. QED BY <1>1, <1>2 DEF Evaluate, AlertInv

(* An evaluator gets ready to raise an alert only when none is firing.     *)
LEMMA LookKeeps ==
  ASSUME AlertInv, NEW e \in Evaluators, Look(e)
  PROVE  AlertInv'
<1>1. PICK q \in AlertRules :
        \/ raising' = [raising EXCEPT ![e] = q] /\ FiringOf(q) = {}
        \/ raising' = [raising EXCEPT ![e] = None]
  <2>1. PICK q \in todo[e], passed \in BOOLEAN :
          raising' = [raising EXCEPT ![e] = IF passed \/ FiringOf(q) # {} THEN None ELSE q]
    BY DEF Look
  <2>2. q \in AlertRules
    BY DEF AlertInv, AlertTypeOK
  <2>3. QED BY <2>1, <2>2
<1>2. /\ alerts' = alerts /\ telling' = telling /\ messages' = messages
      /\ raising[e] = None /\ telling[e] = None
  BY DEF Look, FreeEvaluator
<1>3. AlertTypeOK'
  <2>1. todo' \in [Evaluators -> SUBSET AlertRules]
    BY DEF Look, AlertInv, AlertTypeOK
  <2>2. raising' \in [Evaluators -> AlertRules \cup {None}]
    BY <1>1 DEF AlertInv, AlertTypeOK
  <2>3. QED BY <1>2, <2>1, <2>2 DEF AlertInv, AlertTypeOK
<1>4. EveryAlertIsTold'
  BY <1>2 DEF AlertInv, EveryAlertIsTold, Raised
<1>5. ASSUME NEW r \in AlertRules
      PROVE  Cardinality(Firing(alerts', r)) + Cardinality(RaisingFor(raising', r))
               <= Cardinality(Evaluators)
  <2>1. CASE r = q /\ FiringOf(q) = {}
    <3>1. Firing(alerts', r) = {}
      BY <1>2, <2>1 DEF Firing, FiringOf
    <3>2. Cardinality({}) = 0
      BY FS_EmptySet
    <3>3. QED BY <3>1, <3>2, AlertSizes
  <2>2. CASE ~(r = q /\ FiringOf(q) = {})
    <3>1. RaisingFor(raising', r) \subseteq RaisingFor(raising, r)
      BY <1>1, <2>2, AlertAssumption DEF AlertAssumption, RaisingFor, AlertInv, AlertTypeOK
    <3>2. IsFiniteSet(RaisingFor(raising, r))
      BY AlertAssumption, FS_Subset DEF AlertAssumption, RaisingFor
    <3>3. Cardinality(RaisingFor(raising', r)) <= Cardinality(RaisingFor(raising, r))
      BY <3>1, <3>2, FS_Subset
    <3>4. QED BY <1>2, <3>3, AlertSizes DEF AlertInv
  <2>3. QED BY <2>1, <2>2
<1>6. \A f \in Evaluators : raising'[f] # None => telling'[f] = None
  BY <1>1, <1>2 DEF AlertInv, AlertTypeOK
<1>7. QED BY <1>3, <1>4, <1>5, <1>6 DEF AlertInv

(* The evaluator stops being about to raise when its alert fires.          *)
LEMMA RaiseKeeps ==
  ASSUME AlertInv, NEW e \in Evaluators, Raise(e)
  PROVE  AlertInv'
<1>1. PICK a \in AlertIds :
        /\ alerts' = [alerts EXCEPT ![a] = [rule |-> raising[e], status |-> "firing"]]
        /\ telling' = [telling EXCEPT ![e] = a]
  BY DEF Raise, Raised
<1>2. /\ raising' = [raising EXCEPT ![e] = None] /\ todo' = todo /\ messages' = messages
      /\ raising[e] \in AlertRules /\ telling[e] = None
  BY DEF Raise, AlertInv, AlertTypeOK
<1>3. AlertTypeOK'
  <2>1. alerts' \in [AlertIds -> [rule : AlertRules, status : {"firing", "acknowledged", "resolved"}]
                                 \cup {NoAlert}]
    BY <1>1, <1>2 DEF AlertInv, AlertTypeOK
  <2>2. QED BY <1>1, <1>2, <2>1 DEF AlertInv, AlertTypeOK
<1>4. EveryAlertIsTold'
  <2> SUFFICES ASSUME NEW b \in AlertIds, alerts'[b] # NoAlert
               PROVE  b \in messages \/ \E f \in Evaluators : telling'[f] = b
    BY <1>2 DEF EveryAlertIsTold, Raised
  <2>1. CASE b = a
    BY <1>1, <2>1 DEF AlertInv, AlertTypeOK
  <2>2. CASE b # a
    <3>1. b \in Raised
      BY <1>1, <2>2 DEF Raised, AlertInv, AlertTypeOK
    <3>2. CASE b \in messages
      BY <3>2
    <3>3. CASE b \notin messages
      <4>1. PICK f \in Evaluators : telling[f] = b
        BY <3>1, <3>3 DEF AlertInv, EveryAlertIsTold
      <4>2. f # e
        BY <4>1, <1>2, AlertAssumption DEF AlertAssumption
      <4>3. telling'[f] = b
        BY <4>1, <4>2, <1>1 DEF AlertInv, AlertTypeOK
      <4>4. QED BY <4>3
    <3>4. QED BY <3>2, <3>3
  <2>3. QED BY <2>1, <2>2
<1>5. ASSUME NEW r \in AlertRules
      PROVE  Cardinality(Firing(alerts', r)) + Cardinality(RaisingFor(raising', r))
               <= Cardinality(Evaluators)
  <2>1. /\ IsFiniteSet(AlertIds) /\ IsFiniteSet(Evaluators)
        /\ Firing(alerts, r) \in SUBSET AlertIds /\ RaisingFor(raising, r) \in SUBSET Evaluators
    BY AlertAssumption DEF AlertAssumption, Firing, RaisingFor
  <2>2. CASE raising[e] = r
    <3>1. Firing(alerts', r) \subseteq Firing(alerts, r) \cup {a}
      BY <1>1 DEF Firing, AlertInv, AlertTypeOK
    <3>2. e \in RaisingFor(raising, r)
      BY <2>2 DEF RaisingFor
    <3>3. RaisingFor(raising', r) \subseteq RaisingFor(raising, r) \ {e}
      BY <1>2, AlertAssumption DEF AlertAssumption, RaisingFor, AlertInv, AlertTypeOK
    <3>4. Cardinality(Firing(alerts', r)) <= Cardinality(Firing(alerts, r)) + 1
      BY <2>1, <3>1, PartGains
    <3>5. Cardinality(RaisingFor(raising', r)) + 1 <= Cardinality(RaisingFor(raising, r))
      BY <2>1, <3>2, <3>3, PartLoses
    <3>6. QED BY <3>4, <3>5, AlertSizes DEF AlertInv
  <2>3. CASE raising[e] # r
    <3>1. Firing(alerts', r) \subseteq Firing(alerts, r)
      BY <1>1, <2>3 DEF Firing, AlertInv, AlertTypeOK
    <3>2. RaisingFor(raising', r) \subseteq RaisingFor(raising, r)
      BY <1>2, AlertAssumption DEF AlertAssumption, RaisingFor, AlertInv, AlertTypeOK
    <3>3. IsFiniteSet(Firing(alerts, r)) /\ IsFiniteSet(RaisingFor(raising, r))
      BY <2>1, FS_Subset
    <3>4. QED BY <3>1, <3>2, <3>3, FS_Subset, AlertSizes DEF AlertInv
  <2>4. QED BY <2>2, <2>3
<1>6. \A f \in Evaluators : raising'[f] # None => telling'[f] = None
  BY <1>1, <1>2 DEF AlertInv, AlertTypeOK
<1>7. QED BY <1>3, <1>4, <1>5, <1>6 DEF AlertInv

LEMMA SendNotificationKeeps ==
  ASSUME AlertInv, NEW e \in Evaluators, SendNotification(e)
  PROVE  AlertInv'
<1>1. AlertTypeOK'
  BY DEF SendNotification, AlertInv, AlertTypeOK
<1>2. EveryAlertIsTold'
  <2> SUFFICES ASSUME NEW b \in Raised
               PROVE  b \in messages' \/ \E f \in Evaluators : telling'[f] = b
    BY DEF SendNotification, EveryAlertIsTold, Raised
  <2>1. CASE b \in messages'
    BY <2>1
  <2>2. CASE b \notin messages'
    <3>1. PICK f \in Evaluators : telling[f] = b
      BY <2>2 DEF SendNotification, AlertInv, EveryAlertIsTold
    <3>2. f # e
      BY <2>2, <3>1 DEF SendNotification
    <3>3. telling'[f] = b
      BY <3>1, <3>2 DEF SendNotification, AlertInv, AlertTypeOK
    <3>4. QED BY <3>3
  <2>3. QED BY <2>1, <2>2
<1>3. \A f \in Evaluators : raising'[f] # None => telling'[f] = None
  BY DEF SendNotification, AlertInv, AlertTypeOK
<1>4. QED BY <1>1, <1>2, <1>3 DEF SendNotification, AlertInv

(* Acknowledging or resolving never makes an alert fire.                   *)
LEMMA SetAlertStatusKeeps ==
  ASSUME AlertInv, NEW a \in AlertIds, NEW new \in {"acknowledged", "resolved"},
         SetAlertStatus(a, new)
  PROVE  AlertInv'
<1>1. /\ alerts' = [alerts EXCEPT ![a].status = new] /\ alerts[a] # NoAlert
      /\ UNCHANGED <<todo, raising, telling, messages>>
  BY DEF SetAlertStatus, Raised
<1>2. alerts[a] \in [rule : AlertRules, status : {"firing", "acknowledged", "resolved"}]
  BY <1>1 DEF AlertInv, AlertTypeOK
<1>3. AlertTypeOK'
  BY <1>1, <1>2 DEF AlertInv, AlertTypeOK
<1>4. EveryAlertIsTold'
  <2>1. Raised' \subseteq Raised
    BY <1>1 DEF Raised, AlertInv, AlertTypeOK
  <2>2. QED BY <1>1, <2>1 DEF EveryAlertIsTold, AlertInv
<1>5. ASSUME NEW r \in AlertRules
      PROVE  Cardinality(Firing(alerts', r)) + Cardinality(RaisingFor(raising', r))
               <= Cardinality(Evaluators)
  <2>1. Firing(alerts', r) \subseteq Firing(alerts, r)
    BY <1>1, <1>2 DEF Firing, AlertInv, AlertTypeOK
  <2>2. IsFiniteSet(Firing(alerts, r))
    BY AlertAssumption, FS_Subset DEF AlertAssumption, Firing
  <2>3. Cardinality(Firing(alerts', r)) <= Cardinality(Firing(alerts, r))
    BY <2>1, <2>2, FS_Subset
  <2>4. QED BY <1>1, <2>3, AlertSizes DEF AlertInv
<1>6. QED BY <1>1, <1>3, <1>4, <1>5 DEF AlertInv

LEMMA AlertStepKeeps == AlertInv /\ AlertStep => AlertInv'
<1> SUFFICES ASSUME AlertInv, AlertStep PROVE AlertInv'
  OBVIOUS
<1>1. ASSUME NEW e \in Evaluators, EvaluatorStep(e) PROVE AlertInv'
  BY <1>1, EvaluateKeeps, LookKeeps, RaiseKeeps, SendNotificationKeeps DEF EvaluatorStep
<1>2. ASSUME NEW a \in AlertIds, AcknowledgeAlert(a) \/ ResolveAlert(a) PROVE AlertInv'
  BY <1>2, SetAlertStatusKeeps DEF AcknowledgeAlert, ResolveAlert
<1>3. QED BY <1>1, <1>2 DEF AlertStep

LEMMA AlertsUnchanged == AlertInv /\ UNCHANGED alertVars => AlertInv'
BY DEF AlertInv, AlertTypeOK, EveryAlertIsTold, Raised, alertVars

LEMMA FiringIsBounded == AlertInv => FiringBound
<1> SUFFICES ASSUME AlertInv, NEW r \in AlertRules
             PROVE  Cardinality(FiringOf(r)) <= Cardinality(Evaluators)
  BY DEF FiringBound
<1>1. FiringOf(r) = Firing(alerts, r)
  BY DEF FiringOf, Firing
<1>2. QED BY <1>1, AlertSizes DEF AlertInv

-------------------------------------------------------------------------------
(* Remediation: the engines still to be made, the runs still to end and    *)
(* the actuations still to be recorded are counted by the workers that     *)
(* will make, end and record them.                                         *)
Making(wk)        == {w \in Workers : wk[w].pc = "making"}
Running(wk, g, r) == {w \in Workers : /\ wk[w].pc \in {"act", "finish"}
                                      /\ wk[w].engine = g /\ wk[w].rule = r}
Saving(wk, r)     == {w \in Workers : wk[w].saved /\ wk[w].rule = r}

WorkersType ==
  [Workers ->
    [pc : {"idle", "found", "making", "match", "act", "finish"}, alert : AlertIds \cup {None},
     engine : Engines \cup {0}, rule : Rules \cup {None}, saved : BOOLEAN]]

WorkersInv ==
  /\ worker \in WorkersType
  /\ \A w \in Workers :
       /\ worker[w].saved => worker[w].pc = "finish"
       /\ worker[w].pc \in {"match", "act", "finish"} => worker[w].engine \in Engines
       /\ worker[w].pc \in {"act", "finish"} => worker[w].rule \in Rules

MadeInv ==
  /\ made \in 0..Cardinality(Workers)
  /\ made + Cardinality(Making(worker)) <= Cardinality(Workers)

CoolInv ==
  /\ cool \in [Engines -> [Rules -> 0..Cooldown]]
  /\ recent \in [Engines -> [Rules -> [left : 0..Cooldown, runs : Nat]]]
  /\ \A g \in Engines, r \in Rules :
       /\ recent[g][r].left = cool[g][r]
       /\ cool[g][r] = 0 => recent[g][r].runs = 0
       /\ recent[g][r].runs + Cardinality(Running(worker, g, r)) <= Cardinality(Workers)

EffectInv ==
  /\ restarts \in 0..MaxRestarts
  /\ unrecorded \in [Rules -> Nat]
  /\ \A r \in Rules :
       /\ Cardinality(Saving(worker, r)) <= unrecorded[r]
       /\ unrecorded[r] <= Cardinality(Saving(worker, r)) + restarts * Cardinality(Workers)

RemInv == WorkersInv /\ MadeInv /\ CoolInv /\ EffectInv

LEMMA RemSizes ==
  ASSUME NEW wk, NEW g, NEW r
  PROVE  /\ IsFiniteSet(Workers) /\ Cardinality(Workers) \in Nat
         /\ Making(wk) \in SUBSET Workers /\ Cardinality(Making(wk)) \in 0..Cardinality(Workers)
         /\ Running(wk, g, r) \in SUBSET Workers
         /\ Cardinality(Running(wk, g, r)) \in 0..Cardinality(Workers)
         /\ Saving(wk, r) \in SUBSET Workers /\ Cardinality(Saving(wk, r)) \in 0..Cardinality(Workers)
<1>1. Making(wk) \in SUBSET Workers /\ Running(wk, g, r) \in SUBSET Workers
        /\ Saving(wk, r) \in SUBSET Workers
  BY DEF Making, Running, Saving
<1>2. IsFiniteSet(Workers)
  BY RemediationAssumption DEF RemediationAssumption
<1>3. QED BY <1>1, <1>2, PartSize

LEMMA Multiples ==
  ASSUME NEW a \in Nat, NEW b \in Nat
  PROVE  a * b \in Nat /\ (a + 1) * b = a * b + b
OBVIOUS

(* Idle workers count for nothing.                                         *)
LEMMA IdleCounts ==
  ASSUME NEW g, NEW r
  PROVE  /\ Cardinality(Making(AllIdle)) = 0 /\ Cardinality(Running(AllIdle, g, r)) = 0
         /\ Cardinality(Saving(AllIdle, r)) = 0
<1>1. Making(AllIdle) = {} /\ Running(AllIdle, g, r) = {} /\ Saving(AllIdle, r) = {}
  BY DEF Making, Running, Saving, AllIdle, Idle
<1>2. QED BY <1>1, FS_EmptySet

LEMMA IdleWorkers == AllIdle \in WorkersType /\ \A w \in Workers : AllIdle[w] = Idle
BY DEF AllIdle, WorkersType, Idle

(* The steps that leave the runs alone, and where no worker starts or ends *)
(* one: only the counts of the workers matter.                             *)
LEMMA CoolFrame ==
  ASSUME CoolInv, UNCHANGED <<cool, recent>>,
         \A g \in Engines, r \in Rules : Running(worker', g, r) \subseteq Running(worker, g, r)
  PROVE  CoolInv'
<1> SUFFICES ASSUME NEW g \in Engines, NEW r \in Rules
             PROVE  recent[g][r].runs + Cardinality(Running(worker', g, r)) <= Cardinality(Workers)
  BY DEF CoolInv
<1>1. IsFiniteSet(Running(worker, g, r)) /\ recent[g][r].runs \in Nat
  BY RemSizes, FS_Subset DEF CoolInv
<1>2. Cardinality(Running(worker', g, r)) <= Cardinality(Running(worker, g, r))
  BY <1>1, FS_Subset
<1>3. QED BY <1>1, <1>2, RemSizes DEF CoolInv

LEMMA EffectFrame ==
  ASSUME EffectInv, UNCHANGED <<restarts, unrecorded>>,
         \A r \in Rules : Saving(worker', r) = Saving(worker, r)
  PROVE  EffectInv'
BY DEF EffectInv

LEMMA MadeFrame ==
  ASSUME MadeInv, UNCHANGED made, Making(worker') \subseteq Making(worker)
  PROVE  MadeInv'
<1>1. /\ IsFiniteSet(Making(worker)) /\ Cardinality(Making(worker)) \in Nat
      /\ Cardinality(Making(worker')) \in Nat /\ Cardinality(Workers) \in Nat
  BY RemSizes, PartSize
<1>2. Cardinality(Making(worker')) <= Cardinality(Making(worker))
  BY <1>1, FS_Subset
<1>3. QED BY <1>1, <1>2 DEF MadeInv

LEMMA FindAlertKeeps ==
  ASSUME RemInv, NEW w \in Workers, FindAlert(w)
  PROVE  RemInv'
<1>1. PICK a \in AlertIds : worker' = [worker EXCEPT ![w] = [Idle EXCEPT !.pc = "found", !.alert = a]]
  BY DEF FindAlert, Raised
<1>2. worker[w].pc = "idle" /\ UNCHANGED <<made, cool, restarts, recent, unrecorded>>
  BY DEF FindAlert
<1>3. WorkersInv'
  BY <1>1 DEF RemInv, WorkersInv, WorkersType, Idle
<1>4. /\ Making(worker') = Making(worker)
      /\ \A g \in Engines, r \in Rules : Running(worker', g, r) \subseteq Running(worker, g, r)
      /\ \A r \in Rules : Saving(worker', r) = Saving(worker, r)
  BY <1>1, <1>2 DEF RemInv, WorkersInv, WorkersType, Idle, Making, Running, Saving
<1>5. QED BY <1>2, <1>3, <1>4, MadeFrame, CoolFrame, EffectFrame DEF RemInv

(* A worker wants to make an engine only while there is none.              *)
LEMMA GetEngineKeeps ==
  ASSUME RemInv, NEW w \in Workers, GetEngine(w)
  PROVE  RemInv'
<1>1. worker[w].pc = "found" /\ UNCHANGED <<made, cool, restarts, recent, unrecorded>>
  BY DEF GetEngine
<1>2. /\ made = 0 => worker' = [worker EXCEPT ![w] = [@ EXCEPT !.pc = "making"]]
      /\ made # 0 => worker' = [worker EXCEPT ![w] = [@ EXCEPT !.pc = "match", !.engine = made]]
  BY DEF GetEngine
<1>3. /\ \A g \in Engines, r \in Rules : Running(worker', g, r) \subseteq Running(worker, g, r)
      /\ \A r \in Rules : Saving(worker', r) = Saving(worker, r)
  <2>1. CASE made = 0
    BY <1>1, <1>2, <2>1 DEF RemInv, WorkersInv, WorkersType, Running, Saving
  <2>2. CASE made # 0
    BY ZenonT(40), <1>1, <1>2, <2>2 DEF RemInv, WorkersInv, WorkersType, Running, Saving
  <2>3. QED BY <2>1, <2>2
<1>4. WorkersInv' /\ MadeInv'
  <2>1. CASE made = 0
    <3>1. WorkersInv'
      BY <1>1, <1>2, <2>1 DEF RemInv, WorkersInv, WorkersType
    <3>2. /\ Cardinality(Making(worker')) \in Nat /\ Cardinality(Workers) \in Nat
          /\ Cardinality(Making(worker')) <= Cardinality(Workers)
      BY RemSizes, PartSize
    <3>3. QED BY <1>1, <2>1, <3>1, <3>2 DEF RemInv, MadeInv
  <2>2. CASE made # 0
    <3>1. made \in Engines
      BY <2>2, RemSizes DEF RemInv, MadeInv, Engines
    <3>2. WorkersInv'
      <4>1. worker' = [worker EXCEPT ![w] = [@ EXCEPT !.pc = "match", !.engine = made]]
        BY <1>2, <2>2
      <4>2. worker' \in WorkersType
        BY <3>1, <4>1 DEF RemInv, WorkersInv, WorkersType
      <4>3. /\ worker'[w].pc = "match" /\ worker'[w].engine = made
            /\ worker'[w].saved = worker[w].saved
            /\ \A v \in Workers : v # w => worker'[v] = worker[v]
        BY <4>1 DEF RemInv, WorkersInv, WorkersType
      <4>4. QED BY <1>1, <3>1, <4>2, <4>3 DEF RemInv, WorkersInv
    <3>3. Making(worker') \subseteq Making(worker)
      BY <1>1, <1>2, <2>2 DEF RemInv, WorkersInv, WorkersType, Making
    <3>4. QED BY <1>1, <3>2, <3>3, MadeFrame DEF RemInv
  <2>3. QED BY <2>1, <2>2
<1>5. QED BY <1>1, <1>3, <1>4, CoolFrame, EffectFrame DEF RemInv

LEMMA MakeEngineKeeps ==
  ASSUME RemInv, NEW w \in Workers, MakeEngine(w)
  PROVE  RemInv'
<1>1. /\ worker[w].pc = "making" /\ made' = made + 1
      /\ worker' = [worker EXCEPT ![w].pc = "found"]
      /\ UNCHANGED <<cool, restarts, recent, unrecorded>>
  BY DEF MakeEngine
<1>2. WorkersInv'
  BY <1>1 DEF RemInv, WorkersInv, WorkersType
<1>3. MadeInv'
  <2>1. w \in Making(worker) /\ Making(worker') \subseteq Making(worker) \ {w}
    BY <1>1 DEF RemInv, WorkersInv, WorkersType, Making
  <2>2. /\ IsFiniteSet(Workers) /\ Making(worker) \in SUBSET Workers
        /\ Cardinality(Making(worker)) \in Nat /\ Cardinality(Workers) \in Nat
    BY RemSizes, PartSize
  <2>3. /\ Cardinality(Making(worker')) \in Nat
        /\ Cardinality(Making(worker')) + 1 <= Cardinality(Making(worker))
    BY <2>1, <2>2, PartLoses
  <2>4. QED BY <1>1, <2>2, <2>3 DEF RemInv, MadeInv
<1>4. /\ \A g \in Engines, r \in Rules : Running(worker', g, r) \subseteq Running(worker, g, r)
      /\ \A r \in Rules : Saving(worker', r) = Saving(worker, r)
  BY <1>1 DEF RemInv, WorkersInv, WorkersType, Running, Saving
<1>5. QED BY <1>1, <1>2, <1>3, <1>4, CoolFrame, EffectFrame DEF RemInv

(* A run starts only when the recent runs of its rule are forgotten.       *)
LEMMA EvaluateAlertKeeps ==
  ASSUME RemInv, NEW w \in Workers, EvaluateAlert(w)
  PROVE  RemInv'
<1>1. PICK next \in {r \in Matching(w) : cool[worker[w].engine][r] = 0} \cup {None} :
        worker' = [worker EXCEPT ![w] =
          IF next = None THEN Idle ELSE [@ EXCEPT !.pc = "act", !.rule = next]]
  BY DEF EvaluateAlert
<1>2. worker[w].pc = "match" /\ UNCHANGED <<made, cool, restarts, recent, unrecorded>>
  BY DEF EvaluateAlert
<1>3. CASE next = None
  <2>1. worker' = [worker EXCEPT ![w] = Idle]
    BY <1>1, <1>3
  <2>2. WorkersInv'
    BY <2>1 DEF RemInv, WorkersInv, WorkersType, Idle
  <2>3. /\ Making(worker') \subseteq Making(worker)
        /\ \A g \in Engines, r \in Rules : Running(worker', g, r) \subseteq Running(worker, g, r)
        /\ \A r \in Rules : Saving(worker', r) = Saving(worker, r)
    BY <1>2, <2>1 DEF RemInv, WorkersInv, WorkersType, Idle, Making, Running, Saving
  <2>4. QED BY <1>2, <2>2, <2>3, MadeFrame, CoolFrame, EffectFrame DEF RemInv
<1>4. CASE next # None
  <2>1. /\ worker' = [worker EXCEPT ![w] = [@ EXCEPT !.pc = "act", !.rule = next]]
        /\ next \in Rules /\ cool[worker[w].engine][next] = 0
    BY <1>1, <1>4 DEF Matching
  <2>2. WorkersInv'
    BY ZenonT(40), <1>2, <2>1 DEF RemInv, WorkersInv, WorkersType
  <2>3. /\ Making(worker') \subseteq Making(worker)
        /\ \A r \in Rules : Saving(worker', r) = Saving(worker, r)
    BY <1>2, <2>1 DEF RemInv, WorkersInv, WorkersType, Making, Saving
  <2>4. CoolInv'
    <3> SUFFICES ASSUME NEW g \in Engines, NEW r \in Rules
                 PROVE  recent[g][r].runs + Cardinality(Running(worker', g, r)) <= Cardinality(Workers)
      BY <1>2 DEF RemInv, CoolInv
    <3>1. /\ Cardinality(Running(worker', g, r)) \in Nat /\ Cardinality(Workers) \in Nat
          /\ Cardinality(Running(worker', g, r)) <= Cardinality(Workers)
      BY RemSizes, PartSize
    <3>2. CASE worker[w].engine = g /\ next = r
      <4>1. recent[g][r].runs = 0
        BY <2>1, <3>2 DEF RemInv, CoolInv
      <4>2. QED BY <3>1, <4>1
    <3>3. CASE ~(worker[w].engine = g /\ next = r)
      <4>1. Running(worker', g, r) \subseteq Running(worker, g, r)
        BY <2>1, <3>3 DEF RemInv, WorkersInv, WorkersType, Running
      <4>2. IsFiniteSet(Running(worker, g, r)) /\ Cardinality(Running(worker, g, r)) \in Nat
        BY RemSizes, PartSize
      <4>3. Cardinality(Running(worker', g, r)) <= Cardinality(Running(worker, g, r))
        BY <4>1, <4>2, FS_Subset
      <4>4. QED BY <3>1, <4>2, <4>3 DEF RemInv, CoolInv
    <3>4. QED BY <3>2, <3>3
  <2>5. QED BY <1>2, <2>2, <2>3, <2>4, MadeFrame, EffectFrame DEF RemInv
<1>5. QED BY <1>3, <1>4

LEMMA ExecuteActionKeeps ==
  ASSUME RemInv, NEW w \in Workers, ExecuteAction(w)
  PROVE  RemInv'
<1>1. PICK saved \in BOOLEAN :
        /\ unrecorded' = [unrecorded EXCEPT ![worker[w].rule] = IF saved THEN @ + 1 ELSE @]
        /\ worker' = [worker EXCEPT ![w] = [@ EXCEPT !.pc = "finish", !.saved = saved]]
  BY DEF ExecuteAction
<1>2. worker[w].pc = "act" /\ UNCHANGED <<made, cool, restarts, recent>>
  BY DEF ExecuteAction
<1> DEFINE q == worker[w].rule
<1>3. q \in Rules /\ ~worker[w].saved /\ worker[w].engine \in Engines
  BY <1>2 DEF RemInv, WorkersInv
<1>4. WorkersInv'
  BY <1>1, <1>3 DEF RemInv, WorkersInv, WorkersType
<1>5. /\ Making(worker') \subseteq Making(worker)
      /\ \A g \in Engines, r \in Rules : Running(worker', g, r) \subseteq Running(worker, g, r)
  BY <1>1, <1>2 DEF RemInv, WorkersInv, WorkersType, Making, Running
<1>6. EffectInv'
  <2>1. unrecorded' \in [Rules -> Nat]
    BY <1>1, <1>3 DEF RemInv, EffectInv
  <2>2. ASSUME NEW r \in Rules
        PROVE  /\ Cardinality(Saving(worker', r)) <= unrecorded'[r]
               /\ unrecorded'[r] <= Cardinality(Saving(worker', r)) + restarts * Cardinality(Workers)
    <3>1. /\ IsFiniteSet(Workers) /\ Cardinality(Workers) \in Nat
          /\ Saving(worker, r) \in SUBSET Workers
          /\ IsFiniteSet(Saving(worker, r)) /\ Cardinality(Saving(worker, r)) \in Nat
      BY RemSizes, PartSize
    <3>2. restarts * Cardinality(Workers) \in Nat
      BY <3>1, Multiples DEF RemInv, EffectInv
    <3>3. CASE saved /\ r = q
      <4>1. unrecorded'[r] = unrecorded[r] + 1
        BY <1>1, <1>3, <3>3 DEF RemInv, EffectInv
      <4>2. /\ Saving(worker', r) = Saving(worker, r) \cup {w}
            /\ w \notin Saving(worker, r)
        BY <1>1, <1>3, <3>3 DEF RemInv, WorkersInv, WorkersType, Saving
      <4>3. Cardinality(Saving(worker', r)) = Cardinality(Saving(worker, r)) + 1
        BY <3>1, <4>2, FS_AddElement
      <4> DEFINE c == Cardinality(Saving(worker, r))  m == restarts * Cardinality(Workers)
      <4>4. /\ c \in Nat /\ m \in Nat /\ unrecorded[r] \in Nat
            /\ c <= unrecorded[r] /\ unrecorded[r] <= c + m
        BY <3>1, <3>2 DEF RemInv, EffectInv
      <4>5. c + 1 <= unrecorded[r] + 1 /\ unrecorded[r] + 1 <= (c + 1) + m
        <5> HIDE DEF c, m
        <5> QED BY <4>4
      <4>6. QED BY <4>1, <4>3, <4>5
    <3>4. CASE ~(saved /\ r = q)
      <4>1. unrecorded'[r] = unrecorded[r]
        BY <1>1, <1>3, <3>4 DEF RemInv, EffectInv
      <4>2. Saving(worker', r) = Saving(worker, r)
        BY <1>1, <1>3, <3>4 DEF RemInv, WorkersInv, WorkersType, Saving
      <4>3. QED BY <4>1, <4>2 DEF RemInv, EffectInv
    <3>5. QED BY <3>3, <3>4
  <2>3. QED BY <1>2, <2>1, <2>2 DEF RemInv, EffectInv
<1>7. QED BY <1>2, <1>4, <1>5, <1>6, MadeFrame, CoolFrame DEF RemInv

(* The worker that ends a run no longer counts, the run does.              *)
LEMMA FinishKeeps ==
  ASSUME RemInv, NEW w \in Workers, Finish(w)
  PROVE  RemInv'
<1> DEFINE h == worker[w].engine  q == worker[w].rule
<1>1. /\ worker[w].pc = "finish"
      /\ cool' = [cool EXCEPT ![h][q] = Cooldown]
      /\ worker' = [worker EXCEPT ![w] = Idle]
      /\ recent' = [recent EXCEPT ![h][q] =
           [left |-> Cooldown, runs |-> IF @.left = 0 THEN 1 ELSE @.runs + 1]]
      /\ unrecorded' = [unrecorded EXCEPT ![q] = IF worker[w].saved THEN @ - 1 ELSE @]
      /\ UNCHANGED <<made, restarts>>
  BY DEF Finish
<1>2. h \in Engines /\ q \in Rules
  BY <1>1 DEF RemInv, WorkersInv
<1> HIDE DEF h, q
<1>3. WorkersInv'
  BY <1>1 DEF RemInv, WorkersInv, WorkersType, Idle
<1>4. Making(worker') \subseteq Making(worker)
  BY <1>1 DEF RemInv, WorkersInv, WorkersType, Idle, Making
<1>5. CoolInv'
  <2>0. /\ recent[h][q].left = cool[h][q] /\ recent[h][q].runs \in Nat
        /\ cool[h][q] = 0 => recent[h][q].runs = 0
        /\ Cooldown \in Nat \ {0}
    BY <1>2, RemediationAssumption DEF RemediationAssumption, RemInv, CoolInv
  <2>1. recent' = [recent EXCEPT ![h][q] = [left |-> Cooldown, runs |-> recent[h][q].runs + 1]]
    <3>1. (IF recent[h][q].left = 0 THEN 1 ELSE recent[h][q].runs + 1) = recent[h][q].runs + 1
      BY <2>0
    <3>2. QED BY <1>1, <3>1 DEF RemInv, CoolInv
  <2>2. /\ cool' \in [Engines -> [Rules -> 0..Cooldown]]
        /\ recent' \in [Engines -> [Rules -> [left : 0..Cooldown, runs : Nat]]]
    BY <1>1, <1>2, <2>0, <2>1 DEF RemInv, CoolInv
  <2>3. ASSUME NEW g \in Engines, NEW r \in Rules
        PROVE  /\ recent'[g][r].left = cool'[g][r]
               /\ cool'[g][r] = 0 => recent'[g][r].runs = 0
               /\ recent'[g][r].runs + Cardinality(Running(worker', g, r)) <= Cardinality(Workers)
    <3>1. CASE g = h /\ r = q
      <4>1. cool'[g][r] = Cooldown /\ recent'[g][r] = [left |-> Cooldown, runs |-> recent[g][r].runs + 1]
        BY <1>1, <1>2, <2>1, <3>1 DEF RemInv, CoolInv
      <4>2. w \in Running(worker, g, r) /\ Running(worker', g, r) \subseteq Running(worker, g, r) \ {w}
        BY <1>1, <3>1 DEF h, q, RemInv, WorkersInv, WorkersType, Idle, Running
      <4>3. /\ Cardinality(Running(worker', g, r)) \in Nat
            /\ Cardinality(Running(worker', g, r)) + 1 <= Cardinality(Running(worker, g, r))
        BY <4>2, RemSizes, PartLoses
      <4>4. /\ Cardinality(Running(worker, g, r)) \in Nat /\ Cardinality(Workers) \in Nat
            /\ recent[g][r].runs \in Nat
            /\ recent[g][r].runs + Cardinality(Running(worker, g, r)) <= Cardinality(Workers)
        BY RemSizes, PartSize DEF RemInv, CoolInv
      <4>5. QED BY <4>1, <4>3, <4>4, <2>0
    <3>2. CASE ~(g = h /\ r = q)
      <4>1. cool'[g][r] = cool[g][r] /\ recent'[g][r] = recent[g][r]
        BY <1>1, <1>2, <2>1, <3>2 DEF RemInv, CoolInv
      <4>2. Running(worker', g, r) \subseteq Running(worker, g, r)
        BY <1>1 DEF RemInv, WorkersInv, WorkersType, Idle, Running
      <4>3. /\ IsFiniteSet(Running(worker, g, r)) /\ Cardinality(Running(worker, g, r)) \in Nat
            /\ Cardinality(Running(worker', g, r)) \in Nat /\ Cardinality(Workers) \in Nat
        BY RemSizes, PartSize
      <4>4. Cardinality(Running(worker', g, r)) <= Cardinality(Running(worker, g, r))
        BY <4>2, <4>3, FS_Subset
      <4>5. QED BY <4>1, <4>3, <4>4 DEF RemInv, CoolInv
    <3>3. QED BY <3>1, <3>2
  <2>4. QED BY <2>2, <2>3 DEF CoolInv
<1>6. EffectInv'
  <2>0. /\ IsFiniteSet(Workers) /\ Cardinality(Workers) \in Nat
        /\ restarts * Cardinality(Workers) \in Nat
    BY RemSizes, Multiples DEF RemInv, EffectInv
  <2>1. ASSUME NEW r \in Rules
        PROVE  /\ unrecorded'[r] \in Nat
               /\ Cardinality(Saving(worker', r)) <= unrecorded'[r]
               /\ unrecorded'[r] <= Cardinality(Saving(worker', r)) + restarts * Cardinality(Workers)
    <3>1. /\ Saving(worker, r) \in SUBSET Workers
          /\ IsFiniteSet(Saving(worker, r)) /\ Cardinality(Saving(worker, r)) \in Nat
      BY RemSizes, PartSize
    <3>2. CASE worker[w].saved /\ r = q
      <4>1. unrecorded'[r] = unrecorded[r] - 1
        BY <1>1, <1>2, <3>2 DEF RemInv, EffectInv
      <4>2. w \in Saving(worker, r) /\ Saving(worker', r) = Saving(worker, r) \ {w}
        BY <1>1, <3>2 DEF q, RemInv, WorkersInv, WorkersType, Idle, Saving
      <4>3. Cardinality(Saving(worker', r)) = Cardinality(Saving(worker, r)) - 1
              /\ Cardinality(Saving(worker', r)) \in Nat
        BY <3>1, <4>2, FS_RemoveElement, FS_CardinalityType
      <4> DEFINE c == Cardinality(Saving(worker, r))  m == restarts * Cardinality(Workers)
      <4>4. /\ c \in Nat /\ m \in Nat /\ unrecorded[r] \in Nat /\ c - 1 \in Nat
            /\ c <= unrecorded[r] /\ unrecorded[r] <= c + m
        BY <2>0, <3>1, <4>3 DEF RemInv, EffectInv
      <4>5. /\ unrecorded[r] - 1 \in Nat
            /\ c - 1 <= unrecorded[r] - 1 /\ unrecorded[r] - 1 <= (c - 1) + m
        <5> HIDE DEF c, m
        <5> QED BY <4>4
      <4>6. QED BY <4>1, <4>3, <4>5
    <3>3. CASE ~(worker[w].saved /\ r = q)
      <4>1. unrecorded'[r] = unrecorded[r]
        BY <1>1, <1>2, <3>3 DEF RemInv, EffectInv
      <4>2. Saving(worker', r) = Saving(worker, r)
        BY <1>1, <3>3 DEF q, RemInv, WorkersInv, WorkersType, Idle, Saving
      <4>3. QED BY <4>1, <4>2 DEF RemInv, EffectInv
    <3>4. QED BY <3>2, <3>3
  <2>2. unrecorded' \in [Rules -> Nat]
    <3>1. unrecorded' = [r \in Rules |-> unrecorded'[r]]
      BY <1>1 DEF RemInv, EffectInv
    <3>2. QED BY <2>1, <3>1
  <2>3. QED BY <1>1, <2>1, <2>2 DEF RemInv, EffectInv
<1>7. QED BY <1>1, <1>3, <1>4, <1>5, <1>6, MadeFrame DEF RemInv

(* The runs of a rule are forgotten in the tick that ends its cooldown.    *)
LEMMA TickKeeps ==
  ASSUME RemInv, Tick
  PROVE  RemInv'
<1>1. /\ cool' = [g \in Engines |-> [r \in Rules |->
            IF cool[g][r] > 0 THEN cool[g][r] - 1 ELSE 0]]
      /\ recent' = [g \in Engines |-> [r \in Rules |->
            IF recent[g][r].left > 1 THEN [recent[g][r] EXCEPT !.left = @ - 1]
            ELSE [left |-> 0, runs |-> 0]]]
      /\ UNCHANGED <<made, worker, restarts, unrecorded>>
  BY DEF Tick
<1>2. ASSUME NEW g \in Engines, NEW r \in Rules
      PROVE  /\ cool'[g][r] \in 0..Cooldown
             /\ recent'[g][r] \in [left : 0..Cooldown, runs : Nat]
             /\ recent'[g][r].left = cool'[g][r]
             /\ cool'[g][r] = 0 => recent'[g][r].runs = 0
             /\ recent'[g][r].runs <= recent[g][r].runs
  <2>1. /\ cool[g][r] \in 0..Cooldown /\ Cooldown \in Nat
        /\ recent[g][r] \in [left : 0..Cooldown, runs : Nat]
        /\ recent[g][r].left = cool[g][r]
    BY RemediationAssumption DEF RemediationAssumption, RemInv, CoolInv
  <2>2. CASE cool[g][r] > 1
    <3>1. cool'[g][r] = cool[g][r] - 1 /\ recent'[g][r] = [recent[g][r] EXCEPT !.left = @ - 1]
      BY <1>1, <2>1, <2>2
    <3>2. QED BY <2>1, <2>2, <3>1
  <2>3. CASE ~(cool[g][r] > 1)
    <3>1. cool'[g][r] = 0 /\ recent'[g][r] = [left |-> 0, runs |-> 0]
      BY <1>1, <2>1, <2>3
    <3>2. QED BY <2>1, <3>1
  <2>4. QED BY <2>2, <2>3
<1>3. /\ cool' \in [Engines -> [Rules -> 0..Cooldown]]
      /\ recent' \in [Engines -> [Rules -> [left : 0..Cooldown, runs : Nat]]]
  <2>1. /\ cool' = [g \in Engines |-> [r \in Rules |-> cool'[g][r]]]
        /\ recent' = [g \in Engines |-> [r \in Rules |-> recent'[g][r]]]
    BY <1>1
  <2>2. QED BY <1>2, <2>1
<1>4. ASSUME NEW g \in Engines, NEW r \in Rules
      PROVE  recent'[g][r].runs + Cardinality(Running(worker, g, r)) <= Cardinality(Workers)
  <2>1. /\ Cardinality(Running(worker, g, r)) \in Nat /\ Cardinality(Workers) \in Nat
        /\ recent[g][r].runs \in Nat /\ recent'[g][r].runs \in Nat
    BY <1>2, RemSizes, PartSize DEF RemInv, CoolInv
  <2>2. QED BY <1>2, <2>1 DEF RemInv, CoolInv
<1>5. CoolInv'
  BY <1>1, <1>2, <1>3, <1>4 DEF CoolInv
<1>6. QED BY <1>1, <1>5 DEF RemInv, WorkersInv, MadeInv, EffectInv

(* A restart takes the place of at most all the workers.                   *)
LEMMA RestartKeeps ==
  ASSUME RemInv, Restart
  PROVE  RemInv'
<1>1. /\ restarts < MaxRestarts /\ restarts' = restarts + 1
      /\ made' = 0 /\ cool' = PerRule(0) /\ worker' = AllIdle /\ recent' = NoRecent
      /\ unrecorded' = unrecorded
  BY DEF Restart
<1>2. /\ restarts \in Nat /\ MaxRestarts \in Nat /\ Cooldown \in Nat /\ restarts' \in 0..MaxRestarts
  BY <1>1, RemediationAssumption DEF RemediationAssumption, RemInv, EffectInv
<1>3. WorkersInv'
  BY <1>1, IdleWorkers DEF WorkersInv, WorkersType, Idle
<1>4. MadeInv'
  BY <1>1, IdleCounts, RemSizes DEF MadeInv
<1>5. CoolInv'
  BY <1>1, <1>2, IdleCounts, RemSizes DEF CoolInv, PerRule, NoRecent
<1>6. ASSUME NEW r \in Rules
      PROVE  /\ Cardinality(Saving(worker', r)) <= unrecorded[r]
             /\ unrecorded[r] <= Cardinality(Saving(worker', r)) + restarts' * Cardinality(Workers)
  <2>1. Cardinality(Saving(worker', r)) = 0
    BY <1>1, IdleCounts
  <2>2. /\ Cardinality(Workers) \in Nat /\ Cardinality(Saving(worker, r)) \in Nat
        /\ Cardinality(Saving(worker, r)) <= Cardinality(Workers)
    BY RemSizes, PartSize
  <2>3. /\ restarts * Cardinality(Workers) \in Nat
        /\ restarts' * Cardinality(Workers) = restarts * Cardinality(Workers) + Cardinality(Workers)
    BY <1>1, <1>2, <2>2, Multiples
  <2>4. /\ unrecorded[r] \in Nat
        /\ unrecorded[r] <= Cardinality(Saving(worker, r)) + restarts * Cardinality(Workers)
    BY DEF RemInv, EffectInv
  <2> DEFINE n == Cardinality(Workers)  m == restarts * n  k == restarts' * n
  <2>5. k \in Nat /\ unrecorded[r] <= 0 + k
    <3>1. n \in Nat /\ m \in Nat /\ k = m + n /\ unrecorded[r] <= n + m
      <4> DEFINE c == Cardinality(Saving(worker, r))
      <4>1. c \in Nat /\ n \in Nat /\ c <= n /\ m \in Nat /\ unrecorded[r] <= c + m /\ k = m + n
        BY <2>2, <2>3, <2>4
      <4> HIDE DEF c, n, m, k
      <4>2. QED BY <2>4, <4>1
    <3> HIDE DEF n, m, k
    <3>2. QED BY <2>4, <3>1
  <2>6. 0 <= unrecorded[r]
    BY <2>4
  <2>7. QED BY <2>1, <2>5, <2>6
<1>7. EffectInv'
  BY <1>1, <1>2, <1>6 DEF RemInv, EffectInv
<1>8. QED BY <1>3, <1>4, <1>5, <1>7 DEF RemInv

LEMMA RemInitially == Init => RemInv
<1> SUFFICES ASSUME Init PROVE RemInv
  OBVIOUS
<1>1. /\ made = 0 /\ cool = PerRule(0) /\ worker = AllIdle /\ restarts = 0
      /\ recent = NoRecent /\ unrecorded = [r \in Rules |-> 0]
  BY DEF Init
<1>2. MaxRestarts \in Nat /\ Cooldown \in Nat
  BY RemediationAssumption DEF RemediationAssumption
<1>3. WorkersInv
  BY <1>1, IdleWorkers DEF WorkersInv, WorkersType, Idle
<1>4. MadeInv
  BY <1>1, IdleCounts, RemSizes DEF MadeInv
<1>5. CoolInv
  BY <1>1, <1>2, IdleCounts, RemSizes DEF CoolInv, PerRule, NoRecent
<1>6. EffectInv
  <2>1. 0 * Cardinality(Workers) = 0
    BY RemSizes, PartSize
  <2>2. ASSUME NEW r \in Rules
        PROVE  /\ Cardinality(Saving(worker, r)) <= unrecorded[r]
               /\ unrecorded[r] <= Cardinality(Saving(worker, r)) + restarts * Cardinality(Workers)
    <3>1. Cardinality(Saving(worker, r)) = 0 /\ unrecorded[r] = 0
      BY <1>1, IdleCounts
    <3>2. restarts * Cardinality(Workers) = 0
      BY <1>1, <2>1
    <3>3. QED BY <3>1, <3>2
  <2>3. QED BY <1>1, <1>2, <2>2 DEF EffectInv
<1>7. QED BY <1>3, <1>4, <1>5, <1>6 DEF RemInv

LEMMA RemUnchanged == RemInv /\ UNCHANGED remVars => RemInv'
BY DEF RemInv, WorkersInv, MadeInv, CoolInv, EffectInv, remVars

-------------------------------------------------------------------------------
LEMMA Invariant == Spec => [](AlertInv /\ RemInv)
<1>1. Init => AlertInv /\ RemInv
  BY AlertInitially, RemInitially DEF Init
<1>2. AlertInv /\ RemInv /\ [Next]_vars => (AlertInv /\ RemInv)'
  <2> SUFFICES ASSUME AlertInv, RemInv, [Next]_vars PROVE AlertInv' /\ RemInv'
    OBVIOUS
  <2>1. CASE AlertStep /\ UNCHANGED remVars
    BY <2>1, AlertStepKeeps, RemUnchanged
  <2>2. ASSUME NEW w \in Workers, WorkerStep(w), UNCHANGED alertVars PROVE AlertInv' /\ RemInv'
    <3>1. RemInv'
      BY <2>2, FindAlertKeeps, GetEngineKeeps, MakeEngineKeeps, EvaluateAlertKeeps,
         ExecuteActionKeeps, FinishKeeps DEF WorkerStep
    <3>2. QED BY <2>2, <3>1, AlertsUnchanged
  <2>3. CASE Tick /\ UNCHANGED alertVars
    BY <2>3, TickKeeps, AlertsUnchanged
  <2>4. CASE Restart
    BY <2>4, RestartKeeps, AlertsForgotten DEF Restart
  <2>5. CASE UNCHANGED vars
    BY <2>5, AlertsUnchanged, RemUnchanged DEF vars
  <2>6. QED BY <2>1, <2>2, <2>3, <2>4, <2>5 DEF Next
<1>3. QED BY <1>1, <1>2, PTL DEF Spec

(* THEOREM.  All variables keep to their sets; in particular a server      *)
(* never makes more engines in one life than it has handler threads.       *)
THEOREM Typed == Spec => []TypeOK
<1>1. AlertInv /\ RemInv => TypeOK
  BY DEF AlertInv, RemInv, WorkersInv, WorkersType, MadeInv, CoolInv, EffectInv, TypeOK
<1>2. QED BY Invariant, <1>1, PTL

(* THEOREM.  However evaluations overlap, a rule has at most one firing    *)
(* alert for each evaluator.                                               *)
THEOREM FiringAlertsAreBounded == Spec => []FiringBound
BY Invariant, FiringIsBounded, PTL

(* THEOREM.  An alert that was raised has its message, or its evaluator is *)
(* still sending it.                                                       *)
THEOREM NoAlertGoesUntold == Spec => []EveryAlertIsTold
<1>1. AlertInv => EveryAlertIsTold
  BY DEF AlertInv
<1>2. QED BY Invariant, <1>1, PTL

(* THEOREM.  The runs of a rule in one engine that end with less than a    *)
(* cooldown between them are at most the handler threads.                  *)
THEOREM CooldownBoundsBursts == Spec => []BurstBound
<1>1. RemInv => BurstBound
  <2> SUFFICES ASSUME RemInv, NEW g \in Engines, NEW r \in Rules
               PROVE  recent[g][r].runs <= Cardinality(Workers)
    BY DEF BurstBound
  <2>1. /\ Cardinality(Running(worker, g, r)) \in Nat /\ Cardinality(Workers) \in Nat
        /\ recent[g][r].runs \in Nat
    BY RemSizes, PartSize DEF RemInv, CoolInv
  <2>2. QED BY <2>1 DEF RemInv, CoolInv
<1>2. QED BY Invariant, <1>1, PTL

(* THEOREM.  The actuations a rule left in the database without a run are  *)
(* at most those of the runs still going on and of the workers that        *)
(* restarts have cut off.                                                  *)
THEOREM ActuationsHaveRuns == Spec => []EffectsHaveRuns
<1>1. RemInv => EffectsHaveRuns
  BY DEF RemInv, EffectInv, EffectsHaveRuns, Saving
<1>2. QED BY Invariant, <1>1, PTL

-------------------------------------------------------------------------------
(* Without the races.  Evaluations of the alerts one at a time, and        *)
(* remediation requests one at a time, would keep what the code is meant   *)
(* to: one firing alert of a rule, one engine, one run per cooldown.       *)
Evaluating == {e \in Evaluators : todo[e] # {} \/ raising[e] # None \/ telling[e] # None}
OneEvaluationAtATime == \A e, f \in Evaluating : e = f
OneRequestAtATime    == \A v, w \in Workers :
                          worker[v].pc # "idle" /\ worker[w].pc # "idle" => v = w

OneFiringAlert == \A r \in AlertRules : \A a, b \in FiringOf(r) : a = b
RunsKeepApart  == made <= 1 /\ \A g \in Engines, r \in Rules : recent[g][r].runs <= 1

(* An evaluator about to raise an alert has still no other firing one; a   *)
(* request that is running a rule has no recent run of it.                 *)
FirstAlertInv ==
  /\ OneFiringAlert
  /\ \A e \in Evaluators : raising[e] \in AlertRules => FiringOf(raising[e]) = {}

FirstRunInv ==
  /\ RunsKeepApart
  /\ \A w \in Workers :
       /\ worker[w].pc = "making" => made = 0
       /\ worker[w].pc \in {"act", "finish"} => recent[worker[w].engine][worker[w].rule].runs = 0

LEMMA FirstAlertKeeps ==
  AlertInv /\ FirstAlertInv /\ OneEvaluationAtATime /\ [Next]_vars => FirstAlertInv'
<1> SUFFICES ASSUME AlertTypeOK, FirstAlertInv, OneEvaluationAtATime, [Next]_vars
             PROVE  FirstAlertInv'
  BY DEF AlertInv
<1>1. ASSUME \A r \in AlertRules : FiringOf(r)' \subseteq FiringOf(r),
             \A e \in Evaluators : raising'[e] \in AlertRules =>
               raising'[e] = raising[e] \/ FiringOf(raising'[e]) = {}
      PROVE  FirstAlertInv'
  BY <1>1 DEF FirstAlertInv, OneFiringAlert
<1>2. ASSUME NEW e \in Evaluators, Look(e) PROVE FirstAlertInv'
  <2>1. PICK q \in todo[e], passed \in BOOLEAN :
          raising' = [raising EXCEPT ![e] = IF passed \/ FiringOf(q) # {} THEN None ELSE q]
    BY <1>2 DEF Look
  <2>2. alerts' = alerts /\ None \notin AlertRules
    BY <1>2, AlertAssumption DEF Look, AlertAssumption
  <2>3. QED BY <1>1, <2>1, <2>2 DEF FiringOf, AlertTypeOK
<1>3. ASSUME NEW e \in Evaluators, Raise(e) PROVE FirstAlertInv'
  <2> DEFINE q == raising[e]
  <2>1. PICK a \in AlertIds : alerts' = [alerts EXCEPT ![a] = [rule |-> q, status |-> "firing"]]
    BY <1>3 DEF Raise
  <2>2. q \in AlertRules /\ raising' = [raising EXCEPT ![e] = None] /\ None \notin AlertRules
    BY <1>3, AlertAssumption DEF Raise, AlertTypeOK, AlertAssumption
  <2>3. FiringOf(q) = {} /\ \A f \in Evaluators : f # e => raising[f] = None
    BY <2>2 DEF FirstAlertInv, OneEvaluationAtATime, Evaluating
  <2>4. \A f \in Evaluators : raising'[f] \notin AlertRules
    BY <2>2, <2>3 DEF AlertTypeOK
  <2>5. \A r \in AlertRules : FiringOf(r)' \subseteq IF r = q THEN {a} ELSE FiringOf(r)
    BY <2>1, <2>3 DEF FiringOf, AlertTypeOK
  <2>6. QED BY <2>4, <2>5 DEF FirstAlertInv, OneFiringAlert
<1>4. ASSUME NEW a \in AlertIds, AcknowledgeAlert(a) \/ ResolveAlert(a) PROVE FirstAlertInv'
  <2>1. PICK new \in {"acknowledged", "resolved"} : SetAlertStatus(a, new)
    BY <1>4 DEF AcknowledgeAlert, ResolveAlert
  <2>2. /\ alerts' = [alerts EXCEPT ![a].status = new] /\ alerts[a] # NoAlert
        /\ raising' = raising
    BY <2>1 DEF SetAlertStatus, Raised
  <2>3. alerts'[a].status # "firing" /\ \A b \in AlertIds : b # a => alerts'[b] = alerts[b]
    BY <2>2 DEF AlertTypeOK
  <2>4. QED BY <1>1, <2>2, <2>3 DEF FiringOf
<1>5. ASSUME NEW e \in Evaluators, Evaluate(e) \/ SendNotification(e) PROVE FirstAlertInv'
  BY <1>1, <1>5 DEF Evaluate, SendNotification, FiringOf
<1>6. CASE Restart
  <2>1. \A a \in AlertIds : alerts'[a] = NoAlert
    BY <1>6 DEF Restart, ForgetAlerts
  <2>2. \A r \in AlertRules : FiringOf(r)' = {}
    BY <2>1 DEF FiringOf, NoAlert
  <2>3. \A e \in Evaluators : raising'[e] = None
    BY <1>6 DEF Restart, ForgetAlerts
  <2>4. QED BY <1>1, <2>2, <2>3, AlertAssumption DEF AlertAssumption
<1>7. CASE UNCHANGED alertVars
  BY <1>1, <1>7 DEF alertVars, FiringOf
<1>8. QED
  BY <1>2, <1>3, <1>4, <1>5, <1>6, <1>7 DEF Next, AlertStep, EvaluatorStep, vars

LEMMA FirstRunKeeps ==
  RemInv /\ FirstRunInv /\ OneRequestAtATime /\ [Next]_vars => FirstRunInv'
<1> SUFFICES ASSUME RemInv, FirstRunInv, OneRequestAtATime, [Next]_vars
             PROVE  FirstRunInv'
  OBVIOUS
<1>0. /\ worker \in WorkersType /\ made \in Nat
      /\ recent \in [Engines -> [Rules -> [left : 0..Cooldown, runs : Nat]]]
  BY DEF RemInv, WorkersInv, MadeInv, CoolInv
<1>1. ASSUME NEW w \in Workers, FindAlert(w) \/ GetEngine(w) PROVE FirstRunInv'
  <2>1. /\ made' = made /\ recent' = recent
        /\ \A v \in Workers : v # w => worker'[v] = worker[v]
    BY <1>0, <1>1 DEF FindAlert, GetEngine, WorkersType
  <2>2. worker'[w].pc \in {"found", "making", "match"} /\ (worker'[w].pc = "making" => made = 0)
    <3>1. CASE FindAlert(w)
      BY <1>0, <3>1 DEF FindAlert, WorkersType, Idle
    <3>2. CASE GetEngine(w)
      BY <1>0, <3>2 DEF GetEngine, WorkersType
    <3>3. QED BY <1>1, <3>1, <3>2
  <2>3. QED BY <2>1, <2>2 DEF FirstRunInv, RunsKeepApart
<1>2. ASSUME NEW w \in Workers, MakeEngine(w) PROVE FirstRunInv'
  <2>1. /\ worker[w].pc = "making" /\ made' = made + 1 /\ recent' = recent
        /\ worker'[w].pc = "found" /\ \A v \in Workers : v # w => worker'[v] = worker[v]
    BY <1>0, <1>2 DEF MakeEngine, WorkersType
  <2>2. made' = 1 /\ \A v \in Workers : v # w => worker'[v].pc = "idle"
    BY <2>1 DEF FirstRunInv, OneRequestAtATime
  <2>3. QED BY <2>1, <2>2 DEF FirstRunInv, RunsKeepApart
<1>3. ASSUME NEW w \in Workers, EvaluateAlert(w) PROVE FirstRunInv'
  <2>1. PICK next \in {r \in Matching(w) : cool[worker[w].engine][r] = 0} \cup {None} :
          worker' = [worker EXCEPT ![w] =
            IF next = None THEN Idle ELSE [@ EXCEPT !.pc = "act", !.rule = next]]
    BY <1>3 DEF EvaluateAlert
  <2>2. /\ worker[w].pc = "match" /\ made' = made /\ recent' = recent
        /\ \A v \in Workers : v # w => worker'[v] = worker[v]
    BY <1>0, <1>3, <2>1 DEF EvaluateAlert, WorkersType
  <2>3. CASE next = None
    <3>1. worker'[w].pc = "idle"
      BY <1>0, <2>1, <2>3 DEF WorkersType, Idle
    <3>2. QED BY <2>2, <3>1 DEF FirstRunInv, RunsKeepApart
  <2>4. CASE next # None
    <3>1. next \in Rules /\ cool[worker[w].engine][next] = 0 /\ worker[w].engine \in Engines
      BY <2>1, <2>2, <2>4 DEF Matching, RemInv, WorkersInv
    <3>2. recent[worker[w].engine][next].runs = 0
      BY <3>1 DEF RemInv, CoolInv
    <3>3. /\ worker'[w].pc = "act" /\ worker'[w].rule = next
          /\ worker'[w].engine = worker[w].engine
      BY <1>0, <2>1, <2>4 DEF WorkersType
    <3>4. QED BY <2>2, <3>2, <3>3 DEF FirstRunInv, RunsKeepApart
  <2>5. QED BY <2>3, <2>4
<1>4. ASSUME NEW w \in Workers, ExecuteAction(w) PROVE FirstRunInv'
  <2>1. /\ worker[w].pc = "act" /\ made' = made /\ recent' = recent
        /\ worker'[w].pc = "finish" /\ worker'[w].rule = worker[w].rule
        /\ worker'[w].engine = worker[w].engine
        /\ \A v \in Workers : v # w => worker'[v] = worker[v]
    BY <1>0, <1>4 DEF ExecuteAction, WorkersType
  <2>2. QED BY <2>1 DEF FirstRunInv, RunsKeepApart
<1>5. ASSUME NEW w \in Workers, Finish(w) PROVE FirstRunInv'
  <2> DEFINE h == worker[w].engine  q == worker[w].rule
  <2>1. /\ worker[w].pc = "finish" /\ made' = made
        /\ worker' = [worker EXCEPT ![w] = Idle]
        /\ recent' = [recent EXCEPT ![h][q] =
             [left |-> Cooldown, runs |-> IF @.left = 0 THEN 1 ELSE @.runs + 1]]
    BY <1>5 DEF Finish
  <2>2. h \in Engines /\ q \in Rules /\ recent[h][q].runs = 0
    BY <2>1 DEF RemInv, WorkersInv, FirstRunInv
  <2>3. \A v \in Workers : worker'[v].pc = "idle"
    BY <1>0, <2>1 DEF OneRequestAtATime, WorkersType, Idle
  <2>4. ASSUME NEW g \in Engines, NEW r \in Rules PROVE recent'[g][r].runs <= 1
    <3>1. CASE g = h /\ r = q
      BY <1>0, <2>1, <2>2, <3>1
    <3>2. CASE ~(g = h /\ r = q)
      <4>1. recent'[g][r] = recent[g][r]
        BY <1>0, <2>1, <2>2, <3>2
      <4>2. QED BY <4>1 DEF FirstRunInv, RunsKeepApart
    <3>3. QED BY <3>1, <3>2
  <2>5. QED BY <2>1, <2>3, <2>4 DEF FirstRunInv, RunsKeepApart
<1>6. CASE Tick
  <2>1. /\ made' = made /\ worker' = worker
        /\ \A g \in Engines, r \in Rules : recent'[g][r] =
             IF recent[g][r].left > 1 THEN [recent[g][r] EXCEPT !.left = @ - 1]
             ELSE [left |-> 0, runs |-> 0]
    BY <1>6 DEF Tick
  <2>2. ASSUME NEW g \in Engines, NEW r \in Rules
        PROVE  recent'[g][r].runs \in {recent[g][r].runs, 0}
    <3>1. recent[g][r] \in [left : 0..Cooldown, runs : Nat]
      BY <1>0
    <3>2. CASE recent[g][r].left > 1
      <4>1. recent'[g][r] = [recent[g][r] EXCEPT !.left = @ - 1]
        BY <2>1, <3>2
      <4>2. QED BY <3>1, <4>1
    <3>3. CASE ~(recent[g][r].left > 1)
      <4>1. recent'[g][r] = [left |-> 0, runs |-> 0]
        BY <2>1, <3>3
      <4>2. QED BY <4>1
    <3>4. QED BY <3>2, <3>3
  <2>3. ASSUME NEW w \in Workers, worker[w].pc \in {"act", "finish"}
        PROVE  recent'[worker[w].engine][worker[w].rule].runs = 0
    <3>1. worker[w].engine \in Engines /\ worker[w].rule \in Rules
      BY <2>3 DEF RemInv, WorkersInv
    <3>2. QED BY <2>2, <2>3, <3>1 DEF FirstRunInv
  <2>4. \A g \in Engines, r \in Rules : recent'[g][r].runs <= 1
    BY <2>2 DEF FirstRunInv, RunsKeepApart
  <2>5. QED BY <2>1, <2>3, <2>4 DEF FirstRunInv, RunsKeepApart
<1>7. CASE Restart
  <2>1. made' = 0 /\ recent' = NoRecent /\ \A w \in Workers : worker'[w].pc = "idle"
    BY <1>7 DEF Restart, AllIdle, Idle
  <2>2. QED BY <2>1 DEF FirstRunInv, RunsKeepApart, NoRecent, PerRule
<1>8. CASE UNCHANGED remVars
  BY <1>8 DEF remVars, FirstRunInv, RunsKeepApart
<1>9. QED
  BY <1>1, <1>2, <1>3, <1>4, <1>5, <1>6, <1>7, <1>8 DEF Next, WorkerStep, vars

(* THEOREM.  If the alerts are evaluated by one request at a time, a rule  *)
(* never has two firing alerts.                                            *)
THEOREM TurnsFireOnce == Spec /\ []OneEvaluationAtATime => []OneFiringAlert
<1>1. Init => FirstAlertInv
  <2> SUFFICES ASSUME AlertInit PROVE FirstAlertInv
    BY DEF Init
  <2>1. (\A r \in AlertRules : FiringOf(r) = {}) /\ \A e \in Evaluators : raising[e] = None
    BY DEF AlertInit, FiringOf, NoAlert
  <2>2. QED BY <2>1, AlertAssumption DEF AlertAssumption, FirstAlertInv, OneFiringAlert
<1>2. FirstAlertInv => OneFiringAlert
  BY DEF FirstAlertInv
<1>3. QED BY Invariant, FirstAlertKeeps, <1>1, <1>2, PTL DEF Spec

(* THEOREM.  If remediation requests come one at a time, a server makes    *)
(* one engine, and of the runs of a rule in it no two end within one       *)
(* cooldown.                                                               *)
THEOREM TurnsKeepCooldown == Spec /\ []OneRequestAtATime => []RunsKeepApart
<1>1. Init => FirstRunInv
  BY DEF Init, FirstRunInv, RunsKeepApart, NoRecent, PerRule, AllIdle, Idle
<1>2. FirstRunInv => RunsKeepApart
  BY DEF FirstRunInv
<1>3. QED BY Invariant, FirstRunKeeps, <1>1, <1>2, PTL DEF Spec
===============================================================================
