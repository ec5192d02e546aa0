------------------------------ MODULE Remediation ------------------------------
(***************************************************************************)
(* Automatic remediation of alerts (RemediationEngine, remediation.py) on  *)
(* top of the alerts of AlertManager, for one cluster.  POST               *)
(* .../remediation/evaluate finds the alert, gets the engine (created at   *)
(* the first use, in two steps), picks the first matching rule that is not *)
(* in its cooldown, runs its actions and only then records the run and     *)
(* starts the cooldown, all without a lock.  An actuation is written to    *)
(* the database; rules, runs and cooldowns are in memory.                  *)
(* Whether a rule matches is left open: it depends on the alert, and on    *)
(* requests that add, edit or delete rules.                                *)
(*                                                                         *)
(* A definition placed just before another, with its name and a suffix, is *)
(* a variant with a plausible mistake, which the properties must notice.   *)
(***************************************************************************)
EXTENDS AlertManager

CONSTANTS
  Rules,       \* the remediation rules
  Workers,     \* handler threads of the evaluate request
  Cooldown,    \* cooldown_minutes, in ticks of the clock; 0 limits nothing
  MaxRestarts  \* bound: restarts of the server

Engines == 1..Cardinality(Workers)  \* in one life of the server (see TypeOK)

ASSUME RemediationAssumption ==
  /\ IsFiniteSet(Workers) /\ None \notin Rules
  /\ Cooldown \in Nat \ {0} /\ MaxRestarts \in Nat

VARIABLES
  made,        \* the engines created in this life; the last is the global
  cool,        \* cool[g][r]: ticks until the cooldown of r in g is over
  worker,      \* worker[w]: [pc, alert, engine, rule, saved]
  restarts,
  recent,      \* history: recent[g][r]: the runs of r in g that ended with
               \*   less than a cooldown between them, and the ticks left
  unrecorded   \* history: unrecorded[r]: the actuations of r in the database
               \*   that no run has been recorded for, in any engine

remVars == <<made, cool, worker, restarts, recent, unrecorded>>
vars == <<alertVars, remVars>>

Idle == [pc |-> "idle", alert |-> None, engine |-> 0, rule |-> None, saved |-> FALSE]

TypeOK ==
  /\ AlertTypeOK
  /\ made \in 0..Cardinality(Workers)
  /\ cool \in [Engines -> [Rules -> 0..Cooldown]]
  /\ worker \in [Workers ->
       [pc : {"idle", "found", "making", "match", "act", "finish"}, alert : AlertIds \cup {None},
        engine : Engines \cup {0}, rule : Rules \cup {None}, saved : BOOLEAN]]
  /\ restarts \in 0..MaxRestarts
  /\ recent \in [Engines -> [Rules -> [left : 0..Cooldown, runs : Nat]]]
  /\ unrecorded \in [Rules -> Nat]

(* What each engine starts from, for every rule.                           *)
PerRule(x) == [g \in Engines |-> [r \in Rules |-> x]]
NoRecent   == PerRule([left |-> 0, runs |-> 0])
AllIdle    == [w \in Workers |-> Idle]

Init ==
  /\ AlertInit
  /\ made = 0 /\ cool = PerRule(0) /\ worker = AllIdle /\ restarts = 0
  /\ recent = NoRecent /\ unrecorded = [r \in Rules |-> 0]

-------------------------------------------------------------------------------
(* evaluate_alert_for_remediation: finds the alert ...                     *)
FindAlert(w) ==
  /\ worker[w].pc = "idle"
  /\ \E a \in Raised : worker' = [worker EXCEPT ![w] = [Idle EXCEPT !.pc = "found", !.alert = a]]
  /\ UNCHANGED <<made, cool, restarts, recent, unrecorded>>

(* ... and the engine, which it creates if it sees none.                   *)
GetEngineFresh(w) ==
  /\ worker[w].pc = "found"
  /\ worker' = [worker EXCEPT ![w] = [@ EXCEPT !.pc = "making"]]
  /\ UNCHANGED <<made, cool, restarts, recent, unrecorded>>

GetEngine(w) ==
  /\ worker[w].pc = "found"
  /\ worker' = [worker EXCEPT ![w] =
       IF made = 0 THEN [@ EXCEPT !.pc = "making"]
       ELSE [@ EXCEPT !.pc = "match", !.engine = made]]
  /\ UNCHANGED <<made, cool, restarts, recent, unrecorded>>

MakeEngine(w) ==
  /\ worker[w].pc = "making"
  /\ made' = made + 1
  /\ worker' = [worker EXCEPT ![w].pc = "found"]
  /\ UNCHANGED <<cool, restarts, recent, unrecorded>>

(* evaluate_alert: a firing alert runs the first rule that matches and is  *)
(* not in its cooldown, if there is one.                                   *)
Matching(w) == IF alerts[worker[w].alert].status = "firing" THEN Rules ELSE {}

EvaluateAlertAnyTime(w) ==
  /\ worker[w].pc = "match"
  /\ \E next \in Matching(w) \cup {None} :
       worker' = [worker EXCEPT ![w] =
         IF next = None THEN Idle ELSE [@ EXCEPT !.pc = "act", !.rule = next]]
  /\ UNCHANGED <<made, cool, restarts, recent, unrecorded>>

EvaluateAlert(w) ==
  /\ worker[w].pc = "match"
  /\ \E next \in {r \in Matching(w) : cool[worker[w].engine][r] = 0} \cup {None} :
       worker' = [worker EXCEPT ![w] =
         IF next = None THEN Idle ELSE [@ EXCEPT !.pc = "act", !.rule = next]]
  /\ UNCHANGED <<made, cool, restarts, recent, unrecorded>>

(* The actions of the rule, of which at most one is an actuation.  One     *)
(* that fails or raises may have been written before; the run goes on in   *)
(* any case.                                                               *)
ExecuteActionRaises(w) ==
  /\ worker[w].pc = "act"
  /\ \E saved, ok \in BOOLEAN :
       /\ ok => saved
       /\ unrecorded' = [unrecorded EXCEPT ![worker[w].rule] = IF saved THEN @ + 1 ELSE @]
       /\ worker' = [worker EXCEPT ![w] =
            IF ok THEN [@ EXCEPT !.pc = "finish", !.saved = TRUE] ELSE Idle]
  /\ UNCHANGED <<made, cool, restarts, recent>>

ExecuteAction(w) ==
  /\ worker[w].pc = "act"
  /\ \E saved \in BOOLEAN :
       /\ unrecorded' = [unrecorded EXCEPT ![worker[w].rule] = IF saved THEN @ + 1 ELSE @]
       /\ worker' = [worker EXCEPT ![w] = [@ EXCEPT !.pc = "finish", !.saved = saved]]
  /\ UNCHANGED <<made, cool, restarts, recent>>

(* The run is recorded, and the cooldown starts, in the worker's engine,   *)
(* whether its actions failed or not.                                      *)
Finish(w) ==
  LET g == worker[w].engine
      r == worker[w].rule IN
  /\ worker[w].pc = "finish"
  /\ cool' = [cool EXCEPT ![g][r] = Cooldown]
  /\ worker' = [worker EXCEPT ![w] = Idle]
  /\ recent' = [recent EXCEPT ![g][r] =
       [left |-> Cooldown, runs |-> IF @.left = 0 THEN 1 ELSE @.runs + 1]]
  /\ unrecorded' = [unrecorded EXCEPT ![r] = IF worker[w].saved THEN @ - 1 ELSE @]
  /\ UNCHANGED <<made, restarts>>

Tick ==
  /\ \E g \in Engines, r \in Rules : cool[g][r] > 0 \/ recent[g][r].left > 0
  /\ cool' = [g \in Engines |-> [r \in Rules |->
       IF cool[g][r] > 0 THEN cool[g][r] - 1 ELSE 0]]
  /\ recent' = [g \in Engines |-> [r \in Rules |->
       IF recent[g][r].left > 1 THEN [recent[g][r] EXCEPT !.left = @ - 1]
       ELSE [left |-> 0, runs |-> 0]]]
  /\ UNCHANGED <<made, worker, restarts, unrecorded>>

(* The server restarts: all but the database is gone.                      *)
Restart ==
  /\ restarts < MaxRestarts
  /\ ForgetAlerts
  /\ made' = 0 /\ cool' = PerRule(0) /\ worker' = AllIdle /\ recent' = NoRecent
  /\ restarts' = restarts + 1
  /\ UNCHANGED unrecorded

-------------------------------------------------------------------------------
WorkerStep(w) ==
  \/ FindAlert(w) \/ GetEngine(w) \/ MakeEngine(w)
  \/ EvaluateAlert(w) \/ ExecuteAction(w) \/ Finish(w)

AlertStep ==
  \/ \E e \in Evaluators : EvaluatorStep(e)
  \/ \E a \in AlertIds : AcknowledgeAlert(a) \/ ResolveAlert(a)

Next ==
  \/ AlertStep /\ UNCHANGED remVars
  \/ \E w \in Workers : WorkerStep(w) /\ UNCHANGED alertVars
  \/ Tick /\ UNCHANGED alertVars
  \/ Restart

Spec == Init /\ [][Next]_vars

-------------------------------------------------------------------------------
(* PROPERTY.  The cooldown bounds the remediation of a cluster.  The runs  *)
(* of a rule in an engine that end with less than a cooldown between them, *)
(* failed ones included, are at most the requests in flight together: the  *)
(* cooldown is checked before the actions and starts after them.           *)
BurstBound ==
  \A g \in Engines, r \in Rules : recent[g][r].runs <= Cardinality(Workers)

(* PROPERTY.  An actuation has a run to show for it: the run is recorded,  *)
(* or it is still going on, or a restart of the server has cut it off.     *)
EffectsHaveRuns ==
  \A r \in Rules :
    unrecorded[r] <= Cardinality({w \in Workers : worker[w].saved /\ worker[w].rule = r})
                       + restarts * Cardinality(Workers)
===============================================================================
