----------------------------- MODULE AlertManager ------------------------------
(***************************************************************************)
(* The alerts of a cluster (AlertManager, s23_features.py).  One manager   *)
(* serves the handlers of all requests, on threads, and has no lock: an    *)
(* evaluation looks for a firing alert of a rule and adds one in two       *)
(* steps, and notifies while the alert is already visible.  Every rule is  *)
(* taken to name an enabled channel; one without tells nobody.             *)
(*                                                                         *)
(* A definition placed just before another, with its name and a suffix, is *)
(* a variant with a plausible mistake, which the properties must notice.   *)
(***************************************************************************)
EXTENDS Naturals, FiniteSets

CONSTANTS
  AlertRules,  \* the enabled rules of the cluster
  AlertIds,    \* bound: the alerts that can be raised
  Evaluators,  \* handler threads of POST .../evaluate
  None         \* no alert, no rule

ASSUME AlertAssumption ==
  /\ None \notin AlertRules \cup AlertIds
  /\ IsFiniteSet(AlertIds) /\ IsFiniteSet(Evaluators)

VARIABLES
  alerts,      \* alerts[a]: its rule and status; rule None: not raised
  todo,        \* todo[e]: the rules evaluator e has still to look at
  raising,     \* raising[e]: the rule e is about to raise an alert for
  telling,     \* telling[e]: the alert e is notifying about
  messages     \* the alerts with a notification message, sent or failed

alertVars == <<alerts, todo, raising, telling, messages>>

NoAlert == [rule |-> None, status |-> "none"]
FiringOf(r) == {a \in AlertIds : alerts[a] = [rule |-> r, status |-> "firing"]}
Raised == {a \in AlertIds : alerts[a] # NoAlert}

AlertTypeOK ==
  /\ alerts \in [AlertIds -> [rule : AlertRules, status : {"firing", "acknowledged", "resolved"}]
                             \cup {NoAlert}]
  /\ todo \in [Evaluators -> SUBSET AlertRules]
  /\ raising \in [Evaluators -> AlertRules \cup {None}]
  /\ telling \in [Evaluators -> AlertIds \cup {None}]
  /\ messages \subseteq AlertIds

AlertInit ==
  /\ alerts = [a \in AlertIds |-> NoAlert]
  /\ todo = [e \in Evaluators |-> {}]
  /\ raising = [e \in Evaluators |-> None]
  /\ telling = [e \in Evaluators |-> None]
  /\ messages = {}

-------------------------------------------------------------------------------
FreeEvaluator(e) == raising[e] = None /\ telling[e] = None

Evaluate(e) ==
  /\ FreeEvaluator(e) /\ todo[e] = {}
  /\ todo' = [todo EXCEPT ![e] = AlertRules]
  /\ UNCHANGED <<alerts, raising, telling, messages>>

(* Whether the condition passes depends on the telemetry, and for some     *)
(* conditions on a random number.  An alert that is acknowledged or        *)
(* resolved does not count as existing.                                    *)
LookAgain(e) ==
  /\ FreeEvaluator(e)
  /\ \E r \in todo[e], passed \in BOOLEAN :
       /\ todo' = [todo EXCEPT ![e] = @ \ {r}]
       /\ raising' = [raising EXCEPT ![e] = IF passed THEN None ELSE r]
  /\ UNCHANGED <<alerts, telling, messages>>

Look(e) ==
  /\ FreeEvaluator(e)
  /\ \E r \in todo[e], passed \in BOOLEAN :
       /\ todo' = [todo EXCEPT ![e] = @ \ {r}]
       /\ raising' = [raising EXCEPT ![e] =
            IF passed \/ FiringOf(r) # {} THEN None ELSE r]
  /\ UNCHANGED <<alerts, telling, messages>>

Raise(e) ==
  /\ raising[e] # None
  /\ \E a \in AlertIds \ Raised :
       /\ alerts' = [alerts EXCEPT ![a] = [rule |-> raising[e], status |-> "firing"]]
       /\ telling' = [telling EXCEPT ![e] = a]
  /\ raising' = [raising EXCEPT ![e] = None]
  /\ UNCHANGED <<todo, messages>>

(* The message is stored whether sending succeeded or raised; the          *)
(* evaluation goes on with the next rule.                                  *)
SendNotificationRaises(e) ==
  /\ telling[e] # None
  /\ \E sent \in BOOLEAN :
       /\ messages' = IF sent THEN messages \cup {telling[e]} ELSE messages
       /\ todo' = IF sent THEN todo ELSE [todo EXCEPT ![e] = {}]
  /\ telling' = [telling EXCEPT ![e] = None]
  /\ UNCHANGED <<alerts, raising>>

SendNotification(e) ==
  /\ telling[e] # None
  /\ messages' = messages \cup {telling[e]}
  /\ telling' = [telling EXCEPT ![e] = None]
  /\ UNCHANGED <<alerts, todo, raising>>

(* Whatever the alert was: a resolved one can be acknowledged.             *)
SetAlertStatus(a, new) ==
  /\ a \in Raised /\ alerts[a].status # new
  /\ alerts' = [alerts EXCEPT ![a].status = new]
  /\ UNCHANGED <<todo, raising, telling, messages>>

AcknowledgeAlert(a) == SetAlertStatus(a, "acknowledged")
ResolveAlert(a)     == SetAlertStatus(a, "resolved")

(* A restart forgets the alerts: nothing loads what the router saved.      *)
ForgetAlerts ==
  /\ alerts' = [a \in AlertIds |-> NoAlert]
  /\ todo' = [e \in Evaluators |-> {}]
  /\ raising' = [e \in Evaluators |-> None]
  /\ telling' = [e \in Evaluators |-> None]
  /\ messages' = {}

EvaluatorStep(e) == Evaluate(e) \/ Look(e) \/ Raise(e) \/ SendNotification(e)

-------------------------------------------------------------------------------
(* PROPERTY.  A failing rule is not raised over and over: at any time it   *)
(* has at most one firing alert for each evaluation that overlapped.       *)
FiringBound ==
  \A r \in AlertRules : Cardinality(FiringOf(r)) <= Cardinality(Evaluators)

(* PROPERTY.  No alert goes unnotified: it has its message, or the         *)
(* evaluation that raised it is still sending, whatever happened to the    *)
(* notifications of other rules.                                           *)
EveryAlertIsTold ==
  Raised \subseteq messages \cup {telling[e] : e \in Evaluators}
===============================================================================
