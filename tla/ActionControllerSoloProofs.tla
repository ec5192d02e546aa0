---------------------- MODULE ActionControllerSoloProofs ----------------------
(***************************************************************************)
(* The operator driven by one caller that only starts it never has two     *)
(* reconcilers, so that no two of its passes are ever open at once.  What  *)
(* ActionControllerProofs shows of such behaviours then holds of all: no   *)
(* object that has an outcome is executed, no outcome is altered, and the  *)
(* operator implements ActionLifecycle.                                    *)
(***************************************************************************)
EXTENDS ActionControllerSolo, ActionControllerProofs

(* start() looks for a thread and creates one in two steps: while it is in *)
(* between, there is none; and the handle names the only loop that lives.  *)
SoloInv ==
  /\ \A c \in Callers : pc[c] \in {"off", "spawn"}
  /\ \A c \in Callers, l \in Loops : pc[c] = "spawn" => pc[l] = "off"
  /\ \A l \in Loops : pc[l] # "off" => thread = l

LEMMA SoloInit == Init => SoloInv
  BY DEF Init, SoloInv, Threads

(* A step of the one loop that is awake.                                   *)
LEMMA SoloThread ==
  ASSUME SoloInv, NEW l \in Loops, pc[l] # "off", UNCHANGED thread,
         \A t \in Threads : t # l => pc'[t] = pc[t]
  PROVE  SoloInv'
<1>1. \A m \in Loops : m # l => pc'[m] = "off"
  BY DEF SoloInv, Threads
<1>2. \A c \in Callers : pc'[c] = "off"
  BY ControllerAssumption DEF ControllerAssumption, SoloInv, Threads
<1> QED
  BY <1>1, <1>2 DEF SoloInv

LEMMA SoloPass ==
  ASSUME TypeOK, SoloInv, NEW l \in Loops, Pass(l)
  PROVE  SoloInv'
<1>1. pc[l] # "off" /\ UNCHANGED thread /\ \A t \in Threads : t # l => pc'[t] = pc[t]
  BY DEF Pass, ListActions, PassOver, TakeUp, Execute, Finish, ListProfiles,
         ReconcileProfile, EndPass, TypeOK
<1> QED
  BY <1>1, SoloThread

(* A caller is never inside a pass: nothing but start() is ever asked.     *)
LEMMA CallersDoNotReconcile ==
  ASSUME SoloInv, NEW c \in Callers
  PROVE  ~Pass(c) /\ ~JoinReturns(c) /\ ~RequestStop(c) /\ ~RequestReconcile(c)
  BY SoloAssumption
     DEF SoloAssumption, SoloInv, Pass, ListActions, PassOver, TakeUp, Execute, Finish,
         ListProfiles, ReconcileProfile, EndPass, JoinReturns, RequestStop, RequestReconcile

LEMMA SoloStep == TypeOK /\ SoloInv /\ [Next]_vars => SoloInv'
<1> SUFFICES ASSUME TypeOK, SoloInv, [Next]_vars PROVE SoloInv'
  OBVIOUS
<1>1. CASE Users
  BY <1>1 DEF Users, Submit, Delete, Approve, EditProfile, threadVars, SoloInv
<1>2. ASSUME NEW t \in Threads, Pass(t) PROVE SoloInv'
  BY <1>2, SoloPass, CallersDoNotReconcile DEF Threads
<1>3. ASSUME NEW l \in Loops, LoopTest(l) PROVE SoloInv'
  <2>1. pc[l] # "off" /\ UNCHANGED thread /\ \A t \in Threads : t # l => pc'[t] = pc[t]
    BY <1>3 DEF LoopTest, TypeOK
  <2> QED
    BY <2>1, SoloThread
<1>4. ASSUME NEW c \in Callers, Spawn(c) PROVE SoloInv'
  <2>1. PICK l \in Loops :
          pc[l] = "off" /\ thread' = l /\ pc' = [pc EXCEPT ![c] = "off", ![l] = "check"]
    BY <1>4 DEF Spawn
  <2>2. pc[c] = "spawn" /\ c # l /\ c \in Threads /\ l \in Threads
    BY <1>4, ControllerAssumption DEF Spawn, ControllerAssumption, Threads
  <2>3. \A d \in Callers : d = c
    BY SoloAssumption DEF SoloAssumption
  <2>4. \A m \in Loops : pc'[m] = IF m = l THEN "check" ELSE "off"
    BY <2>1, <2>2, ControllerAssumption DEF SoloInv, TypeOK, ControllerAssumption, Threads
  <2>5. pc'[c] = "off"
    BY <2>1, <2>2 DEF TypeOK
  <2> QED
    BY <2>1, <2>3, <2>4, <2>5 DEF SoloInv
<1>5. ASSUME NEW c \in Callers, RequestStart(c) PROVE SoloInv'
  <2>1. \A l \in Loops : pc[l] = "off"
    BY <1>5, ControllerAssumption DEF ControllerAssumption, RequestStart, SoloInv
  <2>2. (\A t \in Threads : pc'[t] = IF t = c THEN "spawn" ELSE pc[t]) /\ UNCHANGED thread
    BY <1>5 DEF RequestStart, TypeOK, Threads
  <2>3. \A l \in Loops : pc'[l] = "off"
    BY <2>1, <2>2, ControllerAssumption DEF ControllerAssumption, Threads
  <2> QED
    BY <2>2, <2>3 DEF SoloInv, Threads
<1>6. CASE Crash
  BY <1>6 DEF Crash, SoloInv, Threads
<1>7. CASE UNCHANGED vars
  BY <1>7 DEF vars, threadVars, SoloInv
<1> QED
  BY <1>1, <1>2, <1>3, <1>4, <1>5, <1>6, <1>7, CallersDoNotReconcile DEF Next, ThreadStep

LEMMA SoloInvariant == Spec => [](TypeOK /\ SoloInv)
<1>1. TypeOK /\ SoloInv /\ [Next]_vars => (TypeOK /\ SoloInv)'
  BY TypeStep, SoloStep
<1> QED
  BY <1>1, TypeInit, SoloInit, PTL DEF Spec

(* At most one reconciler is at work, however often the process crashes    *)
(* and start() is called.                                                  *)
THEOREM OneReconcilerAtATime == Spec => []OneReconciler
<1>1. SoloInv => OneReconciler
  <2> SUFFICES ASSUME SoloInv, NEW s \in Threads, NEW t \in Threads,
                      pc[s] # "off", pc[t] # "off"
               PROVE  s = t
    BY DEF OneReconciler
  <2>1. CASE s \in Loops /\ t \in Loops
    BY <2>1 DEF SoloInv
  <2>2. CASE s \in Callers /\ t \in Callers
    BY <2>2, SoloAssumption DEF SoloAssumption
  <2>3. CASE s \in Callers /\ t \in Loops
    BY <2>3 DEF SoloInv
  <2>4. CASE s \in Loops /\ t \in Callers
    BY <2>4 DEF SoloInv
  <2> QED
    BY <2>1, <2>2, <2>3, <2>4 DEF Threads
<1> QED
  BY <1>1, SoloInvariant, PTL

LEMMA OneReconcilerOnePass == Spec => []OnePassAtATime
<1>1. OneReconciler => OnePassAtATime
  BY DEF OneReconciler, OnePassAtATime, InPass
<1> QED
  BY <1>1, OneReconcilerAtATime, PTL

(* The adapter is never about to be called for an object that has an       *)
(* outcome, although the decision was made on an older copy of the object. *)
THEOREM NeverReexecuted == Spec => []NoReexecution
  BY OneReconcilerOnePass, ReexecutionNeedsOverlap, PTL DEF OnlyOverlapReexecutes

(* With one caller that only starts it, the operator implements the        *)
(* lifecycle: every patch it sends is a permitted move of the object that  *)
(* has the name when the patch arrives.                                    *)
THEOREM ImplementsTheLifecycle == Spec => ImplementsLifecycle
  BY OneReconcilerOnePass, LifecycleUnlessOverlap, PTL

(* A recorded outcome is never changed by a later patch.                   *)
THEOREM OutcomesAreFinal == Spec => TerminalIsFinal
  BY OneReconcilerOnePass, FinalUnlessOverlap, PTL
===============================================================================
