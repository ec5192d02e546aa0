------------------------ MODULE ActionControllerProofs ------------------------
(***************************************************************************)
(* What holds of the operator however its requests are interleaved: type   *)
(* correctness, that an outcome is only ever recorded for an object name   *)
(* the adapter was called for, and that everything else it promises about  *)
(* objects holds as long as no two passes are open at once.                *)
(***************************************************************************)
EXTENDS ActionController, TLAPS

(* Every definition an action may be made of, for the leaves.              *)
USE ControllerAssumption DEF ControllerAssumption

LEMMA TypeInit == Init => TypeOK
<1> SUFFICES ASSUME Init PROVE TypeOK
  OBVIOUS
<1>1. gen \in [Profiles -> 0..MaxGen] /\ observed \in [Profiles -> 0..MaxGen]
  BY DEF Init
<1>2. uid \in [Actions -> 0..MaxUid] /\ faults \in 0..MaxFaults
  BY DEF Init
<1>3. pc \in [Threads -> PCs] /\ \A t \in Threads : pc[t] = "off"
  BY DEF Init, PCs
<1> QED
  BY <1>1, <1>2, <1>3 DEF Init, TypeOK, Phases, Kinds

LEMMA PatchTyped ==
  ASSUME TypeOK, NEW a \in Actions, NEW p \in Phases, PatchPhase(a, p)
  PROVE  phase' \in [Actions -> Phases] /\ faults' \in 0..MaxFaults
  BY DEF TypeOK, PatchPhase, CanFail

LEMMA TypeStep == TypeOK /\ [Next]_vars => TypeOK'
<1> SUFFICES ASSUME TypeOK, [Next]_vars PROVE TypeOK'
  OBVIOUS
<1> USE DEF TypeOK, Threads
<1>1. ASSUME NEW a \in Actions, Submit(a) PROVE TypeOK'
  BY <1>1 DEF Submit, Phases, crVars, profVars, threadVars
<1>2. ASSUME NEW a \in Actions, Delete(a) PROVE TypeOK'
  BY <1>2 DEF Delete, Phases, profVars, threadVars
<1>3. ASSUME NEW a \in Actions, Approve(a) PROVE TypeOK'
  BY <1>3 DEF Approve, Phases, profVars, threadVars
<1>4. ASSUME NEW p \in Profiles, EditProfile(p) PROVE TypeOK'
  BY <1>4 DEF EditProfile, crVars, threadVars
<1>5. ASSUME NEW t \in Threads, ListActions(t) PROVE TypeOK'
  <2>1. Listed \in SUBSET Item
    BY DEF Listed, Item
  <2> QED
    BY <1>5, <2>1 DEF ListActions, PCs, CanFail, crVars, profVars
<1>6. ASSUME NEW t \in Threads, NEW it \in items[t], PassOver(t, it) PROVE TypeOK'
  BY <1>6 DEF PassOver, crVars, profVars
<1>7. ASSUME NEW t \in Threads, NEW it \in items[t], TakeUp(t, it) PROVE TypeOK'
  <2>1. it \in Item
    OBVIOUS
  <2>2. phase' \in [Actions -> Phases] /\ faults' \in 0..MaxFaults
    BY <1>7, <2>1, PatchTyped DEF TakeUp, Item, Phases
  <2> QED
    BY <1>7, <2>1, <2>2 DEF TakeUp, PCs, profVars
<1>8. ASSUME NEW t \in Threads, Execute(t) PROVE TypeOK'
  <2>1. cur[t].name \in Actions /\ cur[t].uid \in 0..MaxUid
    BY <1>8 DEF Execute, Item
  <2> QED
    BY <1>8, <2>1 DEF Execute, PCs, crVars, profVars
<1>9. ASSUME NEW t \in Threads, Finish(t) PROVE TypeOK'
  <2>1. phase' \in [Actions -> Phases] /\ faults' \in 0..MaxFaults
    BY <1>9, PatchTyped DEF Finish, Item, Outcome, Phases
  <2> QED
    BY <1>9, <2>1 DEF Finish, PCs, profVars
<1>10. ASSUME NEW t \in Threads, ListProfiles(t) PROVE TypeOK'
  <2>1. {[name |-> p, gen |-> gen[p], observed |-> observed[p]] : p \in Profiles}
          \in SUBSET ProfItem
    BY DEF ProfItem
  <2> QED
    BY <1>10, <2>1 DEF ListProfiles, PCs, CanFail, crVars, profVars
<1>11. ASSUME NEW t \in Threads, NEW it \in profs[t], ReconcileProfile(t, it) PROVE TypeOK'
  <2>1. it.name \in Profiles /\ it.gen \in 0..MaxGen
    BY DEF ProfItem
  <2> QED
    BY <1>11, <2>1 DEF ReconcileProfile, CanFail, crVars
<1>12. ASSUME NEW t \in Threads, EndPass(t) PROVE TypeOK'
  BY <1>12 DEF EndPass, PCs, crVars, profVars
<1>13. ASSUME NEW l \in Loops, LoopTest(l) PROVE TypeOK'
  BY <1>13 DEF LoopTest, PCs, crVars, profVars
<1>14. ASSUME NEW c \in Callers, Spawn(c) PROVE TypeOK'
  BY <1>14 DEF Spawn, PCs, crVars, profVars
<1>15. ASSUME NEW c \in Callers, JoinReturns(c) PROVE TypeOK'
  BY <1>15 DEF JoinReturns, PCs, crVars, profVars
<1>16. ASSUME NEW c \in Callers, RequestStart(c) PROVE TypeOK'
  BY <1>16 DEF RequestStart, PCs, crVars, profVars
<1>17. ASSUME NEW c \in Callers, RequestStop(c) PROVE TypeOK'
  BY <1>17 DEF RequestStop, PCs, crVars, profVars
<1>18. ASSUME NEW c \in Callers, RequestReconcile(c) PROVE TypeOK'
  BY <1>18 DEF RequestReconcile, PCs, crVars, profVars
<1>19. CASE Crash
  <2>1. faults' \in 0..MaxFaults
    BY <1>19 DEF Crash, CanFail
  <2>2. pc' \in [Threads -> PCs] /\ \A t \in Threads : pc'[t] = "off"
    BY <1>19 DEF Crash, PCs
  <2>3. items' \in [Threads -> SUBSET Item] /\ profs' \in [Threads -> SUBSET ProfItem]
    BY <1>19 DEF Crash
  <2> QED
    BY <1>19, <2>1, <2>2, <2>3 DEF Crash, crVars, profVars
<1>20. CASE UNCHANGED vars
  BY <1>20 DEF vars, crVars, profVars, threadVars
<1> QED
  BY <1>1, <1>2, <1>3, <1>4, <1>5, <1>6, <1>7, <1>8, <1>9, <1>10, <1>11, <1>12,
     <1>13, <1>14, <1>15, <1>16, <1>17, <1>18, <1>19, <1>20
     DEF Next, Users, ThreadStep, Pass

(* The operator's state keeps its types, whatever the requests.            *)
THEOREM TypeCorrect == Spec => []TypeOK
  BY TypeInit, TypeStep, PTL DEF Spec

-------------------------------------------------------------------------------
(* OutcomeWasEarned is not inductive: a pass writes the outcome of the     *)
(* object it listed, which may be gone.  What makes it hold is that every  *)
(* listed object carries a uid that was really created under its name, and *)
(* that a pass reaches Finish only through Execute.                        *)
Busy == {"execute", "succeeded", "raised"}

Dated(it) == it.uid \in 1..uid[it.name]

Earned(a) == \E u \in 1..uid[a] : <<a, u>> \in executed

EarnedInv ==
  /\ \A a \in Actions : phase[a] # "absent" => uid[a] \in 1..MaxUid
  /\ \A t \in Threads : \A it \in items[t] : Dated(it)
  /\ \A t \in Threads : pc[t] \in Busy => Dated(cur[t])
  /\ \A t \in Threads :
       pc[t] \in {"succeeded", "raised"} => <<cur[t].name, cur[t].uid>> \in executed
  /\ \A a \in Actions : phase[a] \in {"completed", "failed"} => Earned(a)

LEMMA EarnedInit == Init => EarnedInv
  BY DEF Init, EarnedInv, Busy

(* An action that creates no object, forgets no execution, records no      *)
(* outcome and gives no thread a new item keeps the invariant.             *)
LEMMA EarnedFrame ==
  ASSUME TypeOK, EarnedInv, UNCHANGED uid,
         executed \subseteq executed',
         \A a \in Actions : phase'[a] \in {phase[a], "absent", "approved"}
                                \/ (phase[a] # "absent" /\ phase'[a] = "running"),
         \A t \in Threads : items'[t] \subseteq items[t],
         \A t \in Threads : pc'[t] \in Busy => pc'[t] = pc[t] /\ cur'[t] = cur[t],
         \A a \in Actions : phase[a] = "absent" => phase'[a] = "absent"
  PROVE  EarnedInv'
  BY DEF EarnedInv, Dated, Earned, Busy, TypeOK

LEMMA EarnedStep == TypeOK /\ TypeOK' /\ EarnedInv /\ [Next]_vars => EarnedInv'
<1> SUFFICES ASSUME TypeOK, TypeOK', EarnedInv, [Next]_vars PROVE EarnedInv'
  OBVIOUS
<1> USE DEF Threads
<1>1. ASSUME NEW a \in Actions, Submit(a) PROVE EarnedInv'
  <2>1. uid'[a] = uid[a] + 1 /\ uid'[a] \in 1..MaxUid
    BY <1>1 DEF Submit, TypeOK
  <2>2. \A b \in Actions : uid[b] \in Nat /\ uid'[b] \in Nat /\ uid'[b] >= uid[b]
    BY <1>1 DEF Submit, TypeOK
  <2>3. \A b \in Actions : phase'[b] = IF b = a THEN "pending" ELSE phase[b]
    BY <1>1 DEF Submit, TypeOK
  <2>4. UNCHANGED <<items, cur, pc, executed>>
    BY <1>1 DEF Submit, threadVars
  <2>5. \A t \in Threads : \A it \in items[t] : it \in Item
    BY DEF TypeOK
  <2>6. \A it \in Item : Dated(it) => Dated(it)'
    BY <2>2 DEF Dated, Item
  <2>7. \A b \in Actions : Earned(b) => Earned(b)'
    BY <2>2, <2>4 DEF Earned
  <2>8. \A t \in Threads : pc[t] \in Busy => cur[t] \in Item
    BY DEF TypeOK, Busy
  <2>9. \A b \in Actions : phase'[b] # "absent" => uid'[b] \in 1..MaxUid
    BY <1>1, <2>1, <2>3 DEF EarnedInv, Submit, TypeOK
  <2> QED
    BY <2>3, <2>4, <2>5, <2>6, <2>7, <2>8, <2>9 DEF EarnedInv, Busy
<1>2. ASSUME NEW a \in Actions, Delete(a) \/ Approve(a) PROVE EarnedInv'
  BY <1>2, EarnedFrame DEF Delete, Approve, TypeOK, threadVars
<1>3. ASSUME NEW p \in Profiles, EditProfile(p) PROVE EarnedInv'
  BY <1>3, EarnedFrame DEF EditProfile, crVars, threadVars
<1>4. ASSUME NEW t \in Threads, ListActions(t) PROVE EarnedInv'
  <2>1. \A it \in Listed : Dated(it)
    BY DEF Listed, Dated, EarnedInv, TypeOK
  <2>2. \A s \in Threads : items'[s] = items[s] \/ items'[s] = Listed
    BY <1>4 DEF ListActions, TypeOK
  <2>3. \A s \in Threads : \A it \in items'[s] : Dated(it)
    BY <2>1, <2>2 DEF EarnedInv
  <2> QED
    BY <1>4, <2>3 DEF ListActions, EarnedInv, Dated, Earned, Busy, TypeOK, crVars
<1>5. ASSUME NEW t \in Threads, NEW it \in items[t], PassOver(t, it) PROVE EarnedInv'
  BY <1>5, EarnedFrame DEF PassOver, TypeOK, crVars
<1>6. ASSUME NEW t \in Threads, NEW it \in items[t], TakeUp(t, it) PROVE EarnedInv'
  <2>1. it \in Item /\ Dated(it)
    BY DEF EarnedInv, TypeOK
  <2>2. \A a \in Actions :
          phase'[a] = phase[a] \/ (phase[a] # "absent" /\ phase'[a] = "running")
    BY <1>6, <2>1 DEF TakeUp, PatchPhase, TypeOK, Item
  <2>3. \A s \in Threads : items'[s] \subseteq items[s]
    BY <1>6 DEF TakeUp, TypeOK
  <2>4. UNCHANGED <<uid, executed>>
    BY <1>6 DEF TakeUp
  <2>5. \A s \in Threads : s # t => pc'[s] = pc[s] /\ cur'[s] = cur[s]
    BY <1>6 DEF TakeUp, TypeOK
  <2>6. pc'[t] = "execute" /\ cur'[t] = it
    BY <1>6 DEF TakeUp, TypeOK
  <2> QED
    BY <2>1, <2>2, <2>3, <2>4, <2>5, <2>6 DEF EarnedInv, Dated, Earned, Busy
<1>7. ASSUME NEW t \in Threads, Execute(t) PROVE EarnedInv'
  <2>1. UNCHANGED <<phase, uid, items, cur>>
    BY <1>7 DEF Execute, crVars
  <2>2. \A s \in Threads : s # t => pc'[s] = pc[s]
    BY <1>7 DEF Execute, TypeOK
  <2>3. executed' = executed \cup {<<cur[t].name, cur[t].uid>>} /\ pc[t] = "execute"
    BY <1>7 DEF Execute
  <2> QED
    BY <2>1, <2>2, <2>3 DEF EarnedInv, Dated, Earned, Busy
<1>8. ASSUME NEW t \in Threads, Finish(t) PROVE EarnedInv'
  <2>1. pc[t] \in Busy /\ cur[t] \in Item
    BY <1>8 DEF Finish, Busy, TypeOK
  <2>2. Earned(cur[t].name)
    BY <1>8, <2>1 DEF Finish, EarnedInv, Dated, Earned
  <2>3. \A a \in Actions :
          phase'[a] = phase[a] \/ (phase[a] # "absent" /\ a = cur[t].name)
    BY <1>8, <2>1 DEF Finish, PatchPhase, TypeOK, Item
  <2>4. UNCHANGED <<uid, items, executed>>
    BY <1>8 DEF Finish
  <2>5. \A s \in Threads : pc'[s] \in Busy => pc'[s] = pc[s] /\ cur'[s] = cur[s]
    BY <1>8 DEF Finish, TypeOK, Busy
  <2> QED
    BY <2>2, <2>3, <2>4, <2>5 DEF EarnedInv, Dated, Earned, Busy
<1>9. ASSUME NEW t \in Threads, ListProfiles(t) \/ EndPass(t) PROVE EarnedInv'
  BY <1>9, EarnedFrame DEF ListProfiles, EndPass, TypeOK, Busy, crVars
<1>10. ASSUME NEW t \in Threads, NEW it \in profs[t], ReconcileProfile(t, it)
       PROVE  EarnedInv'
  BY <1>10, EarnedFrame DEF ReconcileProfile, crVars
<1>11. ASSUME NEW l \in Loops, LoopTest(l) PROVE EarnedInv'
  BY <1>11, EarnedFrame DEF LoopTest, TypeOK, Busy, crVars
<1>12. ASSUME NEW c \in Callers,
              Spawn(c) \/ JoinReturns(c) \/ RequestStart(c) \/ RequestStop(c)
                \/ RequestReconcile(c)
       PROVE  EarnedInv'
  BY <1>12, EarnedFrame
     DEF Spawn, JoinReturns, RequestStart, RequestStop, RequestReconcile, TypeOK, Busy, crVars
<1>13. CASE Crash
  BY <1>13, EarnedFrame DEF Crash, Busy, crVars
<1>14. CASE UNCHANGED vars
  BY <1>14, EarnedFrame DEF vars, crVars, threadVars
<1> QED
  BY <1>1, <1>2, <1>3, <1>4, <1>5, <1>6, <1>7, <1>8, <1>9, <1>10, <1>11, <1>12,
     <1>13, <1>14
     DEF Next, Users, ThreadStep, Pass

(* An outcome is only recorded for a name the adapter was called for, with *)
(* any number of reconcilers at work on lists of any age.                  *)
THEOREM OutcomesAreEarned == Spec => []OutcomeWasEarned
<1>1. TypeOK /\ EarnedInv => OutcomeWasEarned
  BY DEF EarnedInv, Earned, OutcomeWasEarned
<1> QED
  BY <1>1, TypeInit, TypeStep, EarnedInit, EarnedStep, PTL DEF Spec

-------------------------------------------------------------------------------
(* What one pass at a time is worth.                                       *)

(* Why a list read from the API server may be acted on later: only the     *)
(* pass that holds it records outcomes; it holds at most one object of a   *)
(* name, and drops that object from the list before it executes it.        *)
Fresh(t) ==
  /\ ~InPass(t) => items[t] = {}
  /\ \A it \in items[t] : Actionable(it) => phase[it.name] \notin Terminal
  /\ \A i, j \in items[t] : i.name = j.name => i = j
  /\ pc[t] \in Busy => /\ phase[cur[t].name] \notin Terminal
                       /\ \A it \in items[t] : it.name # cur[t].name

FreshInv == \A t \in Threads : Fresh(t)

LEMMA FreshInit == Init => FreshInv
  BY DEF Init, FreshInv, Fresh, Busy, InPass

(* A thread that a step leaves alone keeps its list fresh, unless the step *)
(* gives an object an outcome while the thread is in a pass.               *)
LEMMA FreshOther ==
  ASSUME TypeOK, NEW s \in Threads, Fresh(s),
         pc'[s] = pc[s], items'[s] = items[s], cur'[s] = cur[s],
         \/ ~InPass(s)
         \/ \A a \in Actions : phase'[a] \in Terminal => phase[a] \in Terminal
  PROVE  Fresh(s)'
<1>1. \A it \in items[s] : it.name \in Actions
  BY DEF TypeOK, Item
<1>2. pc[s] \in Busy => cur[s].name \in Actions
  BY DEF TypeOK, Item, Busy
<1> QED
  BY <1>1, <1>2 DEF Fresh, Actionable, InPass, Busy

(* A step that opens no pass and gives no object an outcome.               *)
LEMMA FreshFrame ==
  ASSUME TypeOK, FreshInv, UNCHANGED <<items, cur>>,
         \A a \in Actions : phase'[a] \in Terminal => phase[a] \in Terminal,
         \A s \in Threads : pc'[s] = pc[s] \/ (~InPass(s) /\ ~InPass(s)')
  PROVE  FreshInv'
<1> SUFFICES ASSUME NEW s \in Threads PROVE Fresh(s)'
  BY DEF FreshInv
<1>1. CASE pc'[s] = pc[s]
  BY <1>1, FreshOther DEF FreshInv
<1>2. CASE ~InPass(s) /\ ~InPass(s)'
  BY <1>2 DEF FreshInv, Fresh, InPass, Busy
<1> QED
  BY <1>1, <1>2

(* A step of one pass that gives no object an outcome.                     *)
LEMMA FreshOwn ==
  ASSUME TypeOK, FreshInv, NEW t \in Threads, Fresh(t)',
         \A s \in Threads : s # t => pc'[s] = pc[s] /\ items'[s] = items[s] /\ cur'[s] = cur[s],
         \A a \in Actions : phase'[a] \in Terminal => phase[a] \in Terminal
  PROVE  FreshInv'
  BY FreshOther DEF FreshInv

LEMMA FreshPass ==
  ASSUME TypeOK, FreshInv, OnePassAtATime, NEW t \in Threads, Pass(t)
  PROVE  FreshInv'
<1> DEFINE OnlyT == \A s \in Threads : s # t => /\ pc'[s] = pc[s]
                                               /\ items'[s] = items[s]
                                               /\ cur'[s] = cur[s]
           NoOutcome == \A a \in Actions : phase'[a] \in Terminal => phase[a] \in Terminal
<1>a. Fresh(t)
  BY DEF FreshInv
<1>b. \A it \in items[t] : it \in Item /\ it.name \in Actions
  BY <1>a DEF TypeOK, Item
<1>1. CASE ListActions(t)
  <2>1. pc[t] = "list" /\ pc'[t] = "items" /\ UNCHANGED phase /\ OnlyT
    BY <1>1 DEF ListActions, TypeOK, crVars
  <2>2. items'[t] \in {Listed, {}}
    BY <1>1, <1>a DEF ListActions, TypeOK, Fresh, InPass
  <2>3. /\ \A it \in Listed : Actionable(it) => phase[it.name] \notin Terminal
        /\ \A i, j \in Listed : i.name = j.name => i = j
    BY DEF Listed, Actionable, Terminal
  <2>4. Fresh(t)'
    BY <2>1, <2>2, <2>3 DEF Fresh, Busy, Actionable, InPass
  <2> QED
    BY <2>1, <2>4, FreshOwn
<1>2. ASSUME NEW it \in items[t], PassOver(t, it) PROVE FreshInv'
  <2>1. /\ pc[t] = "items" /\ pc'[t] = "items" /\ UNCHANGED phase /\ OnlyT
        /\ items'[t] \subseteq items[t]
    BY <1>2 DEF PassOver, TypeOK, crVars
  <2>2. Fresh(t)'
    BY <2>1, <1>a DEF Fresh, Busy, Actionable, InPass
  <2> QED
    BY <2>1, <2>2, FreshOwn
<1>3. ASSUME NEW it \in items[t], TakeUp(t, it) PROVE FreshInv'
  <2>1. /\ pc[t] = "items" /\ pc'[t] = "execute" /\ cur'[t] = it /\ OnlyT
        /\ items'[t] = items[t] \ {it} /\ Actionable(it)
    BY <1>3 DEF TakeUp, TypeOK
  <2>2. phase[it.name] \notin Terminal /\ \A j \in items'[t] : j.name # it.name
    BY <2>1, <1>a DEF Fresh
  <2>3. NoOutcome
    BY <1>3, <1>b DEF TakeUp, PatchPhase, TypeOK, Terminal
  <2>4. Fresh(t)'
    BY <2>1, <2>2, <2>3, <1>a, <1>b DEF Fresh, Busy, Actionable, InPass
  <2> QED
    BY <2>1, <2>3, <2>4, FreshOwn
<1>4. CASE Execute(t)
  <2>1. /\ pc[t] = "execute" /\ pc'[t] \in {"succeeded", "raised"} /\ OnlyT
        /\ UNCHANGED <<phase, items, cur>>
    BY <1>4 DEF Execute, TypeOK, crVars
  <2>2. Fresh(t)'
    BY <2>1, <1>a DEF Fresh, Busy, Actionable, InPass
  <2> QED
    BY <2>1, <2>2, FreshOwn
<1>5. CASE Finish(t)
  <2>1. pc[t] \in Busy /\ InPass(t) /\ pc'[t] = "items" /\ OnlyT /\ UNCHANGED items
    BY <1>5 DEF Finish, TypeOK, Busy, InPass
  <2>2. \A a \in Actions : a # cur[t].name => phase'[a] = phase[a]
    BY <1>5 DEF Finish, PatchPhase, TypeOK
  <2>3. Fresh(t)'
    BY <2>1, <2>2, <1>a, <1>b DEF Fresh, Busy, Actionable, InPass
  <2>4. \A s \in Threads : s # t => ~InPass(s)
    BY <2>1 DEF OnePassAtATime
  <2> QED
    BY <2>1, <2>3, <2>4, FreshOther DEF FreshInv
<1>6. CASE ListProfiles(t)
  <2>1. /\ items[t] = {} /\ UNCHANGED <<phase, items, cur>> /\ pc'[t] = "profiles"
        /\ OnlyT
    BY <1>6 DEF ListProfiles, TypeOK, crVars
  <2>2. Fresh(t)'
    BY <2>1 DEF Fresh, Busy, InPass
  <2> QED
    BY <2>1, <2>2, FreshOwn
<1>7. ASSUME NEW it \in profs[t], ReconcileProfile(t, it) PROVE FreshInv'
  BY <1>7, FreshFrame DEF ReconcileProfile, crVars
<1>8. CASE EndPass(t)
  <2>1. \A s \in Threads : pc'[s] = pc[s] \/ (~InPass(s) /\ ~InPass(s)')
    BY <1>8 DEF EndPass, TypeOK, InPass
  <2> QED
    BY <1>8, <2>1, FreshFrame DEF EndPass, crVars
<1> QED
  BY <1>1, <1>2, <1>3, <1>4, <1>5, <1>6, <1>7, <1>8 DEF Pass

LEMMA FreshStep == TypeOK /\ FreshInv /\ OnePassAtATime /\ [Next]_vars => FreshInv'
<1> SUFFICES ASSUME TypeOK, FreshInv, OnePassAtATime, [Next]_vars PROVE FreshInv'
  OBVIOUS
<1>1. ASSUME NEW a \in Actions, Submit(a) \/ Delete(a) \/ Approve(a) PROVE FreshInv'
  BY <1>1, FreshFrame DEF Submit, Delete, Approve, TypeOK, Terminal, threadVars
<1>2. ASSUME NEW p \in Profiles, EditProfile(p) PROVE FreshInv'
  BY <1>2, FreshFrame DEF EditProfile, crVars, threadVars
<1>3. ASSUME NEW t \in Threads, Pass(t) PROVE FreshInv'
  BY <1>3, FreshPass
<1>4. ASSUME NEW l \in Loops, LoopTest(l) PROVE FreshInv'
  <2>1. \A s \in Threads : pc'[s] = pc[s] \/ (~InPass(s) /\ ~InPass(s)')
    BY <1>4 DEF LoopTest, TypeOK, InPass, Threads
  <2> QED
    BY <1>4, <2>1, FreshFrame DEF LoopTest, crVars
<1>5. ASSUME NEW c \in Callers, Spawn(c) PROVE FreshInv'
  <2>1. PICK l \in Loops :
          pc[l] = "off" /\ pc' = [pc EXCEPT ![c] = "off", ![l] = "check"]
    BY <1>5 DEF Spawn
  <2>2. \A s \in Threads : pc'[s] = pc[s] \/ (~InPass(s) /\ ~InPass(s)')
    BY <1>5, <2>1 DEF Spawn, TypeOK, InPass, Threads
  <2> QED
    BY <1>5, <2>2, FreshFrame DEF Spawn, crVars
<1>6. ASSUME NEW c \in Callers,
             RequestStart(c) \/ RequestStop(c) \/ RequestReconcile(c) \/ JoinReturns(c)
      PROVE  FreshInv'
  <2>1. \A s \in Threads : pc'[s] = pc[s] \/ (~InPass(s) /\ ~InPass(s)')
    BY <1>6 DEF RequestStart, RequestStop, RequestReconcile, JoinReturns, TypeOK, InPass, Threads
  <2> QED
    BY <1>6, <2>1, FreshFrame
       DEF RequestStart, RequestStop, RequestReconcile, JoinReturns, crVars
<1>7. CASE Crash
  BY <1>7 DEF Crash, FreshInv, Fresh, Busy, InPass
<1>8. CASE UNCHANGED vars
  BY <1>8, FreshFrame DEF vars, crVars, threadVars
<1> QED
  BY <1>1, <1>2, <1>3, <1>4, <1>5, <1>6, <1>7, <1>8 DEF Next, Users, ThreadStep

(* Everything the operator's promises rest on while passes do not overlap. *)
PassInv == TypeOK /\ EarnedInv /\ FreshInv

LEMMA PassInit == Init => PassInv
  BY TypeInit, EarnedInit, FreshInit DEF PassInv

LEMMA PassStep == PassInv /\ OnePassAtATime /\ [Next]_vars => PassInv'
  BY TypeStep, EarnedStep, FreshStep DEF PassInv

(* Without two passes open at once nothing is executed twice: the only way *)
(* the operator's idempotence can fail is the overlap that stop() followed *)
(* by start(), or a reconcile request beside a loop, makes possible.       *)
THEOREM ReexecutionNeedsOverlap == Spec => OnlyOverlapReexecutes
<1>1. PassInv => NoReexecution
  BY DEF PassInv, FreshInv, Fresh, Busy, NoReexecution
<1> QED
  BY <1>1, PassInit, PassStep, PTL DEF Spec, OnlyOverlapReexecutes
-------------------------------------------------------------------------------
(* The refinement: every step of the operator is a step of ActionLifecycle *)
(* or leaves the objects alone.                                            *)

LEMMA PatchMoves ==
  ASSUME TypeOK, NEW a \in Actions, NEW p, PatchPhase(a, p)
  PROVE  UNCHANGED phase \/ (phase[a] # "absent" /\ phase' = [phase EXCEPT ![a] = p])
  BY DEF PatchPhase

LEMMA LifecycleStep ==
  ASSUME PassInv, [Next]_vars
  PROVE  [Lifecycle!LifecycleNext]_(Lifecycle!lifecycleVars)
<1> USE DEF PassInv, Lifecycle!LifecycleNext, Lifecycle!lifecycleVars
<1> DEFINE Still == UNCHANGED <<phase, executed>>
<1>1. Still => UNCHANGED Lifecycle!lifecycleVars
  BY DEF attemptedNames
<1>2. UNCHANGED executed => UNCHANGED attemptedNames
  BY DEF attemptedNames
<1>3. ASSUME NEW a \in Actions, Submit(a) PROVE Lifecycle!LifecycleNext
  BY <1>3, <1>2 DEF Submit, Lifecycle!Appear
<1>4. ASSUME NEW a \in Actions, Delete(a) PROVE Lifecycle!LifecycleNext
  BY <1>4, <1>2 DEF Delete, Lifecycle!Disappear
<1>5. ASSUME NEW a \in Actions, Approve(a) PROVE Lifecycle!LifecycleNext
  BY <1>5, <1>2 DEF Approve, Lifecycle!Granted
<1>6. ASSUME NEW t \in Threads, NEW it \in items[t], TakeUp(t, it)
      PROVE  Lifecycle!LifecycleNext \/ Still
  <2>1. it.name \in Actions
    BY DEF TypeOK, Threads, Item
  <2>2. phase[it.name] \notin Terminal
    BY <1>6 DEF TakeUp, FreshInv, Fresh
  <2>3. UNCHANGED executed
    BY <1>6 DEF TakeUp
  <2>4. CASE UNCHANGED phase
    BY <2>3, <2>4
  <2>5. CASE phase[it.name] # "absent" /\ phase' = [phase EXCEPT ![it.name] = "running"]
    <3>1. Lifecycle!Begin(it.name)
      BY <2>2, <2>3, <2>5, <1>2
         DEF Lifecycle!Begin, Lifecycle!Present, Lifecycle!Open, Lifecycle!Terminal, Terminal
    <3> QED
      BY <2>1, <3>1
  <2> QED
    BY <1>6, <2>1, <2>4, <2>5, PatchMoves DEF TakeUp
<1>7. ASSUME NEW t \in Threads, Execute(t) PROVE Lifecycle!LifecycleNext
  <2>1. cur[t].name \in Actions /\ cur[t].uid \in 0..MaxUid
    BY <1>7 DEF Execute, TypeOK, Threads, Item
  <2>2. phase[cur[t].name] \notin Terminal /\ UNCHANGED phase
    BY <1>7 DEF Execute, FreshInv, Fresh, Busy, crVars
  <2>3. attemptedNames' = attemptedNames \cup {cur[t].name}
    BY <1>7, <2>1 DEF Execute, attemptedNames
  <2>4. Lifecycle!Attempt(cur[t].name)
    BY <2>2, <2>3 DEF Lifecycle!Attempt, Lifecycle!Open, Lifecycle!Terminal, Terminal
  <2> QED
    BY <2>1, <2>4
<1>8. ASSUME NEW t \in Threads, Finish(t) PROVE Lifecycle!LifecycleNext \/ Still
  <2>1. cur[t].name \in Actions /\ cur[t].uid \in 0..MaxUid
    BY <1>8 DEF Finish, TypeOK, Threads, Item
  <2>2. phase[cur[t].name] \notin Terminal /\ UNCHANGED executed
    BY <1>8 DEF Finish, FreshInv, Fresh, Busy
  <2>3. cur[t].name \in attemptedNames
    BY <1>8, <2>1 DEF Finish, EarnedInv, attemptedNames, Threads
  <2>4. CASE UNCHANGED phase
    BY <2>2, <2>4
  <2>5. CASE /\ phase[cur[t].name] # "absent"
             /\ phase' = [phase EXCEPT ![cur[t].name] = Outcome(pc[t])]
    <3>1. Lifecycle!Settle(cur[t].name)
      BY <2>2, <2>3, <2>5, <1>2
         DEF Lifecycle!Settle, Lifecycle!Present, Lifecycle!Open, Lifecycle!Terminal,
             Terminal, Outcome
    <3> QED
      BY <2>1, <3>1
  <2> QED
    BY <1>8, <2>1, <2>4, <2>5, PatchMoves DEF Finish
<1>9. ASSUME NEW t \in Threads, Pass(t) PROVE Lifecycle!LifecycleNext \/ Still
  BY <1>9, <1>6, <1>7, <1>8
     DEF Pass, ListActions, PassOver, ListProfiles, ReconcileProfile, EndPass, crVars
<1>10. ASSUME NEW t \in Threads, ThreadStep(t) PROVE Lifecycle!LifecycleNext \/ Still
  BY <1>9, <1>10 DEF ThreadStep, LoopTest, Spawn, JoinReturns, crVars
<1>11. ASSUME NEW c \in Callers, RequestStart(c) \/ RequestStop(c) \/ RequestReconcile(c)
       PROVE  Still
  BY <1>11 DEF RequestStart, RequestStop, RequestReconcile, crVars
<1>12. CASE Crash
  BY <1>12, <1>1 DEF Crash, crVars
<1>13. ASSUME NEW p \in Profiles, EditProfile(p) PROVE Still
  BY <1>13 DEF EditProfile, crVars
<1>14. CASE UNCHANGED vars
  BY <1>14, <1>1 DEF vars, crVars
<1> QED
  BY <1>1, <1>3, <1>4, <1>5, <1>10, <1>11, <1>12, <1>13, <1>14
     DEF Next, Users

(* The lifecycle leaves outcomes alone.                                    *)
LEMMA LifecycleKeepsOutcomes ==
  ASSUME TypeOK, [Lifecycle!LifecycleNext]_(Lifecycle!lifecycleVars),
         NEW a \in Actions, phase[a] \in Terminal
  PROVE  phase'[a] \in {phase[a], "absent"}
  BY DEF TypeOK, Terminal, Lifecycle!LifecycleNext, Lifecycle!lifecycleVars, Lifecycle!Appear,
         Lifecycle!Disappear, Lifecycle!Granted, Lifecycle!Begin, Lifecycle!Attempt,
         Lifecycle!Settle, Lifecycle!Open, Lifecycle!Terminal

LEMMA LifecycleFirst == Init => Lifecycle!LifecycleInit
  BY DEF Init, Lifecycle!LifecycleInit, attemptedNames

(* While passes do not overlap, every patch is a permitted move of the     *)
(* object that has the name when the patch arrives: the operator with any  *)
(* loops and requests implements the lifecycle.                            *)
THEOREM LifecycleUnlessOverlap == Spec /\ []OnePassAtATime => ImplementsLifecycle
<1>1. PassInv /\ [Next]_vars => [Lifecycle!LifecycleNext]_(Lifecycle!lifecycleVars)
  BY LifecycleStep
<1> QED
  BY <1>1, LifecycleFirst, PassInit, PassStep, PTL
     DEF Spec, ImplementsLifecycle, Lifecycle!LifecycleSpec

(* While passes do not overlap, a recorded outcome is never altered.       *)
THEOREM FinalUnlessOverlap == Spec /\ []OnePassAtATime => TerminalIsFinal
<1> DEFINE Final == \A a \in Actions :
                      phase[a] \in Terminal => phase'[a] \in {phase[a], "absent"}
<1>1. PassInv /\ [Next]_vars => [Final]_vars
  BY LifecycleStep, LifecycleKeepsOutcomes DEF PassInv
<1> QED
  BY <1>1, PassInit, PassStep, PTL DEF Spec, TerminalIsFinal
===============================================================================
