--------------------------- MODULE ActionController ---------------------------
(***************************************************************************)
(* The Kubernetes operator of k8s_operator/: GPUOptimizationController     *)
(* (controller.py) on top of K8sClientWrapper (client.py), driven by the   *)
(* HTTP requests of routes.py.                                             *)
(*                                                                         *)
(* A reconciler is a thread that runs _reconcile_actions and then          *)
(* _reconcile_profiles: a loop thread created by start(), or a request     *)
(* thread inside reconcile_once().  A pass works on the list it read from  *)
(* the API server at its beginning and patches status by name, with no     *)
(* precondition on the object it patches; a patch that fails is ignored.   *)
(* The interleavings of the passes with each other, with users who create, *)
(* approve, edit and delete objects, and with crashes of the process are   *)
(* what this module is about.                                              *)
(*                                                                         *)
(* A definition placed just before another, with its name and a suffix, is *)
(* a variant of it with a plausible mistake: the runs check that the       *)
(* properties notice the difference.  Variants are not part of Next.       *)
(***************************************************************************)
EXTENDS Naturals, FiniteSets

CONSTANTS
  Actions,       \* names of GPUOptimizationAction objects
  Profiles,      \* names of GPUOptimizationProfile objects
  Loops,         \* identities of loop threads; bounds how many live at once
  Callers,       \* HTTP request threads
  Requests,      \* the controller requests that are made: see RequestKinds
  None,          \* no thread, no item
  MaxUid,        \* bound: objects ever created under one name
  MaxGen,        \* bound: generations of a profile
  MaxFaults      \* bound: failed API calls and crashes in a behaviour

RequestKinds == {"start", "stop", "reconcile"}

ASSUME ControllerAssumption ==
  /\ Requests \subseteq RequestKinds
  /\ Loops \cap Callers = {}
  /\ None \notin Loops \cup Callers
  /\ MaxUid \in Nat \ {0}
  /\ MaxGen \in Nat \ {0}
  /\ MaxFaults \in Nat

VARIABLES
  phase,         \* phase[a]: status.phase of object a, "absent" without object
  kind,          \* kind[a]: what the spec of object a asks for
  uid,           \* uid[a]: which of the objects created under the name a
  gen,           \* gen[p]: metadata.generation of profile p
  observed,      \* observed[p]: status.observedGeneration of profile p
  running,       \* controller._running
  thread,        \* controller._thread
  pc,            \* pc[t]: where thread t is
  items,         \* items[t]: action objects of t's list still to reconcile
  cur,           \* cur[t]: the action object t is executing
  profs,         \* profs[t]: profiles of t's list still to reconcile
  executed,      \* history: <<name, uid>> the adapter was called for
  faults         \* failed API calls and crashes so far

crVars     == <<phase, kind, uid>>
profVars   == <<gen, observed>>
threadVars == <<pc, items, cur, profs>>
vars == <<crVars, profVars, running, thread, threadVars, executed, faults>>

Threads == Loops \cup Callers

Phases == {"absent", "pending", "approved", "running",
           "completed", "failed", "rolled_back"}

Terminal == {"completed", "failed", "rolled_back"}

(* "invalid" is an object _build_action cannot make an action of.          *)
Kinds == {"valid", "invalid"}

PCs == {"off", "check", "list", "items", "execute", "succeeded", "raised",
        "profiles", "spawn", "join"}

Item == [name: Actions, phase: Phases, kind: Kinds, uid: 0..MaxUid]

ProfItem == [name: Profiles, gen: 0..MaxGen, observed: 0..MaxGen]

TypeOK ==
  /\ phase \in [Actions -> Phases]
  /\ kind \in [Actions -> Kinds]
  /\ uid \in [Actions -> 0..MaxUid]
  /\ gen \in [Profiles -> 0..MaxGen]
  /\ observed \in [Profiles -> 0..MaxGen]
  /\ running \in BOOLEAN
  /\ thread \in Loops \cup {None}
  /\ pc \in [Threads -> PCs]
  /\ items \in [Threads -> SUBSET Item]
  /\ cur \in [Threads -> Item \cup {None}]
  /\ \A t \in Threads :
       pc[t] \in {"execute", "succeeded", "raised"} => cur[t] \in Item
  /\ profs \in [Threads -> SUBSET ProfItem]
  /\ executed \subseteq Actions \X (0..MaxUid)
  /\ faults \in 0..MaxFaults

Init ==
  /\ phase = [a \in Actions |-> "absent"]
  /\ kind = [a \in Actions |-> "valid"]
  /\ uid = [a \in Actions |-> 0]
  /\ gen = [p \in Profiles |-> 1]
  /\ observed = [p \in Profiles |-> 0]
  /\ running = FALSE
  /\ thread = None
  /\ pc = [t \in Threads |-> "off"]
  /\ items = [t \in Threads |-> {}]
  /\ cur = [t \in Threads |-> None]
  /\ profs = [t \in Threads |-> {}]
  /\ executed = {}
  /\ faults = 0

-------------------------------------------------------------------------------
(* Users of the Kubernetes API: kubectl, or another controller.            *)

Submit(a) ==
  /\ phase[a] = "absent"
  /\ uid[a] < MaxUid
  /\ phase' = [phase EXCEPT ![a] = "pending"]
  /\ \E k \in Kinds : kind' = [kind EXCEPT ![a] = k]
  /\ uid' = [uid EXCEPT ![a] = @ + 1]
  /\ UNCHANGED <<profVars, running, thread, threadVars, executed, faults>>

Delete(a) ==
  /\ phase[a] # "absent"
  /\ phase' = [phase EXCEPT ![a] = "absent"]
  /\ UNCHANGED <<kind, uid, profVars, running, thread, threadVars, executed, faults>>

Approve(a) ==
  /\ phase[a] = "pending"
  /\ phase' = [phase EXCEPT ![a] = "approved"]
  /\ UNCHANGED <<kind, uid, profVars, running, thread, threadVars, executed, faults>>

EditProfile(p) ==
  /\ gen[p] < MaxGen
  /\ gen' = [gen EXCEPT ![p] = @ + 1]
  /\ UNCHANGED <<crVars, observed, running, thread, threadVars, executed, faults>>

Users ==
  \/ \E a \in Actions : Submit(a) \/ Delete(a) \/ Approve(a)
  \/ \E p \in Profiles : EditProfile(p)

-------------------------------------------------------------------------------
(* One pass of a reconciler t.                                             *)

CanFail == faults < MaxFaults /\ faults' = faults + 1

Listed ==
  {[name |-> a, phase |-> phase[a], kind |-> kind[a], uid |-> uid[a]] :
     a \in {b \in Actions : phase[b] # "absent"}}

(* The list call returns [] when the API call raises (client.py:166-168).  *)
ListActions(t) ==
  /\ pc[t] = "list"
  /\ \/ items' = [items EXCEPT ![t] = Listed] /\ UNCHANGED faults
     \/ UNCHANGED items /\ CanFail
  /\ pc' = [pc EXCEPT ![t] = "items"]
  /\ UNCHANGED <<crVars, profVars, running, thread, cur, profs, executed>>

(* update_action_status patches whatever object has this name now.  A      *)
(* missing object or any other API error is logged and the caller goes on. *)
PatchCreates(a, p) ==
  \/ phase' = [phase EXCEPT ![a] = p] /\ UNCHANGED faults
  \/ UNCHANGED phase /\ CanFail

PatchPhase(a, p) ==
  \/ /\ phase[a] # "absent"
     /\ phase' = [phase EXCEPT ![a] = p]
     /\ UNCHANGED faults
  \/ /\ phase[a] = "absent"
     /\ UNCHANGED <<phase, faults>>
  \/ UNCHANGED phase /\ CanFail

ActionableIfPending(it) ==
  it.kind # "invalid" /\ it.phase = "pending"

ActionableEvenIfDone(it) ==
  it.kind # "invalid" /\ it.phase # "approved"

Actionable(it) ==
  it.kind # "invalid" /\ it.phase \in {"pending", "running"}

(* Invalid objects, finished ones and approved ones are passed over.       *)
PassOver(t, it) ==
  /\ pc[t] = "items"
  /\ ~Actionable(it)
  /\ items' = [items EXCEPT ![t] = @ \ {it}]
  /\ UNCHANGED <<crVars, profVars, running, thread, pc, cur, profs, executed, faults>>

(* A pending object is first marked running; one already running is taken  *)
(* up again, which is how an interrupted execution is resumed.             *)
TakeUp(t, it) ==
  /\ pc[t] = "items"
  /\ Actionable(it)
  /\ \/ it.phase = "pending" /\ PatchPhase(it.name, "running")
     \/ it.phase # "pending" /\ UNCHANGED <<phase, faults>>
  /\ items' = [items EXCEPT ![t] = @ \ {it}]
  /\ cur' = [cur EXCEPT ![t] = it]
  /\ pc' = [pc EXCEPT ![t] = "execute"]
  /\ UNCHANGED <<kind, uid, profVars, running, thread, profs, executed>>

(* ActionAdapter.execute, as the listed object describes it.  "raised" is  *)
(* an exception out of a handler (adapters.py:38-40).                      *)
ExecuteWithoutAdapter(t) ==
  /\ pc[t] = "execute"
  /\ pc' = [pc EXCEPT ![t] = "succeeded"]
  /\ UNCHANGED <<crVars, profVars, running, thread, items, cur, profs, executed, faults>>

Execute(t) ==
  /\ pc[t] = "execute"
  /\ executed' = executed \cup {<<cur[t].name, cur[t].uid>>}
  /\ \E result \in {"succeeded", "raised"} : pc' = [pc EXCEPT ![t] = result]
  /\ UNCHANGED <<crVars, profVars, running, thread, items, cur, profs, faults>>

OutcomeUnlisted(result) == IF result = "succeeded" THEN "completed" ELSE "error"

Outcome(result) == IF result = "succeeded" THEN "completed" ELSE "failed"

Finish(t) ==
  /\ pc[t] \in {"succeeded", "raised"}
  /\ PatchPhase(cur[t].name, Outcome(pc[t]))
  /\ cur' = [cur EXCEPT ![t] = None]
  /\ pc' = [pc EXCEPT ![t] = "items"]
  /\ UNCHANGED <<kind, uid, profVars, running, thread, items, profs, executed>>

ListProfiles(t) ==
  /\ pc[t] = "items"
  /\ items[t] = {}
  /\ \/ /\ profs' = [profs EXCEPT ![t] =
               {[name |-> p, gen |-> gen[p], observed |-> observed[p]] : p \in Profiles}]
        /\ UNCHANGED faults
     \/ UNCHANGED profs /\ CanFail
  /\ pc' = [pc EXCEPT ![t] = "profiles"]
  /\ UNCHANGED <<crVars, profVars, running, thread, items, cur, executed>>

(* The generation written back is the listed one, not the current one.     *)
ReconcileProfileConstant(t, it) ==
  /\ pc[t] = "profiles"
  /\ observed' = [observed EXCEPT ![it.name] = IF it.gen > it.observed THEN 1 ELSE @]
  /\ profs' = [profs EXCEPT ![t] = @ \ {it}]
  /\ UNCHANGED <<crVars, gen, running, thread, pc, items, cur, executed, faults>>

ReconcileProfile(t, it) ==
  /\ pc[t] = "profiles"
  /\ \/ /\ it.gen > it.observed
        /\ observed' = [observed EXCEPT ![it.name] = it.gen]
        /\ UNCHANGED faults
     \/ /\ it.gen > it.observed
        /\ UNCHANGED observed /\ CanFail
     \/ /\ it.gen <= it.observed
        /\ UNCHANGED <<observed, faults>>
  /\ profs' = [profs EXCEPT ![t] = @ \ {it}]
  /\ UNCHANGED <<crVars, gen, running, thread, pc, items, cur, executed>>

(* A loop goes to sleep until its next test of _running, a request returns.*)
EndPass(t) ==
  /\ pc[t] = "profiles"
  /\ profs[t] = {}
  /\ pc' = [pc EXCEPT ![t] = IF t \in Loops THEN "check" ELSE "off"]
  /\ UNCHANGED <<crVars, profVars, running, thread, items, cur, profs, executed, faults>>

Pass(t) ==
  \/ ListActions(t)
  \/ \E it \in items[t] : PassOver(t, it) \/ TakeUp(t, it)
  \/ Execute(t)
  \/ Finish(t)
  \/ ListProfiles(t)
  \/ \E it \in profs[t] : ReconcileProfile(t, it)
  \/ EndPass(t)

-------------------------------------------------------------------------------
(* The loop thread and the controller requests.                            *)

(* `while self._running`, on entry and after each sleep.                   *)
LoopForever(l) ==
  /\ pc[l] = "check"
  /\ pc' = [pc EXCEPT ![l] = "list"]
  /\ UNCHANGED <<crVars, profVars, running, thread, items, cur, profs, executed, faults>>

LoopTest(l) ==
  /\ pc[l] = "check"
  /\ pc' = [pc EXCEPT ![l] = IF running THEN "list" ELSE "off"]
  /\ UNCHANGED <<crVars, profVars, running, thread, items, cur, profs, executed, faults>>

(* start(): with a live self._thread it returns, otherwise it goes on.     *)
RequestStartUnchecked(c) ==
  /\ "start" \in Requests
  /\ pc[c] = "off"
  /\ pc' = [pc EXCEPT ![c] = "spawn"]
  /\ UNCHANGED <<crVars, profVars, running, thread, items, cur, profs, executed, faults>>

RequestStart(c) ==
  /\ "start" \in Requests
  /\ pc[c] = "off"
  /\ ~(thread # None /\ pc[thread] # "off")
  /\ pc' = [pc EXCEPT ![c] = "spawn"]
  /\ UNCHANGED <<crVars, profVars, running, thread, items, cur, profs, executed, faults>>

Spawn(c) ==
  /\ pc[c] = "spawn"
  /\ running' = TRUE
  /\ \E l \in Loops :
       /\ pc[l] = "off"
       /\ thread' = l
       /\ pc' = [pc EXCEPT ![c] = "off", ![l] = "check"]
  /\ UNCHANGED <<crVars, profVars, items, cur, profs, executed, faults>>

(* stop(): clears the flag, then joins a thread if there is one.           *)
RequestStop(c) ==
  /\ "stop" \in Requests
  /\ pc[c] = "off"
  /\ running' = FALSE
  /\ pc' = [pc EXCEPT ![c] = IF thread # None THEN "join" ELSE "off"]
  /\ UNCHANGED <<crVars, profVars, thread, items, cur, profs, executed, faults>>

(* join(timeout=10) returns whether or not the thread has ended.           *)
JoinReturns(c) ==
  /\ pc[c] = "join"
  /\ thread' = None
  /\ pc' = [pc EXCEPT ![c] = "off"]
  /\ UNCHANGED <<crVars, profVars, running, items, cur, profs, executed, faults>>

RequestReconcile(c) ==
  /\ "reconcile" \in Requests
  /\ pc[c] = "off"
  /\ pc' = [pc EXCEPT ![c] = "list"]
  /\ UNCHANGED <<crVars, profVars, running, thread, items, cur, profs, executed, faults>>

(* The process dies and comes back with a new controller; the objects stay.*)
Crash ==
  /\ CanFail
  /\ running' = FALSE
  /\ thread' = None
  /\ pc' = [t \in Threads |-> "off"]
  /\ items' = [t \in Threads |-> {}]
  /\ cur' = [t \in Threads |-> None]
  /\ profs' = [t \in Threads |-> {}]
  /\ UNCHANGED <<crVars, profVars, executed>>

ThreadStep(t) ==
  \/ Pass(t)
  \/ t \in Loops /\ LoopTest(t)
  \/ t \in Callers /\ (Spawn(t) \/ JoinReturns(t))

Next ==
  \/ Users
  \/ \E t \in Threads : ThreadStep(t)
  \/ \E c \in Callers : RequestStart(c) \/ RequestStop(c) \/ RequestReconcile(c)
  \/ Crash

Spec == Init /\ [][Next]_vars

(* Threads are scheduled by the operating system, so a thread that can go  *)
(* on does.  Nothing obliges users or operators to do anything.            *)
FairSpec == Spec /\ \A t \in Threads : WF_vars(ThreadStep(t))
-------------------------------------------------------------------------------
(* Properties.                                                             *)

(* The adapter is about to be called for an object only while that object  *)
(* has no outcome: what the early return at the top of _reconcile_action   *)
(* is for, restated for the moment at which the adapter really is called.  *)
NoReexecution ==
  \A t \in Threads : pc[t] = "execute" => phase[cur[t].name] \notin Terminal

(* An outcome is never claimed for a name the adapter was not called for,  *)
(* whoever patched the object and however old the list it came from.  (Not *)
(* for a uid: a pass may write the outcome of a deleted object on its      *)
(* successor of the same name.)                                            *)
OutcomeWasEarned ==
  \A a \in Actions :
    phase[a] \in {"completed", "failed"} => \E u \in 1..uid[a] : <<a, u>> \in executed

(* A recorded outcome is final: no later patch, from whatever pass, takes  *)
(* an object back to running or turns one outcome into another.            *)
TerminalIsFinal ==
  [][\A a \in Actions :
       phase[a] \in Terminal => phase'[a] \in {phase[a], "absent"}]_vars

(* A pass is open from the moment its list is read until every object on   *)
(* the list has been dealt with.                                           *)
InPass(t) == pc[t] \in {"items", "execute", "succeeded", "raised"}

OnePassAtATime == \A s, t \in Threads : InPass(s) /\ InPass(t) => s = t

(* Re-execution takes two open passes: however many loops and requests     *)
(* there are, whatever fails and however often the process dies, a         *)
(* behaviour in which no two passes are open at once never executes an     *)
(* object that has an outcome.                                             *)
OnlyOverlapReexecutes == []OnePassAtATime => []NoReexecution

(* What the objects, as a whole, show of the operator.                     *)
attemptedNames == {a \in Actions : \E u \in 0..MaxUid : <<a, u>> \in executed}

Lifecycle == INSTANCE ActionLifecycle WITH attempted <- attemptedNames

(* The objects only ever do what ActionLifecycle allows: every patch of    *)
(* the operator, however stale the list it works from, is a permitted move *)
(* of the object that has the name at that moment.                         *)
ImplementsLifecycle == Lifecycle!LifecycleSpec

(* A loop that keeps running takes every object that asks for execution to *)
(* an outcome, including one that a crash or a lost patch left "running".  *)
Unserved(a) == kind[a] = "valid" /\ phase[a] \in {"pending", "running"}

SomeLoopStays == <>[](\E l \in Loops : pc[l] # "off")

SettlesWhileRunning ==
  SomeLoopStays => \A a \in Actions : Unserved(a) ~> ~Unserved(a)

(* A loop that keeps running brings every profile's observedGeneration up  *)
(* to its generation, although each pass writes the generation it listed.  *)
ProfilesConverge ==
  SomeLoopStays => \A p \in Profiles : gen[p] > observed[p] ~> gen[p] = observed[p]

(* Clearing _running ends every loop, also those whose handle stop() has   *)
(* already dropped, unless a start() sets the flag again first.            *)
StopIsEffective == ~running ~> (running \/ \A l \in Loops : pc[l] = "off")
===============================================================================
