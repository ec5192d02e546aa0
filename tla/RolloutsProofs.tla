----------------------------- MODULE RolloutsProofs ----------------------------
(***************************************************************************)
(* Canaries earn their traffic and saved workflows are durable, and models *)
(* are promoted as promised, for any number of steps, deployments,         *)
(* workflows, versions and threads.                                        *)
(***************************************************************************)
EXTENDS Rollouts, TLAPS

(* While no two advances of a deployment have overlapped, one at most is   *)
(* going on, and it evaluates the current step.                            *)
SoleAdvance ==
  \A d \in Deployments \ contested : \A h \in Handlers :
    advance[h].pc # "idle" /\ advance[h].dep = d =>
      /\ advance[h].at = canary[d].current
      /\ \A g \in Handlers : advance[g].pc # "idle" /\ advance[g].dep = d => g = h

CanaryInv == CanaryTypeOK /\ SoleAdvance /\ TrafficIsEarned

LEMMA NoAdvanceType ==
  /\ NoAdvance.pc = "idle" /\ NoAdvance.dep \in Deployments /\ NoAdvance.at = 0
  /\ NoAdvance \in [pc : {"idle", "evaluating", "rolling"}, dep : Deployments, at : Steps]
  /\ NumSteps \in Nat /\ 0 \in Steps
BY CanaryAssumption DEF CanaryAssumption, NoAdvance, Steps

LEMMA NoCanaries ==
  ASSUME canary = [d \in Deployments |-> NoCanary], advance = [h \in Handlers |-> NoAdvance],
         contested = {}
  PROVE  CanaryInv
<1>1. CanaryTypeOK
  BY NoAdvanceType DEF CanaryTypeOK, NoCanary
<1>2. SoleAdvance
  BY NoAdvanceType DEF SoleAdvance
<1>3. TrafficIsEarned
  <2>1. /\ NoCanary.current = 0 /\ NoCanary.status = "none"
        /\ \A d \in Deployments : canary[d] = NoCanary
    BY DEF NoCanary
  <2>2. \A i \in Steps : ~(i < 0)
    BY NoAdvanceType DEF Steps
  <2>3. QED BY <2>1, <2>2 DEF TrafficIsEarned
<1>4. QED BY <1>1, <1>2, <1>3 DEF CanaryInv

LEMMA RestartedCanaries ==
  ASSUME canary' = [d \in Deployments |-> NoCanary], advance' = [h \in Handlers |-> NoAdvance],
         contested' = {}
  PROVE  CanaryInv'
<1>1. CanaryTypeOK'
  BY NoAdvanceType DEF CanaryTypeOK, NoCanary
<1>2. SoleAdvance'
  BY NoAdvanceType DEF SoleAdvance
<1>3. TrafficIsEarned'
  <2>1. /\ NoCanary.current = 0 /\ NoCanary.status = "none"
        /\ \A d \in Deployments : canary'[d] = NoCanary
    BY DEF NoCanary
  <2>2. \A i \in Steps : ~(i < 0)
    BY NoAdvanceType DEF Steps
  <2>3. QED BY <2>1, <2>2 DEF TrafficIsEarned
<1>4. QED BY <1>1, <1>2, <1>3 DEF CanaryInv

LEMMA CreateKeeps ==
  ASSUME CanaryInv, NEW d \in Deployments, Create(d)
  PROVE  CanaryInv'
<1>1. CanaryTypeOK'
  BY DEF Create, CanaryInv, CanaryTypeOK
<1>2. SoleAdvance'
  BY DEF Create, CanaryInv, CanaryTypeOK, SoleAdvance
<1>3. TrafficIsEarned'
  BY DEF Create, CanaryInv, CanaryTypeOK, TrafficIsEarned
<1>4. QED BY <1>1, <1>2, <1>3 DEF CanaryInv

LEMMA AdvanceStartKeeps ==
  ASSUME CanaryInv, NEW h \in Handlers, NEW d \in Deployments, AdvanceStart(h, d)
  PROVE  CanaryInv'
<1> DEFINE at == canary[d].current
<1>1. /\ advance[h].pc = "idle" /\ canary[d].status # "none" /\ at < NumSteps
      /\ canary' = [canary EXCEPT ![d].step[at] = "running"]
      /\ advance' = [advance EXCEPT ![h] = [pc |-> "evaluating", dep |-> d, at |-> at]]
      /\ contested' = IF Advancing(d) = {} THEN contested ELSE contested \cup {d}
  BY DEF AdvanceStart
<1>2. at \in Steps /\ contested \subseteq contested'
  BY <1>1, CanaryAssumption DEF CanaryAssumption, CanaryInv, CanaryTypeOK, Steps
<1>3. CanaryTypeOK'
  BY ZenonT(40), <1>1, <1>2 DEF CanaryInv, CanaryTypeOK
<1>4. ASSUME NEW e \in Deployments
      PROVE  /\ canary'[e].current = canary[e].current /\ canary'[e].status = canary[e].status
             /\ \A i \in Steps : i < canary[e].current => canary'[e].step[i] = canary[e].step[i]
  BY <1>1, <1>2 DEF CanaryInv, CanaryTypeOK, Steps
<1>5. SoleAdvance'
  <2> SUFFICES ASSUME NEW e \in Deployments \ contested', NEW f \in Handlers,
                      advance'[f].pc # "idle", advance'[f].dep = e
               PROVE  /\ advance'[f].at = canary[e].current
                      /\ \A g \in Handlers : advance'[g].pc # "idle" /\ advance'[g].dep = e => g = f
    BY <1>4 DEF SoleAdvance
  <2>1. CASE e = d
    <3>1. Advancing(d) = {}
      BY <1>1, <2>1
    <3>2. \A g \in Handlers : advance'[g].pc # "idle" /\ advance'[g].dep = d => g = h
      BY <1>1, <3>1 DEF Advancing, CanaryInv, CanaryTypeOK
    <3>3. QED BY <1>1, <2>1, <3>2 DEF CanaryInv, CanaryTypeOK
  <2>2. CASE e # d
    <3>1. \A g \in Handlers : advance'[g].pc # "idle" /\ advance'[g].dep = e
                                => g # h /\ advance'[g] = advance[g]
      BY <1>1, <2>2 DEF CanaryInv, CanaryTypeOK
    <3>2. QED BY <1>2, <3>1 DEF CanaryInv, SoleAdvance
  <2>3. QED BY <2>1, <2>2
<1>6. TrafficIsEarned'
  BY <1>2, <1>4 DEF CanaryInv, TrafficIsEarned
<1>7. QED BY <1>3, <1>5, <1>6 DEF CanaryInv

LEMMA AdvancePassKeeps ==
  ASSUME CanaryInv, NEW h \in Handlers, AdvancePass(h)
  PROVE  CanaryInv'
<1> DEFINE d == advance[h].dep
           at == advance[h].at
           next == canary[d].current + 1
           passed == [canary[d].step EXCEPT ![at] = "passed"]
<1>1. /\ advance[h].pc = "evaluating" /\ advance' = [advance EXCEPT ![h] = NoAdvance]
      /\ contested' = contested
      /\ canary' = [canary EXCEPT ![d] =
           IF next >= NumSteps THEN [current |-> next, status |-> "completed", step |-> passed]
           ELSE [@ EXCEPT !.current = next, !.step = [passed EXCEPT ![next] = "active"]]]
  BY DEF AdvancePass
<1>2. d \in Deployments /\ at \in Steps /\ next \in Nat /\ NumSteps \in Nat \ {0}
  BY CanaryAssumption DEF CanaryAssumption, CanaryInv, CanaryTypeOK
<1>3. /\ canary'[d].current = next
      /\ canary'[d].status = IF next >= NumSteps THEN "completed" ELSE canary[d].status
      /\ \A i \in Steps : i < next => canary'[d].step[i] = passed[i]
      /\ \A e \in Deployments : e # d => canary'[e] = canary[e]
      /\ \A i \in Steps : canary'[d].step[i] \in {passed[i], "active"}
  <2>1. CASE next >= NumSteps
    BY <1>1, <1>2, <2>1 DEF CanaryInv, CanaryTypeOK
  <2>2. CASE ~(next >= NumSteps)
    BY <1>1, <1>2, <2>2 DEF CanaryInv, CanaryTypeOK, Steps
  <2>3. QED BY <2>1, <2>2
<1>4. CanaryTypeOK'
  <2>1. passed \in [Steps -> {"pending", "running", "active", "passed", "failed"}]
    BY <1>2 DEF CanaryInv, CanaryTypeOK
  <2> DEFINE all == [current : Nat,
                     status : {"none", "running", "completed", "rolling_back", "rolled_back"},
                     step : [Steps -> {"pending", "running", "active", "passed", "failed"}]]
             new == IF next >= NumSteps THEN [current |-> next, status |-> "completed", step |-> passed]
                    ELSE [canary[d] EXCEPT !.current = next, !.step = [passed EXCEPT ![next] = "active"]]
  <2>2. canary[d] \in all /\ canary \in [Deployments -> all]
    BY <1>2 DEF CanaryInv, CanaryTypeOK
  <2> HIDE DEF next, passed
  <2>3. [passed EXCEPT ![next] = "active"]
          \in [Steps -> {"pending", "running", "active", "passed", "failed"}]
    BY <2>1
  <2>4. new \in all
    <3>1. CASE next >= NumSteps
      BY <1>2, <2>1, <3>1
    <3>2. CASE ~(next >= NumSteps)
      BY <1>2, <2>2, <2>3, <3>2
    <3>3. QED BY <3>1, <3>2
  <2>5. canary' \in [Deployments -> all]
    <3>1. canary' = [canary EXCEPT ![d] = new]
      BY <1>1
    <3> HIDE DEF new, all
    <3>2. QED BY <2>2, <2>4, <3>1
  <2>6. advance' \in [Handlers -> [pc : {"idle", "evaluating", "rolling"}, dep : Deployments, at : Steps]]
    BY <1>1, NoAdvanceType DEF CanaryInv, CanaryTypeOK
  <2>7. QED BY <1>1, <2>5, <2>6 DEF CanaryInv, CanaryTypeOK
<1>5. /\ advance'[h] = NoAdvance
      /\ \A g \in Handlers : g # h => advance'[g] = advance[g]
  BY <1>1 DEF CanaryInv, CanaryTypeOK
<1> HIDE DEF next, passed
<1>6. SoleAdvance'
  <2> SUFFICES ASSUME NEW e \in Deployments \ contested, NEW f \in Handlers,
                      advance'[f].pc # "idle", advance'[f].dep = e
               PROVE  /\ advance'[f].at = canary'[e].current
                      /\ \A g \in Handlers : advance'[g].pc # "idle" /\ advance'[g].dep = e => g = f
    BY <1>1 DEF SoleAdvance
  <2>1. f # h /\ advance[f].pc # "idle" /\ advance[f].dep = e
    BY <1>5, NoAdvanceType
  <2>2. e # d
    BY <1>1, <2>1 DEF CanaryInv, SoleAdvance
  <2>3. QED BY <1>3, <1>5, <2>1, <2>2, NoAdvanceType DEF CanaryInv, SoleAdvance
<1>7. TrafficIsEarned'
  <2> SUFFICES ASSUME NEW e \in Deployments \ contested
               PROVE  /\ \A i \in Steps : i < canary'[e].current => canary'[e].step[i] = "passed"
                      /\ canary'[e].status = "completed" => canary'[e].current = NumSteps
    BY <1>1 DEF TrafficIsEarned
  <2>1. CASE e # d
    BY <1>3, <2>1 DEF CanaryInv, TrafficIsEarned
  <2>2. CASE e = d
    <3>1. at = canary[d].current /\ canary[d].current \in Nat
      BY <1>1, <1>2, <2>2 DEF CanaryInv, CanaryTypeOK, SoleAdvance
    <3>2. \A i \in Steps : i < next => passed[i] = "passed"
      BY <1>2, <2>2, <3>1 DEF next, passed, CanaryInv, CanaryTypeOK, TrafficIsEarned, Steps
    <3>3. next <= NumSteps
      BY <1>2, <3>1 DEF next, Steps
    <3>4. canary[d].status = "completed" => FALSE
      BY <1>2, <2>2, <3>1 DEF CanaryInv, TrafficIsEarned, Steps
    <3>5. QED BY <1>2, <1>3, <2>2, <3>2, <3>3, <3>4
  <2>3. QED BY <2>1, <2>2
<1>8. QED BY <1>4, <1>6, <1>7 DEF CanaryInv

(* The two steps of a rollback change the step evaluated, which is the     *)
(* current one, and the status.                                            *)
LEMMA AdvanceFailKeeps ==
  ASSUME CanaryInv, NEW h \in Handlers, AdvanceFail(h)
  PROVE  CanaryInv'
<1> DEFINE d == advance[h].dep  at == advance[h].at
           marked == [canary[d].step EXCEPT ![at] = "failed"]
<1>1. /\ advance[h].pc = "evaluating" /\ contested' = contested
      /\ advance' = [advance EXCEPT ![h].pc = "rolling"]
  BY DEF AdvanceFail
<1>2. d \in Deployments /\ at \in Steps
  BY DEF CanaryInv, CanaryTypeOK
<1>3. canary' = [canary EXCEPT ![d] = [canary[d] EXCEPT !.status = "rolling_back", !.step = marked]]
  BY DEF AdvanceFail
<1>4. /\ marked \in [Steps -> {"pending", "running", "active", "passed", "failed"}]
      /\ \A i \in Steps : i # at => marked[i] = canary[d].step[i]
  BY <1>2 DEF CanaryInv, CanaryTypeOK
<1>5. /\ canary'[d].current = canary[d].current /\ canary'[d].status = "rolling_back"
      /\ canary'[d].step = marked
      /\ \A e \in Deployments : e # d => canary'[e] = canary[e]
      /\ \A e \in Deployments : canary'[e].current = canary[e].current
  BY <1>2, <1>3 DEF CanaryInv, CanaryTypeOK
<1>6. CanaryTypeOK'
  <2> DEFINE all == [current : Nat,
                     status : {"none", "running", "completed", "rolling_back", "rolled_back"},
                     step : [Steps -> {"pending", "running", "active", "passed", "failed"}]]
             new == [canary[d] EXCEPT !.status = "rolling_back", !.step = marked]
  <2> HIDE DEF marked
  <2>0. canary[d] \in all /\ canary \in [Deployments -> all]
    BY <1>2 DEF CanaryInv, CanaryTypeOK
  <2>1. canary' \in [Deployments -> all]
    <3>1. new \in all
      BY <1>4, <2>0
    <3>2. canary' = [canary EXCEPT ![d] = new]
      BY <1>3
    <3> HIDE DEF new, all
    <3>3. QED BY <2>0, <3>1, <3>2
  <2>2. advance' \in [Handlers -> [pc : {"idle", "evaluating", "rolling"}, dep : Deployments, at : Steps]]
    BY <1>1 DEF CanaryInv, CanaryTypeOK
  <2>3. QED BY <1>1, <2>1, <2>2 DEF CanaryInv, CanaryTypeOK
<1>7. SoleAdvance'
  <2>1. \A g \in Handlers : /\ advance'[g].pc # "idle" => advance[g].pc # "idle"
                            /\ advance'[g].dep = advance[g].dep /\ advance'[g].at = advance[g].at
    BY <1>1 DEF CanaryInv, CanaryTypeOK
  <2>2. QED BY <1>1, <1>5, <2>1 DEF CanaryInv, SoleAdvance
<1>8. TrafficIsEarned'
  <2> SUFFICES ASSUME NEW e \in Deployments \ contested
               PROVE  /\ \A i \in Steps : i < canary'[e].current => canary'[e].step[i] = "passed"
                      /\ canary'[e].status = "completed" => canary'[e].current = NumSteps
    BY <1>1 DEF TrafficIsEarned
  <2>1. CASE e # d
    BY <1>5, <2>1 DEF CanaryInv, TrafficIsEarned
  <2>2. CASE e = d
    <3>1. at = canary[d].current /\ canary[d].current \in Nat
      BY <1>1, <1>2, <2>2 DEF CanaryInv, CanaryTypeOK, SoleAdvance
    <3>2. \A i \in Steps : i < canary[d].current => i # at
      BY <3>1 DEF Steps
    <3>3. QED BY <1>4, <1>5, <2>2, <3>2 DEF CanaryInv, TrafficIsEarned
  <2>3. QED BY <2>1, <2>2
<1>9. QED BY <1>6, <1>7, <1>8 DEF CanaryInv

LEMMA RolledBackKeeps ==
  ASSUME CanaryInv, NEW h \in Handlers, RolledBack(h)
  PROVE  CanaryInv'
<1>1. /\ advance[h].pc = "rolling" /\ contested' = contested
      /\ advance' = [advance EXCEPT ![h] = NoAdvance]
      /\ canary' = [canary EXCEPT ![advance[h].dep].status = "rolled_back"]
  BY DEF RolledBack
<1>2. CanaryTypeOK'
  BY SMTT(30), <1>1, NoAdvanceType DEF CanaryInv, CanaryTypeOK
<1>3. \A e \in Deployments :
        /\ canary'[e].current = canary[e].current /\ canary'[e].step = canary[e].step
        /\ canary'[e].status \in {canary[e].status, "rolled_back"}
  BY <1>1 DEF CanaryInv, CanaryTypeOK
<1>4. SoleAdvance'
  <2>1. \A g \in Handlers : advance'[g].pc # "idle" => advance'[g] = advance[g]
    BY <1>1, NoAdvanceType DEF CanaryInv, CanaryTypeOK
  <2>2. QED BY <1>1, <1>3, <2>1 DEF CanaryInv, SoleAdvance
<1>5. TrafficIsEarned'
  BY <1>1, <1>3 DEF CanaryInv, TrafficIsEarned
<1>6. QED BY <1>2, <1>4, <1>5 DEF CanaryInv

LEMMA CanariesUnchanged == CanaryInv /\ UNCHANGED canaryVars => CanaryInv'
BY DEF CanaryInv, CanaryTypeOK, SoleAdvance, TrafficIsEarned, canaryVars

-------------------------------------------------------------------------------
(* Workflows.  A request that has not begun to dump, or not opened the     *)
(* file, owes it the output of its step, or its deletion (step 0).         *)
ToDump    == {h \in Threads : request[h].pc = "dump"}
Writing   == {h \in Threads : request[h].pc = "write"}
Unwritten == {h \in Threads : request[h].pc \in {"dump", "dumping", "shifted", "truncate"}}

Known(ws, w) == ws[w] \cap WorkflowSteps
InFile(f, w) == IF f.state = "parses" THEN f.data[w] \cap WorkflowSteps ELSE {}

DumpOwed(w, n) == \E h \in ToDump : request[h].wf = w /\ request[h].n = n
SaveOwed(w, n) == \E h \in Unwritten : request[h].wf = w /\ request[h].n = n

(* An idle request owes nothing; one that computes has a step, and the     *)
(* workflow it works on is there as long as it has it.                     *)
RequestsAreSound ==
  \A h \in Threads :
    /\ request[h].pc = "computing" => request[h].n # 0
    /\ request[h].pc = "computing" /\ request[h].wf # NoWorkflow =>
         mem[request[h].wf] \subseteq WorkflowSteps
    /\ request[h].pc \in {"idle", "computing", "dump"} => request[h].snap = NoneKnown

(* What a sole save has dumped is what memory holds, but for the requests  *)
(* that have still to dump.                                                *)
Dumped(h, w) == request[h].pc \in {"truncate", "write"} \/ request[h].snap[w] # NotKnown

SnapIsCurrent(h) ==
  \A w \in Workflows : Dumped(h, w) =>
    /\ \A n \in Known(mem, w) : n \in Known(request[h].snap, w) \/ DumpOwed(w, n)
    /\ \A n \in Known(request[h].snap, w) : n \in Known(mem, w) \/ DumpOwed(w, 0)

SoleSave ==
  \A h \in Threads : h \in solo =>
    /\ Saving = {h} /\ request[h].pc # "shifted"
    /\ request[h].pc = "write" => file.state = "empty"
    /\ SnapIsCurrent(h)

FileIsCurrent ==
  clean /\ Writing = {} => \A w \in Workflows :
    /\ \A n \in Known(mem, w) :
         n \in InFile(file, w) \/ <<w, n>> \in failed \/ SaveOwed(w, n)
    /\ \A n \in InFile(file, w) :
         n \in Known(mem, w) \/ <<w, 0>> \in failed \/ SaveOwed(w, 0)

WorkflowInv == WorkflowTypeOK /\ RequestsAreSound /\ SoleSave /\ FileIsCurrent

LEMMA NoRequestType ==
  /\ NoRequest.pc = "idle" /\ NoRequest.snap = NoneKnown
  /\ NoRequest \in RequestType
  /\ NoneKnown \in [Workflows -> Outputs]
  /\ \A w \in Workflows : NoneKnown[w] \cap WorkflowSteps = {}
<1>1. 0 \in 0..LastStep /\ {0} \cap WorkflowSteps = {}
  BY WorkflowAssumption DEF WorkflowAssumption, WorkflowSteps
<1>2. /\ NoneKnown \in [Workflows -> Outputs]
      /\ \A w \in Workflows : NoneKnown[w] = {0}
  BY DEF NoneKnown, NotKnown, Outputs
<1>3. QED BY <1>1, <1>2 DEF NoRequest, RequestType

LEMMA NoWorkflows == WorkflowInit => WorkflowInv
<1> SUFFICES ASSUME WorkflowInit PROVE WorkflowInv
  OBVIOUS
<1>1. WorkflowTypeOK
  BY NoRequestType DEF WorkflowInit, WorkflowTypeOK
<1>2. SoleSave
  BY DEF WorkflowInit, SoleSave
<1>3. FileIsCurrent
  BY NoRequestType DEF WorkflowInit, FileIsCurrent, InFile, Known
<1>4. RequestsAreSound
  BY NoRequestType DEF WorkflowInit, RequestsAreSound
<1>5. QED BY <1>1, <1>2, <1>3, <1>4 DEF WorkflowInv

LEMMA LoadKeeps == WorkflowInv /\ LoadWorkflows => WorkflowInv'
<1> SUFFICES ASSUME WorkflowInv, LoadWorkflows PROVE WorkflowInv'
  OBVIOUS
<1>1. WorkflowTypeOK'
  BY NoRequestType DEF LoadWorkflows, WorkflowInv, WorkflowTypeOK
<1>2. SoleSave'
  BY DEF LoadWorkflows, SoleSave
<1>3. FileIsCurrent'
  <2>1. \A w \in Workflows : InFile(file', w) = Known(mem', w)
    BY NoRequestType DEF LoadWorkflows, InFile, Known
  <2>2. QED BY <2>1 DEF FileIsCurrent
<1>4. RequestsAreSound'
  BY NoRequestType DEF LoadWorkflows, RequestsAreSound
<1>5. QED BY <1>1, <1>2, <1>3, <1>4 DEF WorkflowInv

(* A request goes on with its save, or had not begun it.  The output it    *)
(* owes may have been deleted.                                             *)
SaveGoesOn(g) ==
  /\ \/ request'[g].pc = request[g].pc
     \/ request[g].pc = "dumping" /\ request'[g].pc = "shifted"
  /\ request'[g].n = request[g].n /\ request'[g].snap = request[g].snap
  /\ \/ request'[g].wf = request[g].wf
     \/ request[g].n # 0 /\ Known(mem', request[g].wf) = {}

NothingBegun(g) ==
  request[g].pc \in {"idle", "computing"} /\ request'[g].pc \in {"idle", "computing", "dump"}

(* A step of a request that is not saving keeps what the saves rely on, if *)
(* a request is about to dump whatever it changes.                         *)
LEMMA SaveFrame ==
  ASSUME WorkflowInv, WorkflowTypeOK', RequestsAreSound', UNCHANGED <<file, clean>>,
         solo' \subseteq solo,
         \A g \in Threads : SaveGoesOn(g) \/ NothingBegun(g),
         \A g \in solo' : request'[g].pc = request[g].pc,
         \A w \in Workflows :
           /\ \A n \in Known(mem', w) : n \in Known(mem, w) \/ DumpOwed(w, n)'
           /\ \A n \in Known(mem, w) : n \in Known(mem', w) \/ DumpOwed(w, 0)'
           /\ \A n \in Known(mem', w) \cup {0} : <<w, n>> \in failed => <<w, n>> \in failed'
  PROVE  WorkflowInv'
<1>1. Saving' = Saving /\ Writing' = Writing
  BY DEF Saving, Dumping, Writing, SaveGoesOn, NothingBegun
<1>2. ASSUME NEW w \in Workflows, NEW n \in Known(mem', w) \cup {0}
      PROVE  (DumpOwed(w, n) => DumpOwed(w, n)') /\ (SaveOwed(w, n) => SaveOwed(w, n)')
  <2>1. ASSUME NEW g \in Unwritten, request[g].pc \notin {"idle", "computing"},
               request[g].wf = w, request[g].n = n
        PROVE  /\ g \in Unwritten' /\ request'[g].wf = w /\ request'[g].n = n
               /\ g \in ToDump => g \in ToDump'
    <3>1. g \in Threads /\ SaveGoesOn(g)
      BY <2>1 DEF Unwritten, NothingBegun
    <3>2. request'[g].wf = w /\ request'[g].n = n
      BY <1>2, <2>1, <3>1 DEF SaveGoesOn
    <3>3. QED BY <3>1, <3>2 DEF SaveGoesOn, Unwritten, ToDump
  <2>2. \A g \in Unwritten : request[g].pc \notin {"idle", "computing"}
    BY DEF Unwritten
  <2>3. ToDump \subseteq Unwritten
    BY DEF ToDump, Unwritten
  <2>4. QED BY <2>1, <2>2, <2>3 DEF DumpOwed, SaveOwed
<1>3. SoleSave'
  <2> SUFFICES ASSUME NEW h \in Threads, h \in solo'
               PROVE  /\ Saving' = {h} /\ request'[h].pc # "shifted"
                      /\ request'[h].pc = "write" => file'.state = "empty"
                      /\ SnapIsCurrent(h)'
    BY DEF SoleSave
  <2>1. /\ Saving = {h} /\ request[h].pc # "shifted" /\ request'[h].pc = request[h].pc
        /\ request[h].pc = "write" => file.state = "empty"
        /\ SnapIsCurrent(h)
    BY DEF WorkflowInv, SoleSave
  <2>2. request'[h].snap = request[h].snap
    BY <2>1 DEF SaveGoesOn, NothingBegun, Saving, Dumping
  <2>3. ASSUME NEW w \in Workflows, Dumped(h, w)'
        PROVE  /\ \A n \in Known(mem', w) : n \in Known(request'[h].snap, w) \/ DumpOwed(w, n)'
               /\ \A n \in Known(request'[h].snap, w) : n \in Known(mem', w) \/ DumpOwed(w, 0)'
    <3>1. Dumped(h, w)
      BY <2>1, <2>2, <2>3 DEF Dumped
    <3>2. QED BY <1>2, <2>1, <2>2, <3>1 DEF SnapIsCurrent
  <2>4. SnapIsCurrent(h)'
    BY <2>3 DEF SnapIsCurrent
  <2>5. QED BY <1>1, <2>1, <2>4
<1>4. FileIsCurrent'
  <2> SUFFICES ASSUME clean, Writing = {}, NEW w \in Workflows
               PROVE  /\ \A n \in Known(mem', w) :
                           n \in InFile(file, w) \/ <<w, n>> \in failed' \/ SaveOwed(w, n)'
                      /\ \A n \in InFile(file, w) :
                           n \in Known(mem', w) \/ <<w, 0>> \in failed' \/ SaveOwed(w, 0)'
    BY <1>1 DEF FileIsCurrent
  <2>1. /\ \A n \in Known(mem, w) :
             n \in InFile(file, w) \/ <<w, n>> \in failed \/ SaveOwed(w, n)
        /\ \A n \in InFile(file, w) :
             n \in Known(mem, w) \/ <<w, 0>> \in failed \/ SaveOwed(w, 0)
    BY DEF WorkflowInv, FileIsCurrent
  <2>2. \A n : DumpOwed(w, n)' => SaveOwed(w, n)'
    BY DEF DumpOwed, SaveOwed, ToDump, Unwritten
  <2>3. QED BY <1>2, <2>1, <2>2
<1>5. QED BY <1>3, <1>4 DEF WorkflowInv

LEMMA ShiftKeeps ==
  ASSUME NEW r \in RequestType
  PROVE  /\ Shift(r) \in RequestType
         /\ Shift(r).wf = r.wf /\ Shift(r).n = r.n /\ Shift(r).snap = r.snap
         /\ \/ Shift(r).pc = r.pc
            \/ r.pc = "dumping" /\ Shift(r).pc = "shifted"
<1>1. CASE r.pc = "dumping"
  <2>1. Shift(r) = [r EXCEPT !.pc = "shifted"]
    BY <1>1 DEF Shift
  <2>2. QED BY <1>1, <2>1 DEF RequestType
<1>2. CASE r.pc # "dumping"
  BY <1>2 DEF Shift
<1>3. QED BY <1>1, <1>2

(* What making a workflow, if it is not there, leaves of the other saves.  *)
LEMMA Made ==
  ASSUME WorkflowInv, NEW w \in Workflows, Make(w)
  PROVE  /\ mem' \in [Workflows -> Outputs] /\ solo' \subseteq solo
         /\ mem'[w] \subseteq WorkflowSteps
         /\ \A v \in Workflows : /\ Known(mem', v) = Known(mem, v)
                                 /\ mem[v] \subseteq WorkflowSteps => mem'[v] \subseteq WorkflowSteps
         /\ Shifted(w) \in [Threads -> RequestType]
         /\ \A g \in Threads :
              /\ Shifted(w)[g].wf = request[g].wf /\ Shifted(w)[g].n = request[g].n
              /\ Shifted(w)[g].snap = request[g].snap
              /\ \/ Shifted(w)[g].pc = request[g].pc
                 \/ request[g].pc = "dumping" /\ Shifted(w)[g].pc = "shifted" /\ g \notin solo'
<1>1. /\ mem' = [mem EXCEPT ![w] = @ \cap WorkflowSteps]
      /\ solo' = IF w \in InMemory THEN solo ELSE solo \ Dumping
  BY DEF Make
<1>2. mem \in [Workflows -> Outputs] /\ request \in [Threads -> RequestType]
  BY DEF WorkflowInv, WorkflowTypeOK
<1>3. /\ mem' \in [Workflows -> Outputs] /\ mem'[w] = mem[w] \cap WorkflowSteps
      /\ \A v \in Workflows : v # w => mem'[v] = mem[v]
  BY <1>1, <1>2 DEF Outputs
<1>4. \A v \in Workflows : /\ Known(mem', v) = Known(mem, v)
                           /\ mem[v] \subseteq WorkflowSteps => mem'[v] \subseteq WorkflowSteps
  BY <1>3 DEF Known
<1>5. CASE w \in InMemory
  BY <1>1, <1>2, <1>3, <1>4, <1>5 DEF Shifted
<1>6. CASE w \notin InMemory
  <2>1. Shifted(w) = [g \in Threads |-> Shift(request[g])] /\ solo' = solo \ Dumping
    BY <1>1, <1>6 DEF Shifted
  <2>2. ASSUME NEW g \in Threads
        PROVE  /\ Shift(request[g]) \in RequestType
               /\ Shift(request[g]).wf = request[g].wf /\ Shift(request[g]).n = request[g].n
               /\ Shift(request[g]).snap = request[g].snap
               /\ \/ Shift(request[g]).pc = request[g].pc
                  \/ request[g].pc = "dumping" /\ Shift(request[g]).pc = "shifted" /\ g \in Dumping
    BY <1>2, ShiftKeeps DEF Dumping
  <2>3. QED BY <1>3, <1>4, <2>1, <2>2
<1>7. QED BY <1>5, <1>6

LEMMA NextStepKeeps ==
  ASSUME WorkflowInv, NEW w \in Workflows, NextStep(w)
  PROVE  WorkflowInv'
<1>1. Make(w) /\ request' = Shifted(w) /\ UNCHANGED <<file, clean, failed>>
  BY DEF NextStep
<1>2. WorkflowTypeOK'
  BY <1>1, Made DEF WorkflowInv, WorkflowTypeOK
<1>3. RequestsAreSound'
  <2>1. \A g \in Threads : request[g].wf \in Workflows \cup {NoWorkflow}
    BY DEF WorkflowInv, WorkflowTypeOK, RequestType
  <2>2. QED BY <1>1, <2>1, Made DEF WorkflowInv, RequestsAreSound
<1>4. \A g \in Threads : SaveGoesOn(g)
  BY <1>1, Made DEF SaveGoesOn
<1>5. \A g \in solo' : request'[g].pc = request[g].pc
  BY <1>1, Made DEF WorkflowInv, WorkflowTypeOK
<1>6. QED BY <1>1, <1>2, <1>3, <1>4, <1>5, Made, SaveFrame

LEMMA StepBeginKeeps ==
  ASSUME WorkflowInv, NEW h \in Threads, NEW w \in Workflows, NEW n \in WorkflowSteps,
         StepBegin(h, w, n)
  PROVE  WorkflowInv'
<1> DEFINE new == [NoRequest EXCEPT !.pc = "computing", !.wf = w, !.n = n]
<1>1. /\ request[h].pc = "idle" /\ Make(w)
      /\ request' = [Shifted(w) EXCEPT ![h] = new] /\ UNCHANGED <<file, clean, failed>>
  BY DEF StepBegin
<1>2. /\ new.pc = "computing" /\ new.wf = w /\ new.n = n /\ new.snap = NoneKnown
      /\ new \in RequestType /\ n # 0
  <2>1. n \in 0..LastStep /\ n # 0
    BY WorkflowAssumption DEF WorkflowAssumption, WorkflowSteps
  <2>2. QED BY <2>1, NoRequestType DEF RequestType
<1> HIDE DEF new
<1>3. /\ request'[h] = new
      /\ \A g \in Threads : g # h => request'[g] = Shifted(w)[g]
      /\ request' \in [Threads -> RequestType]
  BY <1>1, <1>2, Made
<1>4. WorkflowTypeOK'
  BY <1>1, <1>3, Made DEF WorkflowInv, WorkflowTypeOK
<1>5. RequestsAreSound'
  <2>1. \A g \in Threads : request[g].wf \in Workflows \cup {NoWorkflow}
    BY DEF WorkflowInv, WorkflowTypeOK, RequestType
  <2>2. ASSUME NEW g \in Threads, g # h
        PROVE  /\ request'[g].pc = "computing" => request'[g].n # 0
               /\ request'[g].pc = "computing" /\ request'[g].wf # NoWorkflow =>
                    mem'[request'[g].wf] \subseteq WorkflowSteps
               /\ request'[g].pc \in {"idle", "computing", "dump"} => request'[g].snap = NoneKnown
    BY <1>1, <1>3, <2>1, <2>2, Made DEF WorkflowInv, RequestsAreSound
  <2>3. mem'[w] \subseteq WorkflowSteps
    BY <1>1, Made
  <2>4. QED BY <1>2, <1>3, <2>2, <2>3 DEF RequestsAreSound
<1>6. ASSUME NEW g \in Threads
      PROVE  SaveGoesOn(g) \/ NothingBegun(g)
  <2>1. CASE g = h
    BY <1>1, <1>2, <1>3, <2>1 DEF NothingBegun
  <2>2. CASE g # h
    BY <1>1, <1>3, <2>2, Made DEF SaveGoesOn
  <2>3. QED BY <2>1, <2>2
<1>7. ASSUME NEW g \in solo'
      PROVE  request'[g].pc = request[g].pc
  <2>1. g \in solo /\ g \in Threads
    BY <1>1, Made DEF WorkflowInv, WorkflowTypeOK
  <2>2. g # h
    BY <1>1, <2>1 DEF WorkflowInv, SoleSave, Saving, Dumping
  <2>3. QED BY <1>1, <1>3, <1>7, <2>1, <2>2, Made
<1>8. \A v \in Workflows : Known(mem', v) = Known(mem, v)
  BY <1>1, Made
<1>9. solo' \subseteq solo
  BY <1>1, Made
<1>10. QED BY <1>1, <1>4, <1>5, <1>6, <1>7, <1>8, <1>9, SaveFrame

LEMMA StepDoneKeeps ==
  ASSUME WorkflowInv, NEW h \in Threads, StepDone(h)
  PROVE  WorkflowInv'
<1> DEFINE v == request[h].wf
           n == request[h].n
<1>1. /\ request[h].pc = "computing" /\ UNCHANGED <<file, solo, clean, failed>>
      /\ request' = [request EXCEPT ![h].pc = "dump"]
      /\ mem' = IF v = NoWorkflow THEN mem ELSE [mem EXCEPT ![v] = @ \cup {n}]
  BY DEF StepDone
<1>2. /\ request[h] \in RequestType /\ mem \in [Workflows -> Outputs]
      /\ request \in [Threads -> RequestType]
  BY DEF WorkflowInv, WorkflowTypeOK
<1>3. v \in Workflows \cup {NoWorkflow} /\ n \in WorkflowSteps
  BY <1>1, <1>2, WorkflowAssumption
     DEF WorkflowAssumption, RequestType, WorkflowSteps, WorkflowInv, RequestsAreSound
<1>4. /\ request'[h] = [request[h] EXCEPT !.pc = "dump"]
      /\ \A g \in Threads : g # h => request'[g] = request[g]
  BY <1>1, <1>2
<1>5. /\ request'[h].pc = "dump" /\ request'[h].wf = v /\ request'[h].n = n
      /\ request'[h].snap = request[h].snap /\ request'[h] \in RequestType
  BY <1>2, <1>4 DEF RequestType
<1> HIDE DEF v, n
<1>6. /\ mem' \in [Workflows -> Outputs]
      /\ \A u \in Workflows : mem[u] \subseteq WorkflowSteps => mem'[u] \subseteq WorkflowSteps
      /\ \A u \in Workflows : /\ Known(mem, u) \subseteq Known(mem', u)
                              /\ u # v => mem'[u] = mem[u]
                              /\ u = v => Known(mem', u) \subseteq Known(mem, u) \cup {n}
  <2>1. CASE v = NoWorkflow
    BY <1>1, <1>2, <2>1, WorkflowAssumption DEF WorkflowAssumption
  <2>2. CASE v # NoWorkflow
    <3>1. v \in Workflows /\ mem[v] \subseteq WorkflowSteps
      BY <1>1, <1>3, <2>2 DEF v, WorkflowInv, RequestsAreSound
    <3>2. /\ mem' = [mem EXCEPT ![v] = mem[v] \cup {n}]
          /\ mem[v] \cup {n} \in Outputs /\ mem[v] \cup {n} \subseteq WorkflowSteps
      BY <1>1, <1>3, <2>2, <3>1 DEF Outputs
    <3>3. /\ mem' \in [Workflows -> Outputs] /\ mem'[v] = mem[v] \cup {n}
          /\ \A u \in Workflows : u # v => mem'[u] = mem[u]
      BY <1>2, <3>1, <3>2
    <3>4. QED BY <3>1, <3>2, <3>3 DEF Known
  <2>3. QED BY <2>1, <2>2
<1>7. WorkflowTypeOK'
  <2>1. request' \in [Threads -> RequestType]
    BY <1>1, <1>2, <1>4, <1>5
  <2>2. QED BY <1>1, <1>6, <2>1 DEF WorkflowInv, WorkflowTypeOK
<1>8. RequestsAreSound'
  <2>1. \A g \in Threads : request[g].wf \in Workflows \cup {NoWorkflow}
    BY <1>2 DEF RequestType
  <2>2. request[h].snap = NoneKnown
    BY <1>1 DEF WorkflowInv, RequestsAreSound
  <2>3. ASSUME NEW g \in Threads, g # h
        PROVE  /\ request'[g].pc = "computing" => request'[g].n # 0
               /\ request'[g].pc = "computing" /\ request'[g].wf # NoWorkflow =>
                    mem'[request'[g].wf] \subseteq WorkflowSteps
               /\ request'[g].pc \in {"idle", "computing", "dump"} => request'[g].snap = NoneKnown
    BY <1>4, <1>6, <2>1, <2>3 DEF WorkflowInv, RequestsAreSound
  <2>4. QED BY <1>5, <2>2, <2>3 DEF RequestsAreSound
<1>9. ASSUME NEW u, NEW k, u = v, k = n
      PROVE  DumpOwed(u, k)'
  BY <1>5, <1>9 DEF DumpOwed, ToDump
<1>10. \A g \in Threads : SaveGoesOn(g) \/ NothingBegun(g)
  BY <1>1, <1>4, <1>5 DEF SaveGoesOn, NothingBegun
<1>11. \A g \in solo' : request'[g].pc = request[g].pc
  BY <1>1, <1>4 DEF WorkflowInv, WorkflowTypeOK, SoleSave, Saving, Dumping
<1>12. ASSUME NEW u \in Workflows
       PROVE  /\ \A k \in Known(mem', u) : k \in Known(mem, u) \/ DumpOwed(u, k)'
              /\ Known(mem, u) \subseteq Known(mem', u)
  <2>1. CASE u = v
    BY <1>6, <1>9, <2>1
  <2>2. CASE u # v
    BY <1>6, <2>2 DEF Known
  <2>3. QED BY <2>1, <2>2
<1>13. QED BY <1>1, <1>7, <1>8, <1>10, <1>11, <1>12, SaveFrame

LEMMA StepRaisesKeeps ==
  ASSUME WorkflowInv, NEW h \in Threads, StepRaises(h)
  PROVE  WorkflowInv'
<1>1. /\ request[h].pc = "computing" /\ request' = [request EXCEPT ![h] = NoRequest]
      /\ UNCHANGED <<mem, file, solo, clean, failed>>
  BY DEF StepRaises
<1>2. /\ request'[h].pc = "idle" /\ request'[h].snap = NoneKnown
      /\ \A g \in Threads : g # h => request'[g] = request[g]
  BY <1>1, NoRequestType DEF WorkflowInv, WorkflowTypeOK
<1>3. WorkflowTypeOK'
  BY <1>1, NoRequestType DEF WorkflowInv, WorkflowTypeOK
<1>4. RequestsAreSound'
  BY <1>1, <1>2 DEF WorkflowInv, RequestsAreSound
<1>5. \A g \in Threads : SaveGoesOn(g) \/ NothingBegun(g)
  BY <1>1, <1>2 DEF SaveGoesOn, NothingBegun
<1>6. \A g \in solo' : request'[g].pc = request[g].pc
  BY <1>1, <1>2 DEF WorkflowInv, WorkflowTypeOK, SoleSave, Saving, Dumping
<1>7. QED BY <1>1, <1>3, <1>4, <1>5, <1>6, SaveFrame

LEMMA DeleteKeeps ==
  ASSUME WorkflowInv, NEW h \in Threads, NEW w \in Workflows, Delete(h, w)
  PROVE  WorkflowInv'
<1> DEFINE new == [NoRequest EXCEPT !.pc = "dump", !.wf = w]
           Other(g) == IF request[g].wf = w /\ request[g].n # 0
                       THEN [Shift(request[g]) EXCEPT !.wf = NoWorkflow] ELSE Shift(request[g])
<1>1. /\ request[h].pc = "idle" /\ mem' = [mem EXCEPT ![w] = NotKnown]
      /\ request' = [g \in Threads |-> IF g = h THEN new ELSE Other(g)]
      /\ solo' = solo \ Dumping /\ failed' = failed \ ({w} \X WorkflowSteps)
      /\ UNCHANGED <<file, clean>>
  BY DEF Delete, Forget
<1>2. /\ new.pc = "dump" /\ new.wf = w /\ new.n = 0 /\ new.snap = NoneKnown
      /\ new \in RequestType
  BY NoRequestType DEF RequestType, NoRequest
<1>3. ASSUME NEW g \in Threads
      PROVE  /\ Other(g) \in RequestType
             /\ Other(g).n = request[g].n /\ Other(g).snap = request[g].snap
             /\ \/ Other(g).pc = request[g].pc
                \/ request[g].pc = "dumping" /\ Other(g).pc = "shifted" /\ g \in Dumping
             /\ Other(g).wf = IF request[g].wf = w /\ request[g].n # 0 THEN NoWorkflow
                              ELSE request[g].wf
  <2>1. /\ Shift(request[g]) \in RequestType
        /\ Shift(request[g]).wf = request[g].wf /\ Shift(request[g]).n = request[g].n
        /\ Shift(request[g]).snap = request[g].snap
        /\ \/ Shift(request[g]).pc = request[g].pc
           \/ request[g].pc = "dumping" /\ Shift(request[g]).pc = "shifted" /\ g \in Dumping
    BY ShiftKeeps DEF Dumping, WorkflowInv, WorkflowTypeOK
  <2>2. CASE request[g].wf = w /\ request[g].n # 0
    <3> DEFINE r == Shift(request[g])
    <3>1. /\ r \in RequestType /\ r.n = request[g].n /\ r.snap = request[g].snap
          /\ Other(g) = [r EXCEPT !.wf = NoWorkflow]
      BY <2>1, <2>2
    <3> HIDE DEF r, Other
    <3>2. /\ Other(g) \in RequestType /\ Other(g).wf = NoWorkflow /\ Other(g).pc = r.pc
          /\ Other(g).n = r.n /\ Other(g).snap = r.snap
      BY <3>1 DEF RequestType
    <3>3. QED BY <2>1, <2>2, <3>1, <3>2 DEF r
  <2>3. CASE ~(request[g].wf = w /\ request[g].n # 0)
    BY <2>1, <2>3
  <2>4. QED BY <2>2, <2>3
<1> HIDE DEF new, Other
<1>4. /\ request' \in [Threads -> RequestType] /\ request'[h] = new
      /\ \A g \in Threads : g # h => request'[g] = Other(g)
  BY <1>1, <1>2, <1>3
<1>5. /\ mem' \in [Workflows -> Outputs] /\ mem'[w] = {0}
      /\ \A v \in Workflows : v # w => mem'[v] = mem[v]
  BY <1>1 DEF WorkflowInv, WorkflowTypeOK, Outputs, NotKnown
<1>6. Known(mem', w) = {} /\ \A v \in Workflows : v # w => Known(mem', v) = Known(mem, v)
  BY <1>5 DEF Known, WorkflowSteps
<1>7. WorkflowTypeOK'
  BY <1>1, <1>4, <1>5 DEF WorkflowInv, WorkflowTypeOK
<1>8. RequestsAreSound'
  <2> SUFFICES ASSUME NEW g \in Threads
               PROVE  /\ request'[g].pc = "computing" => request'[g].n # 0
                      /\ request'[g].pc = "computing" /\ request'[g].wf # NoWorkflow =>
                           mem'[request'[g].wf] \subseteq WorkflowSteps
                      /\ request'[g].pc \in {"idle", "computing", "dump"} =>
                           request'[g].snap = NoneKnown
    BY DEF RequestsAreSound
  <2>1. CASE g = h
    BY <1>2, <1>4, <2>1
  <2>2. CASE g # h
    <3>1. request'[g] = Other(g) /\ request[g].wf \in Workflows \cup {NoWorkflow}
      BY <1>4, <2>2 DEF WorkflowInv, WorkflowTypeOK, RequestType
    <3>2. /\ request'[g].pc = "computing" => request[g].pc = "computing" /\ request[g].n # 0
          /\ request'[g].pc \in {"idle", "computing", "dump"} => request[g].snap = NoneKnown
      BY <1>3, <3>1 DEF WorkflowInv, RequestsAreSound
    <3>3. ASSUME request'[g].pc = "computing", request'[g].wf # NoWorkflow
          PROVE  mem'[request'[g].wf] \subseteq WorkflowSteps
      <4>1. request'[g].wf = request[g].wf /\ request[g].wf # w
        BY <1>3, <3>1, <3>2, <3>3
      <4>2. QED BY <1>5, <3>1, <3>2, <3>3, <4>1 DEF WorkflowInv, RequestsAreSound
    <3>4. QED BY <1>3, <3>1, <3>2, <3>3
  <2>3. QED BY <2>1, <2>2
<1>9. DumpOwed(w, 0)'
  BY <1>2, <1>4 DEF DumpOwed, ToDump
<1>10. ASSUME NEW g \in Threads
       PROVE  SaveGoesOn(g) \/ NothingBegun(g)
  <2>1. CASE g = h
    BY <1>1, <1>2, <1>4, <2>1 DEF NothingBegun
  <2>2. CASE g # h
    BY <1>3, <1>4, <1>6, <2>2 DEF SaveGoesOn
  <2>3. QED BY <2>1, <2>2
<1>11. ASSUME NEW g \in solo'
       PROVE  request'[g].pc = request[g].pc
  <2>1. g \in solo /\ g \in Threads /\ g \notin Dumping
    BY <1>1 DEF WorkflowInv, WorkflowTypeOK
  <2>2. g # h
    BY <1>1, <2>1 DEF WorkflowInv, SoleSave, Saving, Dumping
  <2>3. QED BY <1>3, <1>4, <2>1, <2>2
<1>12. ASSUME NEW v \in Workflows, NEW n \in Known(mem', v) \cup {0}, <<v, n>> \in failed
       PROVE  <<v, n>> \in failed'
  <2>1. CASE v = w
    <3>1. n = 0 /\ 0 \notin WorkflowSteps
      BY <1>6, <2>1, WorkflowAssumption DEF WorkflowAssumption, WorkflowSteps
    <3>2. <<v, n>> \notin {w} \X WorkflowSteps
      BY <3>1
    <3>3. QED BY <1>1, <1>12, <3>2
  <2>2. CASE v # w
    BY <1>1, <1>12, <2>2
  <2>3. QED BY <2>1, <2>2
<1>13. ASSUME NEW v \in Workflows
       PROVE  /\ \A n \in Known(mem', v) : n \in Known(mem, v) \/ DumpOwed(v, n)'
              /\ \A n \in Known(mem, v) : n \in Known(mem', v) \/ DumpOwed(v, 0)'
  BY <1>6, <1>9
<1>14. solo' \subseteq solo
  BY <1>1
<1>15. QED BY <1>1, <1>7, <1>8, <1>10, <1>11, <1>12, <1>13, <1>14, SaveFrame

(* The steps of a save.  A request that begins to dump has dumped nothing, *)
(* and the dump of a sole save is complete when it ends.                   *)
LEMMA DumpKeeps ==
  ASSUME WorkflowInv, NEW h \in Threads, Dump(h)
  PROVE  WorkflowInv'
<1>1. /\ request[h].pc = "dump" /\ UNCHANGED <<mem, file, clean, failed>>
      /\ request' = [request EXCEPT ![h] = [@ EXCEPT !.pc = "dumping", !.keys = InMemory]]
      /\ solo' = IF Saving = {} THEN {h} ELSE {}
  BY DEF Dump
<1>2. /\ request[h] \in RequestType /\ request \in [Threads -> RequestType]
      /\ InMemory \in SUBSET Workflows
  BY DEF WorkflowInv, WorkflowTypeOK, InMemory
<1>3. /\ request'[h] = [request[h] EXCEPT !.pc = "dumping", !.keys = InMemory]
      /\ \A g \in Threads : g # h => request'[g] = request[g]
  BY <1>1, <1>2
<1>4. /\ request'[h] \in RequestType /\ request'[h].pc = "dumping"
      /\ request'[h].wf = request[h].wf /\ request'[h].n = request[h].n
      /\ request'[h].snap = request[h].snap
  BY <1>2, <1>3 DEF RequestType
<1>5. WorkflowTypeOK'
  <2>1. request' \in [Threads -> RequestType]
    BY <1>1, <1>2, <1>3, <1>4
  <2>2. QED BY <1>1, <2>1 DEF WorkflowInv, WorkflowTypeOK
<1>6. RequestsAreSound'
  BY <1>1, <1>3, <1>4 DEF WorkflowInv, RequestsAreSound
<1>7. Saving' = Saving \cup {h}
  BY <1>3, <1>4 DEF Saving, Dumping
<1>8. SoleSave'
  <2>1. \A w \in Workflows : ~Dumped(h, w)'
    BY <1>1, <1>4 DEF Dumped, WorkflowInv, RequestsAreSound, NoneKnown
  <2>2. SnapIsCurrent(h)'
    BY <2>1 DEF SnapIsCurrent
  <2>3. QED BY <1>1, <1>4, <1>7, <2>2 DEF SoleSave
<1>9. FileIsCurrent'
  <2>1. Writing' = Writing /\ Unwritten' = Unwritten
    BY <1>1, <1>3, <1>4 DEF Writing, Unwritten
  <2>2. \A g \in Threads : request'[g].wf = request[g].wf /\ request'[g].n = request[g].n
    BY <1>3, <1>4
  <2>3. Unwritten \subseteq Threads
    BY DEF Unwritten
  <2>4. \A w, n : SaveOwed(w, n)' <=> SaveOwed(w, n)
    BY <2>1, <2>2, <2>3 DEF SaveOwed
  <2>5. QED BY <1>1, <2>1, <2>4 DEF WorkflowInv, FileIsCurrent
<1>10. QED BY <1>5, <1>6, <1>8, <1>9 DEF WorkflowInv

(* A step inside a save that only changes what it has dumped.              *)
LEMMA DumpingFrame ==
  ASSUME WorkflowInv, NEW h \in Threads, UNCHANGED <<mem, file, solo, clean, failed>>,
         request[h].pc \in {"dumping", "shifted"},
         request'[h].pc \in {request[h].pc, "truncate"}, request'[h] \in RequestType,
         request'[h].wf = request[h].wf, request'[h].n = request[h].n,
         request' = [request EXCEPT ![h] = request'[h]],
         h \in solo => SnapIsCurrent(h)'
  PROVE  WorkflowInv'
<1>1. \A g \in Threads : g # h => request'[g] = request[g]
  BY DEF WorkflowInv, WorkflowTypeOK
<1>2. WorkflowTypeOK'
  BY DEF WorkflowInv, WorkflowTypeOK
<1>3. RequestsAreSound'
  BY <1>1 DEF WorkflowInv, RequestsAreSound
<1>4. Saving' = Saving /\ Writing' = Writing /\ Unwritten' = Unwritten
  BY <1>1 DEF Saving, Dumping, Writing, Unwritten
<1>5. SoleSave'
  <2> SUFFICES ASSUME NEW g \in Threads, g \in solo
               PROVE  /\ Saving = {g} /\ request'[g].pc # "shifted"
                      /\ request'[g].pc = "write" => file.state = "empty"
                      /\ SnapIsCurrent(g)'
    BY <1>4 DEF SoleSave
  <2>1. Saving = {g} /\ request[g].pc # "shifted" /\ g = h
    BY DEF WorkflowInv, SoleSave, Saving, Dumping
  <2>2. QED BY <2>1
<1>6. FileIsCurrent'
  <2>1. \A g \in Threads : request'[g].wf = request[g].wf /\ request'[g].n = request[g].n
    BY <1>1
  <2>2. Unwritten \subseteq Threads
    BY DEF Unwritten
  <2>3. \A w, n : SaveOwed(w, n)' <=> SaveOwed(w, n)
    BY <1>4, <2>1, <2>2 DEF SaveOwed
  <2>4. QED BY <1>4, <2>3 DEF WorkflowInv, FileIsCurrent
<1>7. QED BY <1>2, <1>3, <1>5, <1>6 DEF WorkflowInv

(* Who is about to dump does not change, nor what it owes.                 *)
LEMMA DumpOwedFrame ==
  ASSUME NEW h \in Threads, request[h].pc # "dump", request'[h].pc # "dump",
         \A g \in Threads : g # h => request'[g] = request[g]
  PROVE  \A w, n : DumpOwed(w, n)' <=> DumpOwed(w, n)
<1>1. ToDump' = ToDump /\ \A g \in ToDump : request'[g] = request[g]
  BY DEF ToDump
<1>2. QED BY <1>1 DEF DumpOwed

LEMMA DumpItemKeeps ==
  ASSUME WorkflowInv, NEW h \in Threads, NEW w \in Workflows, DumpItem(h, w)
  PROVE  WorkflowInv'
<1> DEFINE snap == [request[h].snap EXCEPT ![w] = mem[w]]
<1>1. /\ request[h].pc \in {"dumping", "shifted"} /\ UNCHANGED <<mem, file, solo, clean, failed>>
      /\ request' = [request EXCEPT ![h].snap[w] = mem[w]]
  BY DEF DumpItem, GoesOn
<1>2. /\ request[h] \in RequestType /\ request \in [Threads -> RequestType]
      /\ request[h].snap \in [Workflows -> Outputs] /\ mem[w] \in Outputs
  BY DEF WorkflowInv, WorkflowTypeOK, RequestType
<1>3. /\ snap \in [Workflows -> Outputs] /\ snap[w] = mem[w]
      /\ \A v \in Workflows : v # w => snap[v] = request[h].snap[v]
  BY <1>2
<1>4. /\ request'[h] = [request[h] EXCEPT !.snap = snap]
      /\ \A g \in Threads : g # h => request'[g] = request[g]
      /\ request' = [request EXCEPT ![h] = request'[h]]
  BY <1>1, <1>2
<1> HIDE DEF snap
<1>5. /\ request'[h] \in RequestType /\ request'[h].snap = snap
      /\ request'[h].pc = request[h].pc
      /\ request'[h].wf = request[h].wf /\ request'[h].n = request[h].n
  BY <1>2, <1>3, <1>4 DEF RequestType
<1>6. ASSUME h \in solo
      PROVE  SnapIsCurrent(h)'
  <2>1. \A v, n : DumpOwed(v, n)' <=> DumpOwed(v, n)
    BY <1>1, <1>4, <1>5, DumpOwedFrame
  <2>2. ASSUME NEW v \in Workflows, Dumped(h, v)'
        PROVE  /\ \A n \in Known(mem, v) : n \in Known(snap, v) \/ DumpOwed(v, n)
               /\ \A n \in Known(snap, v) : n \in Known(mem, v) \/ DumpOwed(v, 0)
    <3>1. CASE v = w
      BY <1>3, <3>1 DEF Known
    <3>2. CASE v # w
      <4>1. Dumped(h, v) /\ Known(snap, v) = Known(request[h].snap, v)
        BY <1>3, <1>5, <2>2, <3>2 DEF Dumped, Known
      <4>2. QED BY <1>6, <4>1 DEF WorkflowInv, SoleSave, SnapIsCurrent
    <3>3. QED BY <3>1, <3>2
  <2>3. QED BY <1>1, <1>5, <2>1, <2>2 DEF SnapIsCurrent
<1>7. QED BY <1>1, <1>4, <1>5, <1>6, DumpingFrame

LEMMA DumpEndKeeps ==
  ASSUME WorkflowInv, NEW h \in Threads, DumpEnd(h)
  PROVE  WorkflowInv'
<1>1. /\ request[h].pc \in {"dumping", "shifted"} /\ UNCHANGED <<mem, file, solo, clean, failed>>
      /\ request[h].pc = "dumping" => \A w \in InMemory : request[h].snap[w] # NotKnown
      /\ request' = [request EXCEPT ![h] = [@ EXCEPT !.pc = "truncate", !.keys = {}]]
  BY DEF DumpEnd, GoesOn
<1>2. request[h] \in RequestType /\ request \in [Threads -> RequestType]
  BY DEF WorkflowInv, WorkflowTypeOK
<1>3. /\ request'[h] = [request[h] EXCEPT !.pc = "truncate", !.keys = {}]
      /\ \A g \in Threads : g # h => request'[g] = request[g]
      /\ request' = [request EXCEPT ![h] = request'[h]]
  BY <1>1, <1>2
<1>4. /\ request'[h] \in RequestType /\ request'[h].pc = "truncate"
      /\ request'[h].snap = request[h].snap
      /\ request'[h].wf = request[h].wf /\ request'[h].n = request[h].n
  BY <1>2, <1>3 DEF RequestType
<1>5. ASSUME h \in solo
      PROVE  SnapIsCurrent(h)'
  <2>1. \A w, n : DumpOwed(w, n)' <=> DumpOwed(w, n)
    BY <1>1, <1>3, <1>4, DumpOwedFrame
  <2>2. request[h].pc = "dumping" /\ SnapIsCurrent(h)
    BY <1>1, <1>5 DEF WorkflowInv, SoleSave
  <2>3. ASSUME NEW w \in Workflows
        PROVE  /\ \A n \in Known(mem, w) : n \in Known(request[h].snap, w) \/ DumpOwed(w, n)
               /\ \A n \in Known(request[h].snap, w) : n \in Known(mem, w) \/ DumpOwed(w, 0)
    <3>1. CASE request[h].snap[w] # NotKnown
      BY <2>2, <3>1 DEF SnapIsCurrent, Dumped
    <3>2. CASE request[h].snap[w] = NotKnown
      <4>1. mem[w] = NotKnown
        BY <1>1, <2>2, <3>2 DEF InMemory
      <4>2. QED BY <3>2, <4>1 DEF Known
    <3>3. QED BY <3>1, <3>2
  <2>4. QED BY <1>1, <1>4, <2>1, <2>3 DEF SnapIsCurrent
<1>6. QED BY <1>1, <1>3, <1>4, <1>5, DumpingFrame

LEMMA TruncateKeeps ==
  ASSUME WorkflowInv, NEW h \in Threads, Truncate(h)
  PROVE  WorkflowInv'
<1>1. /\ request[h].pc = "truncate" /\ UNCHANGED <<mem, solo, clean, failed>>
      /\ file' = [state |-> "empty", data |-> NoneKnown]
      /\ request' = [request EXCEPT ![h].pc = "write"]
  BY DEF Truncate
<1>2. request[h] \in RequestType /\ request \in [Threads -> RequestType]
  BY DEF WorkflowInv, WorkflowTypeOK
<1>3. /\ request'[h] = [request[h] EXCEPT !.pc = "write"]
      /\ \A g \in Threads : g # h => request'[g] = request[g]
  BY <1>1, <1>2
<1>4. request'[h] \in RequestType /\ request'[h].pc = "write" /\ request'[h].snap = request[h].snap
  BY <1>2, <1>3 DEF RequestType
<1>5. WorkflowTypeOK'
  <2>1. request' \in [Threads -> RequestType]
    BY <1>1, <1>2, <1>3, <1>4
  <2>2. file' \in [state : {"parses", "torn", "empty"}, data : [Workflows -> Outputs]]
    BY <1>1, NoRequestType
  <2>3. QED BY <1>1, <2>1, <2>2 DEF WorkflowInv, WorkflowTypeOK
<1>6. RequestsAreSound'
  BY <1>1, <1>3, <1>4 DEF WorkflowInv, RequestsAreSound
<1>7. Saving' = Saving /\ h \in Saving /\ h \in Writing'
  BY <1>1, <1>3, <1>4 DEF Saving, Dumping, Writing
<1>8. SoleSave'
  <2> SUFFICES ASSUME NEW g \in Threads, g \in solo
               PROVE  /\ Saving = {g} /\ request'[g].pc # "shifted"
                      /\ SnapIsCurrent(g)'
    BY <1>1, <1>7 DEF SoleSave
  <2>1. Saving = {g} /\ g = h /\ SnapIsCurrent(h)
    BY <1>7 DEF WorkflowInv, SoleSave
  <2>2. \A w, n : DumpOwed(w, n)' <=> DumpOwed(w, n)
    BY <1>1, <1>3, <1>4, DumpOwedFrame
  <2>3. \A w \in Workflows : Dumped(h, w)
    BY <1>1 DEF Dumped
  <2>4. QED BY <1>1, <1>4, <2>1, <2>2, <2>3 DEF SnapIsCurrent
<1>9. FileIsCurrent'
  BY <1>7 DEF FileIsCurrent
<1>10. QED BY <1>5, <1>6, <1>8, <1>9 DEF WorkflowInv

(* A request that leaves its save.  It was the sole one, or there is none. *)
LEMMA SaveLeft ==
  ASSUME WorkflowInv, NEW h \in Threads, h \in Saving,
         request' = [request EXCEPT ![h] = NoRequest], solo' = solo \ {h}, mem' = mem
  PROVE  /\ request' \in [Threads -> RequestType] /\ RequestsAreSound' /\ SoleSave'
         /\ request'[h].pc = "idle"
         /\ \A g \in Threads : g # h => request'[g] = request[g]
         /\ \A w, n : DumpOwed(w, n)' <=> DumpOwed(w, n)
<1>1. /\ request' \in [Threads -> RequestType]
      /\ request'[h].pc = "idle" /\ request'[h].snap = NoneKnown
      /\ \A g \in Threads : g # h => request'[g] = request[g]
  BY NoRequestType DEF WorkflowInv, WorkflowTypeOK
<1>2. RequestsAreSound'
  BY <1>1 DEF WorkflowInv, RequestsAreSound
<1>3. SoleSave'
  <2>1. \A g \in Threads : g \in solo => g = h
    BY DEF WorkflowInv, SoleSave
  <2>2. QED BY <2>1 DEF SoleSave
<1>4. \A w, n : DumpOwed(w, n)' <=> DumpOwed(w, n)
  <2>1. request[h].pc # "dump"
    BY DEF Saving, Dumping
  <2>2. QED BY <1>1, <2>1, DumpOwedFrame
<1>5. QED BY <1>1, <1>2, <1>3, <1>4

(* Only a whole write of a sole save leaves the file clean.                *)
LEMMA WriteKeeps ==
  ASSUME WorkflowInv, NEW h \in Threads, Write(h)
  PROVE  WorkflowInv'
<1>1. /\ request[h].pc = "write" /\ request' = [request EXCEPT ![h] = NoRequest]
      /\ clean' = (h \in solo) /\ failed' = {} /\ solo' = solo \ {h} /\ mem' = mem
  BY DEF Write
<1>2. PICK state \in {"parses", "torn"} :
        /\ file.state = "empty" => state = "parses"
        /\ file' = [state |-> state, data |-> IF state = "torn" THEN NoneKnown ELSE request[h].snap]
  BY DEF Write
<1>3. h \in Saving
  BY <1>1 DEF Saving
<1>4. /\ request' \in [Threads -> RequestType] /\ RequestsAreSound' /\ SoleSave'
      /\ \A w, n : DumpOwed(w, n)' <=> DumpOwed(w, n)
  BY <1>1, <1>3, SaveLeft
<1>5. WorkflowTypeOK'
  <2>1. request[h].snap \in [Workflows -> Outputs] /\ solo \subseteq Threads
        /\ mem \in [Workflows -> Outputs]
    BY DEF WorkflowInv, WorkflowTypeOK, RequestType
  <2>2. file' \in [state : {"parses", "torn", "empty"}, data : [Workflows -> Outputs]]
    BY <1>2, <2>1, NoRequestType
  <2>3. QED BY <1>1, <1>4, <2>1, <2>2 DEF WorkflowTypeOK
<1>6. FileIsCurrent'
  <2> SUFFICES ASSUME h \in solo, NEW w \in Workflows
               PROVE  /\ \A n \in Known(mem, w) : n \in InFile(file', w) \/ SaveOwed(w, n)'
                      /\ \A n \in InFile(file', w) : n \in Known(mem, w) \/ SaveOwed(w, 0)'
    BY <1>1 DEF FileIsCurrent
  <2>1. file' = [state |-> "parses", data |-> request[h].snap]
    BY <1>1, <1>2 DEF WorkflowInv, SoleSave
  <2>2. InFile(file', w) = Known(request[h].snap, w)
    BY <2>1 DEF InFile, Known
  <2>3. /\ \A n \in Known(mem, w) : n \in Known(request[h].snap, w) \/ DumpOwed(w, n)
        /\ \A n \in Known(request[h].snap, w) : n \in Known(mem, w) \/ DumpOwed(w, 0)
    BY <1>1 DEF WorkflowInv, SoleSave, SnapIsCurrent, Dumped
  <2>4. \A n : DumpOwed(w, n) => SaveOwed(w, n)'
    BY <1>4 DEF DumpOwed, SaveOwed, ToDump, Unwritten
  <2>5. QED BY <2>2, <2>3, <2>4
<1>7. QED BY <1>4, <1>5, <1>6 DEF WorkflowInv

(* A save that raises before it opened the file owes what it has failed.   *)
LEMMA RaiseKeeps ==
  ASSUME WorkflowInv, NEW h \in Threads, DumpRaises(h) \/ OpenRaises(h)
  PROVE  WorkflowInv'
<1>1. /\ request[h].pc \in {"shifted", "truncate"} /\ UNCHANGED <<mem, file, clean>>
      /\ request' = [request EXCEPT ![h] = NoRequest] /\ solo' = solo \ {h}
      /\ failed' = IF clean THEN failed \cup Owed(h) ELSE failed
  BY DEF DumpRaises, OpenRaises, SaveRaises
<1>2. h \in Saving
  BY <1>1 DEF Saving, Dumping
<1>3. /\ request' \in [Threads -> RequestType] /\ RequestsAreSound' /\ SoleSave'
      /\ request'[h].pc = "idle"
      /\ \A g \in Threads : g # h => request'[g] = request[g]
  BY <1>1, <1>2, SaveLeft
<1>4. WorkflowTypeOK'
  <2>1. Owed(h) \subseteq Workflows \X (0..LastStep)
    BY DEF Owed, WorkflowInv, WorkflowTypeOK, RequestType
  <2>2. QED BY <1>1, <1>3, <2>1 DEF WorkflowInv, WorkflowTypeOK
<1>5. FileIsCurrent'
  <2> SUFFICES ASSUME clean, Writing' = {}, NEW w \in Workflows
               PROVE  /\ \A n \in Known(mem, w) :
                           n \in InFile(file, w) \/ <<w, n>> \in failed' \/ SaveOwed(w, n)'
                      /\ \A n \in InFile(file, w) :
                           n \in Known(mem, w) \/ <<w, 0>> \in failed' \/ SaveOwed(w, 0)'
    BY <1>1 DEF FileIsCurrent
  <2>1. Writing = {}
    BY <1>1, <1>3 DEF Writing
  <2>2. ASSUME NEW n, SaveOwed(w, n)
        PROVE  <<w, n>> \in failed' \/ SaveOwed(w, n)'
    <3>1. PICK g \in Unwritten : request[g].wf = w /\ request[g].n = n
      BY <2>2 DEF SaveOwed
    <3>2. CASE g = h
      BY <1>1, <3>1, <3>2, WorkflowAssumption DEF WorkflowAssumption, Owed
    <3>3. CASE g # h
      BY <1>3, <3>1, <3>3 DEF SaveOwed, Unwritten
    <3>4. QED BY <3>2, <3>3
  <2>3. failed \subseteq failed'
    BY <1>1
  <2>4. QED BY <2>1, <2>2, <2>3 DEF WorkflowInv, FileIsCurrent
<1>6. QED BY <1>3, <1>4, <1>5 DEF WorkflowInv

LEMMA WriteRaisesKeeps ==
  ASSUME WorkflowInv, NEW h \in Threads, WriteRaises(h)
  PROVE  WorkflowInv'
<1>1. /\ request[h].pc = "write" /\ request' = [request EXCEPT ![h] = NoRequest]
      /\ solo' = solo \ {h} /\ mem' = mem /\ clean' = FALSE /\ failed' = {}
      /\ file' \in {file, [state |-> "torn", data |-> NoneKnown]}
  BY DEF WriteRaises, SaveRaises
<1>2. h \in Saving
  BY <1>1 DEF Saving
<1>3. request' \in [Threads -> RequestType] /\ RequestsAreSound' /\ SoleSave'
  BY <1>1, <1>2, SaveLeft
<1>4. WorkflowTypeOK'
  <2>1. file' \in [state : {"parses", "torn", "empty"}, data : [Workflows -> Outputs]]
    BY <1>1, NoRequestType DEF WorkflowInv, WorkflowTypeOK
  <2>2. /\ mem' \in [Workflows -> Outputs] /\ solo' \subseteq Threads
        /\ clean' \in BOOLEAN /\ failed' \subseteq Workflows \X (0..LastStep)
    BY <1>1 DEF WorkflowInv, WorkflowTypeOK
  <2>3. QED BY <1>3, <2>1, <2>2 DEF WorkflowTypeOK
<1>5. FileIsCurrent'
  BY <1>1 DEF FileIsCurrent
<1>6. QED BY <1>3, <1>4, <1>5 DEF WorkflowInv

LEMMA WorkflowsUnchanged == WorkflowInv /\ UNCHANGED workflowVars => WorkflowInv'
BY DEF WorkflowInv, WorkflowTypeOK, RequestsAreSound, SoleSave, SnapIsCurrent, Dumped,
       FileIsCurrent, Saving, Dumping, Writing, Unwritten, ToDump, DumpOwed, SaveOwed, Known,
       InFile, workflowVars

-------------------------------------------------------------------------------
(* Models.  What may be promoted in a high-impact class was assigned its   *)
(* status, and a promotion goes on only for an approved version; while no  *)
(* status was assigned and no two promotions overlapped, a promotion still *)
(* sees the champion that it has read.                                     *)
AssignedOnly ==
  impact = "high" =>
    /\ registry.champion \in assigned \cup {NoVersion}
    /\ registry.challenger \in assigned \cup {NoVersion}
    /\ \A h \in Promoters : promotion[h].challenger \in assigned \cup {NoVersion}

NamedIsApproved ==
  /\ crown.way = "promoted" =>
       /\ registry.champion # NoVersion
       /\ impact = "high" => crown.named \in Versions /\ cert[crown.named] # "none"
  /\ \A h \in Promoters : promotion[h].pc # "idle" /\ impact = "high" =>
       promotion[h].named \in Versions /\ cert[promotion[h].named] # "none"

SolePromotion ==
  assigned = {} /\ ~crossed =>
    \A h \in Promoters : promotion[h].pc # "idle" =>
      /\ promotion[h].pc = "write" => promotion[h].champion = registry.champion
      /\ \A g \in Promoters : promotion[g].pc # "idle" => g = h

HasChallenger ==
  \A h \in Promoters : promotion[h].pc = "write" => promotion[h].challenger \in Versions

GovernanceInv ==
  /\ GovernanceTypeOK /\ HasChallenger /\ AssignedOnly /\ NamedIsApproved
  /\ SolePromotion /\ OneChampion

RegistryType ==
  [status : [Versions -> Statuses \cup {"unknown"}],
   champion : Versions \cup {NoVersion}, challenger : Versions \cup {NoVersion}]

LEMMA Updated ==
  ASSUME NEW reg \in RegistryType, NEW v \in Versions, NEW s \in Statuses
  PROVE  /\ UpdateStatus(reg, v, s) \in RegistryType
         /\ UpdateStatus(reg, v, s).status = [reg.status EXCEPT ![v] = s]
         /\ UpdateStatus(reg, v, s).champion = IF s = "champion" THEN v ELSE reg.champion
         /\ UpdateStatus(reg, v, s).champion \in {v, reg.champion}
         /\ UpdateStatus(reg, v, s).challenger \in {v, reg.challenger, NoVersion}
         /\ s # "challenger" => UpdateStatus(reg, v, s).challenger \in {reg.challenger, NoVersion}
BY DEF UpdateStatus, RegistryType, Statuses

LEMMA NoModels == GovernanceInit => GovernanceInv
<1> SUFFICES ASSUME GovernanceInit PROVE GovernanceInv
  OBVIOUS
<1>1. GovernanceTypeOK
  BY DEF GovernanceInit, GovernanceTypeOK, NoPromotion, NoCrown
<1>3. HasChallenger /\ AssignedOnly /\ NamedIsApproved /\ SolePromotion /\ OneChampion
  BY DEF GovernanceInit, HasChallenger, AssignedOnly, NamedIsApproved, SolePromotion, OneChampion,
         NoPromotion, NoCrown
<1>2. QED BY <1>1, <1>3 DEF GovernanceInv

LEMMA ModelsForgotten == GovernanceInv /\ ForgetModels => GovernanceInv'
<1> SUFFICES ASSUME GovernanceInv, ForgetModels PROVE GovernanceInv'
  OBVIOUS
<1>1. GovernanceTypeOK'
  BY DEF ForgetModels, GovernanceInv, GovernanceTypeOK, NoPromotion, NoCrown
<1>2. HasChallenger' /\ AssignedOnly' /\ NamedIsApproved' /\ SolePromotion' /\ OneChampion'
  BY DEF ForgetModels, HasChallenger, AssignedOnly, NamedIsApproved, SolePromotion, OneChampion,
         NoPromotion, NoCrown
<1>3. QED BY <1>1, <1>2 DEF GovernanceInv

LEMMA RegisterKeeps ==
  ASSUME GovernanceInv, NEW v \in Versions, RegisterModel(v)
  PROVE  GovernanceInv'
<1> DEFINE s == IF impact = "high" THEN "draft" ELSE "challenger"
<1>1. registry' = UpdateStatus(registry, v, s) /\ UNCHANGED <<impact, cert, promotion, assigned, crown, crossed>>
  BY DEF RegisterModel
<1>2. registry \in RegistryType /\ s \in Statuses /\ s # "champion"
  BY DEF GovernanceInv, GovernanceTypeOK, RegistryType, Statuses
<1>3. impact = "high" => s # "challenger"
  OBVIOUS
<1> HIDE DEF s
<1>4. /\ registry' \in RegistryType /\ registry'.champion = registry.champion
      /\ registry'.status = [registry.status EXCEPT ![v] = s]
      /\ impact = "high" => registry'.challenger \in {registry.challenger, NoVersion}
  BY <1>1, <1>2, <1>3, Updated
<1>5. GovernanceTypeOK'
  BY <1>1, <1>4 DEF GovernanceInv, GovernanceTypeOK, RegistryType
<1>6. HasChallenger' /\ AssignedOnly' /\ NamedIsApproved' /\ SolePromotion'
  BY <1>1, <1>4 DEF GovernanceInv, HasChallenger, AssignedOnly, NamedIsApproved, SolePromotion
<1>7. OneChampion'
  BY <1>1, <1>2, <1>4 DEF GovernanceInv, OneChampion, RegistryType
<1>8. QED BY <1>5, <1>6, <1>7 DEF GovernanceInv

LEMMA ReviewKeeps ==
  ASSUME GovernanceInv, NEW v \in Versions,
         ApproveModel(v) \/ RejectModel(v) \/ CertificationEnds(v)
  PROVE  GovernanceInv'
<1>1. CASE ApproveModel(v) \/ CertificationEnds(v)
  <2>1. /\ UNCHANGED <<impact, registry, promotion, assigned, crown, crossed>>
        /\ cert' \in [Versions -> {"none", "valid", "expired"}]
        /\ \A u \in Versions : cert[u] # "none" => cert'[u] # "none"
    BY <1>1 DEF ApproveModel, CertificationEnds, GovernanceInv, GovernanceTypeOK
  <2>2. GovernanceTypeOK' /\ HasChallenger' /\ AssignedOnly' /\ SolePromotion' /\ OneChampion'
    BY <2>1 DEF GovernanceInv, GovernanceTypeOK, HasChallenger, AssignedOnly, SolePromotion, OneChampion
  <2>3. NamedIsApproved'
    BY <2>1 DEF GovernanceInv, NamedIsApproved
  <2>4. QED BY <2>2, <2>3 DEF GovernanceInv
<1>2. CASE RejectModel(v)
  <2>1. /\ registry' = UpdateStatus(registry, v, "retired") /\ registry \in RegistryType
        /\ UNCHANGED <<impact, cert, promotion, assigned, crown, crossed>> /\ "retired" \in Statuses
    BY <1>2 DEF RejectModel, GovernanceInv, GovernanceTypeOK, RegistryType, Statuses
  <2>2. /\ registry' \in RegistryType /\ registry'.champion = registry.champion
        /\ registry'.status = [registry.status EXCEPT ![v] = "retired"]
        /\ registry'.challenger \in {registry.challenger, NoVersion}
    BY <2>1, Updated
  <2>3. GovernanceTypeOK'
    BY <2>1, <2>2 DEF GovernanceInv, GovernanceTypeOK, RegistryType
  <2>4. HasChallenger' /\ AssignedOnly' /\ NamedIsApproved' /\ SolePromotion'
    BY <2>1, <2>2 DEF GovernanceInv, HasChallenger, AssignedOnly, NamedIsApproved, SolePromotion
  <2>5. OneChampion'
    BY <2>1, <2>2 DEF GovernanceInv, OneChampion, RegistryType
  <2>6. QED BY <2>3, <2>4, <2>5 DEF GovernanceInv
<1>3. QED BY <1>1, <1>2

(* Once a status was assigned only what it leaves to the promotions says   *)
(* anything.                                                               *)
LEMMA HandKeeps ==
  ASSUME GovernanceInv, NEW v \in Versions, NEW u \in Versions,
         (\E s \in Statuses : SetStatus(v, s)) \/ StartEvaluation(v, u)
  PROVE  GovernanceInv'
<1>1. registry \in RegistryType /\ {"champion", "challenger"} \subseteq Statuses
  BY DEF GovernanceInv, GovernanceTypeOK, RegistryType, Statuses
<1>2. /\ UNCHANGED <<impact, cert, promotion, crossed>> /\ v \in assigned'
      /\ assigned \subseteq assigned' /\ assigned' \subseteq Versions
      /\ crown' \in {crown, Assigned}
  BY DEF SetStatus, StartEvaluation, GovernanceInv, GovernanceTypeOK
<1>3. /\ registry' \in RegistryType
      /\ registry'.champion \in {registry.champion} \cup assigned'
      /\ registry'.challenger \in {registry.challenger, NoVersion} \cup assigned'
  <2>1. CASE \E s \in Statuses : SetStatus(v, s)
    <3>1. PICK s \in Statuses : registry' = UpdateStatus(registry, v, s)
      BY <2>1 DEF SetStatus
    <3>2. /\ UpdateStatus(registry, v, s) \in RegistryType
          /\ UpdateStatus(registry, v, s).champion \in {v, registry.champion}
          /\ UpdateStatus(registry, v, s).challenger \in {v, registry.challenger, NoVersion}
      BY <1>1, Updated
    <3>3. QED BY <1>2, <3>1, <3>2
  <2>2. CASE StartEvaluation(v, u)
    <3> DEFINE champ == IF registry.status[v] = "champion" THEN registry
                        ELSE UpdateStatus(registry, v, "champion")
    <3>1. /\ registry' = IF champ.status[u] = "challenger" THEN champ
                         ELSE UpdateStatus(champ, u, "challenger")
          /\ u \in assigned'
      BY <2>2 DEF StartEvaluation
    <3>2. /\ champ \in RegistryType
          /\ champ.champion \in {registry.champion, v}
          /\ champ.challenger \in {registry.challenger, NoVersion, v}
      BY <1>1, Updated
    <3> HIDE DEF champ
    <3>3. /\ registry' \in RegistryType
          /\ registry'.champion \in {champ.champion, u}
          /\ registry'.challenger \in {champ.challenger, NoVersion, u}
      <4>1. CASE champ.status[u] = "challenger"
        BY <3>1, <3>2, <4>1
      <4>2. CASE champ.status[u] # "challenger"
        <5>1. registry' = UpdateStatus(champ, u, "challenger") /\ "challenger" \in Statuses
          BY <1>1, <3>1, <4>2
        <5>2. /\ UpdateStatus(champ, u, "challenger") \in RegistryType
              /\ UpdateStatus(champ, u, "challenger").champion \in {u, champ.champion}
              /\ UpdateStatus(champ, u, "challenger").challenger \in {u, champ.challenger, NoVersion}
          BY <3>2, <5>1, Updated
        <5>3. QED BY <5>1, <5>2
      <4>3. QED BY <4>1, <4>2
    <3>4. QED BY <1>2, <3>1, <3>2, <3>3
  <2>3. QED BY <2>1, <2>2
<1>4. GovernanceTypeOK'
  BY <1>2, <1>3 DEF GovernanceInv, GovernanceTypeOK, RegistryType, Assigned
<1>5. HasChallenger' /\ AssignedOnly' /\ SolePromotion' /\ OneChampion'
  BY <1>2, <1>3 DEF GovernanceInv, HasChallenger, AssignedOnly, SolePromotion, OneChampion
<1>6. NamedIsApproved'
  BY <1>2, <1>3, GovernanceAssumption
     DEF GovernanceAssumption, GovernanceInv, NamedIsApproved, Assigned
<1>7. QED BY <1>4, <1>5, <1>6 DEF GovernanceInv

LEMMA SetChampionKeeps ==
  ASSUME GovernanceInv, NEW h \in Promoters, NEW v \in Versions, SetChampion(h, v)
  PROVE  GovernanceInv'
<1> DEFINE new == [promotion[h] EXCEPT !.pc = "read", !.named = v]
<1>1. /\ promotion[h].pc = "idle" /\ promotion' = [promotion EXCEPT ![h] = new]
      /\ crossed' = (crossed \/ \E g \in Promoters : promotion[g].pc # "idle")
      /\ UNCHANGED <<impact, registry, cert, assigned, crown>>
      /\ impact = "high" => cert[v] # "none"
  BY DEF SetChampion
<1>6. /\ new \in [pc : {"idle", "read", "write"}, named : Versions \cup {NoVersion},
                  challenger : Versions \cup {NoVersion}, champion : Versions \cup {NoVersion}]
      /\ new.pc = "read" /\ new.named = v /\ new.challenger = promotion[h].challenger
  BY DEF GovernanceInv, GovernanceTypeOK
<1> HIDE DEF new
<1>7. promotion'[h] = new /\ \A g \in Promoters : g # h => promotion'[g] = promotion[g]
  BY <1>1 DEF GovernanceInv, GovernanceTypeOK
<1>2. GovernanceTypeOK'
  BY <1>1, <1>6 DEF GovernanceInv, GovernanceTypeOK
<1>3. HasChallenger' /\ AssignedOnly' /\ OneChampion'
  BY <1>1, <1>6, <1>7 DEF GovernanceInv, HasChallenger, AssignedOnly, OneChampion
<1>8. NamedIsApproved'
  BY <1>1, <1>6, <1>7 DEF GovernanceInv, NamedIsApproved
<1>4. SolePromotion'
  <2> SUFFICES ASSUME assigned' = {}, ~crossed', NEW f \in Promoters, promotion'[f].pc # "idle"
               PROVE  /\ promotion'[f].pc = "write" => promotion'[f].champion = registry'.champion
                      /\ \A g \in Promoters : promotion'[g].pc # "idle" => g = f
    BY DEF SolePromotion
  <2>1. \A g \in Promoters : promotion[g].pc = "idle"
    BY <1>1
  <2>2. \A g \in Promoters : promotion'[g].pc # "idle" => g = h /\ promotion'[g].pc = "read"
    BY <1>6, <1>7, <2>1
  <2>3. QED BY <2>2
<1>5. QED BY <1>2, <1>3, <1>4, <1>8 DEF GovernanceInv

LEMMA PromoteReadKeeps ==
  ASSUME GovernanceInv, NEW h \in Promoters, PromoteRead(h)
  PROVE  GovernanceInv'
<1> DEFINE new == IF registry.challenger = NoVersion THEN NoPromotion
                  ELSE [promotion[h] EXCEPT !.pc = "write", !.challenger = registry.challenger,
                                            !.champion = registry.champion]
<1>1. /\ promotion[h].pc = "read" /\ promotion' = [promotion EXCEPT ![h] = new]
      /\ UNCHANGED <<impact, registry, cert, assigned, crown, crossed>>
  BY DEF PromoteRead
<1>2. /\ new \in [pc : {"idle", "read", "write"}, named : Versions \cup {NoVersion},
                  challenger : Versions \cup {NoVersion}, champion : Versions \cup {NoVersion}]
      /\ new.challenger \in {registry.challenger, NoVersion}
      /\ new.pc = "write" => new.champion = registry.champion /\ new.challenger # NoVersion
      /\ new.pc # "idle" => new.named = promotion[h].named
  <2>1. CASE registry.challenger = NoVersion
    <3>1. new = NoPromotion
      BY <2>1
    <3> HIDE DEF new
    <3>2. QED BY <3>1 DEF NoPromotion
  <2>2. CASE registry.challenger # NoVersion
    <3> DEFINE old == promotion[h]  c == registry.challenger  p == registry.champion
    <3>1. /\ old \in [pc : {"idle", "read", "write"}, named : Versions \cup {NoVersion},
                      challenger : Versions \cup {NoVersion}, champion : Versions \cup {NoVersion}]
          /\ c \in Versions \cup {NoVersion} /\ p \in Versions \cup {NoVersion}
      BY DEF GovernanceInv, GovernanceTypeOK
    <3>2. new = [old EXCEPT !.pc = "write", !.challenger = c, !.champion = p]
      BY <2>2
    <3> HIDE DEF new, old, c, p
    <3>3. /\ new \in [pc : {"idle", "read", "write"}, named : Versions \cup {NoVersion},
                      challenger : Versions \cup {NoVersion}, champion : Versions \cup {NoVersion}]
          /\ new.pc = "write" /\ new.challenger = c /\ new.champion = p /\ new.named = old.named
      BY <3>1, <3>2
    <3>4. QED BY <2>2, <3>3 DEF old, c, p
  <2>3. QED BY <2>1, <2>2
<1> HIDE DEF new
<1>3. GovernanceTypeOK'
  BY <1>1, <1>2 DEF GovernanceInv, GovernanceTypeOK
<1>4. HasChallenger' /\ AssignedOnly' /\ OneChampion'
  <2>1. /\ promotion'[h] = new /\ \A g \in Promoters : g # h => promotion'[g] = promotion[g]
        /\ new.pc = "write" => new.challenger \in Versions
    BY <1>1, <1>2 DEF GovernanceInv, GovernanceTypeOK
  <2>2. HasChallenger'
    BY <2>1 DEF GovernanceInv, HasChallenger
  <2>3. AssignedOnly'
    BY <1>1, <1>2, <2>1 DEF GovernanceInv, AssignedOnly
  <2>4. QED BY <1>1, <2>2, <2>3 DEF GovernanceInv, OneChampion
<1>5. SolePromotion'
  <2>1. \A g \in Promoters :
          /\ promotion'[g].pc # "idle" => promotion[g].pc # "idle"
          /\ g # h => promotion'[g] = promotion[g]
          /\ promotion'[h] = new
    BY <1>1 DEF GovernanceInv, GovernanceTypeOK
  <2>2. QED BY <1>1, <1>2, <2>1 DEF GovernanceInv, SolePromotion
<1>6. NamedIsApproved'
  <2>1. promotion'[h] = new /\ \A g \in Promoters : g # h => promotion'[g] = promotion[g]
    BY <1>1 DEF GovernanceInv, GovernanceTypeOK
  <2>2. QED BY <1>1, <1>2, <2>1 DEF GovernanceInv, NamedIsApproved
<1>7. QED BY <1>3, <1>4, <1>5, <1>6 DEF GovernanceInv

(* The champion that was read is the last version with the status.         *)
LEMMA PromoteWriteKeeps ==
  ASSUME GovernanceInv, NEW h \in Promoters, PromoteWrite(h)
  PROVE  GovernanceInv'
<1> DEFINE old == promotion[h].champion
           new == promotion[h].challenger
           reg == IF old = NoVersion THEN registry ELSE UpdateStatus(registry, old, "retired")
<1>1. /\ promotion[h].pc = "write" /\ promotion' = [promotion EXCEPT ![h] = NoPromotion]
      /\ registry' = UpdateStatus(reg, new, "champion")
      /\ crown' = [way |-> "promoted", named |-> promotion[h].named]
      /\ UNCHANGED <<impact, cert, assigned, crossed>>
  BY DEF PromoteWrite
<1>2. /\ registry \in RegistryType /\ {"champion", "retired"} \subseteq Statuses
      /\ old \in Versions \cup {NoVersion} /\ new \in Versions
  BY <1>1 DEF GovernanceInv, GovernanceTypeOK, HasChallenger, RegistryType, Statuses
<1> HIDE DEF old, new
<1>3. /\ reg \in RegistryType /\ reg.champion = registry.champion
      /\ reg.challenger \in {registry.challenger, NoVersion}
      /\ reg.status = IF old = NoVersion THEN registry.status
                      ELSE [registry.status EXCEPT ![old] = "retired"]
  <2>1. CASE old = NoVersion
    BY <1>2, <2>1
  <2>2. CASE old # NoVersion
    BY <1>2, <2>2, Updated
  <2>3. QED BY <2>1, <2>2
<1> HIDE DEF reg
<1>4. /\ registry' \in RegistryType /\ registry'.champion = new
      /\ registry'.challenger \in {registry.challenger, NoVersion}
      /\ registry'.status = [reg.status EXCEPT ![new] = "champion"]
  BY <1>1, <1>2, <1>3, Updated
<1>5. /\ promotion'[h] = NoPromotion
      /\ \A g \in Promoters : g # h => promotion'[g] = promotion[g]
  BY <1>1 DEF GovernanceInv, GovernanceTypeOK
<1>6. GovernanceTypeOK'
  <2>1. promotion[h].named \in Versions \cup {NoVersion}
    BY DEF GovernanceInv, GovernanceTypeOK
  <2>2. QED BY <1>1, <1>4, <2>1 DEF GovernanceInv, GovernanceTypeOK, RegistryType, NoPromotion
<1>7. HasChallenger'
  BY <1>5 DEF GovernanceInv, HasChallenger, NoPromotion
<1>8. AssignedOnly'
  BY <1>1, <1>4, <1>5 DEF new, GovernanceInv, AssignedOnly, NoPromotion
<1>9. SolePromotion'
  BY <1>1, <1>5 DEF GovernanceInv, SolePromotion, NoPromotion
<1>10. OneChampion'
  <2> SUFFICES ASSUME assigned = {}, ~crossed, NEW v \in Versions, registry'.status[v] = "champion",
                      v # new
               PROVE  FALSE
    BY <1>1, <1>4 DEF OneChampion
  <2>1. old = registry.champion
    BY <1>1 DEF old, GovernanceInv, SolePromotion
  <2>2. reg.status[v] = "champion"
    <3>1. reg.status \in [Versions -> Statuses \cup {"unknown"}]
      BY <1>3 DEF RegistryType
    <3>2. QED BY <1>2, <1>4, <3>1
  <2>3. registry.status[v] = "champion" /\ v # old
    <3>1. registry.status \in [Versions -> Statuses \cup {"unknown"}]
      BY <1>2 DEF RegistryType
    <3>2. CASE old = NoVersion
      BY <1>3, <2>2, <3>2, GovernanceAssumption DEF GovernanceAssumption
    <3>3. CASE old # NoVersion
      BY <1>2, <1>3, <2>2, <3>1, <3>3
    <3>4. QED BY <3>2, <3>3
  <2>4. QED BY <2>1, <2>3 DEF GovernanceInv, OneChampion
<1>11. NamedIsApproved'
  BY <1>1, <1>2, <1>4, <1>5, GovernanceAssumption
     DEF GovernanceAssumption, GovernanceInv, NamedIsApproved, NoPromotion
<1>12. QED BY <1>6, <1>7, <1>8, <1>9, <1>10, <1>11 DEF GovernanceInv

LEMMA ModelsUnchanged == GovernanceInv /\ UNCHANGED governanceVars => GovernanceInv'
BY DEF GovernanceInv, GovernanceTypeOK, HasChallenger, AssignedOnly, NamedIsApproved, SolePromotion,
       OneChampion, governanceVars

-------------------------------------------------------------------------------
RolloutsInv == CanaryInv /\ WorkflowInv /\ GovernanceInv

LEMMA Invariant == Spec => []RolloutsInv
<1>1. Init => RolloutsInv
  BY NoCanaries, NoWorkflows, NoModels DEF Init, CanaryInit, RolloutsInv
<1>2. RolloutsInv /\ [Next]_vars => RolloutsInv'
  <2> SUFFICES ASSUME CanaryInv, WorkflowInv, GovernanceInv, [Next]_vars
               PROVE  CanaryInv' /\ WorkflowInv' /\ GovernanceInv'
    BY DEF RolloutsInv
  <2>1. ASSUME UNCHANGED <<workflowVars, governanceVars>>,
               (\E d \in Deployments : Create(d)) \/ \E h \in Handlers : CanaryRequest(h)
        PROVE  CanaryInv' /\ WorkflowInv' /\ GovernanceInv'
    <3>1. CanaryInv'
      BY <2>1, CreateKeeps, AdvanceStartKeeps, AdvancePassKeeps, AdvanceFailKeeps, RolledBackKeeps
         DEF CanaryRequest, CanaryStep
    <3>2. QED BY <2>1, <3>1, WorkflowsUnchanged, ModelsUnchanged
  <2>2. ASSUME UNCHANGED <<canaryVars, governanceVars>>,
               (\E w \in Workflows : NextStep(w)) \/ \E h \in Handlers : WorkflowRequest(h)
        PROVE  CanaryInv' /\ WorkflowInv' /\ GovernanceInv'
    <3>1. Handlers = Threads
      BY RolloutsAssumption DEF RolloutsAssumption
    <3>2. WorkflowInv'
      BY <2>2, <3>1, NextStepKeeps, StepBeginKeeps, StepDoneKeeps, StepRaisesKeeps, DeleteKeeps,
         DumpKeeps, DumpItemKeeps, DumpEndKeeps, TruncateKeeps, WriteKeeps, RaiseKeeps
         DEF WorkflowRequest, WorkflowStep
    <3>3. QED BY <2>2, <3>2, CanariesUnchanged, ModelsUnchanged
  <2>3. ASSUME UNCHANGED <<canaryVars, workflowVars>>,
               (\E v \in Versions : ModelStep(v)) \/ \E h \in Promoters : PromoterStep(h)
        PROVE  CanaryInv' /\ WorkflowInv' /\ GovernanceInv'
    <3>1. ASSUME NEW v \in Versions, ModelStep(v) PROVE GovernanceInv'
      BY <3>1, RegisterKeeps, ReviewKeeps, HandKeeps DEF ModelStep
    <3>2. ASSUME NEW h \in Promoters, PromoterStep(h) PROVE GovernanceInv'
      BY <3>2, SetChampionKeeps, PromoteReadKeeps, PromoteWriteKeeps DEF PromoterStep
    <3>3. QED BY <2>3, <3>1, <3>2, CanariesUnchanged, WorkflowsUnchanged
  <2>4. CASE Restart
    <3>1. CanaryInv'
      BY <2>4, RestartedCanaries DEF Restart
    <3>2. WorkflowInv' /\ GovernanceInv'
      BY <2>4, LoadKeeps, ModelsForgotten DEF Restart
    <3>3. QED BY <3>1, <3>2
  <2>5. CASE UNCHANGED vars
    BY <2>5, CanariesUnchanged, WorkflowsUnchanged, ModelsUnchanged DEF vars
  <2>6. CASE FileFails
    <3>1. PICK h \in Threads : OpenRaises(h) \/ WriteRaises(h)
      BY <2>6, RolloutsAssumption DEF FileFails, RolloutsAssumption
    <3>2. WorkflowInv'
      BY <3>1, RaiseKeeps, WriteRaisesKeeps
    <3>3. QED BY <2>6, <3>2, CanariesUnchanged, ModelsUnchanged DEF FileFails
  <2>7. QED BY <2>1, <2>2, <2>3, <2>4, <2>5, <2>6 DEF Next
<1>3. QED BY <1>1, <1>2, PTL DEF Spec

(* THEOREM.  All variables of the three services keep to their sets; in    *)
(* particular no advance looks for a step that the template does not have. *)
THEOREM RolloutsAreTyped == Spec => []TypeOK
<1> DEFINE Followed == service \in {"canary", "workflow", "model"}
           Counted  == faults \in 0..MaxFaults
<1>1. Init => Followed /\ Counted
  BY RolloutsAssumption DEF Init, RolloutsAssumption
<1>2. Followed /\ Counted /\ [Next]_vars => (Followed /\ Counted)'
  BY RolloutsAssumption DEF Next, Restart, FileFails, vars, RolloutsAssumption
<1>3. RolloutsInv /\ Followed /\ Counted => TypeOK
  BY DEF RolloutsInv, CanaryInv, WorkflowInv, GovernanceInv, TypeOK
<1> HIDE DEF Followed, Counted
<1>4. QED BY Invariant, <1>1, <1>2, <1>3, PTL DEF Spec

(* THEOREM.  Unless two advances of a deployment overlapped, it carries    *)
(* the traffic of a step only after every step below has passed.           *)
THEOREM CanariesEarnTraffic == Spec => []TrafficIsEarned
<1>1. RolloutsInv => TrafficIsEarned
  BY DEF RolloutsInv, CanaryInv
<1>2. QED BY Invariant, <1>1, PTL

(* THEOREM.  With no request in flight, and a last save that wrote whole   *)
(* and met no other, the file holds the outputs in memory, but for what    *)
(* requests whose own save raised since have done.                         *)
THEOREM AnswersAreDurable == Spec => []OutputsAreDurable
<1>1. RolloutsInv => OutputsAreDurable
  <2> SUFFICES ASSUME RolloutsInv, clean, \A h \in Threads : request[h].pc = "idle",
                      NEW w \in Workflows
               PROVE  /\ \A n \in mem[w] \cap WorkflowSteps : n \in Loaded(w) \/ <<w, n>> \in failed
                      /\ Loaded(w) \subseteq mem[w] \/ <<w, 0>> \in failed
    BY DEF OutputsAreDurable, SavedOrFailed
  <2>1. Writing = {} /\ \A n : ~SaveOwed(w, n)
    BY DEF Writing, Unwritten, SaveOwed
  <2>2. Loaded(w) = InFile(file, w)
    BY DEF Loaded, InFile
  <2>3. QED BY <2>1, <2>2 DEF RolloutsInv, WorkflowInv, FileIsCurrent, Known
<1>2. QED BY Invariant, <1>1, PTL

(* THEOREM.  However calls overlap with each other and with reviews,       *)
(* set_champion changes the champion of a high-impact class only when it   *)
(* was called for an approved version, and only to a challenger that was   *)
(* assigned, never to one as it was registered.                            *)
THEOREM UnapprovedModelsStayOut == Spec => []UnapprovedStaysOut
<1>1. RolloutsInv => UnapprovedStaysOut
  BY DEF RolloutsInv, GovernanceInv, AssignedOnly, NamedIsApproved, UnapprovedStaysOut
<1>2. QED BY Invariant, <1>1, PTL

(* THEOREM.  Promotions that do not overlap, and no status assigned, leave *)
(* no version with the status but the champion.                            *)
THEOREM ChampionIsUnique == Spec => []OneChampion
<1>1. RolloutsInv => OneChampion
  BY DEF RolloutsInv, GovernanceInv
<1>2. QED BY Invariant, <1>1, PTL

-------------------------------------------------------------------------------
(* Without the races.  No lock keeps two requests off one deployment, two  *)
(* saves off the file or two promotions apart.  When something does, the   *)
(* promises hold as they would be documented, of every deployment, file    *)
(* and champion: the overlap the properties except is the only thing that  *)
(* breaks them.                                                            *)
OneAdvanceAtATime ==
  \A g, h \in Handlers :
    advance[g].pc # "idle" /\ advance[h].pc # "idle" /\ advance[g].dep = advance[h].dep => g = h

OneSaveAtATime == \A g, h \in Saving : g = h

OnePromotionAtATime ==
  \A g, h \in Promoters : promotion[g].pc # "idle" /\ promotion[h].pc # "idle" => g = h

EveryCanaryEarnsTraffic ==
  \A d \in Deployments :
    /\ \A i \in Steps : i < canary[d].current => canary[d].step[i] = "passed"
    /\ canary[d].status = "completed" => canary[d].current = NumSteps

(* No workflow is made or deleted while a request dumps them.              *)
DumpsAreStill == \A h \in Threads : request[h].pc # "shifted"

ReadableFileHoldsMemory ==
  (\A h \in Threads : request[h].pc = "idle") /\ file.state = "parses" => SavedOrFailed

OnlyTheChampion ==
  assigned = {} => \A v \in Versions : registry.status[v] = "champion" => v = registry.champion

(* What the histories are while nothing overlaps.                          *)
NoAdvancesMet   == contested = {}
NoSavesMet      == (clean \/ file.state # "parses") /\ Saving \subseteq solo
NoPromotionsMet == ~crossed

LEMMA AdvancesTakeTurns ==
  RolloutsInv /\ NoAdvancesMet /\ OneAdvanceAtATime' /\ [Next]_vars => NoAdvancesMet'
<1> SUFFICES ASSUME CanaryInv, NoAdvancesMet, OneAdvanceAtATime', [Next]_vars
             PROVE  NoAdvancesMet'
  BY DEF RolloutsInv
<1>1. ASSUME NEW h \in Handlers, NEW d \in Deployments, AdvanceStart(h, d)
      PROVE  NoAdvancesMet'
  <2>1. /\ advance[h].pc = "idle"
        /\ advance'[h].pc = "evaluating" /\ advance'[h].dep = d
        /\ \A g \in Handlers : g # h => advance'[g] = advance[g]
        /\ contested' = IF Advancing(d) = {} THEN contested ELSE contested \cup {d}
    BY <1>1 DEF AdvanceStart, CanaryInv, CanaryTypeOK
  <2>2. ASSUME NEW g \in Advancing(d)
        PROVE  FALSE
    <3>1. g \in Handlers /\ g # h /\ advance'[g].pc # "idle" /\ advance'[g].dep = d
      BY <2>1, <2>2 DEF Advancing
    <3>2. QED BY <2>1, <3>1 DEF OneAdvanceAtATime
  <2>3. QED BY <2>1, <2>2 DEF NoAdvancesMet
<1>2. ASSUME NEW h \in Handlers, CanaryStep(h)
      PROVE  NoAdvancesMet'
  BY <1>2 DEF CanaryStep, AdvancePass, AdvanceFail, RolledBack, NoAdvancesMet
<1>3. QED
  BY <1>1, <1>2 DEF Next, CanaryRequest, Create, Restart, FileFails, NoAdvancesMet, vars, canaryVars

LEMMA SavesTakeTurns ==
  RolloutsInv /\ NoSavesMet /\ OneSaveAtATime' /\ DumpsAreStill' /\ [Next]_vars => NoSavesMet'
<1> SUFFICES ASSUME WorkflowInv, NoSavesMet, OneSaveAtATime', DumpsAreStill', [Next]_vars
             PROVE  NoSavesMet'
  BY DEF RolloutsInv
<1>1. ASSUME UNCHANGED <<solo, clean, file>>, Saving' \subseteq Saving
      PROVE  NoSavesMet'
  BY <1>1 DEF NoSavesMet
<1>2. ASSUME NEW h \in Threads, Dump(h)
      PROVE  NoSavesMet'
  <2>1. /\ request[h].pc = "dump" /\ request'[h].pc = "dumping"
        /\ clean' = clean /\ file' = file
        /\ \A g \in Threads : g # h => request'[g] = request[g]
        /\ solo' = IF Saving = {} THEN {h} ELSE {}
    <3>1. request[h] \in RequestType /\ request \in [Threads -> RequestType]
      BY DEF WorkflowInv, WorkflowTypeOK
    <3>2. request' = [request EXCEPT ![h] = [request[h] EXCEPT !.pc = "dumping", !.keys = InMemory]]
      BY <1>2 DEF Dump
    <3>3. [request[h] EXCEPT !.pc = "dumping", !.keys = InMemory].pc = "dumping"
      BY <3>1 DEF RequestType
    <3>4. QED BY <1>2, <3>1, <3>2, <3>3 DEF Dump
  <2>2. Saving' = Saving \cup {h} /\ h \notin Saving
    BY <2>1 DEF Saving, Dumping
  <2>3. Saving = {}
    BY <2>2 DEF OneSaveAtATime
  <2>4. QED BY <2>1, <2>2, <2>3 DEF NoSavesMet
<1>3. ASSUME NEW h \in Threads, h \in Saving, request' = [request EXCEPT ![h] = NoRequest],
             solo' = solo \ {h}, clean' \/ file'.state # "parses"
      PROVE  NoSavesMet'
  <2>1. /\ request'[h].pc = "idle"
        /\ \A g \in Threads : g # h => request'[g] = request[g]
    BY <1>3, NoRequestType DEF WorkflowInv, WorkflowTypeOK
  <2>2. Saving' = Saving \ {h}
    BY <2>1 DEF Saving, Dumping
  <2>3. QED BY <1>3, <2>2 DEF NoSavesMet
<1>4. ASSUME NEW h \in Threads,
             Write(h) \/ DumpRaises(h) \/ OpenRaises(h) \/ WriteRaises(h)
      PROVE  NoSavesMet'
  <2>1. h \in Saving /\ request' = [request EXCEPT ![h] = NoRequest] /\ solo' = solo \ {h}
    BY <1>4 DEF Write, DumpRaises, OpenRaises, WriteRaises, SaveRaises, Saving, Dumping
  <2>2. CASE Write(h)
    BY <1>3, <2>1, <2>2 DEF Write, NoSavesMet
  <2>3. CASE DumpRaises(h) \/ OpenRaises(h)
    BY <1>3, <2>1, <2>3 DEF DumpRaises, OpenRaises, NoSavesMet
  <2>4. CASE WriteRaises(h)
    <3>1. file.state = "empty"
      BY <2>1, <2>4 DEF WriteRaises, NoSavesMet, WorkflowInv, SoleSave
    <3>2. file'.state # "parses"
      BY <2>4, <3>1 DEF WriteRaises
    <3>3. QED BY <1>3, <2>1, <3>2
  <2>5. QED BY <1>4, <2>2, <2>3, <2>4
<1>5. ASSUME NEW h \in Threads, StepDone(h) \/ StepRaises(h)
      PROVE  NoSavesMet'
  <2>1. /\ UNCHANGED <<solo, clean, file>> /\ request[h].pc = "computing"
        /\ request' = [request EXCEPT ![h] = request'[h]]
        /\ request'[h].pc \in {"dump", "idle"}
    <3>1. CASE StepDone(h)
      BY <3>1 DEF StepDone, WorkflowInv, WorkflowTypeOK, RequestType
    <3>2. CASE StepRaises(h)
      BY <3>2, NoRequestType DEF StepRaises, WorkflowInv, WorkflowTypeOK
    <3>3. QED BY <1>5, <3>1, <3>2
  <2>2. Saving' = Saving
    BY <2>1 DEF Saving, Dumping, WorkflowInv, WorkflowTypeOK
  <2>3. QED BY <1>1, <2>1, <2>2
<1>6. ASSUME NEW h \in Threads, Truncate(h)
      PROVE  NoSavesMet'
  <2>1. /\ solo' = solo /\ file'.state = "empty" /\ request[h].pc = "truncate"
        /\ request'[h].pc = "write" /\ \A g \in Threads : g # h => request'[g] = request[g]
    BY <1>6 DEF Truncate, WorkflowInv, WorkflowTypeOK, RequestType
  <2>2. Saving' = Saving
    BY <2>1 DEF Saving, Dumping
  <2>3. QED BY <2>1, <2>2 DEF NoSavesMet
<1>7. ASSUME NEW h \in Threads, DumpEnd(h) \/ \E w \in Workflows : DumpItem(h, w)
      PROVE  NoSavesMet'
  <2>1. /\ UNCHANGED <<solo, clean, file>> /\ h \in Saving
        /\ \A g \in Threads : g # h => request'[g] = request[g]
    BY <1>7 DEF DumpEnd, DumpItem, GoesOn, Saving, Dumping, WorkflowInv, WorkflowTypeOK
  <2>2. Saving' \subseteq Saving
    BY <2>1 DEF Saving, Dumping
  <2>3. QED BY <1>1, <2>1, <2>2
<1>8. \A g \in Dumping : g \in Threads /\ Shift(request[g]).pc = "shifted"
  <2> SUFFICES ASSUME NEW g \in Dumping
               PROVE  g \in Threads /\ Shift(request[g]).pc = "shifted"
    OBVIOUS
  <2>1. g \in Threads /\ request[g].pc \in {"dumping", "shifted"}
    BY DEF Dumping
  <2>2. request[g] \in RequestType
    BY <2>1 DEF WorkflowInv, WorkflowTypeOK
  <2>3. QED BY <2>1, <2>2 DEF Shift, RequestType
<1>9. ASSUME NEW w \in Workflows, Make(w), file' = file /\ clean' = clean,
             \A g \in Threads : \/ request'[g] = Shifted(w)[g]
                                \/ request[g].pc = "idle" /\ request'[g].pc = "computing"
      PROVE  NoSavesMet'
  <2>1. solo' = solo
    <3>1. CASE w \in InMemory
      BY <1>9, <3>1 DEF Make
    <3>2. CASE w \notin InMemory
      <4>1. \A g \in Dumping : request'[g].pc = "shifted"
        BY <1>8, <1>9, <3>2 DEF Shifted, Dumping
      <4>2. Dumping = {}
        BY <1>8, <4>1 DEF DumpsAreStill
      <4>3. QED BY <1>9, <4>2 DEF Make
    <3>3. QED BY <3>1, <3>2
  <2>2. Make(w)
    BY <1>9
  <2>5. \A g \in Threads : \/ Shifted(w)[g].pc = request[g].pc
                           \/ request[g].pc = "dumping" /\ Shifted(w)[g].pc = "shifted"
    BY <2>2, Made
  <2>3. Saving' \subseteq Saving
    BY <1>9, <2>5 DEF Saving, Dumping
  <2>4. QED BY <1>1, <1>9, <2>1, <2>3
<1>10. ASSUME NEW w \in Workflows, NextStep(w)
       PROVE  NoSavesMet'
  <2>1. Make(w) /\ request' = Shifted(w) /\ file' = file /\ clean' = clean
    BY <1>10 DEF NextStep
  <2>2. \A g \in Threads : request'[g] = Shifted(w)[g]
    BY <2>1
  <2>3. QED BY <1>9, <2>1, <2>2
<1>11. ASSUME NEW h \in Threads, NEW w \in Workflows, NEW n \in WorkflowSteps, StepBegin(h, w, n)
       PROVE  NoSavesMet'
  <2> DEFINE new == [NoRequest EXCEPT !.pc = "computing", !.wf = w, !.n = n]
  <2>1. /\ request[h].pc = "idle" /\ Make(w) /\ file' = file /\ clean' = clean
        /\ request' = [Shifted(w) EXCEPT ![h] = new]
    BY <1>11 DEF StepBegin
  <2>2. new.pc = "computing"
    BY NoRequestType DEF RequestType
  <2> HIDE DEF new
  <2>3. /\ request'[h] = new
        /\ \A g \in Threads : g # h => request'[g] = Shifted(w)[g]
    BY <2>1, Made
  <2>4. \A g \in Threads : \/ request'[g] = Shifted(w)[g]
                           \/ request[g].pc = "idle" /\ request'[g].pc = "computing"
    BY <2>1, <2>2, <2>3
  <2>5. QED BY <1>9, <2>1, <2>4
<1>12. ASSUME NEW h \in Threads, NEW w \in Workflows, Delete(h, w)
       PROVE  NoSavesMet'
  <2> DEFINE new == [NoRequest EXCEPT !.pc = "dump", !.wf = w]
             Other(g) == IF request[g].wf = w /\ request[g].n # 0
                         THEN [Shift(request[g]) EXCEPT !.wf = NoWorkflow] ELSE Shift(request[g])
  <2>1. /\ request[h].pc = "idle" /\ solo' = solo \ Dumping /\ UNCHANGED <<file, clean>>
        /\ request' = [g \in Threads |-> IF g = h THEN new ELSE Other(g)]
    BY <1>12 DEF Delete, Forget
  <2>2. new.pc = "dump"
    BY NoRequestType DEF RequestType
  <2>3. ASSUME NEW g \in Threads
        PROVE  Other(g).pc = Shift(request[g]).pc
    <3>1. request[g] \in RequestType
      BY DEF WorkflowInv, WorkflowTypeOK
    <3>2. Shift(request[g]) \in RequestType
      BY <3>1, ShiftKeeps
    <3>3. QED BY <3>2 DEF RequestType
  <2> HIDE DEF new, Other
  <2>4. request'[h] = new /\ \A g \in Threads : g # h => request'[g].pc = Shift(request[g]).pc
    BY <2>1, <2>3
  <2>5. Dumping = {}
    <3>1. \A g \in Dumping : g # h
      BY <2>1 DEF Dumping
    <3>2. QED BY <1>8, <2>4, <3>1 DEF DumpsAreStill
  <2>6. Saving' \subseteq Saving
    BY <2>2, <2>4, <2>5 DEF Saving, Dumping, Shift
  <2>7. QED BY <1>1, <2>1, <2>5, <2>6
<1>13. CASE Restart
  <2>1. clean' = TRUE /\ \A h \in Threads : request'[h].pc = "idle"
    BY <1>13, NoRequestType DEF Restart, LoadWorkflows
  <2>2. QED BY <2>1 DEF NoSavesMet, Saving, Dumping
<1>14. CASE UNCHANGED workflowVars
  BY <1>1, <1>14 DEF workflowVars, Saving, Dumping
<1>15. Handlers = Threads
  BY RolloutsAssumption DEF RolloutsAssumption
<1>16. CASE FileFails
  BY <1>4, <1>15, <1>16 DEF FileFails
<1>17. ASSUME NEW h \in Threads, WorkflowRequest(h)
       PROVE  NoSavesMet'
  BY <1>2, <1>4, <1>5, <1>6, <1>7, <1>11, <1>12, <1>17 DEF WorkflowRequest, WorkflowStep
<1>18. QED
  BY <1>10, <1>13, <1>14, <1>15, <1>16, <1>17 DEF Next, vars

LEMMA PromotionsTakeTurns ==
  RolloutsInv /\ NoPromotionsMet /\ OnePromotionAtATime' /\ [Next]_vars => NoPromotionsMet'
<1> SUFFICES ASSUME GovernanceTypeOK, NoPromotionsMet, OnePromotionAtATime', [Next]_vars
             PROVE  NoPromotionsMet'
  BY DEF RolloutsInv, GovernanceInv
<1>1. ASSUME NEW h \in Promoters, NEW v \in Versions, SetChampion(h, v)
      PROVE  NoPromotionsMet'
  <2>1. /\ promotion[h].pc = "idle" /\ promotion'[h].pc = "read"
        /\ \A g \in Promoters : g # h => promotion'[g] = promotion[g]
        /\ crossed' = (crossed \/ \E g \in Promoters : promotion[g].pc # "idle")
    BY <1>1 DEF SetChampion, GovernanceTypeOK
  <2>2. ASSUME NEW g \in Promoters, promotion[g].pc # "idle"
        PROVE  FALSE
    BY <2>1, <2>2 DEF OnePromotionAtATime
  <2>3. QED BY <2>1, <2>2 DEF NoPromotionsMet
<1>2. ASSUME NEW v \in Versions, ModelStep(v)
      PROVE  NoPromotionsMet'
  BY <1>2 DEF ModelStep, RegisterModel, ApproveModel, RejectModel, CertificationEnds, SetStatus,
              StartEvaluation, NoPromotionsMet
<1>3. QED
  BY <1>1, <1>2 DEF Next, PromoterStep, PromoteRead, PromoteWrite, Restart, ForgetModels, FileFails,
                    NoPromotionsMet, vars, governanceVars

(* THEOREM.  If no two requests advance one deployment at the same time,   *)
(* every deployment earns its traffic: each step below the current one has *)
(* passed, and a completed deployment has passed them all.                 *)
THEOREM TurnsEarnTraffic == Spec /\ []OneAdvanceAtATime => []EveryCanaryEarnsTraffic
<1>1. Init => NoAdvancesMet
  BY DEF Init, CanaryInit, NoAdvancesMet
<1>2. RolloutsInv /\ NoAdvancesMet => EveryCanaryEarnsTraffic
  BY DEF RolloutsInv, CanaryInv, NoAdvancesMet, TrafficIsEarned, EveryCanaryEarnsTraffic
<1>3. QED BY Invariant, AdvancesTakeTurns, <1>1, <1>2, PTL DEF Spec

(* THEOREM.  If no two requests save at the same time, and none makes or   *)
(* deletes a workflow while another dumps, then whenever no request is in  *)
(* flight, a file that parses holds what memory does, but for what         *)
(* requests whose own save raised since have done.  Saves still fail at    *)
(* the file system: they may leave a file that does not parse.             *)
THEOREM TurnsAreDurable ==
  Spec /\ []OneSaveAtATime /\ []DumpsAreStill => []ReadableFileHoldsMemory
<1>1. Init => NoSavesMet
  BY NoRequestType DEF Init, WorkflowInit, NoSavesMet, Saving, Dumping
<1>2. RolloutsInv /\ NoSavesMet => (OutputsAreDurable => ReadableFileHoldsMemory)
  BY DEF NoSavesMet, OutputsAreDurable, ReadableFileHoldsMemory
<1>3. QED BY Invariant, AnswersAreDurable, SavesTakeTurns, <1>1, <1>2, PTL DEF Spec

(* THEOREM.  If no two promotions overlap, a version whose status is       *)
(* champion is the one that predicts, unless a status was assigned.        *)
THEOREM TurnsKeepOneChampion == Spec /\ []OnePromotionAtATime => []OnlyTheChampion
<1>1. Init => NoPromotionsMet
  BY DEF Init, GovernanceInit, NoPromotionsMet
<1>2. RolloutsInv /\ NoPromotionsMet => OnlyTheChampion
  BY DEF RolloutsInv, GovernanceInv, NoPromotionsMet, OneChampion, OnlyTheChampion
<1>3. QED BY Invariant, PromotionsTakeTurns, <1>1, <1>2, PTL DEF Spec
===============================================================================
