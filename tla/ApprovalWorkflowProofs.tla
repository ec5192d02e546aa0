------------------------ MODULE ApprovalWorkflowProofs ------------------------
(***************************************************************************)
(* ApprovalWorkflow keeps its approvals unanimous and authentic for any    *)
(* number of handlers, and its decisions final where they do not overlap.  *)
(***************************************************************************)
EXTENDS ApprovalWorkflow, TLAPS

LEMMA StepsForTyped ==
  ASSUME NEW n \in 0..MaxSteps, NEW required \in [1..n -> Approvers]
  PROVE  /\ StepsFor(n, required) \in Steps
         /\ \A i \in DOMAIN StepsFor(n, required) :
              StepsFor(n, required)[i].status = "pending"
         /\ 1 \in DOMAIN StepsFor(n, required)
<1>1. CASE n = 0
  <2>1. StepsFor(n, required) = [i \in 1..1 |-> [approver |-> Default, status |-> "pending"]]
    BY <1>1 DEF StepsFor
  <2>2. StepsFor(n, required) \in [1..1 -> Step]
    BY <2>1 DEF Step, People, Statuses
  <2>3. 1 \in 1..MaxSteps
    BY ApprovalAssumption DEF ApprovalAssumption
  <2> QED
    BY <2>1, <2>2, <2>3 DEF Steps
<1>2. CASE n # 0
  <2>1. StepsFor(n, required)
          = [i \in 1..n |-> [approver |-> required[i], status |-> "pending"]]
    BY <1>2 DEF StepsFor
  <2>2. StepsFor(n, required) \in [1..n -> Step]
    BY <2>1 DEF Step, People, Statuses
  <2>3. n \in 1..MaxSteps
    BY <1>2, ApprovalAssumption DEF ApprovalAssumption
  <2> QED
    BY <2>1, <2>2, <2>3 DEF Steps
<1> QED
  BY <1>1, <1>2

LEMMA VerdictTyped == \A steps : Verdict(steps) \in Statuses
  BY DEF Verdict, Statuses, Decisions

(* Deciding one step of a row gives a row again.                           *)
LEMMA DecidedTyped ==
  ASSUME NEW steps \in Steps, NEW i \in DOMAIN steps, NEW decision \in Decisions
  PROVE  LET new == [steps EXCEPT ![i].status = decision]
         IN /\ new \in Steps
            /\ DOMAIN new = DOMAIN steps
            /\ new[i] = [approver |-> steps[i].approver, status |-> decision]
            /\ \A j \in DOMAIN steps : j # i => new[j] = steps[j]
<1>1. PICK n \in 1..MaxSteps : steps \in [1..n -> Step]
  BY DEF Steps
<1>2. [steps EXCEPT ![i].status = decision] \in [1..n -> Step]
  BY <1>1 DEF Step, Statuses
<1>3. steps[i] \in [approver : People, status : Statuses]
  BY <1>1 DEF Step
<1> QED
  BY <1>1, <1>2, <1>3 DEF Steps

-------------------------------------------------------------------------------
(* What a row, and the copy a handler is about to save, both satisfy when  *)
(* asks is what has been asked for.                                        *)
Sound(id, record, asks) ==
  /\ record.status = "approved" =>
       \A i \in DOMAIN record.steps : record.steps[i].status = "approved"
  /\ record.status = "pending" =>
       \E i \in DOMAIN record.steps : record.steps[i].status = "pending"
  /\ \A i \in DOMAIN record.steps :
       record.steps[i].status \in Decisions =>
         <<id, record.steps[i].approver, record.steps[i].status>> \in asks

Has(record, approver, decision) ==
  \E i \in DOMAIN record.steps :
    record.steps[i] = [approver |-> approver, status |-> decision]

(* The copy was made from the row as it still is: the row is pending, and  *)
(* the copy repeats what the row has decided.                              *)
Current(copy, row) ==
  /\ row.status = "pending"
  /\ \A i \in DOMAIN row.steps :
       row.steps[i].status \in Decisions =>
         i \in DOMAIN copy.steps /\ copy.steps[i] = row.steps[i]

(* Whatever happened to the row since, the copy has the row's approvers    *)
(* and the status of its own steps.                                        *)
SameApprovers(s, t) ==
  DOMAIN s = DOMAIN t /\ \A i \in DOMAIN s : s[i].approver = t[i].approver

Copied(copy, row) ==
  /\ SameApprovers(copy.record.steps, row.steps)
  /\ copy.record.status = Verdict(copy.record.steps)

(* The copy is the row as it still is, with one more decision.             *)
Answers(copy, row) ==
  /\ row.status = "pending"
  /\ \E i \in DOMAIN row.steps :
       /\ FirstOpen(row.steps, copy.by, i)
       /\ copy.record.steps = [row.steps EXCEPT ![i].status = copy.decision]

HeldInv(h) ==
  /\ Sound(held[h].id, held[h].record, asked)
  /\ Has(held[h].record, held[h].by, held[h].decision)
  /\ held[h].id \in Rows
  /\ held[h].id \in contested \/ Current(held[h].record, table[held[h].id])

ApprovalInv ==
  /\ \A id \in Rows : Sound(id, table[id], asked)
  /\ \A h \in InFlight : HeldInv(h)
  /\ \A g, h \in InFlight : g # h /\ held[g].id = held[h].id => held[h].id \in contested
  /\ \A e \in answered :
       e[1] \in Rows /\ (e[1] \in contested \/ Has(table[e[1]], e[2], e[3]))

LEMMA SoundGrows ==
  \A id, record, asks, more :
    Sound(id, record, asks) /\ asks \subseteq more => Sound(id, record, more)
  BY DEF Sound

LEMMA ApprovalInit == Init => TypeOK /\ ApprovalInv
  BY DEF Init, TypeOK, ApprovalInv, Rows, InFlight

(* The copy a handler decides on.                                          *)
LEMMA DecideCopy ==
  ASSUME TypeOK, ApprovalInv, NEW h \in Handlers, NEW id \in Approvals, NEW p \in People,
         NEW decision \in Decisions, Decide(h, id, p, decision)
  PROVE  \E c \in Held :
           /\ held' = [held EXCEPT ![h] = c]
           /\ c.id = id /\ c.by = p /\ c.decision = decision
           /\ id \in Rows /\ table[id].status = "pending"
           /\ Sound(id, c.record, asked')
           /\ Has(c.record, p, decision)
           /\ Current(c.record, table[id])
           /\ Copied(c, table[id]) /\ Answers(c, table[id])
<1>1. id \in Rows /\ table[id] \in Record /\ table[id].status = "pending"
  BY DEF Decide, StillOpen, TypeOK, Rows
<1>2. table[id].steps \in Steps /\ Sound(id, table[id], asked)
  BY <1>1 DEF ApprovalInv, Record
<1> DEFINE old == table[id].steps
<1>3. PICK i \in DOMAIN old :
        /\ FirstOpen(old, p, i)
        /\ held' = [held EXCEPT ![h] =
             [id |-> id, by |-> p, decision |-> decision,
              record |-> [status |-> Verdict([old EXCEPT ![i].status = decision]),
                          steps |-> [old EXCEPT ![i].status = decision]]]]
  BY DEF Decide
<1> DEFINE new == [old EXCEPT ![i].status = decision]
           c == [id |-> id, by |-> p, decision |-> decision,
                 record |-> [status |-> Verdict(new), steps |-> new]]
<1>4. /\ new \in Steps
      /\ DOMAIN new = DOMAIN old
      /\ new[i] = [approver |-> p, status |-> decision]
      /\ \A j \in DOMAIN old : j # i => new[j] = old[j]
  BY <1>2, <1>3, DecidedTyped DEF FirstOpen
<1>5. old[i].status = "pending"
  BY <1>3 DEF FirstOpen
<1> HIDE DEF new
<1>6. c \in Held
  BY <1>4, VerdictTyped DEF Held, Record
<1>7. \A j \in DOMAIN new :
        new[j].status \in Decisions => <<id, new[j].approver, new[j].status>> \in asked'
  BY SMTT(30), <1>2, <1>4 DEF Sound, Decide
<1>8. \A s \in Steps : \A j \in DOMAIN s : s[j].status \in Statuses
  BY DEF Steps, Step
<1>9. Sound(id, c.record, asked')
  <2>1. c.record.steps = new /\ c.record.status = Verdict(new)
    OBVIOUS
  <2>2. Verdict(new) = "approved" => \A j \in DOMAIN new : new[j].status = "approved"
    BY DEF Verdict
  <2>3. \A j \in DOMAIN new : new[j].status \in Statuses
    BY <1>4, <1>8
  <2>4. Verdict(new) = "pending" => \E j \in DOMAIN new : new[j].status = "pending"
    BY <2>3 DEF Verdict, Statuses, Decisions
  <2> HIDE DEF c
  <2> QED
    BY <1>7, <2>1, <2>2, <2>4 DEF Sound
<1>10. Has(c.record, p, decision)
  BY <1>4 DEF Has
<1>11. Current(c.record, table[id])
  BY <1>1, <1>4, <1>5 DEF Current, Decisions
<1>12. held' = [held EXCEPT ![h] = c]
  BY <1>3 DEF new
<1>13. /\ c.id = id /\ c.by = p /\ c.decision = decision
       /\ c.record.steps = new /\ c.record.status = Verdict(new)
  OBVIOUS
<1>14. Copied(c, table[id])
  <2>1. SameApprovers(new, old)
    BY <1>4, <1>3 DEF SameApprovers, FirstOpen
  <2> QED
    BY <1>13, <2>1 DEF Copied
<1>15. Answers(c, table[id])
  BY <1>1, <1>3, <1>13 DEF Answers, new
<1> HIDE DEF c
<1> QED
  BY <1>13, <1>1, <1>6, <1>9, <1>10, <1>11, <1>12, <1>14, <1>15

LEMMA DecideStep ==
  ASSUME TypeOK, ApprovalInv, NEW h \in Handlers, NEW id \in Approvals, NEW p \in People,
         NEW decision \in Decisions, Decide(h, id, p, decision)
  PROVE  TypeOK' /\ ApprovalInv'
<1>1. PICK c \in Held :
        /\ held' = [held EXCEPT ![h] = c]
        /\ c.id = id /\ c.by = p /\ c.decision = decision
        /\ id \in Rows /\ table[id].status = "pending"
        /\ Sound(id, c.record, asked')
        /\ Has(c.record, p, decision)
        /\ Current(c.record, table[id])
  BY DecideCopy
<1>2. /\ table' = table /\ answered' = answered
      /\ asked' = asked \cup {<<id, p, decision>>}
      /\ h \notin InFlight
      /\ contested \subseteq contested' /\ contested' \subseteq Approvals
      /\ (\E g \in InFlight : held[g].id = id) => id \in contested'
  BY DEF Decide, InFlight, TypeOK
<1>3. /\ \A g \in InFlight' : g # h => g \in InFlight /\ held'[g] = held[g]
      /\ held'[h] = c /\ Rows' = Rows
  BY <1>1, <1>2 DEF InFlight, TypeOK, Rows
<1>4. TypeOK'
  <2>1. held' \in [Handlers -> Held \cup {None}] /\ \A g \in InFlight' : held'[g] \in Held
    BY <1>1, <1>3 DEF TypeOK
  <2>2. asked' \subseteq Approvals \X People \X Decisions /\ answered' \subseteq asked'
    BY <1>2 DEF TypeOK
  <2> QED
    BY <1>2, <1>3, <2>1, <2>2 DEF TypeOK
<1>5. ASSUME NEW g \in InFlight' PROVE HeldInv(g)'
  <2>1. CASE g = h
    BY <1>1, <1>2, <1>3, <2>1 DEF HeldInv
  <2>2. CASE g # h
    <3>1. HeldInv(g) /\ held'[g] = held[g]
      BY <1>3, <2>2 DEF ApprovalInv
    <3> QED
      BY <1>2, <1>3, <3>1, SoundGrows DEF HeldInv
  <2> QED
    BY <2>1, <2>2
<1>6. \A g, k \in InFlight' :
        g # k /\ held'[g].id = held'[k].id => held'[k].id \in contested'
  BY <1>1, <1>2, <1>3 DEF ApprovalInv
<1>7. \A a \in Rows' : Sound(a, table'[a], asked')
  BY <1>2, <1>3, SoundGrows DEF ApprovalInv
<1>8. \A e \in answered' :
        e[1] \in Rows' /\ (e[1] \in contested' \/ Has(table'[e[1]], e[2], e[3]))
  BY <1>2, <1>3 DEF ApprovalInv
<1> QED
  BY <1>4, <1>5, <1>6, <1>7, <1>8 DEF ApprovalInv

LEMMA CreateStep ==
  ASSUME TypeOK, ApprovalInv, NEW id \in Approvals, CreateRequest(id)
  PROVE  TypeOK' /\ ApprovalInv'
<1>1. PICK n \in 0..MaxSteps : \E required \in [1..n -> Approvers] :
        table' = [table EXCEPT ![id] =
                    [status |-> "pending", steps |-> StepsFor(n, required)]]
  BY DEF CreateRequest
<1>2. PICK required \in [1..n -> Approvers] :
        table' = [table EXCEPT ![id] =
                    [status |-> "pending", steps |-> StepsFor(n, required)]]
  BY <1>1
<1> DEFINE new == [status |-> "pending", steps |-> StepsFor(n, required)]
<1>3. /\ new \in Record /\ new.status = "pending"
      /\ \A i \in DOMAIN new.steps : new.steps[i].status = "pending"
      /\ \E i \in DOMAIN new.steps : TRUE
  BY StepsForTyped DEF Record, Statuses
<1>4. table' = [table EXCEPT ![id] = new]
  BY <1>2
<1> HIDE DEF new
<1>5. /\ held' = held /\ asked' = asked /\ answered' = answered /\ contested' = contested
      /\ id \notin Rows /\ InFlight' = InFlight
  BY DEF CreateRequest, Rows, InFlight
<1>6. /\ table'[id] = new /\ Rows' = Rows \cup {id}
      /\ \A a \in Rows : table'[a] = table[a]
  BY <1>3, <1>4, <1>5, NoneAssumption DEF NoneAssumption, TypeOK, Rows
<1>7. TypeOK'
  BY <1>3, <1>4, <1>5, <1>6 DEF TypeOK
<1>8. Sound(id, new, asked')
  BY <1>3 DEF Sound, Decisions
<1>9. ASSUME NEW h \in InFlight' PROVE HeldInv(h)'
  BY <1>5, <1>6 DEF ApprovalInv, HeldInv
<1> QED
  BY <1>5, <1>6, <1>7, <1>8, <1>9 DEF ApprovalInv

LEMMA SaveStep ==
  ASSUME TypeOK, ApprovalInv, NEW h \in Handlers, Save(h)
  PROVE  TypeOK' /\ ApprovalInv'
<1> DEFINE id == held[h].id
           record == held[h].record
<1>1. h \in InFlight /\ held[h] \in Held /\ id \in Approvals /\ record \in Record
  BY DEF Save, InFlight, TypeOK, Held
<1>2. /\ Sound(id, record, asked) /\ Has(record, held[h].by, held[h].decision)
      /\ id \in Rows
      /\ id \in contested \/ Current(record, table[id])
      /\ \A g \in InFlight : g # h /\ held[g].id = id => id \in contested
  BY <1>1 DEF ApprovalInv, HeldInv
<1>3. /\ table' = [table EXCEPT ![id] = record] /\ held' = [held EXCEPT ![h] = None]
      /\ answered' = answered \cup {<<id, held[h].by, held[h].decision>>}
      /\ asked' = asked /\ contested' = contested
  BY DEF Save
<1>4. <<id, held[h].by, held[h].decision>> \in asked
  BY <1>1, <1>2 DEF Sound, Has, Held
<1> HIDE DEF id, record
<1>5. /\ Rows' = Rows /\ table'[id] = record
      /\ \A a \in Rows : a # id => table'[a] = table[a]
  BY <1>1, <1>2, <1>3, NoneAssumption DEF NoneAssumption, TypeOK, Rows
<1>6. \A g \in InFlight' : g # h /\ g \in InFlight /\ held'[g] = held[g]
  BY <1>3 DEF TypeOK, InFlight
<1>7. TypeOK'
  BY <1>1, <1>3, <1>4, <1>5, <1>6 DEF TypeOK
<1>8. \A a \in Rows' : Sound(a, table'[a], asked')
  BY <1>2, <1>3, <1>5 DEF ApprovalInv
<1>9. ASSUME NEW g \in InFlight' PROVE HeldInv(g)'
  <2>1. HeldInv(g)
    BY <1>6 DEF ApprovalInv
  <2>2. held[g].id = id => id \in contested
    BY <1>2, <1>6 DEF id
  <2> QED
    BY <1>3, <1>5, <1>6, <2>1, <2>2 DEF HeldInv
<1>10. \A g, k \in InFlight' :
         g # k /\ held'[g].id = held'[k].id => held'[k].id \in contested'
  BY <1>3, <1>6 DEF ApprovalInv
<1>11. ASSUME NEW e \in answered'
       PROVE  e[1] \in Rows' /\ (e[1] \in contested' \/ Has(table'[e[1]], e[2], e[3]))
  <2>1. CASE e = <<id, held[h].by, held[h].decision>>
    BY <1>2, <1>5, <2>1
  <2>2. CASE e \in answered
    <3>1. e[1] \in Rows /\ (e[1] \in contested \/ Has(table[e[1]], e[2], e[3]))
      BY <2>2 DEF ApprovalInv
    <3>2. e[3] \in Decisions
      BY <2>2 DEF TypeOK
    <3>3. e[1] = id /\ id \notin contested => Has(record, e[2], e[3])
      BY <1>2, <3>1, <3>2 DEF Has, Current
    <3> QED
      BY <1>3, <1>5, <3>1, <3>3
  <2> QED
    BY <1>3, <2>1, <2>2
<1> QED
  BY <1>7, <1>8, <1>9, <1>10, <1>11 DEF ApprovalInv

LEMMA SaveFailsStep ==
  ASSUME TypeOK, ApprovalInv, NEW h \in Handlers, SaveFails(h)
  PROVE  TypeOK' /\ ApprovalInv'
<1>1. /\ table' = table /\ asked' = asked /\ answered' = answered /\ contested' = contested
      /\ held' = [held EXCEPT ![h] = None] /\ Rows' = Rows
  BY DEF SaveFails, Rows
<1>2. \A g \in InFlight' : g \in InFlight /\ held'[g] = held[g]
  BY <1>1 DEF TypeOK, InFlight
<1>3. TypeOK'
  BY <1>1, <1>2 DEF TypeOK
<1>4. ASSUME NEW g \in InFlight' PROVE HeldInv(g)'
  BY <1>1, <1>2 DEF ApprovalInv, HeldInv
<1> QED
  BY <1>1, <1>2, <1>3, <1>4 DEF ApprovalInv

LEMMA ApprovalStep == TypeOK /\ ApprovalInv /\ [Next]_vars => TypeOK' /\ ApprovalInv'
<1> SUFFICES ASSUME TypeOK, ApprovalInv, [Next]_vars
             PROVE  TypeOK' /\ ApprovalInv'
  OBVIOUS
<1>1. ASSUME NEW id \in Approvals, CreateRequest(id) PROVE TypeOK' /\ ApprovalInv'
  BY <1>1, CreateStep
<1>2. ASSUME NEW h \in Handlers, NEW id \in Approvals, NEW p \in People,
             Approve(h, id, p) \/ Reject(h, id, p)
      PROVE  TypeOK' /\ ApprovalInv'
  BY <1>2, DecideStep DEF Approve, Reject, Decisions
<1>3. ASSUME NEW h \in Handlers, Save(h) PROVE TypeOK' /\ ApprovalInv'
  BY <1>3, SaveStep
<1>4. ASSUME NEW h \in Handlers, SaveFails(h) PROVE TypeOK' /\ ApprovalInv'
  BY <1>4, SaveFailsStep
<1>5. CASE UNCHANGED vars
  BY <1>5 DEF vars, TypeOK, ApprovalInv, HeldInv, Rows, InFlight
<1> QED
  BY <1>1, <1>2, <1>3, <1>4, <1>5 DEF Next

-------------------------------------------------------------------------------
LEMMA ApprovalInvariant == Spec => [](TypeOK /\ ApprovalInv)
  BY ApprovalInit, ApprovalStep, PTL DEF Spec

(* Rows, and the copies of them that handlers hold, stay well formed:      *)
(* create_request and the decisions only ever save complete records.       *)
THEOREM RowsAreTyped == Spec => []TypeOK
  BY ApprovalInvariant, PTL

(* A row that says approved was approved by every approver it lists, with  *)
(* any number of handlers overwriting each other.                          *)
THEOREM ApprovalsAreUnanimous == Spec => []ApprovalIsUnanimous
<1>1. ApprovalInv => ApprovalIsUnanimous
  BY DEF ApprovalInv, ApprovalIsUnanimous, Sound, Decisions
<1> QED
  BY <1>1, ApprovalInvariant, PTL

(* Each decided step was decided by its own approver.                      *)
THEOREM StepsAreAuthentic == Spec => []OnlyOwnSteps
<1>1. ApprovalInv => OnlyOwnSteps
  BY DEF ApprovalInv, OnlyOwnSteps, Sound
<1> QED
  BY <1>1, ApprovalInvariant, PTL

(* A pending row always has a step that somebody can still decide.         *)
THEOREM NoRequestIsStuck == Spec => []PendingIsDecidable
<1>1. ApprovalInv => PendingIsDecidable
  BY DEF ApprovalInv, PendingIsDecidable, Sound
<1> QED
  BY <1>1, ApprovalInvariant, PTL

(* An accepted answer stays in the row, unless handlers overlapped on it.  *)
THEOREM AnswersAreKept == Spec => []AnswersStickUnlessContested
<1>1. ApprovalInv => AnswersStickUnlessContested
  BY DEF ApprovalInv, AnswersStickUnlessContested, Has
<1> QED
  BY <1>1, ApprovalInvariant, PTL

(* A decided row never changes again, unless handlers overlapped on it.    *)
THEOREM DecisionsAreKept == Spec => FinalUnlessContested
<1>1. TypeOK /\ ApprovalInv /\ [Next]_vars =>
        [\A id \in Rows :
           Decided(table[id]) /\ id \notin contested => table'[id] = table[id]]_vars
  <2> SUFFICES ASSUME TypeOK, ApprovalInv, Next, NEW id \in Rows,
                      Decided(table[id]), id \notin contested
               PROVE  table'[id] = table[id]
    OBVIOUS
  <2>1. ASSUME NEW a \in Approvals, CreateRequest(a) PROVE table'[id] = table[id]
    BY <2>1 DEF CreateRequest, Rows, TypeOK
  <2>2. ASSUME NEW h \in Handlers, Save(h) PROVE table'[id] = table[id]
    <3>1. HeldInv(h)
      BY <2>2 DEF Save, ApprovalInv, InFlight
    <3>2. held[h].id # id
      BY <3>1 DEF HeldInv, Current, Decided, Decisions
    <3> QED
      BY <2>2, <3>2 DEF Save, TypeOK, Rows
  <2>3. ASSUME NEW h \in Handlers, NEW a \in Approvals, NEW p \in People,
               Approve(h, a, p) \/ Reject(h, a, p)
        PROVE  table'[id] = table[id]
    BY <2>3 DEF Approve, Reject, Decide
  <2>4. ASSUME NEW h \in Handlers, SaveFails(h) PROVE table'[id] = table[id]
    BY <2>4 DEF SaveFails
  <2> QED
    BY <2>1, <2>2, <2>3, <2>4 DEF Next
<1> QED
  BY <1>1, ApprovalInvariant, PTL DEF Spec, FinalUnlessContested

(* Handlers take turns on a row: no two hold a copy of it at once.         *)
OneAtATime == \A g, h \in InFlight : held[g].id = held[h].id => g = h

Uncontested == contested = {}

LEMMA NoneContested ==
  TypeOK /\ ApprovalInv /\ Uncontested /\ OneAtATime' /\ [Next]_vars => Uncontested'
<1> SUFFICES ASSUME TypeOK, ApprovalInv, contested = {}, OneAtATime', [Next]_vars
             PROVE  contested' = {}
  BY DEF Uncontested
<1>1. ASSUME NEW h \in Handlers, NEW id \in Approvals, NEW p \in People,
             NEW decision \in Decisions, Decide(h, id, p, decision)
      PROVE  contested' = {}
  <2>1. PICK c \in Held : held' = [held EXCEPT ![h] = c] /\ c.id = id
    BY <1>1, DecideCopy
  <2>2. held[h] = None /\ held'[h] = c /\ h \in InFlight'
    BY <1>1, <2>1, NoneAssumption DEF NoneAssumption, Decide, TypeOK, InFlight
  <2>3. ASSUME NEW g \in InFlight, held[g].id = id PROVE FALSE
    <3>1. g # h /\ held'[g] = held[g] /\ g \in InFlight'
      BY <2>1, <2>2, <2>3 DEF InFlight, TypeOK
    <3> QED
      BY <2>1, <2>2, <2>3, <3>1 DEF OneAtATime
  <2> QED
    BY <1>1, <2>3 DEF Decide
<1>2. ASSUME NEW id \in Approvals, CreateRequest(id) PROVE contested' = {}
  BY <1>2 DEF CreateRequest
<1>3. ASSUME NEW h \in Handlers, Save(h) \/ SaveFails(h) PROVE contested' = {}
  BY <1>3 DEF Save, SaveFails
<1>4. CASE UNCHANGED vars
  BY <1>4 DEF vars
<1> QED
  BY <1>1, <1>2, <1>3, <1>4 DEF Next, Approve, Reject, Decisions

LEMMA NoRowContested == Spec /\ []OneAtATime => []Uncontested
<1>1. Init => Uncontested
  BY DEF Init, Uncontested
<1> QED
  BY <1>1, NoneContested, ApprovalInvariant, PTL DEF Spec

(* A decision is final, as the error messages of approve() and reject()    *)
(* say, in every behaviour in which no two handlers are between the read   *)
(* and the write of one row.                                               *)
THEOREM DecisionsAreFinalAlone == Spec /\ []OneAtATime => DecisionIsFinal
<1> DEFINE Kept == \A id \in Rows :
                     Decided(table[id]) /\ id \notin contested => table'[id] = table[id]
           Final == \A id \in Rows : Decided(table[id]) => table'[id] = table[id]
<1>1. Spec => [][Kept]_vars
  BY DecisionsAreKept DEF FinalUnlessContested
<1>2. Uncontested /\ [Kept]_vars => [Final]_vars
  BY DEF Uncontested
<1>3. [][Final]_vars => DecisionIsFinal
  BY DEF DecisionIsFinal
<1> HIDE DEF Kept, Final
<1> QED
  BY NoRowContested, <1>1, <1>2, <1>3, PTL

-------------------------------------------------------------------------------
(* The refinement: a save is an indivisible answer, because what the copy  *)
(* was made from is what it replaces, unless the row is contested.         *)
LedgerInv ==
  \A h \in InFlight :
    /\ Copied(held[h], table[held[h].id])
    /\ held[h].id \notin contested => Answers(held[h], table[held[h].id])

LEMMA LedgerFirst == Init => LedgerInv /\ Ledger!LedgerInit
  BY DEF Init, LedgerInv, InFlight, Ledger!LedgerInit

LEMMA SavedRow ==
  ASSUME TypeOK, ApprovalInv, NEW h \in Handlers, Save(h)
  PROVE  /\ h \in InFlight /\ held[h] \in Held /\ held[h].id \in Rows
         /\ table' = [table EXCEPT ![held[h].id] = held[h].record]
         /\ table'[held[h].id] = held[h].record
         /\ \A a \in Rows : a # held[h].id => table'[a] = table[a]
         /\ \A g \in InFlight' : g # h /\ g \in InFlight /\ held'[g] = held[g]
  BY DEF Save, InFlight, TypeOK, Held, ApprovalInv, HeldInv, Rows

LEMMA LedgerInvStep == TypeOK /\ ApprovalInv /\ LedgerInv /\ [Next]_vars => LedgerInv'
<1> SUFFICES ASSUME TypeOK, ApprovalInv, LedgerInv, [Next]_vars PROVE LedgerInv'
  OBVIOUS
<1>a. \A h \in InFlight : held[h].id \in Rows
  BY DEF ApprovalInv, HeldInv
<1>1. ASSUME NEW id \in Approvals, CreateRequest(id) PROVE LedgerInv'
  <2>1. \A a \in Rows : table'[a] = table[a]
    BY <1>1 DEF CreateRequest, TypeOK, Rows
  <2> QED
    BY <1>1, <1>a, <2>1 DEF CreateRequest, LedgerInv, InFlight
<1>2. ASSUME NEW h \in Handlers, NEW id \in Approvals, NEW p \in People,
             NEW decision \in Decisions, Decide(h, id, p, decision)
      PROVE  LedgerInv'
  <2>1. PICK c \in Held :
          /\ held' = [held EXCEPT ![h] = c] /\ c.id = id
          /\ Copied(c, table[id]) /\ Answers(c, table[id])
    BY <1>2, DecideCopy
  <2>2. table' = table /\ contested \subseteq contested'
    BY <1>2 DEF Decide
  <2>3. \A g \in InFlight' : held'[g] = c \/ (g \in InFlight /\ held'[g] = held[g])
    BY <2>1 DEF InFlight, TypeOK
  <2> QED
    BY <2>1, <2>2, <2>3 DEF LedgerInv
<1>3. ASSUME NEW h \in Handlers, Save(h) PROVE LedgerInv'
  <2>1. ASSUME NEW g \in InFlight'
        PROVE  /\ Copied(held'[g], table'[held'[g].id])
               /\ held'[g].id \notin contested' => Answers(held'[g], table'[held'[g].id])
    <3>1. g # h /\ g \in InFlight /\ held'[g] = held[g] /\ held[g].id \in Rows
      BY <1>3, <2>1, <1>a, SavedRow
    <3>2. Copied(held[g], table[held[g].id])
      BY <3>1 DEF LedgerInv
    <3>3. CASE held[g].id # held[h].id
      BY <1>3, <3>1, <3>3, SavedRow DEF LedgerInv, Save
    <3>4. CASE held[g].id = held[h].id
      <4>1. held[g].id \in contested /\ contested' = contested
        BY <1>3, <3>1, <3>4, SavedRow DEF ApprovalInv, Save
      <4>2. Copied(held[h], table[held[h].id])
        BY <1>3, SavedRow DEF LedgerInv
      <4>3. Copied(held[g], held[h].record)
        BY <3>2, <3>4, <4>2 DEF Copied, SameApprovers
      <4> QED
        BY <1>3, <3>1, <3>4, <4>1, <4>3, SavedRow
    <3> QED
      BY <3>3, <3>4
  <2> QED
    BY <2>1 DEF LedgerInv
<1>4. ASSUME NEW h \in Handlers, SaveFails(h) PROVE LedgerInv'
  BY <1>4 DEF SaveFails, LedgerInv, InFlight, TypeOK
<1>5. CASE UNCHANGED vars
  BY <1>5 DEF vars, LedgerInv, InFlight
<1> QED
  BY <1>1, <1>2, <1>3, <1>4, <1>5 DEF Next, Approve, Reject, Decisions

LEMMA VerdictFollows ==
  ASSUME NEW steps
  PROVE  Ledger!Follows(Verdict(steps), steps)
  BY DEF Ledger!Follows, Ledger!Statuses, Ledger!Decisions, Verdict

(* A copy that still answers the row is one indivisible decision.          *)
LEMMA SaveAnswers ==
  ASSUME TypeOK, ApprovalInv, LedgerInv, NEW h \in Handlers, Save(h),
         held[h].id \notin contested
  PROVE  Ledger!Answer(held[h].id, held[h].by, held[h].decision)
<1> DEFINE c == held[h]
           old == table[c.id].steps
<1>1. /\ c \in Held /\ c.id \in Rows /\ Copied(c, table[c.id])
      /\ Answers(c, table[c.id]) /\ table' = [table EXCEPT ![c.id] = c.record]
  BY SavedRow DEF LedgerInv
<1>2. PICK i \in DOMAIN old :
        FirstOpen(old, c.by, i) /\ c.record.steps = [old EXCEPT ![i].status = c.decision]
  BY <1>1 DEF Answers
<1>3. \A j \in DOMAIN old : old[j] = [approver |-> old[j].approver, status |-> old[j].status]
  <2>1. old \in Steps
    BY <1>1 DEF TypeOK, Rows, Record
  <2> QED
    BY <2>1 DEF Steps, Step
<1>4. /\ i \in Ledger!OpenFor(c.by, old)
      /\ \A j \in Ledger!OpenFor(c.by, old) : i <= j
  BY <1>2, <1>3 DEF Ledger!OpenFor, FirstOpen
<1>5. c.record = [status |-> Verdict(c.record.steps), steps |-> c.record.steps]
  BY <1>1 DEF Copied, Held, Record
<1>6. /\ Ledger!Follows(Verdict(c.record.steps), c.record.steps)
      /\ Verdict(c.record.steps) \in Ledger!Statuses
  BY VerdictFollows DEF Ledger!Follows
<1>7. /\ table[c.id] # None /\ table[c.id].status = "pending"
      /\ answered' = answered \cup {<<c.id, c.by, c.decision>>} /\ contested' = contested
  BY <1>1 DEF Answers, Rows, Save
<1> HIDE DEF c, old
<1> QED
  BY <1>1, <1>2, <1>4, <1>5, <1>6, <1>7 DEF Ledger!Answer, old, c

(* Any other copy keeps the approvers and rules by its own steps.          *)
LEMMA SaveClobbers ==
  ASSUME TypeOK, ApprovalInv, LedgerInv, NEW h \in Handlers, Save(h),
         held[h].id \in contested
  PROVE  Ledger!Clobber(held[h].id, held[h].by, held[h].decision)
<1> DEFINE c == held[h]
           old == table[c.id].steps
           new == [i \in DOMAIN old |-> c.record.steps[i].status]
           steps == [i \in DOMAIN old |-> [approver |-> old[i].approver, status |-> new[i]]]
<1>1. /\ c \in Held /\ c.id \in Rows /\ SameApprovers(c.record.steps, old)
      /\ c.record.status = Verdict(c.record.steps)
      /\ table' = [table EXCEPT ![c.id] = c.record]
  BY SavedRow DEF LedgerInv, Copied
<1>2. c.record.steps \in Steps
  BY <1>1 DEF Held, Record
<1>3. /\ c.record.steps = [i \in DOMAIN old |-> c.record.steps[i]]
      /\ \A i \in DOMAIN old : c.record.steps[i] =
           [approver |-> c.record.steps[i].approver, status |-> c.record.steps[i].status]
      /\ \A i \in DOMAIN old : c.record.steps[i].status \in Statuses
  <2>1. DOMAIN c.record.steps = DOMAIN old
    BY <1>1 DEF SameApprovers
  <2>2. \A i \in DOMAIN c.record.steps : c.record.steps[i] \in Step
    BY <1>2 DEF Steps
  <2>3. c.record.steps = [i \in DOMAIN c.record.steps |-> c.record.steps[i]]
    BY <1>2 DEF Steps
  <2> QED
    BY <2>1, <2>2, <2>3 DEF Step
<1>4. c.record.steps = steps
  <2>1. \A i \in DOMAIN old : c.record.steps[i].approver = old[i].approver
    BY <1>1 DEF SameApprovers
  <2>2. \A i \in DOMAIN old : c.record.steps[i] = steps[i]
    BY <1>3, <2>1
  <2>3. steps = [i \in DOMAIN old |-> steps[i]]
    OBVIOUS
  <2> HIDE DEF steps
  <2> QED
    BY <1>3, <2>2, <2>3
<1>5. new \in [DOMAIN old -> Ledger!Statuses]
  BY <1>3 DEF Ledger!Statuses, Ledger!Decisions, Statuses, Decisions
<1>6. c.record = [status |-> Verdict(steps), steps |-> steps]
  BY <1>1, <1>4 DEF Held, Record
<1>7. Ledger!Follows(Verdict(steps), steps) /\ Verdict(steps) \in Ledger!Statuses
  BY VerdictFollows DEF Ledger!Follows
<1>8. \E i \in DOMAIN steps : steps[i] = [approver |-> c.by, status |-> c.decision]
  <2>1. Has(c.record, c.by, c.decision)
    BY SavedRow DEF ApprovalInv, HeldInv
  <2> QED
    BY <2>1, <1>4 DEF Has
<1>9. /\ c.id \in contested
      /\ answered' = answered \cup {<<c.id, c.by, c.decision>>} /\ contested' = contested
  BY DEF Save
<1>10. table' = [table EXCEPT ![c.id] = [status |-> Verdict(steps), steps |-> steps]]
  BY <1>1, <1>6
<1>11. \E fresh \in [DOMAIN old -> Ledger!Statuses], status \in Ledger!Statuses :
         LET s == [i \in DOMAIN old |-> [approver |-> old[i].approver, status |-> fresh[i]]]
         IN /\ \E i \in DOMAIN s : s[i] = [approver |-> c.by, status |-> c.decision]
            /\ Ledger!Follows(status, s)
            /\ table' = [table EXCEPT ![c.id] = [status |-> status, steps |-> s]]
  <2> USE <1>5, <1>7
  <2> WITNESS new \in [DOMAIN old -> Ledger!Statuses]
  <2> WITNESS Verdict(steps) \in Ledger!Statuses
  <2> QED
    BY <1>7, <1>8, <1>10
<1> HIDE DEF new, steps
<1> QED
  BY <1>9, <1>11 DEF Ledger!Clobber

LEMMA CreateAsks ==
  ASSUME TypeOK, NEW id \in Approvals, CreateRequest(id)
  PROVE  Ledger!Ask(id)
<1>0. PICK n \in 0..MaxSteps : \E required \in [1..n -> Approvers] :
        table' = [table EXCEPT ![id] =
                    [status |-> "pending", steps |-> StepsFor(n, required)]]
  BY DEF CreateRequest
<1>1. PICK required \in [1..n -> Approvers] :
        table' = [table EXCEPT ![id] =
                    [status |-> "pending", steps |-> StepsFor(n, required)]]
  BY <1>0
<1>2. \E m \in 1..MaxSteps : \E names \in [1..m -> People] :
        StepsFor(n, required)
          = [i \in 1..m |-> [approver |-> names[i], status |-> "pending"]]
  <2>1. CASE n = 0
    <3>1. [i \in 1..1 |-> Default] \in [1..1 -> People] /\ 1 \in 1..MaxSteps
      BY ApprovalAssumption DEF ApprovalAssumption, People
    <3>2. StepsFor(n, required)
            = [i \in 1..1 |-> [approver |-> [j \in 1..1 |-> Default][i],
                               status |-> "pending"]]
      BY <2>1 DEF StepsFor
    <3> QED
      BY <3>1, <3>2
  <2>2. CASE n # 0
    <3>1. n \in 1..MaxSteps /\ required \in [1..n -> People]
      BY <2>2, ApprovalAssumption DEF ApprovalAssumption, People
    <3>2. StepsFor(n, required)
            = [i \in 1..n |-> [approver |-> required[i], status |-> "pending"]]
      BY <2>2 DEF StepsFor
    <3> QED
      BY <3>1, <3>2
  <2> QED
    BY <2>1, <2>2
<1> QED
  BY <1>1, <1>2 DEF Ledger!Ask, CreateRequest

LEMMA LedgerStep ==
  ASSUME TypeOK, ApprovalInv, LedgerInv, [Next]_vars
  PROVE  [Ledger!LedgerNext]_(Ledger!ledgerVars)
<1> USE DEF Ledger!LedgerNext, Ledger!SerialNext, Ledger!ledgerVars
<1>1. ASSUME NEW id \in Approvals, CreateRequest(id) PROVE Ledger!Ask(id)
  BY <1>1, CreateAsks
<1>2. ASSUME NEW h \in Handlers, NEW id \in Approvals, NEW p \in People,
             NEW decision \in Decisions, Decide(h, id, p, decision)
      PROVE  Ledger!Overlap(id) \/ UNCHANGED Ledger!ledgerVars
  BY <1>2 DEF Decide, Ledger!Overlap
<1>3. ASSUME NEW h \in Handlers, Save(h) PROVE Ledger!LedgerNext
  <2>1. held[h].id \in Approvals /\ held[h].by \in People
        /\ held[h].decision \in Ledger!Decisions
    BY <1>3, SavedRow DEF Held, Decisions, Ledger!Decisions
  <2> QED
    BY <1>3, <2>1, SaveAnswers, SaveClobbers
<1>4. ASSUME NEW h \in Handlers, SaveFails(h) PROVE UNCHANGED Ledger!ledgerVars
  BY <1>4 DEF SaveFails
<1>5. CASE UNCHANGED vars
  BY <1>5 DEF vars
<1> QED
  BY <1>1, <1>2, <1>3, <1>4, <1>5 DEF Next, Approve, Reject, Decisions

(* approve() and reject() are indivisible decisions on the row as it       *)
(* stands, for any number of handlers, approvers and failed saves, on      *)
(* every row their handlers did not overlap on.                            *)
THEOREM ImplementsTheLedger == Spec => ImplementsLedger
<1>1. TypeOK /\ ApprovalInv /\ LedgerInv /\ [Next]_vars
        => (TypeOK /\ ApprovalInv /\ LedgerInv)'
  BY ApprovalStep, LedgerInvStep
<1>2. TypeOK /\ ApprovalInv /\ LedgerInv /\ [Next]_vars
        => [Ledger!LedgerNext]_(Ledger!ledgerVars)
  BY LedgerStep
<1> QED
  BY <1>1, <1>2, ApprovalInit, LedgerFirst, PTL
     DEF Spec, ImplementsLedger, Ledger!LedgerSpec

-------------------------------------------------------------------------------
(* Without the race.  Nothing in the code keeps a handler from reading a   *)
(* row that another one is about to save.  When something does, a row is   *)
(* decided one answer at a time.                                           *)
EveryAnswerSticks ==
  \A e \in answered : e[1] \in Rows /\ Has(table[e[1]], e[2], e[3])

LEMMA SerialStep ==
  TypeOK /\ ApprovalInv /\ LedgerInv /\ Uncontested /\ OneAtATime' /\ [Next]_vars
    => [Ledger!SerialNext]_(Ledger!ledgerVars)
<1> SUFFICES ASSUME TypeOK, ApprovalInv, LedgerInv, Uncontested, OneAtATime', [Next]_vars
             PROVE  [Ledger!SerialNext]_(Ledger!ledgerVars)
  OBVIOUS
<1>1. ASSUME NEW id \in Approvals, CreateRequest(id) PROVE Ledger!SerialNext
  BY <1>1, CreateAsks DEF Ledger!SerialNext
<1>2. ASSUME NEW h \in Handlers, NEW id \in Approvals, NEW p \in People,
             NEW decision \in Decisions, Decide(h, id, p, decision)
      PROVE  UNCHANGED Ledger!ledgerVars
  <2>1. UNCHANGED contested
    BY NoneContested DEF Uncontested
  <2> QED
    BY <1>2, <2>1 DEF Decide, Ledger!ledgerVars
<1>3. ASSUME NEW h \in Handlers, Save(h) PROVE Ledger!SerialNext
  <2>1. held[h].id \in Approvals /\ held[h].by \in People
        /\ held[h].decision \in Ledger!Decisions
    BY <1>3, SavedRow DEF Held, Decisions, Ledger!Decisions
  <2>2. Ledger!Answer(held[h].id, held[h].by, held[h].decision)
    BY <1>3, SaveAnswers DEF Uncontested
  <2> QED
    BY <2>1, <2>2 DEF Ledger!SerialNext
<1>4. ASSUME NEW h \in Handlers, SaveFails(h) PROVE UNCHANGED Ledger!ledgerVars
  BY <1>4 DEF SaveFails, Ledger!ledgerVars
<1>5. CASE UNCHANGED vars
  BY <1>5 DEF vars, Ledger!ledgerVars
<1> QED
  BY <1>1, <1>2, <1>3, <1>4, <1>5 DEF Next, Approve, Reject, Decisions

(* If no handler reads a row while another is about to save it, every      *)
(* answer that was accepted (HTTP 200) stays in the row for good.          *)
THEOREM TurnsKeepAnswers == Spec /\ []OneAtATime => []EveryAnswerSticks
<1>1. ApprovalInv /\ Uncontested => EveryAnswerSticks
  BY DEF ApprovalInv, Uncontested, EveryAnswerSticks
<1> QED
  BY <1>1, NoRowContested, ApprovalInvariant, PTL

(* Under the same condition every save is one indivisible decision of the  *)
(* row as it stands: nothing is clobbered.                                 *)
THEOREM TurnsAreSerial == Spec /\ []OneAtATime => Ledger!SerialSpec
<1>1. TypeOK /\ ApprovalInv /\ LedgerInv /\ [Next]_vars
        => (TypeOK /\ ApprovalInv /\ LedgerInv)'
  BY ApprovalStep, LedgerInvStep
<1> QED
  BY <1>1, NoRowContested, SerialStep, ApprovalInit, LedgerFirst, PTL
     DEF Spec, Ledger!SerialSpec
===============================================================================
