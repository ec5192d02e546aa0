--------------------------- MODULE ApprovalWorkflow ---------------------------
(***************************************************************************)
(* ApprovalWorkflow of guarded_automation.py on the approvals table of     *)
(* repository.py.  approve() and reject() read the record in one           *)
(* connection, decide on their copy, and write the whole record back in    *)
(* another; HTTP handlers run in a thread pool, so another handler may     *)
(* write in between.  create_request() is a single write of a new row.     *)
(*                                                                         *)
(* A definition placed just before another, with its name and a suffix, is *)
(* a variant with a plausible mistake, which the properties must notice.   *)
(***************************************************************************)
EXTENDS Naturals

CONSTANTS
  Approvals,     \* approval ids
  Approvers,     \* names that may be required
  Default,       \* "default_approver"
  Handlers,      \* HTTP handler threads
  None,          \* no record
  MaxSteps       \* bound: length of required_approvers

ASSUME ApprovalAssumption == MaxSteps \in Nat \ {0}

VARIABLES
  table,         \* table[id]: the approvals row, None before it is created
  held,          \* held[h]: the decided copy that handler h is about to save
  asked,         \* history: <<id, approver, decision>> a handler accepted
  answered,      \* history: those whose save succeeded (HTTP 200)
  contested      \* history: ids with two decisions in flight at once

vars == <<table, held, asked, answered, contested>>

People    == Approvers \cup {Default}
Decisions == {"approved", "rejected"}
Statuses  == Decisions \cup {"pending"}
Step      == [approver : People, status : Statuses]
Steps     == UNION {[1..n -> Step] : n \in 1..MaxSteps}
Record    == [status : Statuses, steps : Steps]
Held      == [id : Approvals, by : People, decision : Decisions, record : Record]

(* None is no record, so a saved row is never taken for a missing one, and *)
(* no handler's copy of a row for its absence.                             *)
ASSUME NoneAssumption == None \notin Record \cup Held

Rows     == {id \in Approvals : table[id] # None}
InFlight == {h \in Handlers : held[h] # None}

TypeOK ==
  /\ table \in [Approvals -> Record \cup {None}]
  /\ \A id \in Rows : table[id] \in Record
  /\ held \in [Handlers -> Held \cup {None}]
  /\ \A h \in InFlight : held[h] \in Held
  /\ asked \subseteq Approvals \X People \X Decisions
  /\ answered \subseteq asked
  /\ contested \subseteq Approvals

Init ==
  /\ table = [id \in Approvals |-> None]
  /\ held = [h \in Handlers |-> None]
  /\ asked = {}
  /\ answered = {}
  /\ contested = {}

-------------------------------------------------------------------------------
StepsForNobody(n, required) ==
  [i \in 1..n |-> [approver |-> required[i], status |-> "pending"]]

(* An empty list of approvers becomes one step of the default approver.    *)
StepsFor(n, required) ==
  IF n = 0 THEN [i \in 1..1 |-> [approver |-> Default, status |-> "pending"]]
  ELSE [i \in 1..n |-> [approver |-> required[i], status |-> "pending"]]

CreateRequest(id) ==
  /\ table[id] = None
  /\ \E n \in 0..MaxSteps : \E required \in [1..n -> Approvers] :
       table' = [table EXCEPT ![id] =
                   [status |-> "pending", steps |-> StepsFor(n, required)]]
  /\ UNCHANGED <<held, asked, answered, contested>>

FirstOpenOfAnybody(steps, approver, i) ==
  /\ i \in DOMAIN steps /\ steps[i].status = "pending"
  /\ \A j \in DOMAIN steps : steps[j].status = "pending" => i <= j

(* A name may be required more than once: each call decides its first step *)
(* that is still open.                                                     *)
FirstOpen(steps, approver, i) ==
  /\ i \in DOMAIN steps
  /\ steps[i].approver = approver /\ steps[i].status = "pending"
  /\ \A j \in DOMAIN steps :
       steps[j].approver = approver /\ steps[j].status = "pending" => i <= j

VerdictOfAny(steps) ==
  IF \E i \in DOMAIN steps : steps[i].status = "rejected" THEN "rejected"
  ELSE IF \E i \in DOMAIN steps : steps[i].status = "approved" THEN "approved"
  ELSE "pending"

VerdictOfAllOnly(steps) ==
  IF \A i \in DOMAIN steps : steps[i].status = "approved" THEN "approved" ELSE "pending"

Verdict(steps) ==
  IF \E i \in DOMAIN steps : steps[i].status = "rejected" THEN "rejected"
  ELSE IF \A i \in DOMAIN steps : steps[i].status = "approved" THEN "approved"
  ELSE "pending"

StillOpenAlways(record) == TRUE

StillOpen(record) == record.status = "pending"

(* get_approval, and the decision on the copy it returned.                 *)
Decide(h, id, approver, decision) ==
  /\ held[h] = None
  /\ table[id] # None /\ StillOpen(table[id])
  /\ \E i \in DOMAIN table[id].steps :
       /\ FirstOpen(table[id].steps, approver, i)
       /\ LET steps == [table[id].steps EXCEPT ![i].status = decision]
          IN held' = [held EXCEPT ![h] =
                        [id |-> id, by |-> approver, decision |-> decision,
                         record |-> [status |-> Verdict(steps), steps |-> steps]]]
  /\ asked' = asked \cup {<<id, approver, decision>>}
  /\ contested' = IF \E g \in InFlight : held[g].id = id
                  THEN contested \cup {id} ELSE contested
  /\ UNCHANGED <<table, answered>>

Approve(h, id, approver) == Decide(h, id, approver, "approved")

Reject(h, id, approver) == Decide(h, id, approver, "rejected")

SaveStatusOnly(h) ==
  /\ held[h] # None
  /\ table' = [table EXCEPT ![held[h].id].status = held[h].record.status]
  /\ answered' = answered \cup {<<held[h].id, held[h].by, held[h].decision>>}
  /\ held' = [held EXCEPT ![h] = None]
  /\ UNCHANGED <<asked, contested>>

(* save_approval replaces the row, whatever it holds by now.               *)
Save(h) ==
  /\ held[h] # None
  /\ table' = [table EXCEPT ![held[h].id] = held[h].record]
  /\ answered' = answered \cup {<<held[h].id, held[h].by, held[h].decision>>}
  /\ held' = [held EXCEPT ![h] = None]
  /\ UNCHANGED <<asked, contested>>

(* The write fails, or the process dies: the handler's copy is lost.       *)
SaveFails(h) ==
  /\ held[h] # None
  /\ held' = [held EXCEPT ![h] = None]
  /\ UNCHANGED <<table, asked, answered, contested>>

Next ==
  \/ \E id \in Approvals : CreateRequest(id)
  \/ \E h \in Handlers, id \in Approvals, p \in People :
       Approve(h, id, p) \/ Reject(h, id, p)
  \/ \E h \in Handlers : Save(h) \/ SaveFails(h)

Spec == Init /\ [][Next]_vars

-------------------------------------------------------------------------------
(* Properties.                                                             *)

(* However handlers overwrite each other, a row is approved only when every*)
(* approver it lists really asked for approval and no step is open or      *)
(* rejected.                                                               *)
ApprovalIsUnanimous ==
  \A id \in Rows : table[id].status = "approved" =>
    \A i \in DOMAIN table[id].steps :
      /\ table[id].steps[i].status = "approved"
      /\ <<id, table[id].steps[i].approver, "approved">> \in asked

(* No step is ever decided by somebody else: a decided step was asked for  *)
(* by that step's own approver, with that decision.                        *)
OnlyOwnSteps ==
  \A id \in Rows : \A i \in DOMAIN table[id].steps :
    LET s == table[id].steps[i]
    IN s.status \in Decisions => <<id, s.approver, s.status>> \in asked

(* No request gets stuck: while a row is pending, some step of it is open, *)
(* so somebody's approve() or reject() would still be accepted.            *)
PendingIsDecidable ==
  \A id \in Rows : table[id].status = "pending" =>
    \E i \in DOMAIN table[id].steps : table[id].steps[i].status = "pending"

Decided(record) == record.status \in Decisions

(* A decision, once recorded, is final: approve() and reject() refuse a    *)
(* record that is "already approved" or "already rejected".                *)
DecisionIsFinal ==
  [][\A id \in Rows : Decided(table[id]) => table'[id] = table[id]]_vars

(* The same for rows whose handlers never overlapped: nothing but the gap  *)
(* between the read and the write can undo a decision.                     *)
FinalUnlessContested ==
  [][\A id \in Rows :
       Decided(table[id]) /\ id \notin contested => table'[id] = table[id]]_vars

(* An answer that was accepted (HTTP 200) stays in the record of a row     *)
(* whose handlers never overlapped, also when other saves failed.          *)
AnswersStickUnlessContested ==
  \A e \in answered :
    e[1] \in contested \/ \E i \in DOMAIN table[e[1]].steps :
                            table[e[1]].steps[i] = [approver |-> e[2], status |-> e[3]]

Ledger == INSTANCE ApprovalLedger WITH
  row <- table, answers <- answered, overlapped <- contested

(* Reading, deciding on a copy and writing the copy back is, for the       *)
(* callers, one indivisible decision on the row as it stands, unless       *)
(* handlers overlapped on that row; and whatever they overwrite, no row    *)
(* changes its approvers or has a status its steps do not explain.         *)
ImplementsLedger == Ledger!LedgerSpec
===============================================================================
