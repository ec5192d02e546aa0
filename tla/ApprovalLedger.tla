---------------------------- MODULE ApprovalLedger ----------------------------
(***************************************************************************)
(* What approve() and reject() promise their callers: an answer given with *)
(* success is one indivisible decision on the row as it stands, namely of  *)
(* the first open step of the approver who answered, and the status of the *)
(* row follows from its steps.  Only a row on which two answers were in    *)
(* flight at once, which is then overlapped for good, may be clobbered; it *)
(* still keeps its list of approvers and a status that follows from its    *)
(* steps.                                                                  *)
(*                                                                         *)
(* ApprovalWorkflow, where an answer is a read, a decision on a copy and a *)
(* write of the whole copy, implements this specification.                 *)
(***************************************************************************)
EXTENDS Naturals

CONSTANTS
  Approvals,     \* approval ids
  People,        \* who may be asked
  MaxSteps,      \* length of the longest list of approvers
  None           \* no row

VARIABLES
  row,           \* row[id]: the approval, None before it is requested
  answers,       \* <<id, person, decision>> answered with success
  overlapped     \* ids on which two answers were in flight at once

ledgerVars == <<row, answers, overlapped>>

Decisions == {"approved", "rejected"}
Statuses  == Decisions \cup {"pending"}

(* One rejection rejects, only unanimity approves.                         *)
Follows(status, steps) ==
  /\ status \in Statuses
  /\ status = "rejected" <=> \E i \in DOMAIN steps : steps[i].status = "rejected"
  /\ status = "approved" <=> \A i \in DOMAIN steps : steps[i].status = "approved"

OpenFor(person, steps) ==
  {i \in DOMAIN steps : steps[i] = [approver |-> person, status |-> "pending"]}

LedgerInit ==
  /\ row = [id \in Approvals |-> None]
  /\ answers = {}
  /\ overlapped = {}

Ask(id) ==
  /\ row[id] = None
  /\ \E n \in 1..MaxSteps : \E asked \in [1..n -> People] :
       row' = [row EXCEPT ![id] =
                 [status |-> "pending",
                  steps  |-> [i \in 1..n |-> [approver |-> asked[i], status |-> "pending"]]]]
  /\ UNCHANGED <<answers, overlapped>>

Answer(id, person, decision) ==
  /\ row[id] # None /\ row[id].status = "pending"
  /\ \E i \in OpenFor(person, row[id].steps), status \in Statuses :
       LET steps == [row[id].steps EXCEPT ![i].status = decision]
       IN /\ \A j \in OpenFor(person, row[id].steps) : i <= j
          /\ Follows(status, steps)
          /\ row' = [row EXCEPT ![id] = [status |-> status, steps |-> steps]]
  /\ answers' = answers \cup {<<id, person, decision>>}
  /\ UNCHANGED overlapped

Overlap(id) ==
  /\ row[id] # None
  /\ overlapped' = overlapped \cup {id}
  /\ UNCHANGED <<row, answers>>

Clobber(id, person, decision) ==
  /\ id \in overlapped
  /\ \E new \in [DOMAIN row[id].steps -> Statuses], status \in Statuses :
       LET steps == [i \in DOMAIN row[id].steps |->
                       [approver |-> row[id].steps[i].approver, status |-> new[i]]]
       IN /\ \E i \in DOMAIN steps : steps[i] = [approver |-> person, status |-> decision]
          /\ Follows(status, steps)
          /\ row' = [row EXCEPT ![id] = [status |-> status, steps |-> steps]]
  /\ answers' = answers \cup {<<id, person, decision>>}
  /\ UNCHANGED overlapped

-------------------------------------------------------------------------------
(* Handlers that take turns on a row only ever decide it one at a time.    *)
SerialNext ==
  \E id \in Approvals :
    \/ Ask(id)
    \/ \E person \in People, decision \in Decisions : Answer(id, person, decision)

LedgerNext ==
  \/ SerialNext
  \/ \E id \in Approvals :
       \/ Overlap(id)
       \/ \E person \in People, decision \in Decisions : Clobber(id, person, decision)

SerialSpec == LedgerInit /\ [][SerialNext]_ledgerVars
LedgerSpec == LedgerInit /\ [][LedgerNext]_ledgerVars
===============================================================================
