SPECIFICATION Spec
CONSTANTS
  Approvals = {r1}
  Approvers = {ann, bob}
  Default = default_approver
  Handlers = {h1, h2}
  None = None
  MaxSteps = 3
INVARIANTS TypeOK ApprovalIsUnanimous OnlyOwnSteps PendingIsDecidable AnswersStickUnlessContested
PROPERTIES ImplementsLedger
CHECK_DEADLOCK FALSE
