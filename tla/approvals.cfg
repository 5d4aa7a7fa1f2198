SPECIFICATION Spec
CONSTANTS
  Proposals = {p1, p2}
  Deciders = {d1, d2, d3}
  NoProposal = NoProposal
  Commands = {c1, c2, c3}
  NoCommand = NoCommand
SYMMETRY Interchangeable
CHECK_DEADLOCK FALSE
INVARIANT TypeOK
INVARIANT ExecutedOnce
INVARIANT UnapprovedIsNotExecuted
INVARIANT ApprovedIsExecuted
PROPERTY DecisionStands
