CONSTANTS
  MaxProcesses = 4
  MAX_FD = 11
  RedirectLists <- MCRedirectLists
SPECIFICATION Spec
INVARIANTS
  TableRestored
  Plumbing
  LeaderLast
PROPERTY
  Returns
CHECK_DEADLOCK FALSE
