SPECIFICATION FairSpec
CONSTANTS
  pr = pr
  issue = issue
  PRs <- MCPRs
  Issues <- MCIssues
  LabelEdits = {"CR"}
  Picks = {"Query", "none"}
  MaxEdits = 2
  MaxKills = 1
INVARIANTS TypeOK EditHolds
PROPERTY Converges
CHECK_DEADLOCK FALSE
