SPECIFICATION Spec
CONSTANTS
  pr = pr
  issue = issue
  PRs <- MCPRs
  Issues <- MCIssues
  LabelEdits = {}
  Picks = {"Major", "Minor"}
  MaxEdits = 2
  MaxKills = 1
INVARIANT OneClassLabel
CHECK_DEADLOCK FALSE
