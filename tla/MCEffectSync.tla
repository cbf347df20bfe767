---- MODULE MCEffectSync ----
\* One pull request and one issue, linked or not.
EXTENDS EffectSync
CONSTANTS pr, issue
MCPRs == {pr}
MCIssues == {issue}
====
