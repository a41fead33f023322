-------------------------- MODULE MCGmailOutreach --------------------------
(* Instances of GmailOutreach for TLC.                                      *)
EXTENDS GmailOutreach, TLC

CONSTANTS s1, s2, c1

\* Two contents for one person: the rendered draft and an edited one.
OnePerson  == [s \in Snapshots |-> c1]
BaseOfOne  == [c \in Candidates |-> s1]

\* Focus on two concurrent requests for two contents of one person: no lost call, no
\* disposition, no outcome beyond the first report, and the one user-visible command
\* that approves, creates and sends.
TwoTabs ==
  /\ stray = {}
  /\ \A c \in Candidates : disposition[c] = "none"
  /\ \A s \in Snapshots : contact[s].outcome \in {"none", "awaiting-response"}
  /\ \A s \in Snapshots : gmail[s].mail # "sent-by-hand"
  /\ \A r \in Requests : req[r].goal = "send" \/ req[r].pc = "idle"

RequestSymmetry == Permutations(Requests)
============================================================================
