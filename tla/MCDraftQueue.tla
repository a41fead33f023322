---------------------------- MODULE MCDraftQueue ----------------------------
(* Small instances of DraftQueue for TLC.  Candidates are ranked as named:  *)
(* a before b.                                                              *)
EXTENDS DraftQueue

CONSTANTS a, b, c, d

RankOf        == [x \in Cand |-> CASE x = a -> 1 [] x = b -> 2 [] x = c -> 3 [] OTHER -> 4]
TwoCompanies  == [x \in Cand |-> IF x = c THEN "other" ELSE "acme"]
OwnCompanies  == [x \in Cand |-> x]
AllPeers      == [x \in Cand |-> "peers"]
NothingLegacy == <<>>
OneLegacy     == <<a>>
TwoLegacy     == <<a, b>>
\* The pilot recommendation a was never classified.
Mixed         == [x \in Cand |-> IF x = a THEN Unclassified ELSE "peers"]

\* A Friday evening after midnight UTC, a Saturday, and a day after the cooldown.
UtcDays       == <<6, 6, 14>>
CampaignDays  == <<5, 8, 14>>
\* A working hour and the time after the cooldown: the calendars agree.
PlainDays     == <<6, 14>>
OneDay        == <<6>>
\* A Saturday, planned as the Monday, and a day after the cooldown.
WeekendUtc      == <<6, 14>>
WeekendCampaign == <<8, 14>>
=============================================================================
