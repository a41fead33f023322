----------------------------- MODULE MCDraftsPage -----------------------------
(* Instances of DraftsPage: the legacy draft of a recruiter, which may get a bucket,    *)
(* and another recruiter in the reserve or in the queue.                                *)
EXTENDS DraftsPage

CONSTANTS rita, lena, recruiters

OnlyRita   == <<rita>>
OnlyLena   == <<lena>>
BothQueued == <<rita, lena>>
Nobody     == <<>>
LegacyRita == [p \in People |-> IF p = rita THEN Legacy ELSE recruiters]
AllBuckets == [p \in People |-> recruiters]
NoDefault  == [p \in People |-> "none"]
CvForLena  == [p \in People |-> IF p = rita THEN "none" ELSE "cv"]
=============================================================================
