------------------------- MODULE MCCandidateReview -------------------------
(* CandidateReview for TLC: the people a small employer's records describe. *)
EXTENDS CandidateReview, TLC

CONSTANTS c1, c2, t1, t2

Recruiter(scope, domain, support) ==
    [track |-> "recruiter", scope |-> scope, domain |-> domain, support |-> support,
     bucket |-> "recruiters", gates |-> {}]
Professional(scope, support, bucket, gates) ==
    [track |-> "professional", scope |-> scope, domain |-> "old", support |-> support,
     bucket |-> bucket, gates |-> gates]

\* Recruiters with and without evidence, found by a discovery of recruiters or
\* imported before the buckets, at both domains
MCRecruiters == { Recruiter("recruiters", "old", "evidence"), Recruiter("recruiters", "new", "evidence"),
                  Recruiter("recruiters", "old", "none"), Recruiter("legacy", "old", "none"),
                  Recruiter("peers", "new", "evidence") }

\* Professionals with each gate, in and out of the scope they were found by
MCProfessionals == { Professional("peers", "evidence", "peers", {"experience"}),
                     Professional("peers", "none", "peers", {"experience", "function"}),
                     Professional("executives", "title", "executives", {"seniority", "function"}),
                     Professional("executives", "evidence", "peers", {"email"}),
                     Professional("legacy", "none", "peers", {}),
                     Professional("legacy", "none", "peers", {"function"}),
                     Professional("legacy", "none", "peers", {"email", "function"}) }

MCProfiles == MCRecruiters \cup MCProfessionals

Symmetry == Permutations({c1, c2}) \cup Permutations({t1, t2})

=============================================================================
