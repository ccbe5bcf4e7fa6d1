------------------------------ MODULE MCGithubApp ------------------------------
(* Model-checking instance of GithubApp: one repository, or two that can swap   *)
(* names, in the first of two installations, each claimed by a customer.        *)
EXTENDS GithubApp, TLC

RequestSymmetry == Permutations(Requests)
MCFirstName == [r \in Repos |-> IF r = "r1" THEN "n1" ELSE "n2"]
MCFirstInstall == [r \in Repos |-> "i1"]
MCFirstClaim == [i \in Installs |-> IF i = "i1" THEN "a" ELSE "b"]
=============================================================================
