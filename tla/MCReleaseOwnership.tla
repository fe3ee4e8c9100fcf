------------------------- MODULE MCReleaseOwnership -------------------------
(* Model values and bounds for ReleaseOwnership.                           *)
EXTENDS ReleaseOwnership

CONSTANTS b1, b2, d1

MCReleases    == {b1, b2}
MCDeployments == {d1}
MCTarget      == [b \in MCReleases |-> d1]
MCSizes       == {1, 2}
=============================================================================
