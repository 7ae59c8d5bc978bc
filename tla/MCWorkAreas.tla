----------------------------- MODULE MCWorkAreas -----------------------------
EXTENDS WorkAreas, TLC

CONSTANTS e1, e2, a1

Colleagues == {e1, e2}

\* One area beside the default one; it belongs to one department.
OneSite == {a1, Home}
SitesOwner == [l \in Areas |-> IF l = Home THEN None ELSE CHOOSE d \in Departments : TRUE]

AlikeColleagues == Permutations(Colleagues)
=============================================================================
