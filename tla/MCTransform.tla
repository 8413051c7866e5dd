---------------------------- MODULE MCTransform -----------------------------
EXTENDS Transform, TLC

CONSTANTS name, owner, search, shellhw, edge

MCServices == {search, shellhw}

\* The minimal profile disables nothing; no profile disables ShellHWDetection.
MCProfiles == {[services |-> {}, packages |-> {}], [services |-> {search}, packages |-> {edge}]}
=============================================================================
