\* Every package the payer may return against every pending candidate.
SPECIFICATION Spec
INVARIANT ValidationMatchesContract
\* Each package is validated once.
CHECK_DEADLOCK FALSE
