SPECIFICATION Spec
CONSTANT HasBackfill = TRUE
INVARIANTS
    NoExcept
    ClaimsAreInPlace
    StarterMatchesActivity
PROPERTY RequestIsSettled
