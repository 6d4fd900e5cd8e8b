INIT Init
NEXT Next
INVARIANT IdKeysInjective
