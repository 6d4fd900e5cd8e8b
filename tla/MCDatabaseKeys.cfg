INIT Init
NEXT Next
INVARIANT FieldKeysInjective
INVARIANT QueryKeyPrefixesStoredKey
