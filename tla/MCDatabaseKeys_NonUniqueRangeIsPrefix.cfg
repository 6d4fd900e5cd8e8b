INIT Init
NEXT Next
INVARIANT NonUniqueRangeIsPrefix
