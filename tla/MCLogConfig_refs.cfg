SPECIFICATION MCSpec
CONSTANT Length = 1
INVARIANT ReferencesKept
