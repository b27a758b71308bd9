SPECIFICATION MCSpec
INVARIANTS HeadersMerged
