SPECIFICATION Spec
CONSTANT MaxSeq = 8
INVARIANTS ContainsExactly Compacted LogIsPrefix
