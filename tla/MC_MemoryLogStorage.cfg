\* MemoryLogStorage: reference counts and the refinement of LogStorage.
CONSTANTS
    r1 = r1
    r2 = r2
    Terms <- MCTerms
    MaxIndex <- MCMaxIndex
    BatchMax <- MCBatchMax
    Readers <- MCReaders

SPECIFICATION Spec

SYMMETRY ReaderSymmetry

INVARIANT TypeOK
INVARIANT RefsExact
PROPERTY Implements
