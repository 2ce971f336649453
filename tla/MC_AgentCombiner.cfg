CONSTANTS
    t1 = t1
    t2 = t2
    Threads <- MCThreads
    MaxAdds <- MCMaxAdds
    MaxGens <- MCMaxGens
SYMMETRY Symm
SPECIFICATION Spec
INVARIANT Conservation
PROPERTY CombineInRange
