\* The trace of MCUpdateInIr in two metadata chunks, with every choice of
\* meanings among the candidate fields and every split of the classes.
CONSTANTS
    FT <- MCFT
    MeaningNodes <- MCMeaningNodes
    TraceRoot = 1
    SC <- MCSC
    EC <- MCEC
    NChunks = 2
SPECIFICATION Spec
INVARIANT InIrAsDefined
