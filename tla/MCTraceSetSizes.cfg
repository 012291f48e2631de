SPECIFICATION Spec
CONSTANTS
    TitleSpace <- MCTitleSpace
    DataSpace <- MCDataSpace
    SampleSpace <- MCSampleSpace
    MaxTraces <- MCMaxTraces
    Inputs <- AnyInputs
INVARIANTS
    ExactSizesOnly
CHECK_DEADLOCK FALSE
