SPECIFICATION Spec
CONSTANTS
    TitleSpace <- MCTitleSpace
    DataSpace <- MCDataSpace
    SampleSpace <- MCSampleSpace
    MaxTraces <- MCMaxTraces
    Inputs <- AcqInputs
INVARIANTS
    CountedIsReadable
    ClosedFileOpens
CHECK_DEADLOCK FALSE
