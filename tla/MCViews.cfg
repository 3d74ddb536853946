SPECIFICATION MCSpec
CONSTANTS
    Chunk = 2
    MaxLines = 4
    Bytes = 6
    Width = 2
    Projects <- MCProjects
    MaxLength = 2
INVARIANTS
    SetIsSearchable
    ConditionsBelong
    MarkersActive
    PaneIsCurrent
    ModifiedIsCanonical
