CONSTANTS
    Piece <- MCPiece
    Starts <- MCStarts
    MaxPieces = 3
    MaxRequirements = 2
    Requirements <- MCRequirements
    LabelSets <- MCLabelSets
    Attributes <- MCAttributes
    NoSelector = NoSelector
    Absent = Absent
    OtherType = OtherType
SPECIFICATION Spec
INVARIANTS
    NeverPanics
    TextsKeepMeaning
    WildcardAgrees
    AnswersOnce
    ExactMatchIsRequired
    SelectsByMetadata
CHECK_DEADLOCK FALSE
