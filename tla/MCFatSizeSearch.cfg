CONSTANTS
    Top = 6
    Floors = {1, 2, 3, 5, 7}
    Ceilings = {6}
    Thresholds = {4}
    Verdicts <- MCFatVerdicts
SPECIFICATION FatSpec
INVARIANTS
    AnswerIsAnEdge
    FindsTheSmallest
    SettlesOnTheLeast
