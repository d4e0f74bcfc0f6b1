CONSTANTS
    Levels = 3
    MaxId = 3
    CutMax = 100000
    MaxNodes <- NodesOfKind
    MaxPhases <- PhasesOfKind
SPECIFICATION Spec
INVARIANTS
    UnreferencedAreRoots
    PushedTopologically
    PointersMeanWhatWasAsked
    BuiltIsADiagram
    BuiltCutsAreSound
