SPECIFICATION Spec
CONSTANT Layouts <- MCLayouts
INVARIANTS
    EveryOverlapSurfaces
    ReportsAreReal
