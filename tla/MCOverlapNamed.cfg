SPECIFICATION Spec
CONSTANT Layouts <- MCProperLayouts
INVARIANT EveryOverlappingPartitionNamed
