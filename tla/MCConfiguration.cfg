SPECIFICATION Spec
CONSTANT RequestCase <- Questions
CONSTANT Entries <- RegisteredPlugins
INVARIANT MostSpecificRoute
INVARIANT NoLayerLost
INVARIANT ReadsAsWritten
INVARIANT NothingDropped
INVARIANT EveryLayerEnforced
CHECK_DEADLOCK FALSE
