SPECIFICATION Spec
CONSTANT RequestCase <- Questions
CONSTANT Entries <- RegisteredPlugins
INVARIANT GroupsStackLikeTags
CHECK_DEADLOCK FALSE
