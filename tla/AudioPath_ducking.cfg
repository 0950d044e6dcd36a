SPECIFICATION AudioSpec
CONSTANT MaxBuffered = 2
INVARIANT DuckingFollowsGuidance
