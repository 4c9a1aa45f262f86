SPECIFICATION Spec
CONSTANT MaxDepth = 4
INVARIANT CheckersSilent
INVARIANT RequestNotLost
PROPERTY ResultsHeard
