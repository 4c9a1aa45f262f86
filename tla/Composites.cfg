SPECIFICATION Spec
INVARIANTS ProtocolKept NeverStranded ErrorsHeard CancelPassedOn FinallyRuns
PROPERTY BackgroundStays
