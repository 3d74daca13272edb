SPECIFICATION Spec
INVARIANTS FaultNeverForgotten ErrorMatchesFailure
PROPERTIES NothingAfterFinish TerminalIsFinal GateStaysOpen
