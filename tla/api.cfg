SPECIFICATION FairSpec
CONSTANTS
  Operations <- MCOperations
  Plain = {"x", "y"}
  Static = {"me", "incoming"}
INVARIANTS
  TypeOK
  ContractsAgree
  RunsOnlyAdmitted
  HeardAsAnswered
  SuccessMeansDone
  EveryErrorExplained
  PlainArgumentsArrive
PROPERTY
  ImplementsRemoteCall
