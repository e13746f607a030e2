SPECIFICATION Spec
CONSTANTS
    Configs <- SecretConfigs
    Machines <- Notebooks
    Reach <- MCReach
    Documents <- MCDocuments
    Picks <- MCPicks
INVARIANTS
    TypeOK
    RunsWhereAsked
    PickedAsListed
PROPERTIES
    ResolvedInOrder
    SecretsOnDemand
    ImplementsGate
CHECK_DEADLOCK FALSE
