SPECIFICATION Spec
CONSTANTS
    Services = {"payment-service", "ledger-service"}
    Torn = Torn
    MaxSchema = 2
    MaxTrainKills = 1
    Records <- MCRecords
    Retrievals <- MCRetrievals
INVARIANTS
    TypeOK
    OldModelsAreRefused
    EvidenceOutweighsRetrieval
    RemedyNeedsMetric
    LimitationsTellAll
PROPERTIES
    RecordIsDecided
