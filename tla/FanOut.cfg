CONSTANTS
    malware = malware
    registry = registry
    analyzer = analyzer
    publisher = publisher
    whole = whole
    huge = huge
    MaxScans = 2
    MaxSweeps = 1
    Providers = {malware, registry, analyzer, publisher}
    Stage <- MCStage
    LastStage = 2
    Sticky = {malware, analyzer, publisher}
    Evidenced = {publisher}
    Cacheable = {analyzer}
    NeedBytes = {analyzer}
    Malware = malware
    Exempt = {registry}
    Outcomes <- MCOutcomes
    Flaky = {publisher}
    Requests <- MCRequests
    Mixes <- MCMixes
    Stored <- MCStored
    Digests = {whole, huge}
    Truncated = {huge}
    Content <- MCContent
    Failing = {"lookup", "prior", "save", "upsert"}
    None = None
SPECIFICATION Spec
INVARIANTS FanOutInv ColumnsAgree AnalysesAreComplete WorkIsKept
  
CHECK_DEADLOCK FALSE
