SPECIFICATION Spec
CONSTANTS
    r1 = r1
    r2 = r2
    r3 = r3
    ended = ended
    serviced = serviced
    audit_all = audit_all
    crm = crm
    w1 = w1
    w2 = w2
    NoKey = NoKey
    Transcription = Transcription
    Request = {r1, r2}
    Changing = {r2}
    Emitting = {r2}
    Direct = {r1}
    Guarded = {r1}
    Key = {ended, serviced}
    Workflow = {audit_all}
    Destination = {crm}
    Worker = {w1, w2}
    KeyOf <- MCKeyOf
    TypeOf <- MCTypeOf
    FilterOf <- MCFilterOf
    Queues <- NoMaintenance
    BatchLimit = 2
    RetryLimit = 1
    MaxAborts = 1
INVARIANTS
    TypeOK
    NoDuplicateRun
    ProcessedIsHandled
    DeadAfterRetries
    DeliveriesAccounted
PROPERTY
    RefinesEventQueue
CHECK_DEADLOCK FALSE
