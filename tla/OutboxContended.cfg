SPECIFICATION FairSpec
CONSTANTS
    r1 = r1
    r2 = r2
    r3 = r3
    ended = ended
    serviced = serviced
    audit_all = audit_all
    crm = crm
    w1 = w1
    w2 = w2
    NoKey = NoKey
    Transcription = Transcription
    Request = {r1, r2, r3}
    Changing = {r2}
    Emitting = {r2}
    Direct = {r1, r3}
    Guarded = {r1}
    Key = {ended, serviced}
    Workflow = {}
    Destination = {}
    Worker = {w1, w2}
    KeyOf <- MCKeyOf
    TypeOf <- MCTypeOf
    FilterOf <- MCFilterOf
    Queues <- NoMaintenance
    BatchLimit = 1
    RetryLimit = 0
    MaxAborts = 1
INVARIANT
    EventsOnRecord
PROPERTY
    EventSettles
CHECK_DEADLOCK FALSE
