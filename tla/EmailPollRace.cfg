SPECIFICATION FairSpec
CONSTANTS
    hello = hello
    other = other
    w1 = w1
    w2 = w2
    NoId = NoId
    Worker = {w1, w2}
    MaxMail = 3
    IdOf <- MCIdOf
    Own = {}
    Rejected = {}
    MaxExpunged = 1
    MaxErrors = 1
    MaxOmissions = 1
    MaxAborts = 1
INVARIANTS
    TypeOK
    OnePoller
    OneMessagePerId
    MailAccountedFor
PROPERTY
    MailIsDealtWith
CHECK_DEADLOCK FALSE
