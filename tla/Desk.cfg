SPECIFICATION Spec
CONSTANTS
    m1 = m1
    m2 = m2
    m3 = m3
    q1 = q1
    q2 = q2
    q3 = q3
    c1 = c1
    ann = ann
    bob = bob
    pat = pat
    max = max
    mail = mail
    post = post
    hello = hello
    thanks = thanks
    Nobody = Nobody
    None = None
    NoId = NoId
    Delivery = {m1, m2, m3}
    Request = {q1, q2, q3}
    Agent = {ann, bob}
    Account = {mail, post}
    Client = {c1}
    Given <- Cases
    QueueSize = 1
INVARIANTS
    TypeOK
    DoublesOverlapped
    AnswersStayInTicket
    SplitsExplained
    ClientsCatchUp
PROPERTIES
    MessagesSurface
    ChangesConfined
CHECK_DEADLOCK FALSE
