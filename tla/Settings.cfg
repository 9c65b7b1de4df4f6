SPECIFICATION Spec
CONSTANTS
    q1 = q1
    q2 = q2
    q3 = q3
    q4 = q4
    user = user
    token = token
    agents = agents
    reuse = reuse
    reopen = reopen
    focus = focus
    sticky = sticky
    Legacy = Legacy
    None = None
    Request = {q1, q2, q3, q4}
    Secret = {user, token}
    Token = token
    Flag = {agents, reuse, reopen}
    Reuse = {reuse, reopen}
    Column = {focus, sticky}
    Given <- Cases
INVARIANTS
    TypeOK
    SavedSettingsStand
    AccountsHaveConnector
    RoutingMadeOnce
CHECK_DEADLOCK FALSE
