SPECIFICATION Spec
CONSTANTS
    s1 = s1
    s2 = s2
    s3 = s3
    q1 = q1
    q2 = q2
    q3 = q3
    lead = lead
    won = won
    alien = alien
    ann = ann
    sales = sales
    care = care
    visit = visit
    EventId = {visit}
    Nobody = Nobody
    None = None
    Submission = {s1, s2, s3}
    Request = {q1, q2, q3}
    Stage = {lead, won}
    Entry = lead
    Foreign = alien
    Agent = {ann}
    Team = {sales, care}
    Given <- Cases
    MaxCloses = 1
INVARIANTS
    TypeOK
    SubmissionsKept
    TrailLeadsToStage
    GrantsAreTheLast
CHECK_DEADLOCK FALSE
