SPECIFICATION FairSpec
CONSTANTS
    Docs = {d1}
    MaxVersions = 2
    w1 = w1
    w2 = w2
    Workers = {cron, w1, w2}
    Cron = cron
    None = None
    Mode = "not_required"
    EmployeeCanUpload = TRUE
    ScanOnUpload = TRUE
    Serves <- ServesApart
    Failures = FALSE
PROPERTY RequestsFinish
PROPERTY CommandScansAll
