SPECIFICATION Spec
CONSTANTS
    Docs = {d1}
    MaxVersions = 2
    w1 = w1
    w2 = w2
    Workers = {cron, w1, w2}
    Cron = cron
    None = None
    Mode = "required"
    EmployeeCanUpload = FALSE
    ScanOnUpload = TRUE
    Serves <- ServesUploads
    Failures = FALSE
SYMMETRY Symmetry
INVARIANT CommittedFilesKept
