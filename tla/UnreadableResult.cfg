SPECIFICATION VerdictsSpec
CONSTANTS
    t1 = t1  t2 = t2  c1 = c1  c2 = c2  s1 = s1
    Requirements = {s1}  Units = {s1}  Sources = {s1}
    Answers <- SampleAnswers
    Callers = {t1, t2}  Modes = {"document"}  MaxDocuments = 2  MaxTexts = 0
    MaxRuns = 2  LostAnswers = FALSE  Crashes = TRUE
    Reusable = {c1, c2}  Requests = {t1, t2}  MaxOwnAnalyses = 1  MaxTemplates = 1
    MaxGiven = 2  MaxApplications = 2
    Credentials = {s1}  Operations = {t1, t2}  MaxProfiles = 2  MaxAnalyses = 1
    MaxApprovals = 1  Imports = TRUE  Failures = TRUE
INVARIANT
    CompletedRunsAreReadable
CHECK_DEADLOCK FALSE
