\* Three jobs: one shows a page, one starts another, one is the standby.
SPECIFICATION Spec
CONSTANTS
    Requests = {r1, r2}
    Pages = {page}
    Films = {film}
    Doc = doc
    Wizard = wizard
    Cast = cast
    Off = off
    NoMode = nomode
    Nobody = nobody
    MaxMinutes = 1
    MaxJobs = 3
    MaxFailures = 0
PROPERTY StandbyKeepsContent
CHECK_DEADLOCK FALSE
