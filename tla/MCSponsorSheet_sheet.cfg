SPECIFICATION Spec
CONSTANTS
    NumCompanies = 1
    Paid = {acme}
    Execs = {e1, e2}
    MaxRuns = 4
    MaxKills = 1
SYMMETRY ExecSymmetry
CHECK_DEADLOCK FALSE
INVARIANTS
    TypeOK
    DatedMeansMailed
    OnlyRefusedCodesMissing
    NoExtraMails
    OneRowPerName
