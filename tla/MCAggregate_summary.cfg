SPECIFICATION Spec
CONSTANTS
    Payloads <- MCPayloads
    Missing = Missing
    None = None
    Trim <- MCTrim
    Fold <- MCFold
    MerchNamePatterns = {"hoodie"}
    SponsorTicketTypePKs = {1}
    NaN = NaN
CHECK_DEADLOCK FALSE
INVARIANTS
    RowsShareOutTickets
    OneEntryPerSponsor
PROPERTY PortsLegacy
