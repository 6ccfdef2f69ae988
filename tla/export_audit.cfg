SPECIFICATION Spec
CONSTANTS
    Exports = {x1}
    Rows = {1, 2, 3, 4, 5}
    Amounts = {1, 2}
    Filters <- AllOrLater
    MaxExportRows = 4
    RowsPerChunk = 2
    FetchSize = 4
    MaxTotal = 2
INVARIANT
    AuditRecordsSent
CHECK_DEADLOCK FALSE
