CONSTANTS
    Ids = {0, 1, 2, 3, 4}
    VectorSize = 2
    Columns = {a, b}
    Indexed = {b}
    MaxFilters = 2
    a = a
    b = b
SPECIFICATION Spec
INVARIANTS
    TypeOK EachRowOnce ColumnIsOfTheRow
