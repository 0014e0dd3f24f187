SPECIFICATION FairSpec
CONSTANTS
    Element = {w, b, column}
    Visual = {w, b}
    Holders = {b}
    Generated = {column}
    Windows = {w}
    Editable = {b}
    Nobody = Nobody
    Owners = {0, 1, 2}
INVARIANTS TypeOK IdsResolve
PROPERTIES ImplementsUiCalls Replied
