SPECIFICATION Spec
CONSTANTS
    None = None
    Item <- MCItem
    LastDay = 4
INVARIANT ActionableIsOpen
PROPERTIES
    RefreshAgreesWithCollection
    BackfillsAgreeWithCollection
    TextOutlivesCollection
CHECK_DEADLOCK FALSE
