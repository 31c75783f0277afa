SPECIFICATION Spec
CONSTANTS
    IntMod = 1024
    Items <- MCItems
    MaxPending = 3
    Capacity = 16
    MaxRead = 18
    Documents <- MCDocuments
INVARIANTS TypeOK KeepsInStep PublishesTheFrame CommandCarriesTheDocument
PROPERTY WholeItemIsTaken
CHECK_DEADLOCK FALSE
