CONSTANT MemBytes = 32
SPECIFICATION FairSpec
INVARIANTS UnitsFit TransferExact
PROPERTIES FieldsSettled Completes
