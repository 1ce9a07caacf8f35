\* Every column type; two endpoints that fail and come back.
SPECIFICATION LiveSpec
CONSTANTS
  Documents <- MCDocuments
  Malformed = Malformed
  NoConfig = NoConfig
  OtherTemplates <- MCTemplates
  TablesFor <- MCTablesFor
  FieldIds = {0, 1}
  MaxRecords = 3
INVARIANTS
  TypeOK AcceptedTypesAreUsable RowsStayAligned RowsAreRecords StoredWhereTheTableFits
PROPERTIES
  FittingEndpointIsFound
