CONSTANTS
  MaxKey = 4
  Names <- MCNames
  Texts <- MCTexts
  Contains <- MCContains
SPECIFICATION Spec
INVARIANTS TypeOK TablesShowStore NeverAborts OneHome
PROPERTIES DeletesTheSwipedItem ClearingRestores
