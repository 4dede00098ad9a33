SPECIFICATION Spec
CONSTANTS
  MaxLength = 4
  MaxElements = 6
  PageSizes = {1, 2, 3}
  CursorOffsets <- MCCursorOffsets
  EntityTypes = {"Product", "Review"}
  Representations <- MCRepresentations
  Resolvers <- MCResolvers
  Forms <- MCForms
  Index <- MCIndex
  Files = {"f", "g"}
  Programs <- MCPrograms
  ToPrint <- MCToPrint
  OtherTexts <- MCOtherTexts
INVARIANTS
  PagesCoverTheList EntitiesKeepTheirSlots FilesTakePlaceholders
  SchemaIsWhole ReferencesKeepTheirMeaning
  TextIsKept
CHECK_DEADLOCK FALSE
