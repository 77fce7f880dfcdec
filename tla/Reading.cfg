SPECIFICATION Spec
CONSTANTS
  PageSize = 2
  Keys <- MCKeys
  Words <- MCWords
  Bounds <- MCBounds
  Documents <- MCDocuments
  Position <- MCPosition
  UserId <- MCUserId
  Modes <- MCModes
  Alphabet <- MCAlphabet
  Texts <- MCTexts
  Loose <- MCLoose
INVARIANTS TypeOK TextsRead ResultExact LinksFollow RequestRead
CHECK_DEADLOCK FALSE
