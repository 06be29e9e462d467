\* The filter against its word list, and the list against its file.
CONSTANTS
  a = a
  b = b
  Mask = Mask
  Space = Space
  Chars <- MCChars
  Words <- MCWords
  Texts <- MCTexts
  Files <- MCFiles
SPECIFICATION Spec
INVARIANTS
  VerdictRight
  MaskingRight
  FileKeepsUp
