SPECIFICATION Spec
CONSTANTS
  Letter <- MCLetter
  Name <- MCName
  Password <- MCPassword
  MaxUsers = 2
  Shipped <- MCShipped
  Flushed <- MCFlushed
INVARIANTS TypeOK NamesUnique AccountsSurvive
PROPERTY AccountsAreADirectory
