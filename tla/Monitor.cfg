CONSTANTS
  Admin = {m1, m2}
  Name = {"a", "b"}
  Password = {"p", "q"}
  First <- MCFirst
  Methods <- MCMethods
  MaxUsers = 2
  Cells = 4
  LastIndex = 2
  MaxArgs <- MCMaxArgs
SYMMETRY MCSymmetry
SPECIFICATION Spec
INVARIANT TypeOK
INVARIANT FirstByteTrue
INVARIANT OutcomeKnown
INVARIANT MethodsAsAnswered
INVARIANT FinalizerDefined
PROPERTY ChangesByAdmins
CHECK_DEADLOCK FALSE
