SPECIFICATION Spec
CONSTANTS
  Plans <- MCPlans
  FetchAttempts = 3
  CondResult <- EvaluateCondition
  Lower <- MCLower
  NumberOf <- MCNumberOf
  Alphabet <- MCAlphabet
  String <- Display
  Operands <- MCOperands
  Within <- MCWithin
  EndsIn <- MCEndsIn
  LexOf <- MCLexOf
INVARIANTS
  StepAccounting
  VerdictAgrees
  ConditionsHonoured
  ParserFaithful
  StatusGuarded
  ComparisonsAgree
PROPERTIES
  ImplementsProcess
  Exits
CHECK_DEADLOCK FALSE
