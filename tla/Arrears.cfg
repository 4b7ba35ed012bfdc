\* One meter, one invoice, one command of an operator, one restart.
SPECIFICATION FairSpec
CONSTANTS
  Meter = {m1}
  m1 = m1
  MaxAttempts = 2
  AckLife = 2
  Invoices = 1
  MaxManual = 1
  MaxRestarts = 1
INVARIANTS TypeOK ShownIsTrue NobodyForgotten
PROPERTIES KeepsTheQueue SettledStaysOpen ClosureIsRetried SettledIsServed
CHECK_DEADLOCK FALSE
