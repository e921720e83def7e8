SPECIFICATION Spec
CONSTANTS
  pm = pm
  fin = fin
  exec = exec
  Nobody = Nobody
  People = {pm, fin, exec}
  Members = {pm}
  Manager = fin
  Granted <- Access
  Totals = {1}
  Entries <- SomeLines
  MaxVersions = 2
  MaxActuals = 2
  MaxMoney = 1
  MaxChanges = 2
INVARIANTS BudgetSound
PROPERTIES HiddenOnlyWhenAdded ClosedByAnother
CHECK_DEADLOCK FALSE
