SPECIFICATION Spec
CONSTANTS
  Accounts <- MCAccounts
  AccountType <- MCAccountType
  Postings <- MCPostings
  RawLegs <- MCRawLegs
  MaxTxns = 3
INVARIANTS AccountingEquation ChecksAgree DeltasMatchBalances ReversalCancels
CHECK_DEADLOCK FALSE
