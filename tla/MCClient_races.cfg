SPECIFICATION Spec
CONSTANTS
  Servers = {s1, s2}
  Conns <- MCConns
  NoConn = NoConn
  NoSearch = NoSearch
  NoFile = NoFile
  MaxReconnects = 2
  Writers = {"loop", "api"}
  MaxVersion = 2
  Transfers = {t1}
  Buffer = 1
  Gateways = {g1, g2}
  NoManager = NoManager
  Budgets <- MCBudgets
INVARIANTS TypeOK IdentityIsPrimarys StopSaves MappingsAreOwned
PROPERTIES Retried SearchEnds ChangesAreSaved SubscribersCatchUp WaitReturns
CHECK_DEADLOCK FALSE
