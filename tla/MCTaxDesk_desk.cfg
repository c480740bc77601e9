SPECIFICATION Spec
CONSTANTS
  Row = {t}
  Quarters = 2
  Dates = {2}
  Adjustment = {a1, a2}
  MaxFacts = 1
  MaxRevision = 2
  Journal <- MCJournal
  Facts <- MCFacts
  Treatments <- MCTreatments
  Restated <- MCRestated
  Decisions <- MCDecisions
  Corrections <- MCCorrections
  Working = {1, 2}
  Threshold = 24000
  HardRate = 5
  HardCap = 300
  MaxPosted = 2
  YearEntries = {1, 4}
  LastQuarter = 2
  Sources = {"receipt", "legacy"}
  Slips = {1}
  Former = {1000}
  MaxFilings = 3
  Periods = 3
  YearLength = 3
  Figures130 <- MCFigures130
  Figures303 <- MCFigures303
  Due303 = {1}
  Formats = {"full", "boxes", "settlement", "result"}
  MaxReturns = 3
  AssetQuarters = 5
  AssetYear = 4
  Elapsed <- MCElapsed
  Life = 8
  Basis = 5
  Ratios <- MCRatios
  Balances = {0, 2}
  Gone <- MCGone
  Clerk = {c1, c2}
  Reference = {e1, e2}
  Scan = {d}
  MaxEvents = 3
  Payment = {1, 2}
  PaidIn <- MCPaidIn
  Legal = {"unknown", "individual", "entity"}
  Length <- MCLength
  Thirty = 3
  Scale = 12
  Bases = {1, 3}
  Tables <- MCTables
  Activities <- MCActivities
  Incomes = {6, 13}
  MaxElections = 3
SYMMETRY Symmetry
CHECK_DEADLOCK FALSE
INVARIANTS FiguresAddUp RowsHold AssetsHold CasesHold WithholdingHold RetaHold
PROPERTIES ClosedStays AttributionsConserve
