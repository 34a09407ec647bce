SPECIFICATION Spec
SYMMETRY Symmetry
CHECK_DEADLOCK FALSE
CONSTANTS
  q1 = q1
  q2 = q2
  Slots <- MCWindows
  t1 = t1
  t2 = t2
  Templates <- MCTemplates
  FRules = {1, 2, 3, 4}
  ThemeUsers = {"ann"}
  TNames = {"n1"}
  TemplateDocs <- MCTemplateDocs
  RuleDocs <- MCRuleDocs
  RulePatches <- MCRulePatches
  ScaleDocs <- MCScaleDocs
  MaxThemeRequests = 4
  MaxFlowRequests = 3
  SeedRules = 3
  Records <- MCRecords
  RowThemes <- MCRowThemes
  ViewIDs = {1, 2, 3}
  ViewUsers = {"ann", "bob"}
  ViewNames = {"n1"}
  VFields = {"f1", "f2"}
  Nobody = Nobody
  NoDocument = NoDocument
  SourceDrafts <- MCSourceDrafts
  Granted <- MCGranted
  Readers = {"ann"}
  MaxViewWrites = 3
  GRows = {1, 2, 3}
  SortValues = {1, 2}
  NullValue = NullValue
  Searches = {"ab", "abc", "xyz"}
  Armed = {"abc", "xyz"}
  Tables <- MCTables
  Hits <- MCHits
  PageSize = 2
  RECENT_SEARCH_LIMIT = 2
  MaxPages = 2
  MaxRowWrites = 1
  PanelViews = {"v1", "v2"}
  SortFields = {"f1", "f2"}
  MaxClicks = 3
  RecordWindows <- MCWindows
  FieldWindows = {e1}
  f1 = f1
  f2 = f2
  EdFields <- MCEdFields
  AUTO_RETRY_LIMIT = 1
  MaxEdVersion = 3
  MessageKeys = {"m1"}
  MsgUsers = {"ann"}
  MaxMsgTime = 2
  MaxPatches = 2
PROPERTY ExportsCoverTheirScope
