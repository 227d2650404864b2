CONSTANTS
  j1 = j1
  j2 = j2
  j3 = j3
  c1 = c1
  c2 = c2
  e1 = e1
  e2 = e2
  Jobs = {j1, j2, j3}
  Contents = {c1, c2}
  Editors = {e1, e2}
  Scenarios <- MCScenarios
  MaxRetries = 1
  BuiltinEngines = {"easyocr", "rapidocr", "tesserocr", "tesseract"}
  PluginEngines = {"suryaocr"}
  ClassifierPresets = {"document_figure_classifier_v2"}
  TokenizerDirs = {"/tokenizer"}
  LanguageCodes = {"en", "de"}
  None = None
  Garbage = Garbage
  Blank = Blank
  NoRow = NoRow
  NoRun = NoRun
  NoDoc = NoDoc
  NoDir = NoDir
  NoJob = NoJob
SPECIFICATION Spec
INVARIANTS ITypeOK StoredSettingsConstruct UpdatesAreWhole AcceptedIsParsed MetadataNamesWhatWasBuilt RunMirrorsJob LatestRunIsNewest InputSurvives OutputsAreOneRuns
CHECK_DEADLOCK FALSE
