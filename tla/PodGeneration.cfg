CONSTANTS
  Options <- AllOptions
  MaxEdits = 1
SPECIFICATION Spec
INVARIANTS PodIsValid FilesExist StoresOpen OptionsReachProcess
PROPERTIES RestartsAsAsked
CHECK_DEADLOCK FALSE
