SPECIFICATION FairSpec
CONSTANTS
  Unset = Unset
  NoObject = NoObject
  Us = Us
  Other = Other
  Families <- MCFamilies
  Generated <- MCGenerated
  ForeignKeys = {"theirs"}
  MaxEdits = 1
  MaxFaults = 1
PROPERTIES KeepsWhatIsNotOurs WritesEnd 
\* An object that is as generated is left alone.
CHECK_DEADLOCK FALSE
