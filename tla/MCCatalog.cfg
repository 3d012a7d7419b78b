SPECIFICATION FairSpec
CONSTANTS
  Models = {"art"}
  Files = {"weights"}
  ArtifactID <- MCArtifactID
  Tasks = {"timer", "handler"}
  Timer = "timer"
  Polls = {"p1"}
  MaxRev = 3
INVARIANTS
  TypeOK
PROPERTIES
  WithdrawnDisappears
