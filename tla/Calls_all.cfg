SPECIFICATION Spec
CONSTANTS
  NodeNumbers = {0, 1, 2, 63, 64, 127, 128}
  MaxParts = 300
  Gears = {1, 2, 121}
  Size = 6
  MaxResolution = 3
  Huge = 50
  Joints = {1, 2}
  Angles = {0, 1, 2}
INVARIANTS
  WheelsAddressable
  ArmAddressable
  MappedIsParsed
  EchoIsOwn
  TargetArrives
  PathIsLine
  MockObeys
