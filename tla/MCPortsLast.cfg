SPECIFICATION Spec
CONSTANTS
  Serial = {s1, s2, s3}
  Ports = 48
  SerialPorts = {10, 18, 22, 26, 34}
  Primary = 0
  Secondary = 8
  PrimaryDcr = 16
  SecondaryDcr = 17
  GuestPorts = {18, 47}
PROPERTY NobodysPortUnsupported
CHECK_DEADLOCK FALSE
