SPECIFICATION Spec
CONSTANTS
  u1 = u1
  u2 = u2
  Users <- OneUser
  Background = TRUE
  Transport = "file"
  Sizes = {0, 1}
  Ticks = {0, 1}
  Faults = {"transport", "update"}
  MaxPublish = 2
  MaxFaults = 2
PROPERTIES
  DecisionsNeverGoBack
