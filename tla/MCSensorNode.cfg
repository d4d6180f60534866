SPECIFICATION Spec
CONSTANTS
  Sketches = {"rtc", "relay", "dht", "mqtt_node", "http_node"}
  Period = 1
  Forever = 2
  MaxSocket = 1
  MaxFlying = 1
  Interval = 2
  Readings = {r1}
INVARIANTS OnTimeMeansRight GarbageMeansFailure RelayKnown
PROPERTIES FreshEnough
