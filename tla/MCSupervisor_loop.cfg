SPECIFICATION Spec
CONSTANTS
  Enabled <- MCAll
  Installed = {"ddns", "portview", "wifi", "detect"}
  WebEvery = 1
  MaxDeaths = 3
INVARIANTS TypeOK NeverTwice
PROPERTIES WebServerKept SnmpSetsLand ButtonSeen
