SPECIFICATION FairSpec
CONSTANTS
  ServerNames = {"", "primary", "10.0.0.1"}
  IPAddresses = {"10.0.0.1"}
  Addresses = {"192.0.2.1", "192.0.2.2"}
PROPERTIES TriesSecondary
