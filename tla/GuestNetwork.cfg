SPECIFICATION FairSpec
CONSTANTS
  Guests <- PassGuests
  OldIfaces = {""}
  Nics = {"nic1", "nic2", "dhcp"}
  Leads = {"", "br-"}
  Rests = {"", ".100"}
INVARIANTS
  TypeOK
  SettingsSurvive
  LeftIsMissed
  OthersUntouched
PROPERTY
  EveryFixEnds
