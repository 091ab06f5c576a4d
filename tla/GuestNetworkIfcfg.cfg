SPECIFICATION Spec
CONSTANTS
  Guests <- IfcfgGuests
  OldIfaces = {""}
  Nics = {"nic1", "nic2", "dhcp"}
  Leads = {"", "br-"}
  Rests = {"", ".100"}
INVARIANT
  SettingsSurvive
