CONSTANTS
  Scanner = {s1}
  Relay = {r1}
  None = None
  BuiltIn = BuiltIn
  Capacity = 2
  Triggers = 2
  MaxKey = 2
  MaxMishap = 2
  MaxJoin = 2
SPECIFICATION LiveSpec
INVARIANTS TypeOK OneCampaign CampaignReaches KeysAgree
PROPERTIES CampaignEnds
