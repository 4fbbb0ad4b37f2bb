SPECIFICATION FairSpec
CONSTANTS
  Monitor = {m1, m2}
  GroupOf <- MCGroupOf
  g1 = g1
  Slug <- MCSlug
  Visitor = {v1, v2}
  MaxWrites = 1
  MaxFaults = 1
  NoPage = NoPage
  NoAnswer = NoAnswer
  NoGroup = NoGroup
  OtherServices = OtherServices
INVARIANTS TypeOK OnlyPageMembers
PROPERTY ViewConverges
