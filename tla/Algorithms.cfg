CONSTANTS
  MaxDomain = 4
  ByteBits = 3
  AddressBytes = 2
  MaxPort = 10
  Ipv4Texts <- MCIpv4Texts
  Ipv6Texts <- MCIpv6Texts
  MaxDepth = 16
  RouteCalls <- MCRouteCalls
  CidrCalls <- MCCidrCalls
  TargetCalls <- MCTargetCalls
  SegmentCalls <- MCSegmentCalls
  QueryCalls <- MCQueryCalls
  ResponseCalls <- MCResponseCalls
  PacketCalls <- MCPacketCalls
  HelloCalls <- MCHelloCalls
SPECIFICATION CallSpec
CHECK_DEADLOCK FALSE
INVARIANTS FirstNameRuleDecides FirstAddressRuleDecides AuthorityMeant AuthorityTaken ChecksumAccepted
           DnsDecodes ParserBounded SniffsServerName SnifferBounded
