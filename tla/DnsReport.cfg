SPECIFICATION FairDnsSpec
CONSTANTS
  PublicIp = PublicIp
  OtherIp = OtherIp
  LongerIps = {LongerIp}
  MailHostname = MailHostname
  OtherHost = OtherHost
  MaxKey = 2
  MaxFailures = 2
  NoKey = NoKey
INVARIANT DnsTypeOK
PROPERTY RepairEnds
