----------------------------- MODULE DnsReport -----------------------------
(***************************************************************************)
(* The DNS report of a domain (src/domains/dns-check.ts) and its owner,    *)
(* who publishes what the report asks for.  The five lookups of a report   *)
(* run at once and each judges its own records, so the module follows one  *)
(* check, chosen at the start.                                             *)
(*                                                                         *)
(* A record is what its check reads of it: SPF's ip4 address, the DKIM key *)
(* (NoKey: an empty p=), the host of an MX or PTR record.  TXT records     *)
(* that the filter of the check passes over are left out.                  *)
(***************************************************************************)
EXTENDS Integers, FiniteSets

CONSTANTS
  PublicIp,     \* MAIL_PUBLIC_IP
  OtherIp,
  LongerIps,    \* addresses whose text begins with PublicIp's
  MailHostname, OtherHost,
  MaxKey,       \* bound: times the domain is deleted and created again
  MaxFailures,  \* bound: lookups that fail
  NoKey

ASSUME DnsAssumption ==
  /\ PublicIp \notin {OtherIp} \cup LongerIps
  /\ OtherHost # MailHostname
  /\ MaxKey \in Nat /\ NoKey \notin Nat
  /\ MaxFailures \in Nat

VARIABLES
  check,     \* which of the five checks this is
  key,       \* the DKIM key of the domain's row: the key-th one drawn
  records,   \* what is published where the check looks
  line,      \* the check's line in the report that the owner looks at
  failures

dnsVars == <<check, key, records, line, failures>>

Checks == {"SPF", "DKIM", "DMARC", "MX", "PTR"}
Publishable(c) ==
  CASE c = "SPF"   -> {PublicIp, OtherIp} \cup LongerIps
    [] c = "DKIM"  -> 0..MaxKey \cup {NoKey}
    [] c = "DMARC" -> {"policy"}
    [] OTHER       -> {MailHostname, OtherHost}

\* What requiredRecords and the check itself ask for
expected ==
  CASE check = "SPF"   -> PublicIp
    [] check = "DKIM"  -> key
    [] check = "DMARC" -> "policy"
    [] OTHER           -> MailHostname

\* spf.includes(`ip4:${publicIp}`) compares text; any DMARC policy will do.
satisfies(record) ==
  \/ check = "DMARC"
  \/ check = "SPF" /\ record \in LongerIps
  \/ record = expected

NoLine == [status |-> "unread", found |-> {}]

\* Mutant: the line does not show the record it rejects.
LineUnfound(good, found) ==
  [status |-> IF found = {} THEN "missing" ELSE IF good THEN "ok" ELSE "mismatch", found |-> {}]

Line(good, found) ==
  [status |-> IF found = {} THEN "missing" ELSE IF good THEN "ok" ELSE "mismatch", found |-> found]

\* checkSpf, checkDkim and checkDmarc judge the first of the records, in whatever
\* order the resolver answers; ...
checkFirst(answer) == {Line(satisfies(record), {record}) : record \in answer}

\* ... checkMx and checkPtr look for a good one among all.
checkSome(answer) == {Line(\E record \in answer : satisfies(record), answer)}

Lines(answer) ==
  IF answer = {} THEN {Line(FALSE, {})}
  ELSE IF check \in {"MX", "PTR"} THEN checkSome(answer) ELSE checkFirst(answer)

\* Any zone, with whatever its owner or the name's owner before published.
DnsInit ==
  /\ check \in Checks
  /\ key = 0
  /\ records \in SUBSET Publishable(check)
  /\ line = NoLine
  /\ failures = 0

runDnsCheck ==
  /\ line.status \in {"unread", "ok"}
  /\ line' \in Lines(records)
  /\ UNCHANGED <<check, key, records, failures>>

\* Mutant: a failed lookup is a verdict of its own.
LookupFailsLoudly ==
  /\ line.status \in {"unread", "ok"}
  /\ failures < MaxFailures
  /\ failures' = failures + 1
  /\ line' = [status |-> "error", found |-> {}]
  /\ UNCHANGED <<check, key, records>>

\* DnsResolver answers a lookup that fails, or times out, with no records.
LookupFails ==
  /\ line.status \in {"unread", "ok"}
  /\ failures < MaxFailures
  /\ failures' = failures + 1
  /\ line' \in Lines({})
  /\ UNCHANGED <<check, key, records>>

\* The domain is deleted and created again, with a new key; its report is gone.
Recreate ==
  /\ key < MaxKey
  /\ key' = key + 1
  /\ line' = NoLine
  /\ UNCHANGED <<check, records, failures>>

\* The record the line found is replaced by what it expects: by the domain's owner, or
\* for PTR by the platform's operator, whose reverse zone it is and for whom
\* requiredRecords lists none.  A record added beside a bad one may not be the first.
Follow ==
  /\ line.status \in {"missing", "mismatch"}
  /\ records' = (records \ line.found) \cup {expected}
  /\ line' = NoLine
  /\ UNCHANGED <<check, key, failures>>

DnsNext == runDnsCheck \/ LookupFails \/ Recreate \/ Follow

DnsSpec == DnsInit /\ [][DnsNext]_dnsVars

\* An owner (an operator) who keeps asking for the report and does what it says.
FairDnsSpec == DnsSpec /\ WF_dnsVars(runDnsCheck) /\ WF_dnsVars(Follow)

-----------------------------------------------------------------------------
(* Properties *)

DnsTypeOK ==
  /\ check \in Checks
  /\ key \in 0..MaxKey
  /\ records \subseteq Publishable(check)
  /\ line \in [status : {"unread", "ok", "missing", "mismatch"}, found : SUBSET Publishable(check)]
  /\ failures \in 0..MaxFailures

\* From any zone, with lookups that fail for a while and a domain that is created
\* again with a new key, following the report ends: the check says ok and keeps
\* saying it, in whatever order the resolver answers.
RepairEnds == <>[](line.status = "ok")

\* A line that says ok is about what is asked for.  An SPF record of another server,
\* whose address begins with this one's text, is ok too.
OkMeansPublished ==
  [][(line'.status = "ok" /\ line' # line)
       => check = "DMARC" \/ expected \in records]_dnsVars
=============================================================================
