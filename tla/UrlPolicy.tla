----------------------------- MODULE UrlPolicy -----------------------------
(***************************************************************************)
(* UrlValidatorService and ip-policy: which URLs, and which addresses      *)
(* behind their hosts, a check may request.                                *)
(*                                                                         *)
(* A URL is a record: the defect its text has, if any, and its host.  A    *)
(* host is a name, which DNS answers anew at every lookup, or an IP        *)
(* literal, which is never looked up.  An address is a record: whether it  *)
(* is an IPv6 address that maps an IPv4 one, and the range it (or the      *)
(* address it maps) lies in.                                               *)
(***************************************************************************)

CONSTANTS
  Names,                \* host names
  Addresses,            \* IP addresses
  Urls,                 \* texts that may stand where a URL is expected
  allowPrivateTargets   \* the setting ALLOW_PRIVATE_TARGETS

Defects ==
  {"empty", "too_long", "not_a_url", "scheme", "credentials", "no_host", "long_host"}

ASSUME PolicyAssumption ==
  /\ \A a \in Addresses : a.mapped \in BOOLEAN
  /\ \A u \in Urls : /\ u.defect \in Defects \cup {"none"}
                     /\ u.host \in Names \cup Addresses
  /\ allowPrivateTargets \in BOOLEAN

\* ipaddr.js names the range of every address; a mapped one is in a range of
\* its own until it is unwrapped.
RangeName(a, unwrap) == IF a.mapped /\ ~unwrap THEN "ipv4Mapped" ELSE a.range

AllowedRanges == {"unicast"}

\* Only plain public addresses pass; mapped ones are unwrapped first.
AllowedIp(a) == RangeName(a, TRUE) \in AllowedRanges

AddressAllowed(a) == allowPrivateTargets \/ AllowedIp(a)

\* Every refusal throws the same error: the rule that was broken is its text.
SyntaxAllowed(url) == url.defect = "none"

IsIpLiteral(host) == host \in Addresses

\* What a lookup of a name may answer: some addresses, or none (it failed).
Answers(host) == IF IsIpLiteral(host) THEN {{host}} ELSE SUBSET Addresses

\* Before a check (and when a target is stored): an answer is refused for any
\* address in it, and a lookup that fails refuses nothing.
DestinationAllowed(answer) == \A a \in answer : AddressAllowed(a)

\* Faulty variant: the connect-time guard looks at one address of the answer.
GuardedLookupOfOne(host, answer) ==
  IsIpLiteral(host) \/ answer = {} \/ \E a \in answer : AddressAllowed(a)

\* At connect time every address of a fresh answer is judged again; a literal
\* is dialled without a lookup.
GuardedLookup(host, answer) ==
  IsIpLiteral(host) \/ \A a \in answer : AddressAllowed(a)
=============================================================================
