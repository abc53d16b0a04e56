---------------------------- MODULE CheckEngine ----------------------------
(***************************************************************************)
(* CheckEngineService.checkTarget: one HTTP check, with the redirects it   *)
(* follows, the lookups it makes, its time budget and the result it        *)
(* returns.  DNS and the servers answer anything, after any delay:         *)
(*                                                                         *)
(*   idle -> preflight -> ready -> connecting -> awaiting -> draining      *)
(*             ^                                               |           *)
(*             +------------------- redirecting <--------- answered        *)
(*                                                                         *)
(* and from every stage to done.  Time is a number of ticks; a timer fires *)
(* at its tick.  The lookups before a request are the one wait that no     *)
(* timer ends: MaxLookup bounds them here.                                 *)
(***************************************************************************)
EXTENDS UrlPolicy, Integers

CONSTANTS
  Limits,           \* values of maxRedirects of a target
  Timeouts,         \* values of timeoutMs of a target
  ConnectTimeout,   \* the agent's connect.timeout
  MaxLookup         \* bound: the longest lookup before a request

ASSUME EngineAssumption ==
  /\ Limits \subseteq Int
  /\ Timeouts \subseteq Nat \ {0}
  /\ ConnectTimeout \in Nat \ {0}
  /\ MaxLookup \in Nat

VARIABLES
  pc,             \* where the call is
  target,         \* its argument
  currentUrl,     \* the URL of the next request (while redirecting, "next")
  redirectCount,
  elapsed,        \* elapsedMs()
  deadline,       \* when the AbortSignal of the request fires
  response,       \* the status line and Location of the last request's answer
  result,         \* what the call returned
  requests,       \* history: requests made
  peer            \* history: the address connected to last

callVars == <<target, currentUrl, redirectCount>>
vars == <<pc, callVars, elapsed, deadline, response, result, requests, peer>>

CheckableTarget ==
  [ url : Urls, followRedirects : BOOLEAN, maxRedirects : Limits, timeoutMs : Timeouts ]

NoLocation == [defect |-> "no Location", host |-> "none"]
Unresolvable == [defect |-> "no URL against the base", host |-> "none"]
Unanswered == [defect |-> "no answer", host |-> "none"]
Locations == Urls \cup {NoLocation, Unresolvable}

\* A status line: is it one of REDIRECT_STATUSES, is it in the expected range.
Response == [redirect : BOOLEAN, inRange : BOOLEAN, location : Locations]
NoResponse == [redirect |-> FALSE, inRange |-> FALSE, location |-> Unanswered]

CheckErrorType ==
  {"TIMEOUT", "DNS", "TLS", "CONNECTION", "REDIRECT_LIMIT", "INVALID_STATUS",
   "BLOCKED_TARGET", "UNKNOWN"}

NoPeer == [mapped |-> FALSE, range |-> "none"]
NoResult == [status |-> "NONE", errorType |-> "NONE", latencyMs |-> 0, redirectCount |-> 0]

\* classifyNetworkError: of the codes met along the causes of an error, the
\* first of this order names the error.
Precedence == <<"BLOCKED_TARGET", "TIMEOUT", "DNS", "TLS", "CONNECTION", "UNKNOWN">>

ClassifyNetworkError(codes) ==
  Precedence[CHOOSE i \in DOMAIN Precedence :
               /\ Precedence[i] \in codes
               /\ \A k \in DOMAIN Precedence : Precedence[k] \in codes => i <= k]

MaxHops ==
  IF target.followRedirects /\ target.maxRedirects > 0 THEN target.maxRedirects ELSE 0

-----------------------------------------------------------------------------
Init ==
  /\ pc = "idle"
  /\ target \in CheckableTarget
  /\ currentUrl = target.url
  /\ redirectCount = 0
  /\ elapsed = 0
  /\ deadline = 0
  /\ response = NoResponse
  /\ result = NoResult
  /\ requests = 0
  /\ peer = NoPeer

\* The call returns, d ticks after its last step.
ReturnAfter(d, status, errorType) ==
  /\ pc' = "done"
  /\ elapsed' = elapsed + d
  /\ result' = [ status |-> status, errorType |-> errorType, latencyMs |-> elapsed + d,
                 redirectCount |-> redirectCount ]
  /\ UNCHANGED <<callVars, deadline, response, requests, peer>>

FailAfter(d, errorType) == ReturnAfter(d, "FAILURE", errorType)

\* parseAndValidateSyntax of the target's URL.
Begin ==
  /\ pc = "idle"
  /\ IF SyntaxAllowed(currentUrl)
     THEN /\ pc' = "preflight"
          /\ UNCHANGED <<callVars, elapsed, deadline, response, result, requests, peer>>
     ELSE FailAfter(0, "BLOCKED_TARGET")

\* assertDestinationAllowed, of the first URL or of a redirect's, which counts
\* once it is allowed.
Preflight(answer, d) ==
  /\ pc \in {"preflight", "redirecting"}
  /\ IF DestinationAllowed(answer)
     THEN /\ pc' = "ready"
          /\ elapsed' = elapsed + d
          /\ redirectCount' = IF pc = "redirecting" THEN redirectCount + 1 ELSE redirectCount
          /\ UNCHANGED <<target, currentUrl, deadline, response, result, requests, peer>>
     ELSE FailAfter(d, "BLOCKED_TARGET")

\* Faulty variant: every request has the whole timeout.
SendWithWholeTimeout ==
  /\ pc = "ready"
  /\ pc' = "connecting"
  /\ deadline' = elapsed + target.timeoutMs
  /\ requests' = requests + 1
  /\ response' = NoResponse
  /\ UNCHANGED <<callVars, elapsed, result, peer>>

\* The head of the loop: what is left of the time, and the request.
Send ==
  LET remainingMs == target.timeoutMs - elapsed
  IN  /\ pc = "ready"
      /\ IF remainingMs <= 0
         THEN FailAfter(0, "TIMEOUT")
         ELSE /\ pc' = "connecting"
              /\ deadline' = elapsed + remainingMs
              /\ requests' = requests + 1
              /\ response' = NoResponse
              /\ UNCHANGED <<callVars, elapsed, result, peer>>

InTime(d) == elapsed + d <= deadline

\* The agent connects: it looks a name up afresh and dials one of the answer,
\* or it fails on the way.
Connect(answer, d) ==
  /\ pc = "connecting"
  /\ InTime(d) /\ d <= ConnectTimeout
  /\ IF answer = {}
     THEN FailAfter(d, ClassifyNetworkError({"DNS"}))
     ELSE IF ~GuardedLookup(currentUrl.host, answer)
     THEN FailAfter(d, ClassifyNetworkError({"BLOCKED_TARGET", "UNKNOWN"}))
     ELSE /\ pc' = "awaiting"
          /\ elapsed' = elapsed + d
          /\ peer' \in answer
          /\ UNCHANGED <<callVars, deadline, response, result, requests>>

\* The socket or the handshake fails; an error may carry codes of its causes.
NetworkFails(d) ==
  /\ pc \in {"connecting", "awaiting"}
  /\ InTime(d)
  /\ \E code \in {"TLS", "CONNECTION", "UNKNOWN"} :
       FailAfter(d, ClassifyNetworkError({code, "UNKNOWN"}))

\* Faulty variant: the request has no signal, only the agent's connect timeout.
TimesOutConnecting(d) ==
  /\ pc = "connecting"
  /\ d = ConnectTimeout
  /\ FailAfter(d, ClassifyNetworkError({"TIMEOUT", "UNKNOWN"}))

\* The agent's connect timeout, or the signal's, whichever comes first.
TimesOut(d) ==
  /\ pc \in {"connecting", "awaiting"}
  /\ \/ elapsed + d = deadline
     \/ pc = "connecting" /\ d = ConnectTimeout /\ InTime(d)
  /\ FailAfter(d, ClassifyNetworkError({"TIMEOUT", "UNKNOWN"}))

\* The status line and the headers arrive.
Answered(answer, d) ==
  /\ pc = "awaiting"
  /\ InTime(d)
  /\ pc' = "draining"
  /\ elapsed' = elapsed + d
  /\ response' = answer
  /\ UNCHANGED <<callVars, deadline, result, requests, peer>>

\* Faulty variant: a body that fails fails the check.
DrainOrFail(d) ==
  /\ pc = "draining"
  /\ InTime(d)
  /\ FailAfter(d, "CONNECTION")

\* The body ends, is cut at its limit, fails, or is cut off by the signal: the
\* check goes on with the status line it has.
Drain(d) ==
  /\ pc = "draining"
  /\ InTime(d)
  /\ pc' = "answered"
  /\ elapsed' = elapsed + d
  /\ UNCHANGED <<callVars, deadline, response, result, requests, peer>>

Redirects == target.followRedirects /\ response.redirect /\ response.location # NoLocation

\* Faulty variant: the limit is compared with one hop too many.
FollowOneMore ==
  /\ pc = "answered"
  /\ Redirects
  /\ IF redirectCount > MaxHops \/ ~SyntaxAllowed(response.location)
     THEN FailAfter(0, "REDIRECT_LIMIT")
     ELSE /\ pc' = "redirecting"
          /\ currentUrl' = response.location
          /\ UNCHANGED <<target, redirectCount, elapsed, deadline, response, result, requests,
                         peer>>

\* Faulty variant: the Location is followed as it stands.
FollowUnparsed ==
  /\ pc = "answered"
  /\ Redirects
  /\ IF redirectCount >= MaxHops
     THEN FailAfter(0, "REDIRECT_LIMIT")
     ELSE /\ pc' = "redirecting"
          /\ currentUrl' = response.location
          /\ UNCHANGED <<target, redirectCount, elapsed, deadline, response, result, requests,
                         peer>>

\* A redirect: the limit, then the URL it names.  A Location that is no URL
\* even against the base throws an error of no known code.
Follow ==
  /\ pc = "answered"
  /\ Redirects
  /\ IF redirectCount >= MaxHops
     THEN FailAfter(0, "REDIRECT_LIMIT")
     ELSE IF response.location = Unresolvable
     THEN FailAfter(0, ClassifyNetworkError({"UNKNOWN"}))
     ELSE IF ~SyntaxAllowed(response.location)
     THEN FailAfter(0, "BLOCKED_TARGET")
     ELSE /\ pc' = "redirecting"
          /\ currentUrl' = response.location
          /\ UNCHANGED <<target, redirectCount, elapsed, deadline, response, result, requests,
                         peer>>

\* Every other answer is judged by its status.
Judge ==
  /\ pc = "answered"
  /\ ~Redirects
  /\ IF response.inRange
     THEN ReturnAfter(0, "SUCCESS", "NONE")
     ELSE FailAfter(0, "INVALID_STATUS")

\* What DNS and the servers do, or never do.
NetworkStep ==
  \/ \E answer \in Answers(currentUrl.host), d \in 0..ConnectTimeout : Connect(answer, d)
  \/ \E d \in 0..(deadline - elapsed) :
       NetworkFails(d) \/ \E answer \in Response : Answered(answer, d)

\* What the engine does by itself, its timers among it.
EngineStep ==
  \/ Begin
  \/ \E answer \in Answers(currentUrl.host), d \in 0..MaxLookup : Preflight(answer, d)
  \/ Send
  \/ \E d \in 0..(deadline - elapsed) : TimesOut(d) \/ Drain(d)
  \/ Follow
  \/ Judge

\* The call is over, and another one begins.
Again ==
  /\ pc = "done"
  /\ pc' = "idle"
  /\ target' \in CheckableTarget
  /\ currentUrl' = target'.url
  /\ redirectCount' = 0
  /\ elapsed' = 0
  /\ deadline' = 0
  /\ response' = NoResponse
  /\ result' = NoResult
  /\ requests' = 0
  /\ peer' = NoPeer

Next == NetworkStep \/ EngineStep \/ Again

\* The event loop goes on, a lookup before a request ends, and every timer
\* fires; servers need not ever answer.
Spec == Init /\ [][Next]_vars /\ WF_vars(EngineStep)

-----------------------------------------------------------------------------
(* Properties.                                                             *)

\* Types of the call's variables.
EngineTypeOK ==
  /\ pc \in {"idle", "preflight", "ready", "connecting", "awaiting", "draining", "answered",
             "redirecting", "done"}
  /\ target \in CheckableTarget
  /\ currentUrl \in Urls
  /\ redirectCount \in Nat
  /\ elapsed \in Nat
  /\ deadline \in Nat
  /\ response \in Response \cup {NoResponse}
  /\ result \in [ status : {"NONE", "SUCCESS", "FAILURE"},
                  errorType : CheckErrorType \cup {"NONE"},
                  latencyMs : Nat, redirectCount : Nat ]
  /\ requests \in Nat
  /\ peer \in Addresses \cup {NoPeer}

\* A check makes at most one request more than it may follow redirects,
\* whatever the servers answer, gives REDIRECT_LIMIT only after exactly so many,
\* and counts in its result the redirects it followed.
RedirectsBounded ==
  /\ requests <= MaxHops + 1
  /\ result.errorType = "REDIRECT_LIMIT" => requests = MaxHops + 1
  /\ result.status = "SUCCESS" => requests = result.redirectCount + 1

\* A connection is only ever made to an address the policy allows, though DNS
\* may answer the lookup before the request and the one of the connection
\* differently (docs/SSRF_DEFENSE.md, DNS rebinding).
OnlyAllowedDialled == peer # NoPeer => AddressAllowed(peer)

\* A SUCCESS is not slower than the target's timeout, however many redirects
\* shared it and however long the lookups between them took.
SuccessWithinBudget == result.status = "SUCCESS" => result.latencyMs <= target.timeoutMs

\* Once a final status line has arrived it decides the result: what happens to
\* the body, and a timeout that fires meanwhile, change nothing.
StatusLineDecides ==
  pc = "done" /\ response # NoResponse /\ ~Redirects =>
    IF response.inRange THEN result.status = "SUCCESS"
                        ELSE result.errorType = "INVALID_STATUS"

\* Every call ends with a result: no server, no chain of redirects and no body
\* holds it for ever.
CheckEnds == pc # "idle" ~> pc = "done"
=============================================================================
