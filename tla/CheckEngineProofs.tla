------------------------- MODULE CheckEngineProofs -------------------------
(***************************************************************************)
(* The safety properties of CheckEngine, for every set of names, addresses *)
(* and URLs, every limit of redirects and every timeout.                   *)
(***************************************************************************)
EXTENDS CheckEngine, TLAPS

Classes == {"BLOCKED_TARGET", "TIMEOUT", "DNS", "TLS", "CONNECTION", "UNKNOWN"}

\* A request is being made, or its answer looked at.
Requesting == pc \in {"connecting", "awaiting", "draining", "answered"}

\* Requests and redirects count together, one request ahead of the redirects
\* from when it is sent until its redirect is allowed.
CountInv ==
  /\ pc \in {"idle", "preflight"} => requests = 0 /\ redirectCount = 0
  /\ pc = "ready" => requests = redirectCount
  /\ Requesting \/ pc = "redirecting" => requests = redirectCount + 1
  /\ redirectCount <= MaxHops
  /\ pc = "redirecting" => redirectCount < MaxHops
  /\ requests <= MaxHops + 1

\* One deadline for all the requests.
TimeInv ==
  /\ pc \in {"connecting", "awaiting", "draining"} => deadline = target.timeoutMs
  /\ Requesting => elapsed <= target.timeoutMs

\* A literal was judged before it is dialled without a lookup.
LiteralInv ==
  pc \in {"ready", "connecting"} /\ IsIpLiteral(currentUrl.host) => AddressAllowed(currentUrl.host)

\* The answer that is kept is that of the last request, or of a redirect.
AnswerInv ==
  /\ pc \in {"idle", "preflight", "connecting", "awaiting"} => response = NoResponse
  /\ pc \in {"ready", "redirecting"} => response = NoResponse \/ Redirects

\* There is a result once the call is over, and not before.
ResultInv ==
  /\ pc # "done" => result = NoResult
  /\ result.errorType = "REDIRECT_LIMIT" => requests = MaxHops + 1
  /\ result.status = "SUCCESS" =>
       requests = result.redirectCount + 1 /\ result.latencyMs <= target.timeoutMs

IInv ==
  /\ EngineTypeOK
  /\ CountInv
  /\ TimeInv
  /\ LiteralInv
  /\ AnswerInv
  /\ ResultInv
  /\ OnlyAllowedDialled
  /\ StatusLineDecides

-----------------------------------------------------------------------------
(* The operators.                                                          *)

\* An error is named by one of the classes of its codes.
LEMMA ClassifiedAsOneOf ==
  ASSUME NEW codes \in SUBSET Classes, codes # {}
  PROVE  ClassifyNetworkError(codes) \in codes
  <1>1. DOMAIN Precedence = 1..6
    BY DEF Precedence
  <1>2. \E i \in 1..6 : Precedence[i] \in codes /\ \A k \in 1..6 : Precedence[k] \in codes => i <= k
    <2>1. CASE "BLOCKED_TARGET" \in codes
      BY <2>1 DEF Precedence
    <2>2. CASE "BLOCKED_TARGET" \notin codes /\ "TIMEOUT" \in codes
      BY <2>2 DEF Precedence
    <2>3. CASE codes \cap {"BLOCKED_TARGET", "TIMEOUT"} = {} /\ "DNS" \in codes
      BY <2>3 DEF Precedence
    <2>4. CASE codes \cap {"BLOCKED_TARGET", "TIMEOUT", "DNS"} = {} /\ "TLS" \in codes
      BY <2>4 DEF Precedence
    <2>5. CASE codes \cap {"BLOCKED_TARGET", "TIMEOUT", "DNS", "TLS"} = {} /\ "CONNECTION" \in codes
      BY <2>5 DEF Precedence
    <2>6. CASE codes = {"UNKNOWN"}
      BY <2>6 DEF Precedence
    <2> QED
      BY <2>1, <2>2, <2>3, <2>4, <2>5, <2>6 DEF Classes
  <1> QED
    BY <1>1, <1>2 DEF ClassifyNetworkError

LEMMA ClassesAreErrorTypes == Classes \subseteq CheckErrorType /\ "REDIRECT_LIMIT" \notin Classes
  BY DEF Classes, CheckErrorType

LEMMA MaxHopsNat ==
  ASSUME EngineTypeOK PROVE MaxHops \in Nat
  <1>1. target.maxRedirects \in Int
    BY EngineAssumption DEF EngineTypeOK, CheckableTarget
  <1>2. CASE target.followRedirects /\ target.maxRedirects > 0
    BY <1>1, <1>2 DEF MaxHops
  <1>3. CASE ~(target.followRedirects /\ target.maxRedirects > 0)
    BY <1>3 DEF MaxHops
  <1> QED
    BY <1>2, <1>3

\* A step that leaves the target alone leaves its limit alone.
LEMMA MaxHopsKept ==
  ASSUME UNCHANGED target PROVE MaxHops' = MaxHops
  BY DEF MaxHops

LEMMA AnswersAreAddresses ==
  ASSUME NEW host, NEW answer \in Answers(host)
  PROVE  answer \subseteq Addresses /\ (IsIpLiteral(host) => answer = {host})
  BY DEF Answers, IsIpLiteral

-----------------------------------------------------------------------------
(* Every way out of the call keeps the invariant.                          *)

\* A failure, for any reason but a redirect's limit.
LEMMA FailKeeps ==
  ASSUME IInv, pc # "done", NEW d \in Nat,
         NEW errorType \in CheckErrorType, FailAfter(d, errorType),
         errorType = "REDIRECT_LIMIT" => requests = MaxHops + 1,
         response # NoResponse /\ ~Redirects => errorType = "INVALID_STATUS" /\ ~response.inRange
  PROVE  IInv'
  <1> USE DEF FailAfter, ReturnAfter, callVars
  <1>0. MaxHops' = MaxHops /\ MaxHops \in Nat
    BY MaxHopsNat, MaxHopsKept DEF IInv
  <1>1. EngineTypeOK'
    BY DEF IInv, EngineTypeOK
  <1>2. result' = [ status |-> "FAILURE", errorType |-> errorType, latencyMs |-> elapsed + d,
                    redirectCount |-> redirectCount ] /\ pc' = "done"
    OBVIOUS
  <1>3. CountInv' /\ TimeInv' /\ LiteralInv' /\ AnswerInv'
    BY <1>0, <1>2 DEF IInv, CountInv, TimeInv, LiteralInv, AnswerInv, Requesting
  <1>4. ResultInv'
    BY <1>0, <1>2 DEF ResultInv
  <1>5. OnlyAllowedDialled'
    BY DEF IInv, OnlyAllowedDialled
  <1>6. StatusLineDecides'
    BY <1>2 DEF StatusLineDecides, Redirects
  <1> QED
    BY <1>1, <1>3, <1>4, <1>5, <1>6 DEF IInv

\* A success, of a status line in the range.
LEMMA SuccessKeeps ==
  ASSUME IInv, pc = "answered", response.inRange, ReturnAfter(0, "SUCCESS", "NONE")
  PROVE  IInv'
  <1> USE DEF ReturnAfter, callVars
  <1>0. MaxHops' = MaxHops /\ MaxHops \in Nat
    BY MaxHopsNat, MaxHopsKept DEF IInv
  <1>1. EngineTypeOK'
    BY DEF IInv, EngineTypeOK
  <1>2. result' = [ status |-> "SUCCESS", errorType |-> "NONE", latencyMs |-> elapsed + 0,
                    redirectCount |-> redirectCount ] /\ pc' = "done"
    OBVIOUS
  <1>3. CountInv' /\ TimeInv' /\ LiteralInv' /\ AnswerInv'
    BY <1>0, <1>2 DEF IInv, CountInv, TimeInv, LiteralInv, AnswerInv, Requesting
  <1>4. ResultInv'
    BY <1>0, <1>2 DEF ResultInv, IInv, CountInv, TimeInv, Requesting, EngineTypeOK
  <1>5. OnlyAllowedDialled'
    BY DEF IInv, OnlyAllowedDialled
  <1>6. StatusLineDecides'
    BY <1>2 DEF StatusLineDecides, Redirects
  <1> QED
    BY <1>1, <1>3, <1>4, <1>5, <1>6 DEF IInv
-----------------------------------------------------------------------------
(* The steps.                                                              *)

LEMMA BeginKeeps == ASSUME IInv, Begin PROVE IInv'
  <1> USE DEF Begin, callVars
  <1>1. CASE SyntaxAllowed(currentUrl)
    <2>1. EngineTypeOK'
      BY <1>1 DEF IInv, EngineTypeOK
    <2>2. MaxHops' = MaxHops /\ pc' = "preflight"
      BY <1>1, MaxHopsKept
    <2>3. CountInv' /\ TimeInv' /\ LiteralInv' /\ AnswerInv' /\ ResultInv'
      BY <1>1, <2>2
      DEF IInv, CountInv, TimeInv, LiteralInv, AnswerInv, ResultInv, Requesting
    <2> QED
      BY <1>1, <2>1, <2>2, <2>3 DEF IInv, OnlyAllowedDialled, StatusLineDecides
  <1>2. CASE ~SyntaxAllowed(currentUrl)
    <2>1. FailAfter(0, "BLOCKED_TARGET")
      BY <1>2
    <2> QED
      BY <2>1, FailKeeps DEF IInv, AnswerInv, CheckErrorType
  <1> QED
    BY <1>1, <1>2

LEMMA PreflightKeeps ==
  ASSUME IInv, NEW answer \in Answers(currentUrl.host), NEW d \in Nat, Preflight(answer, d)
  PROVE  IInv'
  <1> USE DEF Preflight, callVars
  <1>1. CASE DestinationAllowed(answer)
    <2>1. /\ pc' = "ready" /\ elapsed' = elapsed + d
          /\ redirectCount' = IF pc = "redirecting" THEN redirectCount + 1 ELSE redirectCount
          /\ UNCHANGED <<target, currentUrl, deadline, response, result, requests, peer>>
      BY <1>1
    <2>2. MaxHops' = MaxHops /\ MaxHops \in Nat
      BY <2>1, MaxHopsNat, MaxHopsKept DEF IInv
    <2>3. EngineTypeOK'
      BY <2>1 DEF IInv, EngineTypeOK
    <2>4. CountInv'
      BY <2>1, <2>2 DEF IInv, EngineTypeOK, CountInv, Requesting
    <2>5. LiteralInv'
      BY <1>1, <2>1, AnswersAreAddresses
      DEF LiteralInv, DestinationAllowed, IsIpLiteral, AddressAllowed, AllowedIp, RangeName
    <2>6. TimeInv' /\ AnswerInv' /\ ResultInv'
      BY <2>1, <2>2 DEF IInv, TimeInv, AnswerInv, ResultInv, Requesting, Redirects
    <2> QED
      BY <2>1, <2>3, <2>4, <2>5, <2>6 DEF IInv, OnlyAllowedDialled, StatusLineDecides
  <1>2. CASE ~DestinationAllowed(answer)
    <2>1. FailAfter(d, "BLOCKED_TARGET")
      BY <1>2
    <2> QED
      BY <2>1, FailKeeps DEF IInv, AnswerInv, CheckErrorType
  <1> QED
    BY <1>1, <1>2

LEMMA SendKeeps == ASSUME IInv, Send PROVE IInv'
  <1> USE DEF Send, callVars
  <1>0. target.timeoutMs \in Nat /\ MaxHops \in Nat
    BY MaxHopsNat, EngineAssumption DEF IInv, EngineTypeOK, CheckableTarget
  <1>1. CASE target.timeoutMs - elapsed <= 0
    <2>1. FailAfter(0, "TIMEOUT")
      BY <1>1
    <2> QED
      BY <2>1, FailKeeps DEF IInv, AnswerInv, CheckErrorType
  <1>2. CASE ~(target.timeoutMs - elapsed <= 0)
    <2>1. /\ pc' = "connecting" /\ deadline' = elapsed + (target.timeoutMs - elapsed)
          /\ requests' = requests + 1 /\ response' = NoResponse
          /\ UNCHANGED <<target, currentUrl, redirectCount, elapsed, result, peer>>
      BY <1>2
    <2>2. MaxHops' = MaxHops
      BY <2>1, MaxHopsKept
    <2>3. elapsed \in Nat /\ deadline' = target.timeoutMs /\ elapsed <= target.timeoutMs
      BY <1>0, <1>2, <2>1 DEF IInv, EngineTypeOK
    <2>4. EngineTypeOK'
      BY <1>0, <2>1, <2>3 DEF IInv, EngineTypeOK
    <2>5. CountInv'
      BY <1>0, <2>1, <2>2 DEF IInv, EngineTypeOK, CountInv, Requesting
    <2>6. TimeInv' /\ LiteralInv' /\ AnswerInv'
      BY <2>1, <2>3 DEF IInv, TimeInv, LiteralInv, AnswerInv, Requesting
    <2>7. ResultInv'
      BY <2>1 DEF IInv, ResultInv, NoResult
    <2> QED
      BY <2>1, <2>4, <2>5, <2>6, <2>7 DEF IInv, OnlyAllowedDialled, StatusLineDecides
  <1> QED
    BY <1>1, <1>2

LEMMA ConnectKeeps ==
  ASSUME IInv, NEW answer \in Answers(currentUrl.host), NEW d \in Nat, Connect(answer, d)
  PROVE  IInv'
  <1> USE DEF Connect, callVars
  <1>0. answer \subseteq Addresses
    BY AnswersAreAddresses
  <1>1. CASE answer = {}
    <2>1. FailAfter(d, ClassifyNetworkError({"DNS"}))
      BY <1>1
    <2>2. ClassifyNetworkError({"DNS"}) = "DNS"
      BY ClassifiedAsOneOf DEF Classes
    <2> QED
      BY <2>1, <2>2, FailKeeps DEF IInv, AnswerInv, CheckErrorType
  <1>2. CASE answer # {} /\ ~GuardedLookup(currentUrl.host, answer)
    <2>1. FailAfter(d, ClassifyNetworkError({"BLOCKED_TARGET", "UNKNOWN"}))
      BY <1>2
    <2>2. ClassifyNetworkError({"BLOCKED_TARGET", "UNKNOWN"}) \in {"BLOCKED_TARGET", "UNKNOWN"}
      BY ClassifiedAsOneOf DEF Classes
    <2> QED
      BY <2>1, <2>2, FailKeeps DEF IInv, AnswerInv, CheckErrorType
  <1>3. CASE answer # {} /\ GuardedLookup(currentUrl.host, answer)
    <2>1. /\ pc' = "awaiting" /\ elapsed' = elapsed + d /\ peer' \in answer
          /\ UNCHANGED <<target, currentUrl, redirectCount, deadline, response, result, requests>>
      BY <1>3
    <2>2. MaxHops' = MaxHops
      BY <2>1, MaxHopsKept
    <2>3. AddressAllowed(peer')
      BY <1>3, <2>1, AnswersAreAddresses DEF GuardedLookup, IInv, LiteralInv
    <2>4. EngineTypeOK'
      BY <1>0, <2>1 DEF IInv, EngineTypeOK
    <2>5. elapsed + d <= target.timeoutMs
      BY DEF IInv, TimeInv, InTime
    <2>6. TimeInv'
      BY <2>1, <2>5 DEF IInv, TimeInv, Requesting
    <2>7. CountInv' /\ LiteralInv' /\ AnswerInv' /\ ResultInv'
      BY <2>1, <2>2 DEF IInv, CountInv, LiteralInv, AnswerInv, ResultInv, Requesting
    <2>8. OnlyAllowedDialled'
      BY <2>3 DEF OnlyAllowedDialled, AddressAllowed, AllowedIp, RangeName
    <2> QED
      BY <2>1, <2>4, <2>6, <2>7, <2>8 DEF IInv, StatusLineDecides
  <1> QED
    BY <1>1, <1>2, <1>3

LEMMA NetworkFailsKeeps == ASSUME IInv, NEW d \in Nat, NetworkFails(d) PROVE IInv'
  <1>1. PICK code \in {"TLS", "CONNECTION", "UNKNOWN"} :
          FailAfter(d, ClassifyNetworkError({code, "UNKNOWN"}))
    BY DEF NetworkFails
  <1>2. ClassifyNetworkError({code, "UNKNOWN"}) \in {code, "UNKNOWN"}
    BY ClassifiedAsOneOf DEF Classes
  <1> QED
    BY <1>1, <1>2, FailKeeps DEF NetworkFails, IInv, AnswerInv, CheckErrorType

LEMMA TimesOutKeeps == ASSUME IInv, NEW d \in Nat, TimesOut(d) PROVE IInv'
  <1>1. FailAfter(d, ClassifyNetworkError({"TIMEOUT", "UNKNOWN"}))
    BY DEF TimesOut
  <1>2. ClassifyNetworkError({"TIMEOUT", "UNKNOWN"}) \in {"TIMEOUT", "UNKNOWN"}
    BY ClassifiedAsOneOf DEF Classes
  <1> QED
    BY <1>1, <1>2, FailKeeps DEF TimesOut, IInv, AnswerInv, CheckErrorType

LEMMA AnsweredKeeps ==
  ASSUME IInv, NEW answer \in Response, NEW d \in Nat, Answered(answer, d)
  PROVE  IInv'
  <1> USE DEF Answered, callVars
  <1>1. MaxHops' = MaxHops
    BY MaxHopsKept
  <1>2. EngineTypeOK'
    BY DEF IInv, EngineTypeOK
  <1>3. TimeInv'
    BY DEF IInv, TimeInv, Requesting, InTime
  <1>4. CountInv' /\ LiteralInv' /\ AnswerInv' /\ ResultInv'
    BY <1>1 DEF IInv, CountInv, LiteralInv, AnswerInv, ResultInv, Requesting
  <1> QED
    BY <1>2, <1>3, <1>4 DEF IInv, OnlyAllowedDialled, StatusLineDecides

LEMMA DrainKeeps == ASSUME IInv, NEW d \in Nat, Drain(d) PROVE IInv'
  <1> USE DEF Drain, callVars
  <1>1. MaxHops' = MaxHops
    BY MaxHopsKept
  <1>2. EngineTypeOK'
    BY DEF IInv, EngineTypeOK
  <1>3. TimeInv'
    BY DEF IInv, TimeInv, Requesting, InTime
  <1>4. CountInv' /\ LiteralInv' /\ AnswerInv' /\ ResultInv'
    BY <1>1 DEF IInv, CountInv, LiteralInv, AnswerInv, ResultInv, Requesting
  <1> QED
    BY <1>2, <1>3, <1>4 DEF IInv, OnlyAllowedDialled, StatusLineDecides

LEMMA FollowKeeps == ASSUME IInv, Follow PROVE IInv'
  <1> USE DEF Follow, callVars
  <1>0. MaxHops \in Nat /\ pc = "answered" /\ Redirects /\ redirectCount \in Nat
    BY MaxHopsNat DEF IInv, EngineTypeOK
  <1>1. CASE redirectCount >= MaxHops
    <2>1. FailAfter(0, "REDIRECT_LIMIT")
      BY <1>1
    <2>2. requests = MaxHops + 1
      BY <1>0, <1>1 DEF IInv, CountInv, Requesting
    <2> QED
      BY <1>0, <2>1, <2>2, FailKeeps DEF CheckErrorType
  <1>2. CASE redirectCount < MaxHops /\ response.location = Unresolvable
    <2>1. FailAfter(0, ClassifyNetworkError({"UNKNOWN"}))
      BY <1>0, <1>2
    <2>2. ClassifyNetworkError({"UNKNOWN"}) = "UNKNOWN"
      BY ClassifiedAsOneOf DEF Classes
    <2> QED
      BY <1>0, <2>1, <2>2, FailKeeps DEF CheckErrorType
  <1>3. CASE /\ redirectCount < MaxHops /\ response.location # Unresolvable
             /\ ~SyntaxAllowed(response.location)
    <2>1. FailAfter(0, "BLOCKED_TARGET")
      BY <1>0, <1>3
    <2> QED
      BY <1>0, <2>1, FailKeeps DEF CheckErrorType
  <1>4. CASE /\ redirectCount < MaxHops /\ response.location # Unresolvable
             /\ SyntaxAllowed(response.location)
    <2>1. /\ pc' = "redirecting" /\ currentUrl' = response.location
          /\ UNCHANGED <<target, redirectCount, elapsed, deadline, response, result, requests, peer>>
      BY <1>0, <1>4
    <2>2. MaxHops' = MaxHops
      BY <2>1, MaxHopsKept
    <2>3. response.location \in Urls
      BY <1>0, <1>4 DEF IInv, EngineTypeOK, Redirects, Response, NoResponse, Locations
    <2>4. EngineTypeOK'
      BY <2>1, <2>3 DEF IInv, EngineTypeOK
    <2>5. CountInv' /\ TimeInv' /\ LiteralInv' /\ ResultInv'
      BY <1>0, <1>4, <2>1, <2>2
      DEF IInv, CountInv, TimeInv, LiteralInv, ResultInv, Requesting
    <2>6. AnswerInv'
      BY <1>0, <2>1 DEF AnswerInv, Redirects
    <2> QED
      BY <2>1, <2>4, <2>5, <2>6 DEF IInv, OnlyAllowedDialled, StatusLineDecides
  <1> QED
    BY <1>0, <1>1, <1>2, <1>3, <1>4

LEMMA JudgeKeeps == ASSUME IInv, Judge PROVE IInv'
  <1>1. CASE response.inRange
    BY <1>1, SuccessKeeps DEF Judge
  <1>2. CASE ~response.inRange
    <2>1. FailAfter(0, "INVALID_STATUS") /\ pc = "answered"
      BY <1>2 DEF Judge
    <2> QED
      BY <1>2, <2>1, FailKeeps DEF CheckErrorType
  <1> QED
    BY <1>1, <1>2

\* A call that has not begun satisfies the invariant.
LEMMA FreshCall ==
  ASSUME pc = "idle", target \in CheckableTarget, currentUrl = target.url, redirectCount = 0,
         elapsed = 0, deadline = 0, response = NoResponse, result = NoResult, requests = 0,
         peer = NoPeer
  PROVE  IInv
  <1>1. EngineTypeOK
    BY DEF EngineTypeOK, CheckableTarget, NoResult
  <1>2. MaxHops \in Nat
    BY <1>1, MaxHopsNat
  <1>3. CountInv /\ TimeInv /\ LiteralInv /\ AnswerInv /\ ResultInv
    BY <1>2 DEF CountInv, TimeInv, LiteralInv, AnswerInv, ResultInv, Requesting, NoResult
  <1> QED
    BY <1>1, <1>3 DEF IInv, OnlyAllowedDialled, StatusLineDecides

LEMMA AgainKeeps == ASSUME Again PROVE IInv'
  <1>1. EngineTypeOK'
    BY DEF Again, EngineTypeOK, CheckableTarget, NoResult
  <1>3. pc' = "idle" /\ redirectCount' = 0 /\ requests' = 0 /\ response' = NoResponse
        /\ result' = NoResult
    BY DEF Again
  <1>4. CountInv'
    <2>1. target'.maxRedirects \in Int
      BY EngineAssumption DEF Again, CheckableTarget
    <2>2. CASE target'.followRedirects /\ target'.maxRedirects > 0
      BY <1>3, <2>1, <2>2 DEF CountInv, Requesting, MaxHops
    <2>3. CASE ~(target'.followRedirects /\ target'.maxRedirects > 0)
      BY <1>3, <2>3 DEF CountInv, Requesting, MaxHops
    <2> QED
      BY <2>2, <2>3
  <1>5. TimeInv' /\ LiteralInv' /\ AnswerInv'
    BY <1>3 DEF TimeInv, LiteralInv, AnswerInv, Requesting
  <1>6. ResultInv'
    BY <1>3 DEF ResultInv, NoResult
  <1> QED
    BY <1>1, <1>3, <1>4, <1>5, <1>6 DEF Again, IInv, OnlyAllowedDialled, StatusLineDecides

LEMMA StepKeeps == ASSUME IInv, Next PROVE IInv'
  <1>0. deadline \in Nat /\ elapsed \in Nat
    BY DEF IInv, EngineTypeOK
  <1>1. CASE NetworkStep
    <2>1. ASSUME NEW answer \in Answers(currentUrl.host), NEW d \in 0..ConnectTimeout,
                 Connect(answer, d)
          PROVE  IInv'
      BY <2>1, ConnectKeeps, EngineAssumption
    <2>2. ASSUME NEW d \in 0..(deadline - elapsed), NetworkFails(d) PROVE IInv'
      BY <1>0, <2>2, NetworkFailsKeeps
    <2>3. ASSUME NEW d \in 0..(deadline - elapsed), NEW answer \in Response, Answered(answer, d)
          PROVE  IInv'
      BY <1>0, <2>3, AnsweredKeeps
    <2> QED
      BY <1>1, <2>1, <2>2, <2>3 DEF NetworkStep
  <1>2. CASE EngineStep
    <2>1. ASSUME NEW answer \in Answers(currentUrl.host), NEW d \in 0..MaxLookup,
                 Preflight(answer, d)
          PROVE  IInv'
      BY <2>1, PreflightKeeps, EngineAssumption
    <2>2. ASSUME NEW d \in 0..(deadline - elapsed), TimesOut(d) \/ Drain(d) PROVE IInv'
      BY <1>0, <2>2, TimesOutKeeps, DrainKeeps
    <2> QED
      BY <1>2, <2>1, <2>2, BeginKeeps, SendKeeps, FollowKeeps, JudgeKeeps DEF EngineStep
  <1>3. CASE Again
    BY <1>3, AgainKeeps
  <1> QED
    BY <1>1, <1>2, <1>3 DEF Next

LEMMA StutterKeeps == ASSUME IInv, UNCHANGED vars PROVE IInv'
  <1> USE DEF vars, callVars
  <1>1. MaxHops' = MaxHops /\ EngineTypeOK'
    BY MaxHopsKept DEF IInv, EngineTypeOK
  <1>2. CountInv' /\ TimeInv' /\ LiteralInv' /\ AnswerInv' /\ ResultInv'
    BY <1>1 DEF IInv, CountInv, TimeInv, LiteralInv, AnswerInv, ResultInv, Requesting, Redirects
  <1> QED
    BY <1>1, <1>2 DEF IInv, OnlyAllowedDialled, StatusLineDecides, Redirects

-----------------------------------------------------------------------------
LEMMA InvariantHolds == Spec => []IInv
  <1>1. Init => IInv
    BY FreshCall DEF Init
  <1>2. IInv /\ [Next]_vars => IInv'
    BY StepKeeps, StutterKeeps
  <1> QED
    BY <1>1, <1>2, PTL DEF Spec

\* The variables of a check have their types, whatever DNS and servers answer.
THEOREM EngineTypes == Spec => []EngineTypeOK
  <1>1. IInv => EngineTypeOK
    BY DEF IInv
  <1> QED
    BY <1>1, InvariantHolds, PTL

\* No target makes a check send more requests than its limit of redirects
\* allows, for every limit, a negative one too.
THEOREM RedirectLimitHolds == Spec => []RedirectsBounded
  <1>1. IInv => RedirectsBounded
    BY DEF IInv, CountInv, ResultInv, RedirectsBounded
  <1> QED
    BY <1>1, InvariantHolds, PTL

\* No address outside the policy is dialled, for every set of addresses, every
\* policy setting and every sequence of answers of DNS.
THEOREM NoForbiddenAddressDialled == Spec => []OnlyAllowedDialled
  <1>1. IInv => OnlyAllowedDialled
    BY DEF IInv
  <1> QED
    BY <1>1, InvariantHolds, PTL

\* A successful check took no longer than its target's timeout, for every
\* timeout, though the lookups between its redirects have no bound.
THEOREM SuccessIsInTime == Spec => []SuccessWithinBudget
  <1>1. IInv => SuccessWithinBudget
    BY DEF IInv, ResultInv, SuccessWithinBudget
  <1> QED
    BY <1>1, InvariantHolds, PTL

\* Once there is a final status line the body and the timers have no say.
THEOREM ResultIsTheStatusLines == Spec => []StatusLineDecides
  <1>1. IInv => StatusLineDecides
    BY DEF IInv
  <1> QED
    BY <1>1, InvariantHolds, PTL
=============================================================================
