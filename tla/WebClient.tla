----------------------------- MODULE WebClient -----------------------------
(***************************************************************************)
(* One tab of the web client, talking to the API of Access: the session    *)
(* (lib/auth.tsx, lib/api.ts), the pages and the links between them, the   *)
(* cache of React Query as the pages use it (polling, one retry, ten       *)
(* seconds of freshness, invalidation after a mutation), and the buttons.  *)
(*                                                                         *)
(* A query is a key: its name and, for those that have one, the window or  *)
(* the filter picked.  Each key has a request slot of its own in the API,  *)
(* and so have /auth/me, the login form and the page's mutation.           *)
(***************************************************************************)
EXTENDS Access

CONSTANTS
  Choices,        \* windows, or filters and page numbers, one can pick
  DefaultChoice,  \* what a page starts with
  Uses,           \* the ways the product is used (see use)
  OtherSlots,     \* requests of other people
  Emails          \* emails people type

VARIABLES
  use,      \* what is followed of one way to use the product, and its bounds
  token,    \* localStorage
  user,     \* AuthProvider's user
  loading,  \* AuthProvider's loading
  path,     \* the page shown, "closed" before the tab is opened
  picked,   \* the page's window or filter
  cache,    \* React Query's, by key
  floor     \* history: the version of the tab's last change a key must show

tabVars == <<use, token, user, loading, path, picked, cache, floor>>
apiVars == <<users, notes, version, issued, expired>>
vars == <<accessVars, tabVars>>

\* The queries of each page.
DashboardPage      == DashboardReads
TargetsPage        == {"targets"}
TargetDetailPage   == {"target", "metrics", "checks", "target-incidents"}
IncidentsPage      == {"incidents"}
IncidentDetailPage == {"incident"}
AdminUsersPage     == {"users"}

PageQueries(page) ==
  CASE page = "/dashboard"     -> DashboardPage
    [] page = "/targets"       -> TargetsPage
    [] page = "/targets/:id"   -> TargetDetailPage
    [] page = "/incidents"     -> IncidentsPage
    [] page = "/incidents/:id" -> IncidentDetailPage
    [] page = "/admin/users"   -> AdminUsersPage
    [] OTHER                   -> {}

ShellPages == {"/dashboard", "/targets", "/targets/:id", "/targets/new", "/incidents",
               "/incidents/:id", "/admin/users"}

\* Queries with a refetchInterval, and those whose key holds what is picked.
Polled == {"summary", "distribution", "panels", "targets", "target", "metrics", "checks",
           "incidents", "incident"}
ByChoice == {"targets", "metrics", "uptime", "latency", "incidents"}

\* The endpoint a query asks.
Endpoint(name) == IF name = "target-incidents" THEN "incidents" ELSE name

\* Faulty variant: the key leaves out what is picked.
KeyWithoutChoice(name, choice) == [name |-> name, choice |-> DefaultChoice]

Key(name, choice) ==
  [name |-> name, choice |-> IF name \in ByChoice THEN choice ELSE DefaultChoice]

Followed == UNION {u.follow : u \in Uses}
Keys == {Key(name, choice) : name \in Followed, choice \in Choices}

MeSlot == [name |-> "me", choice |-> DefaultChoice]
LoginSlot == [name |-> "login", choice |-> DefaultChoice]
ActionSlot == [name |-> "action", choice |-> DefaultChoice]
TabSlots == Keys \cup {MeSlot, LoginSlot, ActionSlot}

Queries == UNION {PageQueries(page) : page \in ShellPages}

\* session and callers are serials of Sessions, or 0 for nobody.
WayToUse ==
  [ page : ShellPages \cup {"/", "closed"}, session : {0} \cup DOMAIN Sessions,
    follow : SUBSET Queries, ops : SUBSET (TargetWrites \cup IncidentWrites \cup UserOps),
    others : SUBSET (TargetWrites \cup IncidentWrites \cup UserOps \cup Public),
    callers : SUBSET ({0} \cup DOMAIN Sessions),
    calls : Nat, moves : Nat, losses : Nat, changes : Nat ]

ASSUME WebClientAssumption ==
  /\ DefaultChoice \in Choices
  /\ Uses \subseteq WayToUse
  /\ Slots = TabSlots \cup OtherSlots /\ TabSlots \cap OtherSlots = {}

NoEntry == [loaded |-> FALSE, version |-> 0, of |-> NoOne, old |-> FALSE, error |-> FALSE,
            tries |-> 0]

TabInit ==
  /\ use \in Uses
  /\ token = Session(use.session)
  /\ user = NoUser
  /\ loading = TRUE
  /\ path = "closed"
  /\ picked = DefaultChoice
  /\ cache = [k \in Keys |-> NoEntry]
  /\ floor = [k \in Keys |-> 0]

\* A thing the user does: use bounds how many.
Move == use.moves > 0 /\ use' = [use EXCEPT !.moves = @ - 1]

Can(u, roles) == u.role \in roles

Idle(s) == req[s].pc = "none"
Settled(s) == req[s].pc \in {"answered", "lost"}
Accepted(s) == req[s].pc = "answered" /\ req[s].status = 200
Unauthorized(s) == req[s].pc = "answered" /\ req[s].status = 401

\* The keys of the queries mounted.
Active(page, choice, u) ==
  {Key(name, choice) : name \in {n \in PageQueries(page) \cap use.follow :
                                   n = "users" => Can(u, {"ADMIN"})}}

Shown == Active(path, picked, user)

-----------------------------------------------------------------------------
(* Queries.                                                                *)

\* r and c with the keys of fetch asked for, a first load without its error.
Asking(r, fetch, tok, choice) ==
  [s \in Slots |-> IF s \in fetch
                   THEN Sent(tok, Endpoint(s.name), IF s.name \in ByChoice THEN choice ELSE NoOne)
                   ELSE r[s]]
Asked(c, fetch) ==
  [k \in Keys |-> IF k \in fetch THEN [c[k] EXCEPT !.tries = 0, !.error = @ /\ c[k].loaded]
                                 ELSE c[k]]

\* The page, what is picked on it and the user become these: queries mounted
\* by that are fetched if they have nothing, something invalidated, or
\* something older than the staleTime.
Show(page, choice, u, tok, r) ==
  LET mounted == Active(page, choice, u) \ Shown
  IN  \E aged \in SUBSET {k \in mounted : cache[k].loaded /\ ~cache[k].old} :
        LET fetch == {k \in mounted : r[k].pc = "none" /\
                                      (~cache[k].loaded \/ cache[k].old \/ k \in aged)}
        IN  /\ path' = page /\ picked' = choice /\ user' = u /\ token' = tok
            /\ req' = Asking(r, fetch, tok, choice)
            /\ cache' = Asked(cache, fetch)

Received(s) == [req EXCEPT ![s] = NoRequest]

\* Faulty variant: a query that failed is polled no more.
PollUnlessFailed(k) ==
  /\ k \in Shown /\ k.name \in Polled /\ Idle(k) /\ ~cache[k].error
  /\ req' = Asking(req, {k}, token, picked)
  /\ cache' = Asked(cache, {k})
  /\ UNCHANGED <<apiVars, use, token, user, loading, path, picked, floor>>

Poll(k) ==
  /\ k \in Shown /\ k.name \in Polled /\ Idle(k)
  /\ req' = Asking(req, {k}, token, picked)
  /\ cache' = Asked(cache, {k})
  /\ UNCHANGED <<apiVars, use, token, user, loading, path, picked, floor>>

\* The answer is stored, or the fetch tried again once; data is kept on error.
AnswerQuery(k) ==
  LET body == req[k].body
  IN  /\ Settled(k)
      /\ IF Accepted(k)
         THEN /\ cache' = [cache EXCEPT ![k] =
                   [NoEntry EXCEPT !.loaded = TRUE, !.version = body.version, !.of = body.of]]
              /\ req' = Received(k)
         ELSE IF cache[k].tries = 0
         THEN cache' = [cache EXCEPT ![k].tries = 1] /\ req' = [req EXCEPT ![k].pc = "waiting"]
         ELSE cache' = [cache EXCEPT ![k].error = TRUE] /\ req' = Received(k)
      /\ token' = IF Unauthorized(k) THEN NoToken ELSE token
      /\ UNCHANGED <<apiVars, use, user, loading, path, picked, floor>>

Retry(k) ==
  /\ req[k].pc = "waiting"
  /\ req' = [req EXCEPT ![k] = Sent(token, @.op, @.arg)]
  /\ UNCHANGED <<apiVars, tabVars>>

-----------------------------------------------------------------------------
(* The session.                                                            *)

\* The bundle starts: an empty cache, the page's queries, and /auth/me if
\* there is a token to ask with.
Mounted(page) ==
  LET keys == Active(page, DefaultChoice, NoUser)
      none == [s \in Slots |-> IF s \in TabSlots THEN NoRequest ELSE req[s]]
      asking == Asking(none, keys, token, DefaultChoice)
  IN  /\ req' = IF token = NoToken THEN asking
                ELSE [asking EXCEPT ![MeSlot] = Sent(token, "me", NoOne)]
      /\ loading' = (token # NoToken)
      /\ user' = NoUser
      /\ path' = page
      /\ picked' = DefaultChoice
      /\ cache' = [k \in Keys |-> NoEntry]
      /\ floor' = [k \in Keys |-> 0]
      /\ UNCHANGED <<apiVars, token>>

Open ==
  /\ path = "closed" /\ use.page # "closed"
  /\ Mounted(use.page)
  /\ UNCHANGED use

\* While nothing but reads is under way (bound).
Reload ==
  /\ path # "closed" /\ Idle(ActionSlot) /\ Idle(LoginSlot)
  /\ Move
  /\ Mounted(path)

MeAnswered ==
  /\ Settled(MeSlot)
  /\ loading' = FALSE
  /\ IF Accepted(MeSlot)
     THEN Show(path, picked, req[MeSlot].body.user, token, Received(MeSlot))
     ELSE Show(path, picked, NoUser, NoToken, Received(MeSlot))
  /\ UNCHANGED <<apiVars, use, floor>>

\* AppShell, the login page and the home page send the user on.
Redirect ==
  /\ ~loading
  /\ \/ path \in ShellPages \cup {"/"} /\ user = NoUser
        /\ Show("/login", DefaultChoice, user, token, req)
     \/ path \in {"/login", "/"} /\ user # NoUser
        /\ Show("/dashboard", DefaultChoice, user, token, req)
  /\ UNCHANGED <<apiVars, use, loading, floor>>

Submit ==
  /\ path = "/login" /\ Idle(LoginSlot)
  /\ Move
  /\ \E email \in Emails, correct \in BOOLEAN :
       req' = [req EXCEPT ![LoginSlot] =
                 Sent(token, "login", [email |-> email, correct |-> correct])]
  /\ UNCHANGED <<apiVars, token, user, loading, path, picked, cache, floor>>

LoginAnswered ==
  LET body == req[LoginSlot].body
  IN  /\ Settled(LoginSlot)
      /\ IF Accepted(LoginSlot)
         THEN Show("/dashboard", DefaultChoice, body.user, body.token, Received(LoginSlot))
         ELSE /\ req' = Received(LoginSlot)
              /\ token' = IF Unauthorized(LoginSlot) THEN NoToken ELSE token
              /\ UNCHANGED <<user, path, picked, cache>>
      /\ UNCHANGED <<apiVars, use, loading, floor>>

\* The pages inside the shell are displayed, their links and buttons with them.
SignedIn == path \in ShellPages /\ ~loading /\ user # NoUser

\* The cache is kept, and what is being fetched goes on.
Logout ==
  /\ SignedIn
  /\ Move
  /\ Show("/login", DefaultChoice, NoUser, NoToken, req)
  /\ UNCHANGED <<apiVars, loading, floor>>

Links ==
  {page \in ShellPages :
     /\ page # path
     /\ PageQueries(page) \cap use.follow # {} \/ page = "/targets/new"
     /\ page \in {"/admin/users", "/targets/new"} => Can(user, {"ADMIN"})}

Navigate ==
  /\ SignedIn
  /\ Move
  /\ \E page \in Links : Show(page, DefaultChoice, user, token, req)
  /\ UNCHANGED <<apiVars, loading, floor>>

Pick ==
  /\ SignedIn /\ PageQueries(path) \cap ByChoice \cap use.follow # {}
  /\ Move
  /\ \E choice \in Choices \ {picked} : Show(path, choice, user, token, req)
  /\ UNCHANGED <<apiVars, loading, floor>>

-----------------------------------------------------------------------------
(* Mutations.                                                              *)

\* The buttons the pages show a user.
TargetButtons(u) ==
  (IF Can(u, {"ADMIN", "OPERATOR"}) THEN {"check-now", "pause", "resume"} ELSE {})
    \cup (IF Can(u, {"ADMIN"}) THEN {"archive"} ELSE {})

IncidentButtons(u) ==
  IF Can(u, {"ADMIN", "OPERATOR"}) THEN {"acknowledge", "addNote"} ELSE {}

UserButtons(u) == IF Can(u, {"ADMIN"}) THEN {"createUser", "updateRole"} ELSE {}

NewTargetButtons(u) == IF Can(u, {"ADMIN"}) THEN {"createTarget"} ELSE {}

Buttons(page, u) ==
  CASE page = "/targets/:id"   -> TargetButtons(u)
    [] page = "/incidents/:id" -> IncidentButtons(u)
    [] page = "/admin/users"   -> UserButtons(u)
    [] page = "/targets/new"   -> NewTargetButtons(u)
    [] OTHER                   -> {}

\* What its buttons need to be there: the record the page is about, or the
\* rows whose role is changed.
RecordOf(op) ==
  CASE op \in {"check-now", "pause", "resume", "archive"} -> {"target"}
    [] op \in {"acknowledge", "addNote"}                  -> {"incident"}
    [] op = "updateRole"                                  -> {"users"}
    [] OTHER                                              -> {}

Displayed(name) ==
  LET k == Key(name, picked)
  IN  k \in Keys /\ cache[k].loaded /\ (name = "users" \/ ~cache[k].error)

Arguments(op) ==
  CASE op = "createUser" -> Emails
    [] op = "updateRole" -> [id : DOMAIN users, role : Roles]
    [] op = "editNote"   -> NoteIds
    [] op = "login"      -> [email : Emails, correct : BOOLEAN]
    [] OTHER             -> {NoOne}

\* One at a time in the tab (bound).
Click ==
  /\ SignedIn /\ Idle(ActionSlot)
  /\ Move
  /\ \E op \in Buttons(path, user) \cap use.ops :
       /\ \A name \in RecordOf(op) : Displayed(name)
       /\ \E arg \in Arguments(op) :
            req' = [req EXCEPT ![ActionSlot] = Sent(token, op, arg)]
  /\ UNCHANGED <<apiVars, token, user, loading, path, picked, cache, floor>>

\* What the mutations of each page invalidate when they succeed.
TargetInvalidates   == TargetDetailPage \cup {"targets"}
IncidentInvalidates == {"incident"}
UserInvalidates     == {"users"}

Invalidates(op) ==
  CASE op \in {"check-now", "pause", "resume", "archive"} -> TargetInvalidates
    [] op \in {"acknowledge", "addNote"}                  -> IncidentInvalidates
    [] op \in {"createUser", "updateRole"}                -> UserInvalidates
    [] OTHER                                              -> {}

\* Faulty variant: a fetch in flight is left to answer, whatever it read.
RefetchedIfIdle(named) == {k \in named \cap Shown : Idle(k)}

\* The fetches an invalidation starts.  One in flight is given up for a new
\* one, a first load is not.
Refetched(named) == {k \in named \cap Shown : Idle(k) \/ cache[k].loaded}

\* Of these keys, those that must then show at least this version.
Raised(named, v) ==
  [k \in Keys |-> IF k \in named \cap Shown /\ cache[k].loaded THEN v ELSE floor[k]]

ClickAnswered ==
  LET r == req[ActionSlot]
      named == {k \in Keys : k.name \in Invalidates(r.op)}
      fetch == Refetched(named)
  IN  /\ Settled(ActionSlot)
      /\ IF ~Accepted(ActionSlot)
         THEN /\ req' = Received(ActionSlot)
              /\ token' = IF Unauthorized(ActionSlot) THEN NoToken ELSE token
              /\ UNCHANGED <<user, path, picked, cache, floor>>
         ELSE IF r.op = "createTarget"
         THEN Show("/targets/:id", DefaultChoice, user, token, Received(ActionSlot))
              /\ UNCHANGED floor
         ELSE /\ req' = Asking(Received(ActionSlot), fetch, token, picked)
              /\ cache' = [k \in Keys |-> IF k \in named
                             THEN [Asked(cache, fetch)[k] EXCEPT !.old = cache[k].loaded]
                             ELSE cache[k]]
              /\ floor' = Raised(named, r.body.version)
              /\ UNCHANGED <<token, user, path, picked>>
      /\ UNCHANGED <<apiVars, use, loading>>

-----------------------------------------------------------------------------
(* The rest of the world.                                                  *)

\* A request or its answer is lost: fetch rejects.  use bounds how often.
Lose ==
  /\ use.losses > 0 /\ use' = [use EXCEPT !.losses = @ - 1]
  /\ \E s \in TabSlots :
       req[s].pc \in {"sent", "answered"} /\ req' = [req EXCEPT ![s].pc = "lost"]
  /\ UNCHANGED <<apiVars, token, user, loading, path, picked, cache, floor>>

\* The API cannot read who asks.  It counts as a loss.
ValidateFails ==
  /\ use.losses > 0 /\ use' = [use EXCEPT !.losses = @ - 1]
  /\ \E s \in TabSlots : AccountUnread(s)
  /\ UNCHANGED <<token, user, loading, path, picked, cache, floor>>

\* Somebody else calls the API.
OtherCalls ==
  /\ use.calls > 0 /\ use' = [use EXCEPT !.calls = @ - 1]
  /\ \E s \in OtherSlots, op \in use.others, n \in use.callers :
       /\ req[s].pc \in {"none", "answered"}
       /\ \E arg \in Arguments(op) : req' = [req EXCEPT ![s] = Sent(Session(n), op, arg)]
  /\ UNCHANGED <<apiVars, token, user, loading, path, picked, cache, floor>>

MonitoringGoesOn ==
  /\ use.changes > 0 /\ use' = [use EXCEPT !.changes = @ - 1]
  /\ MonitoringChanges
  /\ UNCHANGED <<token, user, loading, path, picked, cache, floor>>

Api == (Expire \/ \E s \in Slots : Serve(s)) /\ UNCHANGED tabVars

TabStep ==
  \/ \E k \in Keys : Poll(k) \/ AnswerQuery(k) \/ Retry(k)
  \/ Open \/ Reload \/ MeAnswered \/ Redirect \/ Submit \/ LoginAnswered
  \/ Logout \/ Navigate \/ Pick \/ Click \/ ClickAnswered

Init == AccessInit /\ TabInit
Next == TabStep \/ Lose \/ ValidateFails \/ OtherCalls \/ MonitoringGoesOn \/ Api

\* The API answers; timers fire and callbacks run in a tab in front.
Fairness ==
  \A k \in Keys :
    /\ WF_vars(Serve(k) /\ UNCHANGED tabVars)
    /\ WF_vars(Poll(k)) /\ WF_vars(AnswerQuery(k)) /\ WF_vars(Retry(k))

Spec == Init /\ [][Next]_vars /\ Fairness

-----------------------------------------------------------------------------
(* Properties.                                                             *)

\* However answers cross, what is shown under a window, a filter or a page
\* number was asked for with it.
ShownMatchesPicked ==
  \A k \in Shown : cache[k].loaded /\ k.name \in ByChoice => cache[k].of = picked

\* Once the user's own change is answered, what the page had loaded of the
\* thing changed is not shown again as it was before, unless as an error or
\* while it is fetched: an answer on its way when the button was pressed does
\* not bring the old state back.
FreshAfterAction ==
  \A k \in Shown :
    cache[k].loaded /\ ~cache[k].error /\ Idle(k) => cache[k].version >= floor[k]

\* A polled query on a page left open with a session that holds shows the
\* present state in the end, whatever failed before.
CatchesUp ==
  \A k \in Keys :
    k.name \in Polled =>
      (<>[](k \in Shown /\ ValidToken(token)) =>
       <>[](cache[k].loaded /\ ~cache[k].error /\ cache[k].version = version))
=============================================================================
