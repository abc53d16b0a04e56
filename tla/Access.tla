------------------------------- MODULE Access -------------------------------
(***************************************************************************)
(* Who may do what: the guards in front of every handler (JwtAuthGuard,    *)
(* JwtStrategy, RolesGuard), AuthService.login, UsersService, and the      *)
(* notes of IncidentsService.  A request is in one of a few slots; its     *)
(* awaits split it into steps:                                             *)
(*                                                                         *)
(*   none -> sent -> handling -> (comparing | hashing | saving) ->         *)
(*        -> answered                                                      *)
(*                                                                         *)
(* A read is answered in the step of its guards: nothing tells apart when  *)
(* between the two the rows it returns were read.                          *)
(*                                                                         *)
(* The other handlers are modelled elsewhere: here each of them only       *)
(* changes what the product's pages show, which is a version number.       *)
(* How many requests there are is bounded by whoever sends them.           *)
(***************************************************************************)
EXTENDS Integers, Sequences

CONSTANTS
  UserIds,      \* ids of rows of users
  Accounts,     \* the rows there are at first: email and role by id
  NoteIds,      \* ids of rows of incident_notes
  NoOne,        \* null, for an id
  NoteAuthor,   \* author of each note there is at first
  Sessions,     \* the tokens people have at first: account and role, by serial
  Lasting,      \* serials of those that do not expire meanwhile
  Slots         \* requests under way at once

Roles == {"ADMIN", "OPERATOR", "VIEWER"}

ASSUME AccessAssumption ==
  /\ NoOne \notin UserIds
  /\ DOMAIN Accounts \subseteq UserIds
  /\ \A i \in DOMAIN Accounts :
       /\ DOMAIN Accounts[i] = {"email", "role"}
       /\ Accounts[i].role \in Roles
       /\ \A k \in DOMAIN Accounts : Accounts[i].email = Accounts[k].email => i = k
  /\ DOMAIN NoteAuthor \subseteq NoteIds
  /\ \A n \in DOMAIN Sessions : Sessions[n].sub \in DOMAIN Accounts

VARIABLES
  users,     \* id -> email and role
  notes,     \* id -> author
  version,   \* of everything the pages show
  req,       \* the requests
  issued,    \* tokens issued so far
  expired    \* those that have expired

accessVars == <<users, notes, version, req, issued, expired>>

NoToken == [sub |-> NoOne, role |-> "NONE", serial |-> 0]
NoUser == [id |-> NoOne, role |-> "NONE"]
NoBody == [version |-> 0, of |-> NoOne, user |-> NoUser, token |-> NoToken]
NoRequest ==
  [ pc |-> "none", op |-> "none", arg |-> NoOne, token |-> NoToken, actor |-> NoOne,
    role |-> "NONE", held |-> {}, status |-> 0, body |-> NoBody ]

TargetReads == {"targets", "target", "metrics", "checks"}
TargetWrites == {"createTarget", "updateTarget", "archive", "pause", "resume", "check-now"}
IncidentReads == {"incidents", "incident"}
IncidentWrites == {"acknowledge", "addNote", "editNote"}
DashboardReads == {"summary", "distribution", "panels", "uptime", "latency"}
UserOps == {"users", "createUser", "updateRole"}
Reads == TargetReads \cup IncidentReads \cup DashboardReads \cup {"users", "me"}
Public == {"login"}

\* The @Roles of the handlers; those of a method without it are all.
TargetsController(op) ==
  CASE op \in {"createTarget", "updateTarget", "archive"} -> {"ADMIN"}
    [] op \in {"pause", "resume", "check-now"}            -> {"ADMIN", "OPERATOR"}
    [] op \in TargetReads                                -> Roles

IncidentsController(op) ==
  CASE op \in {"acknowledge", "addNote", "editNote"} -> {"ADMIN", "OPERATOR"}
    [] op \in IncidentReads                          -> Roles

UsersController(op) == {"ADMIN"}

Required(op) ==
  CASE op \in TargetReads \cup TargetWrites     -> TargetsController(op)
    [] op \in IncidentReads \cup IncidentWrites -> IncidentsController(op)
    [] op \in UserOps                           -> UsersController(op)
    [] OTHER                                    -> Roles

AccessInit ==
  /\ users = Accounts
  /\ notes = NoteAuthor
  /\ version = 0
  /\ req = [s \in Slots |-> NoRequest]
  /\ issued = Len(Sessions)
  /\ expired = {}

\* The token issued when the session began.
Session(n) == IF n = 0 THEN NoToken
              ELSE [sub |-> Sessions[n].sub, role |-> Sessions[n].role, serial |-> n]

FindByEmail(email) == {i \in DOMAIN users : users[i].email = email}

-----------------------------------------------------------------------------
(* A request reaches the API, passes its guards, and is answered.          *)

\* held is a history: the roles its account had while it was under way.
Sent(token, op, arg) ==
  [NoRequest EXCEPT
     !.pc = "sent", !.op = op, !.arg = arg, !.token = token,
     !.held = IF token.sub \in DOMAIN users THEN {users[token.sub].role} ELSE {}]

Advance(s, pc) == req' = [req EXCEPT ![s].pc = pc]

Answered(r, status, body) == [r EXCEPT !.pc = "answered", !.status = status, !.body = body]

Refuse(s, status) == req' = [req EXCEPT ![s] = Answered(@, status, NoBody)]

Change == version' = version + 1

\* The handler's last write is committed, and the request answered.
Effect(s) ==
  /\ Change
  /\ req' = [req EXCEPT ![s] = Answered(@, 200, [NoBody EXCEPT !.version = version'])]

\* Faulty variant: the role is the token's, without reading the account again.
ValidateToken(token, i) == [id |-> token.sub, role |-> token.role]

\* JwtStrategy.validate: the account i with the token's email, as it is now.
Validate(token, i) == [id |-> i, role |-> users[i].role]

ValidToken(token) ==
  token.sub \in DOMAIN users /\ token.serial \notin expired

\* An account of another id with the token's email is no session either.
Guards(s) ==
  LET r == req[s]
  IN  /\ r.pc = "sent"
      /\ IF r.op \in Public
         THEN Advance(s, "handling")
         ELSE IF ~ValidToken(r.token)
         THEN Refuse(s, 401)
         ELSE \E i \in FindByEmail(users[r.token.sub].email) :
                LET user == Validate(r.token, i)
                IN  IF i # r.token.sub
                    THEN Refuse(s, 401)
                    ELSE IF user.role \notin Required(r.op)
                    THEN Refuse(s, 403)
                    ELSE IF r.op \in Reads
                    THEN req' = [req EXCEPT ![s] = Answered(@, 200,
                           [NoBody EXCEPT !.version = version, !.of = r.arg, !.user = user])]
                    ELSE req' = [req EXCEPT ![s].pc = "handling", ![s].actor = user.id,
                                            ![s].role = user.role]
      /\ UNCHANGED <<users, notes, version, issued, expired>>

\* The query of the account fails, which validate takes for no account.
AccountUnread(s) ==
  /\ req[s].pc = "sent" /\ req[s].op \notin Public /\ ValidToken(req[s].token)
  /\ Refuse(s, 401)
  /\ UNCHANGED <<users, notes, version, issued, expired>>

Handling(s, op) == req[s].pc = "handling" /\ req[s].op = op

\* login: the account, then the comparison of the password with its hash.
FindAccount(s) ==
  /\ Handling(s, "login")
  /\ IF FindByEmail(req[s].arg.email) = {}
     THEN Refuse(s, 401)
     ELSE \E i \in FindByEmail(req[s].arg.email) :
            req' = [req EXCEPT ![s].pc = "comparing", ![s].actor = i, ![s].role = users[i].role]
  /\ UNCHANGED <<users, notes, version, issued, expired>>

LoginResponse(r) ==
  [NoBody EXCEPT !.user  = [id |-> r.actor, role |-> r.role],
                 !.token = [sub |-> r.actor, role |-> r.role, serial |-> issued + 1]]

VerifyPassword(s) ==
  /\ req[s].pc = "comparing"
  /\ IF ~req[s].arg.correct
     THEN Refuse(s, 401) /\ UNCHANGED issued
     ELSE /\ issued' = issued + 1
          /\ req' = [req EXCEPT ![s] = Answered(@, 200, LoginResponse(@))]
  /\ UNCHANGED <<users, notes, version, expired>>

\* users.create: the lookup, and the hash that is awaited before the insert.
LookUpEmail(s) ==
  /\ Handling(s, "createUser")
  /\ IF FindByEmail(req[s].arg) # {} THEN Refuse(s, 409) ELSE Advance(s, "hashing")
  /\ UNCHANGED <<users, notes, version, issued, expired>>

\* Faulty variant: no unique index.
NoUniqueEmail(email) == TRUE

\* idx_users_email.  The insert it refuses is an error nobody catches.
EmailIndexAllows(email) == FindByEmail(email) = {}

InsertUser(s) ==
  /\ req[s].pc = "hashing"
  /\ IF ~EmailIndexAllows(req[s].arg)
     THEN Refuse(s, 500) /\ UNCHANGED <<users, version>>
     ELSE /\ \E i \in UserIds \ DOMAIN users :
               users' = [k \in DOMAIN users \cup {i} |->
                           IF k = i THEN [email |-> req[s].arg, role |-> "VIEWER"] ELSE users[k]]
          /\ Effect(s)
  /\ UNCHANGED <<notes, issued, expired>>

\* users.updateRole: the account, then the UPDATE of its role.
FindUser(s) ==
  /\ Handling(s, "updateRole")
  /\ IF req[s].arg.id \in DOMAIN users THEN Advance(s, "saving") ELSE Refuse(s, 404)
  /\ UNCHANGED <<users, notes, version, issued, expired>>

SaveRole(s) ==
  LET id == req[s].arg.id
      role == req[s].arg.role
  IN  /\ req[s].pc = "saving" /\ req[s].op = "updateRole"
      /\ Change
      /\ users' = [users EXCEPT ![id].role = role]
      /\ req' = [k \in Slots |->
           LET r == IF k = s THEN Answered(req[k], 200, [NoBody EXCEPT !.version = version'])
                             ELSE req[k]
           IN  IF r.token.sub = id THEN [r EXCEPT !.held = @ \cup {role}] ELSE r]
      /\ UNCHANGED <<notes, issued, expired>>

\* incidents.addNote: the author is who the guards found.
AddNote(s) ==
  /\ Handling(s, "addNote")
  /\ \E n \in NoteIds \ DOMAIN notes :
       notes' = [k \in DOMAIN notes \cup {n} |-> IF k = n THEN req[s].actor ELSE notes[k]]
  /\ Effect(s)
  /\ UNCHANGED <<users, issued, expired>>

\* "Operators may only edit their own notes; admins may edit any note."
MayEdit(author, actor, role) == author = actor \/ role = "ADMIN"

\* incidents.updateNote: the note, its author, then the UPDATE of its text.
FindNote(s) ==
  LET r == req[s]
  IN  /\ Handling(s, "editNote")
      /\ IF r.arg \notin DOMAIN notes
         THEN Refuse(s, 404)
         ELSE IF ~MayEdit(notes[r.arg], r.actor, r.role)
         THEN Refuse(s, 403)
         ELSE Advance(s, "saving")
      /\ UNCHANGED <<users, notes, version, issued, expired>>

SaveNote(s) ==
  /\ req[s].pc = "saving" /\ req[s].op = "editNote"
  /\ Effect(s)
  /\ UNCHANGED <<users, notes, issued, expired>>

\* Any other handler that writes.
Act(s) ==
  /\ req[s].pc = "handling"
  /\ req[s].op \in TargetWrites \cup {"acknowledge"}
  /\ Effect(s)
  /\ UNCHANGED <<users, notes, issued, expired>>

\* A handler refuses what its own conditions forbid (a paused target, say).
Reject(s) ==
  /\ req[s].pc = "handling" /\ req[s].op \in TargetWrites \cup IncidentWrites
  /\ Refuse(s, 409)
  /\ UNCHANGED <<users, notes, version, issued, expired>>

Serve(s) ==
  \/ Guards(s)
  \/ FindAccount(s) \/ VerifyPassword(s)
  \/ LookUpEmail(s) \/ InsertUser(s)
  \/ FindUser(s) \/ SaveRole(s)
  \/ AddNote(s) \/ FindNote(s) \/ SaveNote(s)
  \/ Act(s) \/ Reject(s)

\* Monitoring changes what the pages show.
MonitoringChanges ==
  /\ Change
  /\ UNCHANGED <<users, notes, req, issued, expired>>

\* A token's lifetime is over.
Expire ==
  /\ \E serial \in (1..issued) \ (Lasting \cup expired) : expired' = expired \cup {serial}
  /\ UNCHANGED <<users, notes, version, req, issued>>

-----------------------------------------------------------------------------
(* Properties.                                                             *)

\* The request whose effect a step is: its handler was at work, and is
\* answered with a change.
Takes(s) ==
  /\ req[s].pc \in {"handling", "hashing", "saving"}
  /\ req'[s].pc = "answered" /\ req'[s].status = 200 /\ req[s].op \notin Public

\* A request changes something only if its account has held a role the handler
\* asks for since the request was sent, whatever role the token still names:
\* "a revoked/role-changed account cannot keep acting on a still-valid token"
\* (jwt.strategy.ts).  A note is edited by its author, or by an administrator.
EffectsAuthorized ==
  [][\A s \in Slots :
       Takes(s) =>
         /\ req[s].held \cap Required(req[s].op) # {}
         /\ req[s].op = "editNote" =>
              notes[req[s].arg] = req[s].token.sub \/ "ADMIN" \in req[s].held]_accessVars

\* However creations overlap, an email belongs to one account: login and every
\* token name an account by it.
OneAccountPerEmail ==
  \A i, k \in DOMAIN users : users[i].email = users[k].email => i = k
=============================================================================
