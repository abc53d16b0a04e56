-------------------------- MODULE WebClientProofs --------------------------
(***************************************************************************)
(* The safety of Access and WebClient, for every number of accounts,       *)
(* tokens, requests, pages and mutations, whatever is lost.                *)
(***************************************************************************)
EXTENDS WebClient, TLAPS

-----------------------------------------------------------------------------
(* The forms of the records, and what is done to them.                     *)

IsAccount(a) == DOMAIN a = {"email", "role"}

IsRequest(r) ==
  DOMAIN r = {"pc", "op", "arg", "token", "actor", "role", "held", "status", "body"}

LEMMA SentForm ==
  ASSUME NEW tok, NEW op, NEW arg
  PROVE  LET r == Sent(tok, op, arg)
         IN  /\ IsRequest(r)
             /\ r.pc = "sent" /\ r.op = op /\ r.arg = arg /\ r.token = tok /\ r.body = NoBody
             /\ tok.sub \in DOMAIN users => r.held = {users[tok.sub].role}
  BY DEF Sent, NoRequest, IsRequest

LEMMA AnsweredForm ==
  ASSUME NEW r, IsRequest(r), NEW status, NEW body
  PROVE  LET a == Answered(r, status, body)
         IN  /\ IsRequest(a)
             /\ a.pc = "answered" /\ a.status = status /\ a.body = body
             /\ a.op = r.op /\ a.arg = r.arg /\ a.token = r.token /\ a.held = r.held
  BY DEF Answered, IsRequest

LEMMA PcForm ==
  ASSUME NEW r, IsRequest(r), NEW pc
  PROVE  LET a == [r EXCEPT !.pc = pc]
         IN  /\ IsRequest(a)
             /\ a.pc = pc /\ a.op = r.op /\ a.arg = r.arg /\ a.token = r.token
             /\ a.actor = r.actor /\ a.role = r.role /\ a.held = r.held
             /\ a.status = r.status /\ a.body = r.body
  BY DEF IsRequest

-----------------------------------------------------------------------------
(* Who may act.                                                            *)

FormInv ==
  /\ DOMAIN req = Slots /\ \A s \in Slots : IsRequest(req[s])
  /\ DOMAIN Accounts \subseteq DOMAIN users /\ DOMAIN users \subseteq UserIds
  /\ \A i \in DOMAIN users : IsAccount(users[i])
  /\ use \in WayToUse

\* Nobody, or an account there is: an id that is given later is no token's.
Known(tok) == tok.sub = NoOne \/ tok.sub \in DOMAIN users

TokensInv ==
  /\ Known(token)
  /\ \A s \in Slots : Known(req[s].token) /\ Known(req[s].body.token)

\* The history holds the role the account has now.
HeldInv ==
  \A s \in Slots :
    req[s].token.sub \in DOMAIN users => users[req[s].token.sub].role \in req[s].held

AtWork == {"handling", "hashing", "saving"}

\* What the guards established of a handler that is at work.
Working(r) ==
  /\ r.pc = "hashing" => r.op = "createUser"
  /\ r.pc \in AtWork /\ r.op \notin Public =>
       /\ r.role \in r.held /\ r.role \in Required(r.op)
       /\ r.actor = r.token.sub
  /\ r.pc = "saving" /\ r.op = "editNote" =>
       r.arg \in DOMAIN notes /\ MayEdit(notes[r.arg], r.actor, r.role)

WorkInv == \A s \in Slots : Working(req[s])

\* A login compares the password of an account there is.
LoginInv == \A s \in Slots : req[s].pc = "comparing" => req[s].actor \in DOMAIN users

AccessInv == FormInv /\ TokensInv /\ HeldInv /\ WorkInv /\ LoginInv /\ OneAccountPerEmail

\* The tab and other callers only send, drop, and set aside requests, and an
\* account that cannot be read has one refused.
TabTouches(s) ==
  \/ req'[s] = req[s] \/ req'[s] = NoRequest
  \/ \E tok, op, arg : Known(tok) /\ req'[s] = Sent(tok, op, arg)
  \/ \E pc \in {"waiting", "lost"} : req'[s] = [req[s] EXCEPT !.pc = pc]
  \/ req'[s] = Answered(req[s], 401, NoBody)

TabTouchesAll ==
  /\ UNCHANGED apiVars
  /\ DOMAIN req' = Slots /\ \A s \in Slots : TabTouches(s)
  /\ Known(token') /\ use' \in WayToUse

LEMMA TabKeepsAccessInv ==
  ASSUME AccessAssumption, AccessInv, TabTouchesAll
  PROVE  AccessInv'
  <1>0. ASSUME NEW s \in Slots, NEW pc \in {"waiting", "lost"}, req'[s] = [req[s] EXCEPT !.pc = pc]
        PROVE  /\ IsRequest(req'[s]) /\ req'[s].token = req[s].token /\ req'[s].body = req[s].body
               /\ req'[s].held = req[s].held /\ req'[s].pc = pc
    BY <1>0, PcForm DEF AccessInv, FormInv
  <1> USE DEF AccessInv, FormInv, TokensInv, HeldInv, WorkInv, Working, LoginInv, Known,
              TabTouchesAll, apiVars
  <1>1. OneAccountPerEmail'
    BY DEF OneAccountPerEmail
  <1> SUFFICES ASSUME NEW s \in Slots
               PROVE  /\ IsRequest(req'[s])
                      /\ Known(req'[s].token) /\ Known(req'[s].body.token)
                      /\ req'[s].token.sub \in DOMAIN users =>
                           users[req'[s].token.sub].role \in req'[s].held
                      /\ req'[s].pc \in AtWork \cup {"comparing"} => req'[s] = req[s]
    <2>1. HeldInv' /\ TokensInv' /\ FormInv'
      OBVIOUS
    <2>2. WorkInv' /\ LoginInv'
      BY DEF AtWork
    <2> QED
      BY <2>1, <2>2, <1>1
  <1>2. CASE req'[s] = req[s]
    BY <1>2
  <1>3. CASE req'[s] = NoRequest
    BY <1>3 DEF NoRequest, IsRequest, NoToken, NoBody, AtWork, AccessAssumption
  <1>4. CASE \E tok, op, arg : Known(tok) /\ req'[s] = Sent(tok, op, arg)
    <2>1. PICK tok, op, arg : Known(tok) /\ req'[s] = Sent(tok, op, arg)
      BY <1>4
    <2> QED
      BY <2>1, SentForm DEF NoBody, NoToken, AtWork
  <1>5. CASE \E pc \in {"waiting", "lost"} : req'[s] = [req[s] EXCEPT !.pc = pc]
    <2>1. PICK pc \in {"waiting", "lost"} : req'[s] = [req[s] EXCEPT !.pc = pc]
      BY <1>5
    <2> QED
      BY <1>0, <2>1 DEF AtWork
  <1>6. CASE req'[s] = Answered(req[s], 401, NoBody)
    <2>1. /\ IsRequest(req'[s]) /\ req'[s].pc = "answered" /\ req'[s].body = NoBody
          /\ req'[s].token = req[s].token /\ req'[s].held = req[s].held
      BY <1>6, AnsweredForm
    <2> QED
      BY <2>1 DEF NoBody, NoToken, AtWork
  <1> QED
    BY <1>2, <1>3, <1>4, <1>5, <1>6 DEF TabTouches

-----------------------------------------------------------------------------
(* The API.                                                                *)

\* A step of one request that leaves the accounts alone, and keeps the notes.
LEMMA OneRequest ==
  ASSUME AccessInv, NEW s \in Slots, NEW new,
         req' = [req EXCEPT ![s] = new],
         IsRequest(new), new.token = req[s].token, new.held = req[s].held,
         Known(new.body.token), Working(new),
         new.pc = "comparing" => new.actor \in DOMAIN users,
         UNCHANGED <<users, use, token>>,
         DOMAIN notes \subseteq DOMAIN notes', \A n \in DOMAIN notes : notes'[n] = notes[n]
  PROVE  AccessInv'
  <1> USE DEF AccessInv, FormInv, TokensInv, HeldInv, WorkInv, LoginInv, Known
  <1>1. FormInv' /\ TokensInv' /\ HeldInv' /\ LoginInv'
    OBVIOUS
  <1>2. ASSUME NEW r, Working(r)
        PROVE  Working(r)'
    BY <1>2 DEF Working
  <1>3. WorkInv'
    BY <1>2
  <1>4. OneAccountPerEmail'
    BY DEF OneAccountPerEmail
  <1> QED
    BY <1>1, <1>3, <1>4

LEMMA RefuseKeeps ==
  ASSUME AccessAssumption, AccessInv, NEW s \in Slots, NEW status, Refuse(s, status),
         UNCHANGED <<users, notes, tabVars>>
  PROVE  AccessInv'
  <1> DEFINE new == Answered(req[s], status, NoBody)
  <1>1. IsRequest(req[s])
    BY DEF AccessInv, FormInv
  <1>2. /\ IsRequest(new) /\ new.pc = "answered" /\ new.body = NoBody
        /\ new.token = req[s].token /\ new.held = req[s].held
    BY <1>1, AnsweredForm
  <1>3. req' = [req EXCEPT ![s] = new]
    BY DEF Refuse
  <1>4. Known(new.body.token) /\ Working(new)
    BY <1>2 DEF Known, NoBody, NoToken, Working, AtWork
  <1> HIDE DEF new
  <1> QED
    BY <1>2, <1>3, <1>4, OneRequest DEF tabVars

LEMMA EffectKeeps ==
  ASSUME AccessAssumption, AccessInv, NEW s \in Slots, Effect(s), UNCHANGED <<users, tabVars>>,
         DOMAIN notes \subseteq DOMAIN notes', \A n \in DOMAIN notes : notes'[n] = notes[n]
  PROVE  AccessInv'
  <1> DEFINE new == Answered(req[s], 200, [NoBody EXCEPT !.version = version'])
  <1>1. IsRequest(req[s])
    BY DEF AccessInv, FormInv
  <1>2. /\ IsRequest(new) /\ new.pc = "answered"
        /\ new.body = [NoBody EXCEPT !.version = version']
        /\ new.token = req[s].token /\ new.held = req[s].held
    BY <1>1, AnsweredForm
  <1>3. req' = [req EXCEPT ![s] = new]
    BY DEF Effect
  <1>4. Known(new.body.token) /\ Working(new)
    BY <1>2 DEF Known, NoBody, NoToken, Working, AtWork
  <1> HIDE DEF new
  <1> QED
    BY <1>2, <1>3, <1>4, OneRequest DEF tabVars

LEMMA AdvanceKeeps ==
  ASSUME AccessInv, NEW s \in Slots, NEW pc \in AtWork, Advance(s, pc),
         Working([req[s] EXCEPT !.pc = pc]),
         UNCHANGED <<users, notes, tabVars>>
  PROVE  AccessInv'
  <1> DEFINE new == [req[s] EXCEPT !.pc = pc]
  <1>1. IsRequest(req[s]) /\ Known(req[s].body.token)
    BY DEF AccessInv, FormInv, TokensInv
  <1>2. /\ IsRequest(new) /\ new.body = req[s].body /\ new.pc # "comparing"
        /\ new.token = req[s].token /\ new.held = req[s].held
    BY <1>1, PcForm DEF AtWork
  <1>3. req' = [req EXCEPT ![s] = new]
    BY DEF Advance
  <1>4. Working(new)
    OBVIOUS
  <1> HIDE DEF new
  <1> QED
    BY <1>1, <1>2, <1>3, <1>4, OneRequest DEF tabVars

LEMMA GuardsKeep ==
  ASSUME AccessAssumption, AccessInv, NEW s \in Slots, Guards(s), UNCHANGED tabVars
  PROVE  AccessInv'
  <1> DEFINE r == req[s]
  <1>1. r.pc = "sent" /\ IsRequest(r) /\ UNCHANGED <<users, notes>>
    BY DEF Guards, AccessInv, FormInv
  <1>2. CASE r.op \in Public
    <2>1. Advance(s, "handling")
      BY <1>2 DEF Guards
    <2>2. Working([r EXCEPT !.pc = "handling"])
      BY <1>1, <1>2, PcForm DEF Working
    <2> QED
      BY <1>1, <2>1, <2>2, AdvanceKeeps DEF AtWork
  <1>3. CASE r.op \notin Public /\ ~ValidToken(r.token)
    BY <1>1, <1>3, RefuseKeeps DEF Guards
  <1>4. CASE r.op \notin Public /\ ValidToken(r.token)
    <2>1. PICK i \in FindByEmail(users[r.token.sub].email) :
            LET user_ == Validate(r.token, i)
            IN  IF i # r.token.sub
                THEN Refuse(s, 401)
                ELSE IF user_.role \notin Required(r.op)
                THEN Refuse(s, 403)
                ELSE IF r.op \in Reads
                THEN req' = [req EXCEPT ![s] = Answered(@, 200,
                       [NoBody EXCEPT !.version = version, !.of = r.arg, !.user = user_])]
                ELSE req' = [req EXCEPT ![s].pc = "handling", ![s].actor = user_.id,
                                        ![s].role = user_.role]
      BY <1>4 DEF Guards
    <2> DEFINE user_ == Validate(r.token, i)
    <2>2. CASE i # r.token.sub \/ user_.role \notin Required(r.op)
      BY <1>1, <2>1, <2>2, RefuseKeeps
    <2>3. CASE /\ i = r.token.sub /\ user_.role \in Required(r.op)
               /\ r.op \in Reads
      <3> DEFINE body == [NoBody EXCEPT !.version = version, !.of = r.arg, !.user = user_]
                 new == Answered(r, 200, body)
      <3>1. req' = [req EXCEPT ![s] = new]
        BY <2>1, <2>3
      <3>2. body.token = NoToken
        BY DEF NoBody
      <3> HIDE DEF body
      <3>3. /\ IsRequest(new) /\ new.pc = "answered" /\ new.body = body
            /\ new.token = r.token /\ new.held = r.held
        BY <1>1, AnsweredForm
      <3>4. Known(new.body.token) /\ Working(new)
        BY <3>2, <3>3 DEF Known, NoToken, Working, AtWork
      <3> HIDE DEF new
      <3> QED
        BY <1>1, <3>1, <3>3, <3>4, OneRequest DEF tabVars
    <2>4. CASE /\ i = r.token.sub /\ user_.role \in Required(r.op)
               /\ r.op \notin Reads
      <3> DEFINE new == [r EXCEPT !.pc = "handling", !.actor = user_.id, !.role = user_.role]
      <3>1. req' = [req EXCEPT ![s] = new]
        BY <2>1, <2>4
      <3>2. user_.id = r.token.sub /\ user_.role = users[r.token.sub].role
        BY <2>4 DEF Validate
      <3>3. user_.role \in r.held
        BY <1>4, <3>2 DEF AccessInv, HeldInv, ValidToken
      <3> HIDE DEF user_
      <3>4. /\ IsRequest(new) /\ new.pc = "handling" /\ new.body = r.body /\ new.op = r.op
            /\ new.token = r.token /\ new.held = r.held /\ new.arg = r.arg
            /\ new.actor = user_.id /\ new.role = user_.role
        BY <1>1 DEF IsRequest
      <3>5. Working(new)
        BY <2>4, <3>2, <3>3, <3>4 DEF Working
      <3>6. Known(new.body.token)
        BY <3>4 DEF AccessInv, TokensInv
      <3> HIDE DEF new
      <3> QED
        BY <1>1, <3>1, <3>4, <3>5, <3>6, OneRequest DEF tabVars
    <2> QED
      BY <2>2, <2>3, <2>4
  <1> QED
    BY <1>2, <1>3, <1>4

LEMMA LoginKeeps ==
  ASSUME AccessAssumption, AccessInv, NEW s \in Slots, FindAccount(s) \/ VerifyPassword(s),
         UNCHANGED tabVars
  PROVE  AccessInv'
  <1> DEFINE r == req[s]
  <1>1. IsRequest(r) /\ Known(r.body.token)
    BY DEF AccessInv, FormInv, TokensInv
  <1>2. CASE FindAccount(s) /\ ~Refuse(s, 401)
    <2>1. PICK i \in DOMAIN users :
            req' = [req EXCEPT ![s].pc = "comparing", ![s].actor = i, ![s].role = users[i].role]
      BY <1>2 DEF FindAccount, FindByEmail
    <2> DEFINE new == [r EXCEPT !.pc = "comparing", !.actor = i, !.role = users[i].role]
    <2>2. /\ IsRequest(new) /\ new.pc = "comparing" /\ new.body = r.body /\ new.actor = i
          /\ new.token = r.token /\ new.held = r.held
      BY <1>1 DEF IsRequest
    <2>3. req' = [req EXCEPT ![s] = new] /\ Working(new)
      BY <2>1, <2>2 DEF Working, AtWork
    <2> HIDE DEF new
    <2> QED
      BY <1>1, <1>2, <2>2, <2>3, OneRequest DEF FindAccount, tabVars
  <1>3. CASE VerifyPassword(s) /\ ~Refuse(s, 401)
    <2> DEFINE body == LoginResponse(r)
               new == Answered(r, 200, body)
    <2>1. req' = [req EXCEPT ![s] = new]
      BY <1>3 DEF VerifyPassword
    <2>2. body.token.sub = r.actor
      BY DEF LoginResponse, NoBody
    <2> HIDE DEF body
    <2>3. /\ IsRequest(new) /\ new.pc = "answered" /\ new.body = body
          /\ new.token = r.token /\ new.held = r.held
      BY <1>1, AnsweredForm
    <2>4. Working(new)
      BY <2>3 DEF Working, AtWork
    <2>5. Known(new.body.token)
      BY <1>3, <2>2, <2>3 DEF VerifyPassword, AccessInv, LoginInv, Known
    <2> HIDE DEF new
    <2> QED
      BY <1>1, <1>3, <2>1, <2>3, <2>4, <2>5, OneRequest DEF VerifyPassword, tabVars
  <1>4. CASE Refuse(s, 401)
    BY <1>4, RefuseKeeps DEF FindAccount, VerifyPassword
  <1> QED
    BY <1>2, <1>3, <1>4

LEMMA CreateUserKeeps ==
  ASSUME AccessAssumption, AccessInv, NEW s \in Slots, LookUpEmail(s) \/ InsertUser(s),
         UNCHANGED tabVars
  PROVE  AccessInv'
  <1> DEFINE r == req[s]
  <1>1. IsRequest(r) /\ Working(r)
    BY DEF AccessInv, FormInv, WorkInv
  <1>2. CASE LookUpEmail(s) /\ Advance(s, "hashing")
    <2>1. Working([r EXCEPT !.pc = "hashing"])
      BY <1>1, <1>2, PcForm DEF LookUpEmail, Handling, Working, AtWork
    <2> QED
      BY <1>2, <2>1, AdvanceKeeps DEF LookUpEmail, AtWork
  <1>3. CASE LookUpEmail(s) /\ Refuse(s, 409)
    BY <1>3, RefuseKeeps DEF LookUpEmail
  <1>4. CASE InsertUser(s) /\ Refuse(s, 500) /\ UNCHANGED users
    BY <1>4, RefuseKeeps DEF InsertUser
  <1>5. CASE InsertUser(s) /\ EmailIndexAllows(r.arg) /\ Effect(s)
    <2>1. PICK i \in UserIds \ DOMAIN users :
            users' = [k \in DOMAIN users \cup {i} |->
                        IF k = i THEN [email |-> r.arg, role |-> "VIEWER"] ELSE users[k]]
      BY <1>5 DEF InsertUser
    <2>2. \A k \in DOMAIN users : users'[k] = users[k]
      BY <2>1
    <2>3. users'[i] = [email |-> r.arg, role |-> "VIEWER"] /\ DOMAIN users' = DOMAIN users \cup {i}
      BY <2>1
    <2>4. OneAccountPerEmail'
      <3>1. \A k \in DOMAIN users : users[k].email # r.arg
        BY <1>5 DEF EmailIndexAllows, FindByEmail
      <3> QED
        BY <2>2, <2>3, <3>1 DEF OneAccountPerEmail, AccessInv
    \* The new id is no token's.
    <2>5. \A tok : Known(tok) => Known(tok)' /\ tok.sub # i
      BY <2>3 DEF Known, AccessAssumption
    <2> DEFINE new == Answered(r, 200, [NoBody EXCEPT !.version = version'])
    <2>6. req' = [req EXCEPT ![s] = new]
      BY <1>5 DEF Effect
    <2>7. /\ IsRequest(new) /\ new.pc = "answered" /\ new.token = r.token /\ new.held = r.held
          /\ new.body = [NoBody EXCEPT !.version = version']
      BY <1>1, AnsweredForm
    <2>8. Known(new.body.token)
      BY <2>7 DEF Known, NoBody, NoToken
    <2>9. UNCHANGED <<notes, use, token>>
      BY <1>5 DEF InsertUser, tabVars
    <2> HIDE DEF new
    <2>10. FormInv'
      BY <2>2, <2>3, <2>6, <2>7, <2>9 DEF AccessInv, FormInv, IsAccount
    <2>11. TokensInv'
      BY <2>5, <2>6, <2>7, <2>8, <2>9 DEF AccessInv, FormInv, TokensInv
    <2>12. HeldInv'
      BY <2>2, <2>3, <2>5, <2>6, <2>7 DEF AccessInv, FormInv, TokensInv, HeldInv
    <2>13. WorkInv'
      BY <2>6, <2>7, <2>9 DEF AccessInv, FormInv, WorkInv, Working, AtWork
    <2>14. LoginInv'
      BY <2>3, <2>6, <2>7 DEF AccessInv, FormInv, LoginInv
    <2> QED
      BY <2>4, <2>10, <2>11, <2>12, <2>13, <2>14 DEF AccessInv
  <1> QED
    BY <1>2, <1>3, <1>4, <1>5 DEF LookUpEmail, InsertUser

LEMMA UpdateRoleKeeps ==
  ASSUME AccessAssumption, AccessInv, NEW s \in Slots, FindUser(s) \/ SaveRole(s),
         UNCHANGED tabVars
  PROVE  AccessInv'
  <1> DEFINE r == req[s]
  <1>1. IsRequest(r) /\ Working(r)
    BY DEF AccessInv, FormInv, WorkInv
  <1>2. CASE FindUser(s) /\ Advance(s, "saving")
    <2>1. Working([r EXCEPT !.pc = "saving"])
      BY <1>1, <1>2, PcForm DEF FindUser, Handling, Working, AtWork
    <2> QED
      BY <1>2, <2>1, AdvanceKeeps DEF FindUser, AtWork
  <1>3. CASE FindUser(s) /\ Refuse(s, 404)
    BY <1>3, RefuseKeeps DEF FindUser
  <1>4. CASE SaveRole(s)
    <2> DEFINE id == r.arg.id
               role == r.arg.role
               done(k) == IF k = s THEN Answered(req[k], 200, [NoBody EXCEPT !.version = version'])
                                   ELSE req[k]
    <2>1. users' = [users EXCEPT ![id].role = role] /\ UNCHANGED <<notes, use, token>>
      BY <1>4 DEF SaveRole, tabVars
    <2>2. req' = [k \in Slots |-> IF done(k).token.sub = id
                                  THEN [done(k) EXCEPT !.held = @ \cup {role}] ELSE done(k)]
      BY <1>4 DEF SaveRole
    <2>3. /\ DOMAIN users' = DOMAIN users
          /\ \A i \in DOMAIN users : /\ IsAccount(users'[i])
                                     /\ users'[i].email = users[i].email
                                     /\ users'[i].role = IF i = id THEN role ELSE users[i].role
      BY <2>1 DEF AccessInv, FormInv, IsAccount
    <2>4. ASSUME NEW k \in Slots
          PROVE  LET d == done(k)
                 IN  /\ IsRequest(d) /\ d.token = req[k].token /\ d.held = req[k].held
                     /\ d.pc # "answered" => d = req[k]
                     /\ Known(d.body.token)
      <3>1. IsRequest(req[k]) /\ Known(req[k].body.token)
        BY DEF AccessInv, FormInv, TokensInv
      <3>2. CASE k # s
        BY <3>1, <3>2
      <3>3. CASE k = s
        <4> DEFINE body == [NoBody EXCEPT !.version = version']
        <4>1. Known(body.token)
          BY DEF Known, NoBody, NoToken
        <4>2. done(k) = Answered(req[k], 200, body)
          BY <3>3
        <4> HIDE DEF done, body
        <4> QED
          BY <3>1, <4>1, <4>2, AnsweredForm
      <3> QED
        BY <3>2, <3>3
    <2> HIDE DEF done
    <2>5. ASSUME NEW k \in Slots
          PROVE  LET d == done(k)
                     n == req'[k]
                 IN  /\ IsRequest(n) /\ n.token = req[k].token /\ n.body = d.body
                     /\ n.pc = d.pc /\ n.op = d.op /\ n.arg = d.arg /\ n.actor = d.actor
                     /\ n.role = d.role
                     /\ n.held = req[k].held \cup (IF n.token.sub = id THEN {role} ELSE {})
      BY <2>2, <2>4 DEF IsRequest
    <2>6. FormInv'
      BY <2>1, <2>2, <2>3, <2>5 DEF AccessInv, FormInv
    <2>7. TokensInv'
      BY <2>1, <2>3, <2>4, <2>5 DEF AccessInv, TokensInv, Known
    <2>8. HeldInv'
      BY <2>3, <2>5 DEF AccessInv, HeldInv
    <2>9. WorkInv'
      BY <2>1, <2>4, <2>5 DEF AccessInv, WorkInv, Working, AtWork
    <2>10. LoginInv'
      BY <2>3, <2>4, <2>5 DEF AccessInv, LoginInv
    <2>11. OneAccountPerEmail'
      BY <2>3 DEF AccessInv, OneAccountPerEmail
    <2> QED
      BY <2>6, <2>7, <2>8, <2>9, <2>10, <2>11 DEF AccessInv
  <1> QED
    BY <1>2, <1>3, <1>4 DEF FindUser

LEMMA NotesKeep ==
  ASSUME AccessAssumption, AccessInv, NEW s \in Slots, AddNote(s) \/ FindNote(s) \/ SaveNote(s),
         UNCHANGED tabVars
  PROVE  AccessInv'
  <1> DEFINE r == req[s]
  <1>1. IsRequest(r) /\ Working(r)
    BY DEF AccessInv, FormInv, WorkInv
  <1>2. CASE AddNote(s)
    BY <1>2, EffectKeeps DEF AddNote
  <1>3. CASE FindNote(s) /\ ~Refuse(s, 404) /\ ~Refuse(s, 403)
    <2>1. /\ Advance(s, "saving")
          /\ r.arg \in DOMAIN notes /\ MayEdit(notes[r.arg], r.actor, r.role)
      BY <1>3 DEF FindNote
    <2>2. Working([r EXCEPT !.pc = "saving"])
      BY <1>1, <1>3, <2>1, PcForm DEF FindNote, Handling, Working, AtWork
    <2> QED
      BY <1>3, <2>1, <2>2, AdvanceKeeps DEF FindNote, AtWork
  <1>4. CASE FindNote(s) /\ (Refuse(s, 404) \/ Refuse(s, 403))
    BY <1>4, RefuseKeeps DEF FindNote
  <1>5. CASE SaveNote(s)
    BY <1>5, EffectKeeps DEF SaveNote
  <1> QED
    BY <1>2, <1>3, <1>4, <1>5 DEF FindNote

LEMMA ServeKeeps ==
  ASSUME AccessAssumption, AccessInv, NEW s \in Slots, Serve(s), UNCHANGED tabVars
  PROVE  AccessInv'
  <1>1. CASE Act(s)
    BY <1>1, EffectKeeps DEF Act
  <1>2. CASE Reject(s)
    BY <1>2, RefuseKeeps DEF Reject
  <1> QED
    BY <1>1, <1>2, GuardsKeep, LoginKeeps, CreateUserKeeps, UpdateRoleKeeps, NotesKeep DEF Serve

-----------------------------------------------------------------------------
(* What a step of the tab does to a key.                                   *)

IsEntry(e) ==
  /\ DOMAIN e = {"loaded", "version", "of", "old", "error", "tries"}
  /\ e.loaded \in BOOLEAN /\ e.error \in BOOLEAN

CacheInv ==
  /\ DOMAIN cache = Keys /\ \A k \in Keys : IsEntry(cache[k])
  /\ DOMAIN floor = Keys
  /\ picked \in Choices
  /\ use.follow \subseteq Followed

KeyArg(k) == IF k.name \in ByChoice THEN k.choice ELSE NoOne

FetchStarts(k) ==
  k.name \in Queries /\ \E tok : Known(tok) /\ req'[k] = Sent(tok, Endpoint(k.name), KeyArg(k))

SameData(k) ==
  /\ IsEntry(cache'[k])
  /\ cache'[k].loaded = cache[k].loaded
  /\ cache'[k].version = cache[k].version
  /\ cache'[k].of = cache[k].of

\* Nothing of what is shown changes; a fetch goes on, is lost, or is retried.
Kept(k) ==
  /\ SameData(k) /\ cache'[k].error = cache[k].error /\ floor'[k] = floor[k]
  /\ \/ req'[k] = req[k]
     \/ /\ req[k].pc # "none"
        /\ \/ \E pc \in {"waiting", "lost"} : req'[k] = [req[k] EXCEPT !.pc = pc]
           \/ \E tok : Known(tok) /\ req'[k] = Sent(tok, req[k].op, req[k].arg)
           \/ req'[k] = Answered(req[k], 401, NoBody)

Reasked(k) ==
  /\ FetchStarts(k) /\ SameData(k)
  /\ floor'[k] = floor[k] \/ floor'[k] \in {req[s].body.version : s \in Slots}

Restarted(k) ==
  /\ cache'[k] = NoEntry /\ floor'[k] = 0
  /\ req'[k] = NoRequest \/ FetchStarts(k)

Stored(k) ==
  /\ Accepted(k) /\ req'[k] = NoRequest /\ floor'[k] = floor[k]
  /\ cache'[k] = [NoEntry EXCEPT !.loaded = TRUE, !.version = req[k].body.version,
                                 !.of = req[k].body.of]

Failed(k) ==
  req'[k] = NoRequest /\ floor'[k] = floor[k] /\ SameData(k) /\ cache'[k].error

KeyStep(k) == Kept(k) \/ Reasked(k) \/ Restarted(k) \/ Stored(k) \/ Failed(k)

TabShape ==
  /\ UNCHANGED apiVars
  /\ DOMAIN req' = Slots /\ \A s \in Slots \ Keys : TabTouches(s)
  /\ \A k \in Keys : KeyStep(k)
  /\ DOMAIN cache' = Keys /\ DOMAIN floor' = Keys
  /\ picked' \in Choices
  /\ Known(token')
  /\ use' \in WayToUse /\ use'.follow = use.follow

\* What the assumptions say of the keys.
KeysApart ==
  /\ Keys \subseteq Slots /\ {MeSlot, LoginSlot, ActionSlot} \subseteq Slots
  /\ MeSlot \notin Keys /\ LoginSlot \notin Keys /\ ActionSlot \notin Keys
  /\ OtherSlots \subseteq Slots /\ OtherSlots \cap Keys = {}
  /\ Followed \subseteq Queries /\ DefaultChoice \in Choices

LEMMA KeysAreApart ==
  ASSUME WebClientAssumption
  PROVE  KeysApart
  <1>1. Followed \subseteq Queries
    BY DEF WebClientAssumption, Followed, WayToUse
  <1>2. \A n \in Queries : n \notin {"me", "login", "action"}
    BY DEF Queries, PageQueries, ShellPages, DashboardPage, DashboardReads, TargetsPage,
           TargetDetailPage, IncidentsPage, IncidentDetailPage, AdminUsersPage
  <1>3. \A k \in Keys : k.name \in Followed
    BY DEF Keys, Key
  <1>4. \A k \in Keys : k.name \notin {"me", "login", "action"}
    BY <1>1, <1>2, <1>3
  <1>5. MeSlot.name = "me" /\ LoginSlot.name = "login" /\ ActionSlot.name = "action"
    BY DEF MeSlot, LoginSlot, ActionSlot
  <1>6. MeSlot \notin Keys /\ LoginSlot \notin Keys /\ ActionSlot \notin Keys
    BY <1>4, <1>5
  <1> QED
    BY <1>1, <1>6 DEF WebClientAssumption, TabSlots, KeysApart

\* The keys a page mounts.
LEMMA ActiveForms ==
  ASSUME KeysApart, use.follow \subseteq Followed, NEW page, NEW who, NEW choice \in Choices,
         NEW k \in Active(page, choice, who)
  PROVE  k \in Keys /\ k.name \in Queries /\ (k.name \in ByChoice => k.choice = choice)
  <1>1. PICK name \in PageQueries(page) \cap use.follow : k = Key(name, choice)
    BY DEF Active
  <1>2. k.name = name /\ (name \in ByChoice => k.choice = choice)
    BY <1>1 DEF Key
  <1>3. k \in Keys
    BY <1>1 DEF Keys
  <1>4. name \in Queries
    BY DEF KeysApart
  <1> QED
    BY <1>2, <1>3, <1>4

\* What asking for them sends.
LEMMA AskingForms ==
  ASSUME KeysApart, NEW choice, NEW tok, NEW r, NEW fetch \in SUBSET Keys,
         \A k \in fetch : k.name \in ByChoice => k.choice = choice
  PROVE  LET a == Asking(r, fetch, tok, choice)
         IN  /\ DOMAIN a = Slots
             /\ \A s \in Slots : s \notin fetch => a[s] = r[s]
             /\ \A s \in fetch : a[s] = Sent(tok, Endpoint(s.name), KeyArg(s))
  BY DEF Asking, KeyArg, KeysApart

LEMMA AskedForms ==
  ASSUME NEW c, DOMAIN c = Keys, \A k \in Keys : IsEntry(c[k]), NEW fetch
  PROVE  LET a == Asked(c, fetch)
         IN  /\ DOMAIN a = Keys
             /\ \A k \in Keys : k \notin fetch => a[k] = c[k]
             /\ \A k \in Keys :
                  /\ IsEntry(a[k]) /\ a[k].loaded = c[k].loaded
                  /\ a[k].version = c[k].version /\ a[k].of = c[k].of
  BY DEF Asked, IsEntry

LEMMA ShowForms ==
  ASSUME KeysApart, CacheInv, NEW page, NEW choice \in Choices, NEW who, NEW tok,
         Known(tok), NEW r, \A k \in Keys : r[k] = req[k],
         Show(page, choice, who, tok, r), UNCHANGED floor
  PROVE  /\ DOMAIN req' = Slots /\ \A s \in Slots \ Keys : req'[s] = r[s]
         /\ \A k \in Keys : KeyStep(k)
         /\ DOMAIN cache' = Keys /\ DOMAIN floor' = Keys
         /\ picked' \in Choices /\ Known(token')
  <1>1. PICK fetch \in SUBSET Active(page, choice, who) :
          /\ req' = Asking(r, fetch, tok, choice)
          /\ cache' = Asked(cache, fetch)
    BY DEF Show
  <1>2. picked' = choice /\ token' = tok
    BY DEF Show
  <1>3. \A k \in fetch : /\ k \in Keys /\ k.name \in Queries
                         /\ k.name \in ByChoice => k.choice = choice
    BY <1>1, ActiveForms DEF CacheInv
  <1>4. /\ DOMAIN req' = Slots
        /\ \A s \in Slots : s \notin fetch => req'[s] = r[s]
        /\ \A s \in fetch : req'[s] = Sent(tok, Endpoint(s.name), KeyArg(s))
    BY <1>1, <1>3, AskingForms
  <1>5. /\ DOMAIN cache' = Keys
        /\ \A k \in Keys : SameData(k) /\ (k \notin fetch => cache'[k] = cache[k])
    BY <1>1, AskedForms DEF CacheInv, SameData
  <1>6. \A k \in Keys : KeyStep(k)
    BY <1>3, <1>4, <1>5 DEF KeyStep, Kept, Reasked, FetchStarts, KeysApart
  <1> QED
    BY <1>2, <1>3, <1>4, <1>6, <1>5 DEF CacheInv, Known

\* A step about one request that is no query's.
LEMMA OtherSlotForms ==
  ASSUME KeysApart, AccessInv, CacheInv, NEW s \in Slots \ Keys, NEW new,
         req' = [req EXCEPT ![s] = new],
         \/ new = NoRequest
         \/ \E tok, op, arg : Known(tok) /\ new = Sent(tok, op, arg)
         \/ \E pc \in {"waiting", "lost"} : new = [req[s] EXCEPT !.pc = pc],
         UNCHANGED <<apiVars, picked, cache, floor>>, Known(token'),
         use' \in WayToUse, use'.follow = use.follow
  PROVE  TabShape
  <1>1. DOMAIN req = Slots
    BY DEF AccessInv, FormInv
  <1>2. DOMAIN req' = Slots /\ \A z \in Slots : req'[z] = IF z = s THEN new ELSE req[z]
    BY <1>1
  <1>3. \A z \in Slots \ Keys : TabTouches(z)
    BY <1>2 DEF TabTouches
  <1>4. \A k \in Keys : KeyStep(k)
    BY <1>2 DEF KeyStep, Kept, SameData, CacheInv, KeysApart
  <1> QED
    BY <1>2, <1>3, <1>4 DEF TabShape, CacheInv

LEMMA MoveForms ==
  ASSUME AccessInv, Move
  PROVE  use' \in WayToUse /\ use'.follow = use.follow
  BY DEF AccessInv, FormInv, Move, WayToUse

\* The same for a step that shows a page, with the answer of one slot taken.
LEMMA ShowsForms ==
  ASSUME KeysApart, AccessInv, CacheInv, NEW page, NEW choice \in Choices, NEW who, NEW tok,
         Known(tok), NEW s \in Slots \ Keys, NEW r, r = req \/ r = Received(s),
         Show(page, choice, who, tok, r),
         UNCHANGED <<apiVars, floor>>, use' \in WayToUse, use'.follow = use.follow
  PROVE  TabShape
  <1>1. DOMAIN req = Slots
    BY DEF AccessInv, FormInv
  <1>2. \A z \in Slots : r[z] = req[z] \/ (z = s /\ r[z] = NoRequest)
    BY <1>1 DEF Received
  <1>3. \A k \in Keys : r[k] = req[k]
    BY <1>2 DEF KeysApart
  <1>4. /\ DOMAIN req' = Slots /\ \A z \in Slots \ Keys : req'[z] = r[z]
        /\ \A k \in Keys : KeyStep(k)
        /\ DOMAIN cache' = Keys /\ DOMAIN floor' = Keys
        /\ picked' \in Choices /\ Known(token')
    <2>1. UNCHANGED floor
      OBVIOUS
    <2> QED
      BY <1>3, <2>1, ShowForms
  <1>5. \A z \in Slots \ Keys : TabTouches(z)
    BY <1>2, <1>4 DEF TabTouches
  <1> QED
    BY <1>4, <1>5 DEF TabShape

LEMMA QueriesTakeShape ==
  ASSUME KeysApart, AccessInv, CacheInv, NEW k \in Keys, Poll(k) \/ AnswerQuery(k) \/ Retry(k)
  PROVE  TabShape
  <1>1. DOMAIN req = Slots /\ k \in Slots
    BY DEF AccessInv, FormInv, KeysApart
  <1>2. /\ Known(token) /\ use \in WayToUse /\ IsEntry(cache[k])
        /\ DOMAIN cache = Keys /\ DOMAIN floor = Keys /\ picked \in Choices
    BY DEF AccessInv, TokensInv, FormInv, CacheInv
  <1>3. CASE Poll(k)
    <2>1. /\ req' = Asking(req, {k}, token, picked) /\ cache' = Asked(cache, {k})
          /\ UNCHANGED <<apiVars, use, token, picked, floor>> /\ k \in Active(path, picked, user)
      BY <1>3 DEF Poll, Shown
    <2>2. k.name \in Queries /\ (k.name \in ByChoice => k.choice = picked)
      BY <1>2, <2>1, ActiveForms DEF CacheInv
    <2>3. /\ DOMAIN req' = Slots
          /\ \A z \in Slots : z # k => req'[z] = req[z]
          /\ req'[k] = Sent(token, Endpoint(k.name), KeyArg(k))
      BY <2>1, <2>2, AskingForms
    <2>4. /\ DOMAIN cache' = Keys
          /\ \A z \in Keys : SameData(z) /\ (z # k => cache'[z] = cache[z])
      BY <2>1, AskedForms DEF CacheInv, SameData
    <2>5. \A z \in Keys : KeyStep(z)
      BY <1>2, <2>1, <2>2, <2>3, <2>4 DEF KeyStep, Kept, Reasked, FetchStarts, KeysApart
    <2> QED
      BY <1>2, <2>1, <2>3, <2>4, <2>5 DEF TabShape, TabTouches, Known
  <1>4. CASE AnswerQuery(k)
    <2>1. UNCHANGED <<apiVars, use, picked, floor>>
      BY <1>4 DEF AnswerQuery
    <2>2. Known(token')
      BY <1>2, <1>4 DEF AnswerQuery, Known, NoToken
    <2>3. /\ DOMAIN req' = Slots /\ \A z \in Slots : z # k => req'[z] = req[z]
          /\ DOMAIN cache' = Keys /\ \A z \in Keys : z # k => cache'[z] = cache[z]
      BY <1>1, <1>2, <1>4 DEF AnswerQuery, Received
    <2>4. KeyStep(k)
      <3>1. CASE Accepted(k)
        BY <1>1, <1>2, <1>4, <2>1, <3>1 DEF AnswerQuery, Received, KeyStep, Stored
      <3>2. CASE ~Accepted(k) /\ cache[k].tries = 0
        <4>1. req[k].pc # "none" /\ req'[k] = [req[k] EXCEPT !.pc = "waiting"]
          BY <1>1, <1>4, <3>2 DEF AnswerQuery, Settled
        <4>2. SameData(k) /\ cache'[k].error = cache[k].error
          BY <1>2, <1>4, <3>2 DEF AnswerQuery, SameData, IsEntry
        <4> QED
          BY <2>1, <4>1, <4>2 DEF KeyStep, Kept
      <3>3. CASE ~Accepted(k) /\ cache[k].tries # 0
        <4>1. SameData(k) /\ cache'[k].error
          BY <1>2, <1>4, <3>3 DEF AnswerQuery, SameData, IsEntry
        <4> QED
          BY <1>1, <1>4, <2>1, <3>3, <4>1 DEF AnswerQuery, Received, KeyStep, Failed
      <3> QED
        BY <3>1, <3>2, <3>3
    <2>5. \A z \in Keys : KeyStep(z)
      BY <2>1, <2>3, <2>4 DEF KeyStep, Kept, SameData, CacheInv, KeysApart
    <2> QED
      BY <1>2, <2>1, <2>2, <2>3, <2>5 DEF TabShape, TabTouches
  <1>5. CASE Retry(k)
    <2>1. /\ req[k].pc = "waiting" /\ req' = [req EXCEPT ![k] = Sent(token, @.op, @.arg)]
          /\ UNCHANGED <<apiVars, use, token, picked, cache, floor>>
      BY <1>5 DEF Retry, tabVars
    <2>2. DOMAIN req' = Slots /\ \A z \in Slots : z # k => req'[z] = req[z]
      BY <1>1, <2>1
    <2>3. req'[k] = Sent(token, req[k].op, req[k].arg)
      BY <1>1, <2>1
    <2>4. \A z \in Keys : KeyStep(z)
      BY <1>2, <2>1, <2>2, <2>3 DEF KeyStep, Kept, SameData, CacheInv, KeysApart
    <2> QED
      BY <1>2, <2>1, <2>2, <2>4 DEF TabShape, TabTouches
  <1> QED
    BY <1>3, <1>4, <1>5

LEMMA MountTakesShape ==
  ASSUME KeysApart, AccessInv, CacheInv, NEW page, Mounted(page),
         use' \in WayToUse, use'.follow = use.follow
  PROVE  TabShape
  <1> DEFINE keys == Active(page, DefaultChoice, NoUser)
             none == [s \in Slots |-> IF s \in TabSlots THEN NoRequest ELSE req[s]]
             asking == Asking(none, keys, token, DefaultChoice)
  <1>1. /\ Known(token) /\ DOMAIN req = Slots /\ use.follow \subseteq Followed
        /\ DefaultChoice \in Choices
    BY DEF AccessInv, TokensInv, FormInv, CacheInv, KeysApart
  <1>2. \A k \in keys : /\ k \in Keys /\ k.name \in Queries
                        /\ k.name \in ByChoice => k.choice = DefaultChoice
    BY <1>1, ActiveForms
  <1>3. \A s \in Slots : none[s] = NoRequest \/ (s \notin Keys /\ none[s] = req[s])
    BY DEF TabSlots
  <1>4. /\ cache' = [k \in Keys |-> NoEntry] /\ floor' = [k \in Keys |-> 0]
        /\ picked' = DefaultChoice /\ UNCHANGED <<apiVars, token>>
        /\ req' = asking \/ req' = [asking EXCEPT ![MeSlot] = Sent(token, "me", NoOne)]
    BY DEF Mounted
  <1> HIDE DEF keys, none
  <1>5. /\ DOMAIN asking = Slots
        /\ \A s \in Slots : s \notin keys => asking[s] = none[s]
        /\ \A s \in keys : asking[s] = Sent(token, Endpoint(s.name), KeyArg(s))
    BY <1>2, AskingForms
  <1> HIDE DEF asking
  <1>6. /\ DOMAIN req' = Slots
        /\ \A s \in Slots : s # MeSlot => req'[s] = asking[s]
        /\ req'[MeSlot] \in {asking[MeSlot], Sent(token, "me", NoOne)}
    BY <1>4, <1>5 DEF KeysApart
  <1>7. \A s \in Slots \ Keys : TabTouches(s)
    BY <1>1, <1>2, <1>3, <1>5, <1>6 DEF TabTouches
  <1>8. ASSUME NEW k \in Keys
        PROVE  Restarted(k)
    BY <1>1, <1>2, <1>3, <1>4, <1>5, <1>6 DEF Restarted, FetchStarts, KeysApart
  <1> QED
    BY <1>1, <1>4, <1>6, <1>7, <1>8 DEF TabShape, KeyStep, Known

LEMMA SessionTakesShape ==
  ASSUME KeysApart, AccessInv, CacheInv,
         MeAnswered \/ Redirect \/ Submit \/ LoginAnswered \/ Logout \/ Navigate \/ Pick
  PROVE  TabShape
  <1>1. /\ use \in WayToUse /\ picked \in Choices /\ DefaultChoice \in Choices /\ Known(token)
        /\ MeSlot \in Slots \ Keys /\ LoginSlot \in Slots \ Keys
        /\ Known(req[LoginSlot].body.token) /\ Known(NoToken)
    BY DEF AccessInv, FormInv, TokensInv, CacheInv, KeysApart, Known, NoToken
  <1>2. CASE MeAnswered
    <2>1. /\ UNCHANGED <<apiVars, floor>> /\ use' \in WayToUse /\ use'.follow = use.follow
      BY <1>1, <1>2 DEF MeAnswered
    <2>2. \/ Show(path, picked, req[MeSlot].body.user, token, Received(MeSlot))
          \/ Show(path, picked, NoUser, NoToken, Received(MeSlot))
      BY <1>2 DEF MeAnswered
    <2> QED
      BY <1>1, <2>1, <2>2, ShowsForms
  <1>3. CASE Redirect
    <2>1. /\ UNCHANGED <<apiVars, floor>> /\ use' \in WayToUse /\ use'.follow = use.follow
      BY <1>1, <1>3 DEF Redirect
    <2>2. \/ Show("/login", DefaultChoice, user, token, req)
          \/ Show("/dashboard", DefaultChoice, user, token, req)
      BY <1>3 DEF Redirect
    <2> QED
      BY <1>1, <2>1, <2>2, ShowsForms
  <1>4. CASE Submit
    <2>1. PICK arg : req' = [req EXCEPT ![LoginSlot] = Sent(token, "login", arg)]
      BY <1>4 DEF Submit
    <2>2. /\ UNCHANGED <<apiVars, picked, cache, floor>> /\ Known(token')
          /\ use' \in WayToUse /\ use'.follow = use.follow
      BY <1>1, <1>4, MoveForms DEF Submit
    <2> QED
      BY <1>1, <2>1, <2>2, OtherSlotForms
  <1>5. CASE LoginAnswered
    <2>1. /\ UNCHANGED <<apiVars, floor>> /\ use' \in WayToUse /\ use'.follow = use.follow
      BY <1>1, <1>5 DEF LoginAnswered
    <2>2. CASE Accepted(LoginSlot)
      <3> DEFINE body == req[LoginSlot].body
      <3>1. Show("/dashboard", DefaultChoice, body.user, body.token, Received(LoginSlot))
        BY <1>5, <2>2 DEF LoginAnswered
      <3> QED
        BY <1>1, <2>1, <3>1, ShowsForms
    <2>3. CASE ~Accepted(LoginSlot)
      <3>1. /\ req' = [req EXCEPT ![LoginSlot] = NoRequest]
            /\ UNCHANGED <<picked, cache>> /\ token' \in {token, NoToken}
        BY <1>5, <2>3 DEF LoginAnswered, Received
      <3>2. Known(token')
        BY <1>1, <3>1 DEF Known
      <3> QED
        BY <1>1, <2>1, <3>1, <3>2, OtherSlotForms
    <2> QED
      BY <2>2, <2>3
  <1>6. CASE Logout
    <2>1. /\ UNCHANGED <<apiVars, floor>> /\ use' \in WayToUse /\ use'.follow = use.follow
      BY <1>6, MoveForms DEF Logout
    <2>2. Show("/login", DefaultChoice, NoUser, NoToken, req)
      BY <1>6 DEF Logout
    <2> QED
      BY <1>1, <2>1, <2>2, ShowsForms
  <1>7. CASE Navigate
    <2>1. /\ UNCHANGED <<apiVars, floor>> /\ use' \in WayToUse /\ use'.follow = use.follow
      BY <1>7, MoveForms DEF Navigate
    <2>2. PICK page : Show(page, DefaultChoice, user, token, req)
      BY <1>7 DEF Navigate
    <2> QED
      BY <1>1, <2>1, <2>2, ShowsForms
  <1>8. CASE Pick
    <2>1. /\ UNCHANGED <<apiVars, floor>> /\ use' \in WayToUse /\ use'.follow = use.follow
      BY <1>8, MoveForms DEF Pick
    <2>2. PICK choice \in Choices : Show(path, choice, user, token, req)
      BY <1>8 DEF Pick
    <2> QED
      BY <1>1, <2>1, <2>2, ShowsForms
  <1> QED
    BY <1>2, <1>3, <1>4, <1>5, <1>6, <1>7, <1>8

LEMMA ClickTakesShape ==
  ASSUME KeysApart, AccessInv, CacheInv, Click \/ ClickAnswered
  PROVE  TabShape
  <1>1. /\ use \in WayToUse /\ picked \in Choices /\ DefaultChoice \in Choices /\ Known(token)
        /\ Known(NoToken) /\ ActionSlot \in Slots \ Keys /\ DOMAIN req = Slots
    BY DEF AccessInv, FormInv, TokensInv, CacheInv, KeysApart, Known, NoToken
  <1>2. CASE Click
    <2>1. PICK op, arg : req' = [req EXCEPT ![ActionSlot] = Sent(token, op, arg)]
      BY <1>2 DEF Click
    <2>2. /\ UNCHANGED <<apiVars, picked, cache, floor>> /\ Known(token')
          /\ use' \in WayToUse /\ use'.follow = use.follow
      BY <1>1, <1>2, MoveForms DEF Click
    <2> QED
      BY <1>1, <2>1, <2>2, OtherSlotForms
  <1>3. CASE ClickAnswered
    <2> DEFINE r == req[ActionSlot]
               named == {k \in Keys : k.name \in Invalidates(r.op)}
               fetch == Refetched(named)
    <2>1. /\ UNCHANGED apiVars /\ use' \in WayToUse /\ use'.follow = use.follow
      BY <1>1, <1>3 DEF ClickAnswered
    <2>2. CASE ~Accepted(ActionSlot)
      <3>1. /\ req' = [req EXCEPT ![ActionSlot] = NoRequest]
            /\ UNCHANGED <<picked, cache, floor>> /\ token' \in {token, NoToken}
        BY <1>3, <2>2 DEF ClickAnswered, Received
      <3>2. Known(token')
        BY <1>1, <3>1 DEF Known
      <3> QED
        BY <1>1, <2>1, <3>1, <3>2, OtherSlotForms
    <2>3. CASE Accepted(ActionSlot) /\ r.op = "createTarget"
      <3>1. /\ Show("/targets/:id", DefaultChoice, user, token, Received(ActionSlot))
            /\ UNCHANGED floor
        BY <1>3, <2>3 DEF ClickAnswered
      <3> QED
        BY <1>1, <2>1, <3>1, ShowsForms
    <2>4. CASE Accepted(ActionSlot) /\ r.op # "createTarget"
      <3> DEFINE asked == Asked(cache, fetch)
      <3>1. /\ req' = Asking(Received(ActionSlot), fetch, token, picked)
            /\ cache' = [k \in Keys |-> IF k \in named
                           THEN [asked[k] EXCEPT !.old = cache[k].loaded] ELSE cache[k]]
            /\ floor' = Raised(named, r.body.version)
            /\ UNCHANGED <<token, picked>>
        BY <1>3, <2>4 DEF ClickAnswered
      <3>2. fetch \subseteq named /\ fetch \subseteq Active(path, picked, user)
        BY DEF Refetched, Shown
      <3>3. \A k \in fetch : /\ k \in Keys /\ k.name \in Queries
                             /\ k.name \in ByChoice => k.choice = picked
        BY <1>1, <3>2, ActiveForms DEF CacheInv
      <3>4. /\ DOMAIN asked = Keys
            /\ \A k \in Keys : k \notin fetch => asked[k] = cache[k]
            /\ \A k \in Keys : /\ IsEntry(asked[k]) /\ asked[k].loaded = cache[k].loaded
                               /\ asked[k].version = cache[k].version
                               /\ asked[k].of = cache[k].of
        BY AskedForms DEF CacheInv
      <3>5. \A k \in Keys : k \in named /\ k \in Shown /\ cache[k].loaded => k \in fetch
        BY DEF Refetched
      <3>6. /\ DOMAIN floor' = Keys
            /\ \A k \in Keys : floor'[k] = floor[k] \/ (k \in fetch /\ floor'[k] = r.body.version)
        BY <3>1, <3>5 DEF Raised
      <3> HIDE DEF fetch, asked, named
      <3>7. /\ DOMAIN req' = Slots
            /\ \A s \in Slots : s \notin fetch => req'[s] = Received(ActionSlot)[s]
            /\ \A s \in fetch : req'[s] = Sent(token, Endpoint(s.name), KeyArg(s))
        BY <3>1, <3>3, AskingForms
      <3>8. /\ DOMAIN cache' = Keys
            /\ \A k \in Keys : SameData(k) /\ (k \notin fetch => cache'[k].error = cache[k].error)
        BY <3>1, <3>4 DEF SameData, IsEntry, CacheInv
      <3>9. \A s \in Slots : /\ s # ActionSlot => Received(ActionSlot)[s] = req[s]
                             /\ s = ActionSlot => Received(ActionSlot)[s] = NoRequest
        BY <1>1 DEF Received
      <3>10. \A s \in Slots \ Keys : TabTouches(s)
        <4>1. ASSUME NEW s \in Slots \ Keys
              PROVE  req'[s] = req[s] \/ req'[s] = NoRequest
          <5>1. s \notin fetch
            BY <3>3
          <5>2. req'[s] = Received(ActionSlot)[s]
            BY <3>7, <5>1
          <5> QED
            BY <3>9, <5>2
        <4> QED
          BY <4>1 DEF TabTouches
      <3>11. \A k \in Keys : KeyStep(k)
        <4> SUFFICES ASSUME NEW k \in Keys
                     PROVE  KeyStep(k)
          OBVIOUS
        <4>1. CASE k \in fetch
          <5>1. FetchStarts(k)
            BY <1>1, <3>3, <3>7, <4>1 DEF FetchStarts
          <5>2. ActionSlot \in Slots /\ r.body.version = req[ActionSlot].body.version
            BY <1>1
          <5>3. floor'[k] = floor[k] \/ floor'[k] = r.body.version
            BY <3>6
          <5> HIDE DEF r
          <5>4. floor'[k] = floor[k] \/ \E s \in Slots : floor'[k] = req[s].body.version
            BY <5>2, <5>3
          <5>5. SameData(k)
            BY <3>8
          <5> QED
            BY <5>1, <5>4, <5>5 DEF KeyStep, Reasked
        <4>2. CASE k \notin fetch
          BY <1>1, <3>6, <3>7, <3>8, <3>9, <4>2 DEF KeyStep, Kept, KeysApart
        <4> QED
          BY <4>1, <4>2
      <3> QED
        BY <1>1, <2>1, <3>1, <3>6, <3>7, <3>8, <3>10, <3>11 DEF TabShape
    <2> QED
      BY <2>2, <2>3, <2>4
  <1> QED
    BY <1>2, <1>3

LEMMA WorldTakesShape ==
  ASSUME AccessAssumption, KeysApart, AccessInv, CacheInv, Lose \/ ValidateFails \/ OtherCalls
  PROVE  TabShape
  <1>1. /\ use \in WayToUse /\ Known(token) /\ DOMAIN req = Slots
        /\ DOMAIN cache = Keys /\ DOMAIN floor = Keys
    BY DEF AccessInv, FormInv, TokensInv, CacheInv
  <1>2. CASE Lose
    <2>1. PICK s \in TabSlots : /\ req[s].pc \in {"sent", "answered"}
                                /\ req' = [req EXCEPT ![s].pc = "lost"]
      BY <1>2 DEF Lose
    <2>2. /\ UNCHANGED <<apiVars, token, picked, cache, floor>>
          /\ use' \in WayToUse /\ use'.follow = use.follow
      BY <1>1, <1>2 DEF Lose, WayToUse
    <2>3. /\ DOMAIN req' = Slots
          /\ \A z \in Slots : /\ z # s => req'[z] = req[z]
                              /\ z = s => req'[z] = [req[z] EXCEPT !.pc = "lost"]
      BY <1>1, <2>1
    <2>4. \A z \in Slots : TabTouches(z)
      BY <2>3 DEF TabTouches
    <2>5. \A k \in Keys : KeyStep(k)
      BY <2>1, <2>2, <2>3 DEF KeyStep, Kept, SameData, CacheInv, KeysApart
    <2> QED
      BY <1>1, <2>2, <2>3, <2>4, <2>5 DEF TabShape, CacheInv
  <1>3. CASE ValidateFails
    <2>1. PICK s \in TabSlots : AccountUnread(s)
      BY <1>3 DEF ValidateFails
    <2>2. /\ UNCHANGED <<apiVars, token, picked, cache, floor>>
          /\ use' \in WayToUse /\ use'.follow = use.follow
      BY <1>1, <1>3, <2>1 DEF ValidateFails, AccountUnread, apiVars, WayToUse
    <2>3. /\ DOMAIN req' = Slots /\ req[s].pc = "sent"
          /\ \A z \in Slots : /\ z # s => req'[z] = req[z]
                              /\ z = s => req'[z] = Answered(req[z], 401, NoBody)
      BY <1>1, <2>1 DEF AccountUnread, Refuse
    <2>4. \A z \in Slots : TabTouches(z)
      BY <2>3 DEF TabTouches
    <2>5. \A k \in Keys : KeyStep(k)
      BY <2>2, <2>3 DEF KeyStep, Kept, SameData, CacheInv, KeysApart
    <2> QED
      BY <1>1, <2>2, <2>3, <2>4, <2>5 DEF TabShape, CacheInv
  <1>4. CASE OtherCalls
    <2>0. PICK s \in OtherSlots, op \in use.others, n \in use.callers :
            \E arg : req' = [req EXCEPT ![s] = Sent(Session(n), op, arg)]
      BY <1>4 DEF OtherCalls
    <2>1. PICK arg : req' = [req EXCEPT ![s] = Sent(Session(n), op, arg)]
      BY <2>0
    <2>2. /\ UNCHANGED <<apiVars, token, picked, cache, floor>>
          /\ use' \in WayToUse /\ use'.follow = use.follow
      BY <1>1, <1>4 DEF OtherCalls, WayToUse
    <2>3. Known(Session(n))
      <3>1. n = 0 \/ Sessions[n].sub \in DOMAIN Accounts
        BY <1>1 DEF WayToUse, AccessAssumption
      <3> QED
        BY <3>1 DEF Session, Known, NoToken, AccessInv, FormInv
    <2>4. s \in Slots \ Keys
      BY DEF KeysApart
    <2> QED
      BY <1>1, <2>1, <2>2, <2>3, <2>4, OtherSlotForms
  <1> QED
    BY <1>2, <1>3, <1>4

-----------------------------------------------------------------------------
(* Every step.                                                             *)

LEMMA TabTakesShape ==
  ASSUME AccessAssumption, KeysApart, AccessInv, CacheInv, TabStep \/ Lose \/ ValidateFails \/ OtherCalls
  PROVE  TabShape
  <1>1. CASE Open \/ Reload
    <2>1. PICK page : Mounted(page)
      BY <1>1 DEF Open, Reload
    <2>2. use' \in WayToUse /\ use'.follow = use.follow
      BY <1>1, MoveForms DEF Open, Reload, AccessInv, FormInv
    <2> QED
      BY <2>1, <2>2, MountTakesShape
  <1> QED
    BY <1>1, QueriesTakeShape, SessionTakesShape, ClickTakesShape, WorldTakesShape DEF TabStep

LEMMA TabShapeTouches ==
  ASSUME TabShape
  PROVE  TabTouchesAll
  <1>1. ASSUME NEW k \in Keys
        PROVE  TabTouches(k)
    <2>1. KeyStep(k)
      BY DEF TabShape
    <2>2. CASE Kept(k)
      BY <2>2 DEF Kept, TabTouches
    <2>3. CASE Reasked(k)
      BY <2>3 DEF Reasked, FetchStarts, TabTouches
    <2>4. CASE Restarted(k)
      BY <2>4 DEF Restarted, FetchStarts, TabTouches
    <2>5. CASE Stored(k) \/ Failed(k)
      BY <2>5 DEF Stored, Failed, TabTouches
    <2> QED
      BY <2>1, <2>2, <2>3, <2>4, <2>5 DEF KeyStep
  <1> QED
    BY <1>1 DEF TabShape, TabTouchesAll

LEMMA TabKeepsCacheInv ==
  ASSUME CacheInv, TabShape
  PROVE  CacheInv'
  <1>1. ASSUME NEW k \in Keys
        PROVE  IsEntry(cache'[k])
    <2>1. KeyStep(k)
      BY DEF TabShape
    <2>2. CASE Kept(k) \/ Reasked(k) \/ Failed(k)
      BY <2>2 DEF Kept, Reasked, Failed, SameData
    <2>3. CASE Restarted(k)
      BY <2>3 DEF Restarted, IsEntry, NoEntry
    <2>4. CASE Stored(k)
      BY <2>4 DEF Stored, IsEntry, NoEntry
    <2> QED
      BY <2>1, <2>2, <2>3, <2>4 DEF KeyStep
  <1> QED
    BY <1>1 DEF CacheInv, TabShape

LEMMA StepKeepsAccess ==
  ASSUME AccessAssumption, KeysApart, AccessInv, CacheInv, [Next]_vars
  PROVE  AccessInv' /\ CacheInv'
  <1>1. CASE TabStep \/ Lose \/ ValidateFails \/ OtherCalls
    BY <1>1, TabTakesShape, TabShapeTouches, TabKeepsAccessInv, TabKeepsCacheInv
  <1>2. ASSUME UNCHANGED tabVars
        PROVE  CacheInv'
    BY <1>2 DEF tabVars, CacheInv
  <1>3. ASSUME UNCHANGED <<users, notes, req, token, use>>
        PROVE  AccessInv'
    BY <1>3 DEF AccessInv, FormInv, TokensInv, HeldInv, WorkInv, Working, LoginInv, Known,
                OneAccountPerEmail
  <1>4. CASE MonitoringGoesOn
    <2>1. use' \in WayToUse /\ use'.follow = use.follow
      BY <1>4 DEF MonitoringGoesOn, AccessInv, FormInv, WayToUse
    <2>2. CacheInv'
      BY <1>4, <2>1 DEF MonitoringGoesOn, CacheInv
    <2>3. AccessInv'
      BY <1>4, <2>1 DEF MonitoringGoesOn, MonitoringChanges, AccessInv, FormInv, TokensInv,
                        HeldInv, WorkInv, Working, LoginInv, Known, OneAccountPerEmail
    <2> QED
      BY <2>2, <2>3
  <1>5. CASE Api
    <2>1. CASE Expire /\ UNCHANGED tabVars
      BY <1>2, <1>3, <2>1 DEF Expire, tabVars
    <2>2. CASE \E s \in Slots : Serve(s) /\ UNCHANGED tabVars
      BY <1>2, <2>2, ServeKeeps
    <2> QED
      BY <1>5, <2>1, <2>2 DEF Api
  <1>6. CASE UNCHANGED vars
    BY <1>2, <1>3, <1>6 DEF vars, accessVars, tabVars
  <1> QED
    BY <1>1, <1>4, <1>5, <1>6 DEF Next

LEMMA StartsWithAccess ==
  ASSUME AccessAssumption, WebClientAssumption, Init
  PROVE  AccessInv /\ CacheInv
  <1> USE DEF Init, AccessInit, TabInit
  <1>1. /\ IsRequest(NoRequest) /\ NoRequest.pc = "none" /\ NoRequest.token = NoToken
        /\ NoRequest.body = NoBody /\ NoBody.token = NoToken /\ NoToken.sub = NoOne
    BY DEF IsRequest, NoRequest, NoBody, NoToken
  <1>2. \A s \in Slots : req[s] = NoRequest
    OBVIOUS
  <1>3. use \in WayToUse /\ use.follow \subseteq Followed
    BY DEF WebClientAssumption, Followed
  <1>4. Known(token)
    BY <1>3 DEF Session, WayToUse, Known, NoToken, AccessAssumption
  <1>5. FormInv
    BY <1>1, <1>2, <1>3 DEF FormInv, AccessAssumption, IsAccount
  <1>6. TokensInv
    BY <1>1, <1>2, <1>4 DEF TokensInv, Known
  <1>7. HeldInv
    BY <1>1, <1>2 DEF HeldInv, AccessAssumption
  <1>8. WorkInv /\ LoginInv
    BY <1>1, <1>2 DEF WorkInv, Working, LoginInv, AtWork
  <1>9. OneAccountPerEmail
    BY DEF OneAccountPerEmail, AccessAssumption
  <1>10. CacheInv
    BY <1>3 DEF CacheInv, WebClientAssumption, IsEntry, NoEntry
  <1> QED
    BY <1>5, <1>6, <1>7, <1>8, <1>9, <1>10 DEF AccessInv

\* Typing of requests, tokens and cache, and what the guards established of
\* every handler at work.
THEOREM AccessHolds == Spec => [](AccessInv /\ CacheInv)
  <1>1. Init => AccessInv /\ CacheInv
    BY StartsWithAccess, AccessAssumption, WebClientAssumption
  <1>2. AccessInv /\ CacheInv /\ [Next]_vars => (AccessInv /\ CacheInv)'
    BY StepKeepsAccess, KeysAreApart, AccessAssumption, WebClientAssumption
  <1> QED
    BY <1>1, <1>2, PTL DEF Spec

\* Whatever creations of accounts overlap, an email belongs to one account
\* (users.service.ts and idx_users_email).
THEOREM EmailsAreUnique == Spec => []OneAccountPerEmail
  <1>1. AccessInv => OneAccountPerEmail
    BY DEF AccessInv
  <1> QED
    BY <1>1, AccessHolds, PTL

-----------------------------------------------------------------------------
(* What takes effect was allowed.                                          *)

Authorized(s) ==
  /\ req[s].held \cap Required(req[s].op) # {}
  /\ req[s].op = "editNote" => notes[req[s].arg] = req[s].token.sub \/ "ADMIN" \in req[s].held

LEMMA TabTakesNothing ==
  ASSUME TabTouchesAll, AccessInv, NEW s \in Slots
  PROVE  ~Takes(s)
  <1>1. IsRequest(req[s]) /\ TabTouches(s)
    BY DEF AccessInv, FormInv, TabTouchesAll
  <1>2. CASE req'[s] = req[s] \/ req'[s] = NoRequest
    BY <1>2 DEF Takes, NoRequest
  <1>3. CASE \E tok, op, arg : Known(tok) /\ req'[s] = Sent(tok, op, arg)
    <2>1. PICK tok, op, arg : req'[s] = Sent(tok, op, arg)
      BY <1>3
    <2> QED
      BY <2>1, SentForm DEF Takes
  <1>4. CASE \E pc \in {"waiting", "lost"} : req'[s] = [req[s] EXCEPT !.pc = pc]
    <2>1. PICK pc \in {"waiting", "lost"} : req'[s] = [req[s] EXCEPT !.pc = pc]
      BY <1>4
    <2>2. req'[s].pc = pc
      BY <1>1, <2>1, PcForm
    <2> QED
      BY <2>1, <2>2 DEF Takes
  <1>5. CASE req'[s] = Answered(req[s], 401, NoBody)
    BY <1>1, <1>5, AnsweredForm DEF Takes
  <1> QED
    BY <1>1, <1>2, <1>3, <1>4, <1>5 DEF TabTouches

LEMMA RefusalTakesNothing ==
  ASSUME AccessInv, NEW s \in Slots, NEW z \in Slots, NEW status, status # 200, Refuse(z, status)
  PROVE  ~Takes(s)
  <1>1. DOMAIN req = Slots /\ IsRequest(req[s])
    BY DEF AccessInv, FormInv
  <1>2. req'[s] = IF s = z THEN Answered(req[s], status, NoBody) ELSE req[s]
    BY <1>1 DEF Refuse
  <1> QED
    BY <1>1, <1>2, AnsweredForm DEF Takes

LEMMA OnlyItsOwnIsTaken ==
  ASSUME AccessInv, NEW s \in Slots, NEW z \in Slots, z # s, Serve(z)
  PROVE  ~Takes(s)
  <1>1. DOMAIN req = Slots /\ IsRequest(req[s])
    BY DEF AccessInv, FormInv
  <1>2. CASE SaveRole(z)
    <2>1. \/ req'[s] = req[s] \/ \E held : req'[s] = [req[s] EXCEPT !.held = held]
      BY <1>2 DEF SaveRole
    <2>2. req'[s].pc = req[s].pc
      BY <1>1, <2>1 DEF IsRequest
    <2> QED
      BY <2>2 DEF Takes
  <1>3. CASE ~SaveRole(z)
    <2>1. ASSUME \/ \E status : Refuse(z, status)
                 \/ \E pc : Advance(z, pc)
                 \/ Effect(z)
          PROVE  ~Takes(s)
      <3>1. req'[s] = req[s]
        BY <1>1, <2>1 DEF Refuse, Advance, Effect
      <3> QED
        BY <3>1 DEF Takes
    <2>2. CASE Guards(z)
      <3>1. CASE Advance(z, "handling") \/ \E status : Refuse(z, status)
        BY <2>1, <3>1
      <3>2. CASE ~Advance(z, "handling") /\ ~\E status : Refuse(z, status)
        <4>1. PICK i :
                LET user_ == Validate(req[z].token, i)
                IN  \/ req' = [req EXCEPT ![z] = Answered(@, 200,
                          [NoBody EXCEPT !.version = version, !.of = req[z].arg, !.user = user_])]
                    \/ req' = [req EXCEPT ![z].pc = "handling", ![z].actor = user_.id,
                                          ![z].role = user_.role]
          BY <2>2, <3>2 DEF Guards
        <4>2. req'[s] = req[s]
          BY <1>1, <4>1
        <4> QED
          BY <4>2 DEF Takes
      <3> QED
        BY <3>1, <3>2
    <2>3. CASE FindAccount(z)
      <3>1. CASE \E status : Refuse(z, status)
        BY <2>1, <3>1
      <3>2. CASE ~\E status : Refuse(z, status)
        <4>1. PICK i : req' = [req EXCEPT ![z].pc = "comparing", ![z].actor = i,
                                         ![z].role = users[i].role]
          BY <2>3, <3>2 DEF FindAccount
        <4>2. req'[s] = req[s]
          BY <1>1, <4>1
        <4> QED
          BY <4>2 DEF Takes
      <3> QED
        BY <3>1, <3>2
    <2>4. CASE VerifyPassword(z)
      BY <1>1, <2>1, <2>4 DEF VerifyPassword, Takes
    <2>5. CASE LookUpEmail(z) \/ InsertUser(z) \/ FindUser(z)
      BY <2>1, <2>5 DEF LookUpEmail, InsertUser, FindUser
    <2>6. CASE AddNote(z) \/ FindNote(z) \/ SaveNote(z) \/ Act(z) \/ Reject(z)
      BY <2>1, <2>6 DEF AddNote, FindNote, SaveNote, Act, Reject
    <2> QED
      BY <1>3, <2>2, <2>3, <2>4, <2>5, <2>6 DEF Serve
  <1> QED
    BY <1>2, <1>3

LEMMA ServeTakesAuthorized ==
  ASSUME AccessInv, NEW s \in Slots, Serve(s), Takes(s)
  PROVE  Authorized(s)
  <1> DEFINE r == req[s]
  <1>1. /\ Working(r) /\ IsRequest(r) /\ DOMAIN req = Slots
        /\ r.pc \in AtWork /\ r.op \notin Public
    BY DEF AccessInv, FormInv, WorkInv, Takes, AtWork
  <1>2. /\ r.role \in r.held /\ r.role \in Required(r.op) /\ r.actor = r.token.sub
    BY <1>1 DEF Working
  <1>3. CASE r.op # "editNote"
    BY <1>2, <1>3 DEF Authorized
  <1>4. CASE r.op = "editNote"
    <2>1. \A status \in {401, 403, 404, 409, 500} : ~Refuse(s, status)
      BY RefusalTakesNothing
    <2>2. SaveNote(s)
      <3>1. ASSUME NEW pc, pc # "answered", Advance(s, pc)
            PROVE  FALSE
        <4>1. req'[s] = [r EXCEPT !.pc = pc]
          BY <1>1, <3>1 DEF Advance
        <4> QED
          BY <1>1, <3>1, <4>1, PcForm DEF Takes
      <3>2. ~FindNote(s) /\ ~Reject(s)
        BY <2>1, <3>1 DEF FindNote, Reject
      <3>3. ~Guards(s) /\ ~VerifyPassword(s)
        BY <1>1 DEF Guards, VerifyPassword, AtWork
      <3>4. ~InsertUser(s)
        BY <1>1, <1>4 DEF InsertUser, Working
      <3>5. ~Act(s)
        BY <1>4 DEF Act, TargetWrites
      <3> QED
        BY <1>4, <3>2, <3>3, <3>4, <3>5 DEF Serve, FindAccount, LookUpEmail, FindUser, SaveRole,
             AddNote, Handling
    <2>3. r.pc = "saving"
      BY <2>2 DEF SaveNote
    <2>4. notes[r.arg] = r.actor \/ r.role = "ADMIN"
      BY <1>1, <1>4, <2>3 DEF Working, MayEdit
    <2> QED
      BY <1>2, <2>4 DEF Authorized
  <1> QED
    BY <1>3, <1>4

LEMMA StepIsAuthorized ==
  ASSUME AccessAssumption, KeysApart, AccessInv, CacheInv, [Next]_vars, NEW s \in Slots, Takes(s)
  PROVE  Authorized(s)
  <1>1. CASE TabStep \/ Lose \/ ValidateFails \/ OtherCalls
    BY <1>1, TabTakesShape, TabShapeTouches, TabTakesNothing
  <1>2. CASE req' = req
    BY <1>2 DEF Takes
  <1>3. CASE Api
    <2>1. CASE Expire
      BY <1>2, <2>1 DEF Expire
    <2>2. CASE \E z \in Slots : Serve(z)
      BY <2>2, OnlyItsOwnIsTaken, ServeTakesAuthorized
    <2> QED
      BY <1>3, <2>1, <2>2 DEF Api
  <1>4. CASE MonitoringGoesOn
    BY <1>2, <1>4 DEF MonitoringGoesOn, MonitoringChanges
  <1> QED
    BY <1>1, <1>2, <1>3, <1>4 DEF Next, vars, accessVars

\* A request changes something only if its account has held a role the handler
\* asks for while it was under way, and a note is edited by its author or an
\* administrator (jwt.strategy.ts, roles.guard.ts, incidents.service.ts).
THEOREM EffectsAreAuthorized == Spec => EffectsAuthorized
  <1>1. AccessInv /\ CacheInv /\ [Next]_vars =>
          [\A s \in Slots : Takes(s) =>
             /\ req[s].held \cap Required(req[s].op) # {}
             /\ req[s].op = "editNote" =>
                  notes[req[s].arg] = req[s].token.sub \/ "ADMIN" \in req[s].held]_accessVars
    BY StepIsAuthorized, KeysAreApart, AccessAssumption, WebClientAssumption DEF Authorized
  <1> QED
    BY <1>1, AccessHolds, PTL DEF Spec, EffectsAuthorized

-----------------------------------------------------------------------------
(* What a page shows.                                                      *)

\* A key's request asks its query, with what was picked.
AskedInv ==
  \A k \in Keys :
    req[k].pc # "none" =>
      /\ req[k].op \in Reads /\ req[k].arg = KeyArg(k)
      /\ req[k].pc \in {"sent", "waiting", "lost", "answered"}

VersionInv ==
  /\ version \in Nat
  /\ \A s \in Slots : req[s].body.version \in Nat /\ req[s].body.version <= version
  /\ \A k \in Keys : floor[k] \in Nat /\ floor[k] <= version /\ cache[k].version \in Nat

\* What arrives, and what is kept, is of what was picked and new enough.
DataInv ==
  \A k \in Keys :
    /\ Accepted(k) => /\ req[k].body.of = KeyArg(k)
                      /\ floor[k] <= req[k].body.version
    /\ cache[k].loaded => cache[k].of = KeyArg(k)
    /\ cache[k].loaded /\ ~cache[k].error /\ Idle(k) => floor[k] <= cache[k].version

ShownInv == AskedInv /\ VersionInv /\ DataInv

\* How a step of the API changes the requests, as far as a page can tell.
SameAnswer(z) ==
  /\ req'[z].pc = req[z].pc /\ req'[z].op = req[z].op /\ req'[z].arg = req[z].arg
  /\ req'[z].status = req[z].status /\ req'[z].body = req[z].body

AnsweredNow(k) ==
  /\ req'[k].pc = "answered" /\ req'[k].op = req[k].op /\ req'[k].arg = req[k].arg
  /\ req[k].pc # "none"
  /\ req'[k].status # 200 \/ (req'[k].body.of = req[k].arg /\ req'[k].body.version = version)

ServeShape ==
  /\ version' \in {version, version + 1}
  /\ \A z \in Slots : req'[z].body.version \in {req[z].body.version, 0, version, version'}
  /\ \A k \in Keys : SameAnswer(k) \/ AnsweredNow(k)

LEMMA BodyForms ==
  /\ NoBody.version = 0
  /\ \A v : [NoBody EXCEPT !.version = v].version = v
  /\ \A v, of, who : LET b == [NoBody EXCEPT !.version = v, !.of = of, !.user = who]
                     IN  b.version = v /\ b.of = of
  BY DEF NoBody

\* One request is answered, or goes on elsewhere.
LEMMA OneAnswer ==
  ASSUME AccessInv, KeysApart, NEW s \in Slots, NEW new, req' = [req EXCEPT ![s] = new],
         version' \in {version, version + 1},
         new.body.version \in {req[s].body.version, 0, version, version'},
         s \in Keys => /\ new.pc = "answered" /\ new.op = req[s].op /\ new.arg = req[s].arg
                       /\ req[s].pc # "none"
                       /\ new.status # 200 \/ (new.body.of = req[s].arg /\ new.body.version = version)
  PROVE  ServeShape
  <1>1. DOMAIN req = Slots
    BY DEF AccessInv, FormInv
  <1>2. \A z \in Slots : req'[z] = IF z = s THEN new ELSE req[z]
    BY <1>1
  <1>3. \A z \in Slots : req'[z].body.version \in {req[z].body.version, 0, version, version'}
    BY <1>2
  <1>4. \A k \in Keys : SameAnswer(k) \/ AnsweredNow(k)
    BY <1>2 DEF SameAnswer, AnsweredNow, KeysApart
  <1> QED
    BY <1>3, <1>4 DEF ServeShape

LEMMA RefuseShape ==
  ASSUME AccessInv, KeysApart, NEW s \in Slots, NEW status, status # 200, req[s].pc # "none",
         Refuse(s, status), UNCHANGED version
  PROVE  ServeShape
  <1> DEFINE new == Answered(req[s], status, NoBody)
  <1>1. IsRequest(req[s])
    BY DEF AccessInv, FormInv
  <1>2. /\ new.pc = "answered" /\ new.op = req[s].op /\ new.arg = req[s].arg
        /\ new.status = status /\ new.body.version = 0
    BY <1>1, AnsweredForm, BodyForms
  <1>3. req' = [req EXCEPT ![s] = new]
    BY DEF Refuse
  <1> HIDE DEF new
  <1> QED
    BY <1>2, <1>3, OneAnswer

LEMMA EffectShape ==
  ASSUME AccessInv, KeysApart, NEW s \in Slots \ Keys, Effect(s)
  PROVE  ServeShape
  <1> DEFINE body == [NoBody EXCEPT !.version = version']
             new == Answered(req[s], 200, body)
  <1>1. IsRequest(req[s])
    BY DEF AccessInv, FormInv
  <1>2. body.version = version'
    BY BodyForms
  <1>3. req' = [req EXCEPT ![s] = new] /\ version' \in {version, version + 1}
    BY DEF Effect, Change
  <1> HIDE DEF body
  <1>4. new.body.version = version'
    BY <1>1, <1>2, AnsweredForm
  <1> HIDE DEF new
  <1> QED
    BY <1>3, <1>4, OneAnswer

LEMMA AdvanceShape ==
  ASSUME AccessInv, KeysApart, NEW s \in Slots \ Keys, NEW pc, Advance(s, pc), UNCHANGED version
  PROVE  ServeShape
  <1> DEFINE new == [req[s] EXCEPT !.pc = pc]
  <1>1. IsRequest(req[s])
    BY DEF AccessInv, FormInv
  <1>2. new.body = req[s].body
    BY <1>1, PcForm
  <1>3. req' = [req EXCEPT ![s] = new]
    BY DEF Advance
  <1> HIDE DEF new
  <1> QED
    BY <1>2, <1>3, OneAnswer

LEMMA GuardsShape ==
  ASSUME AccessInv, KeysApart, AskedInv, NEW s \in Slots, Guards(s)
  PROVE  ServeShape
  <1> DEFINE r == req[s]
  <1>1. r.pc = "sent" /\ UNCHANGED version /\ IsRequest(r) /\ DOMAIN req = Slots
    BY DEF Guards, AccessInv, FormInv
  <1>2. s \in Keys => r.op \in Reads /\ r.op \notin Public
    BY <1>1 DEF AskedInv, Reads, Public, TargetReads, IncidentReads, DashboardReads
  <1>3. CASE \E status \in {401, 403} : Refuse(s, status)
    BY <1>1, <1>3, RefuseShape
  <1>4. CASE r.op \in Public
    BY <1>1, <1>2, <1>4, AdvanceShape DEF Guards
  <1>5. CASE r.op \notin Public /\ ~\E status \in {401, 403} : Refuse(s, status)
    <2>1. PICK i :
            LET user_ == Validate(r.token, i)
            IN  IF r.op \in Reads
                THEN req' = [req EXCEPT ![s] = Answered(@, 200,
                       [NoBody EXCEPT !.version = version, !.of = r.arg, !.user = user_])]
                ELSE req' = [req EXCEPT ![s].pc = "handling", ![s].actor = user_.id,
                                        ![s].role = user_.role]
      BY <1>5 DEF Guards
    <2> DEFINE user_ == Validate(r.token, i)
    <2>2. CASE r.op \in Reads
      <3> DEFINE body == [NoBody EXCEPT !.version = version, !.of = r.arg, !.user = user_]
                 new == Answered(r, 200, body)
      <3>1. body.version = version /\ body.of = r.arg
        BY BodyForms
      <3>2. req' = [req EXCEPT ![s] = new]
        BY <2>1, <2>2
      <3> HIDE DEF body
      <3>3. /\ new.pc = "answered" /\ new.op = r.op /\ new.arg = r.arg /\ new.body = body
        BY <1>1, AnsweredForm
      <3> HIDE DEF new
      <3> QED
        BY <1>1, <3>1, <3>2, <3>3, OneAnswer
    <2>3. CASE r.op \notin Reads
      <3> DEFINE new == [r EXCEPT !.pc = "handling", !.actor = user_.id, !.role = user_.role]
      <3>1. req' = [req EXCEPT ![s] = new]
        BY <2>1, <2>3
      <3> HIDE DEF user_
      <3>2. new.body = r.body
        BY <1>1 DEF IsRequest
      <3> HIDE DEF new
      <3> QED
        BY <1>1, <1>2, <2>3, <3>1, <3>2, OneAnswer
    <2> QED
      BY <2>2, <2>3
  <1> QED
    BY <1>3, <1>4, <1>5

LEMMA ServeTakesShape ==
  ASSUME AccessInv, KeysApart, AskedInv, NEW s \in Slots, Serve(s)
  PROVE  ServeShape
  <1> DEFINE r == req[s]
  <1>1. IsRequest(r) /\ DOMAIN req = Slots
    BY DEF AccessInv, FormInv
  \* A handler that is at work serves no query.
  <1>2. r.pc \in AtWork \cup {"comparing"} => s \in Slots \ Keys
    BY DEF AskedInv, AtWork
  <1>3. CASE UNCHANGED version /\ r.pc # "none" /\
             \E status \in {401, 403, 404, 409, 500} : Refuse(s, status)
    BY <1>3, RefuseShape
  <1>4. CASE UNCHANGED version /\ r.pc \in AtWork /\ \E pc : Advance(s, pc)
    BY <1>2, <1>4, AdvanceShape
  <1>5. CASE r.pc \in AtWork /\ Effect(s)
    BY <1>2, <1>5, EffectShape
  <1>6. CASE Guards(s)
    BY <1>6, GuardsShape
  <1>7. CASE FindAccount(s)
    <2>1. CASE Refuse(s, 401)
      BY <1>3, <1>7, <2>1 DEF FindAccount, Handling
    <2>2. CASE ~Refuse(s, 401)
      <3>1. PICK i : req' = [req EXCEPT ![s].pc = "comparing", ![s].actor = i,
                                       ![s].role = users[i].role]
        BY <1>7, <2>2 DEF FindAccount
      <3> DEFINE new == [r EXCEPT !.pc = "comparing", !.actor = i, !.role = users[i].role]
      <3>2. new.body = r.body /\ req' = [req EXCEPT ![s] = new]
        BY <1>1, <3>1 DEF IsRequest
      <3>3. s \in Slots \ Keys /\ UNCHANGED version
        BY <1>2, <1>7 DEF FindAccount, Handling, AtWork
      <3> HIDE DEF new
      <3> QED
        BY <3>2, <3>3, OneAnswer
    <2> QED
      BY <2>1, <2>2
  <1>8. CASE VerifyPassword(s)
    <2>1. CASE Refuse(s, 401)
      BY <1>3, <1>8, <2>1 DEF VerifyPassword
    <2>2. CASE VerifyPassword(s) /\ ~Refuse(s, 401)
      <3> DEFINE body == LoginResponse(r)
                 new == Answered(r, 200, body)
      <3>1. req' = [req EXCEPT ![s] = new]
        BY <2>2 DEF VerifyPassword
      <3>2. body.version = 0
        BY DEF LoginResponse, NoBody
      <3> HIDE DEF body
      <3>3. new.body = body
        BY <1>1, AnsweredForm
      <3>4. s \in Slots \ Keys /\ UNCHANGED version
        BY <1>2, <1>8 DEF VerifyPassword
      <3> HIDE DEF new
      <3> QED
        BY <3>1, <3>2, <3>3, <3>4, OneAnswer
    <2> QED
      BY <1>8, <2>1, <2>2
  <1>9. CASE LookUpEmail(s) \/ FindUser(s) \/ FindNote(s)
    BY <1>3, <1>4, <1>9 DEF LookUpEmail, FindUser, FindNote, Handling, AtWork
  <1>10. CASE InsertUser(s)
    BY <1>3, <1>5, <1>10 DEF InsertUser, AtWork
  <1>11. CASE AddNote(s) \/ SaveNote(s) \/ Act(s)
    BY <1>5, <1>11 DEF AddNote, SaveNote, Act, Handling, AtWork
  <1>12. CASE Reject(s)
    BY <1>3, <1>12 DEF Reject
  <1>13. CASE SaveRole(s)
    <2> DEFINE body == [NoBody EXCEPT !.version = version']
               done(z) == IF z = s THEN Answered(req[z], 200, body) ELSE req[z]
    <2>1. body.version = version'
      BY BodyForms
    <2>2. PICK id, role :
            req' = [z \in Slots |-> IF done(z).token.sub = id
                                    THEN [done(z) EXCEPT !.held = @ \cup {role}] ELSE done(z)]
      BY <1>13 DEF SaveRole
    <2>3. s \in Slots \ Keys /\ version' \in {version, version + 1}
      BY <1>2, <1>13 DEF SaveRole, Change, AtWork
    <2> HIDE DEF body
    <2>4. ASSUME NEW z \in Slots
          PROVE  /\ IsRequest(done(z)) /\ done(z).body.version \in {req[z].body.version, version'}
                 /\ z # s => done(z) = req[z]
      BY <1>1, <2>1, AnsweredForm DEF AccessInv, FormInv
    <2> HIDE DEF done
    <2>5. ASSUME NEW z \in Slots
          PROVE  /\ req'[z].pc = done(z).pc /\ req'[z].op = done(z).op /\ req'[z].arg = done(z).arg
                 /\ req'[z].status = done(z).status /\ req'[z].body = done(z).body
      BY <2>2, <2>4 DEF IsRequest
    <2>6. ASSUME NEW k \in Keys
          PROVE  SameAnswer(k)
      BY <2>3, <2>4, <2>5 DEF SameAnswer, KeysApart
    <2> QED
      BY <2>3, <2>4, <2>5, <2>6 DEF ServeShape
  <1> QED
    BY <1>6, <1>7, <1>8, <1>9, <1>10, <1>11, <1>12, <1>13 DEF Serve

LEMMA ServeKeepsShown ==
  ASSUME KeysApart, ShownInv, ServeShape, UNCHANGED tabVars
  PROVE  ShownInv'
  <1> USE DEF ShownInv, tabVars, KeysApart
  <1>1. VersionInv'
    BY DEF VersionInv, ServeShape
  <1>2. ASSUME NEW k \in Keys, SameAnswer(k)
        PROVE  /\ req[k].pc # "none" <=> req'[k].pc # "none"
               /\ Accepted(k)' <=> Accepted(k)
               /\ Idle(k)' <=> Idle(k)
    BY <1>2 DEF SameAnswer, Accepted, Idle
  <1>3. AskedInv'
    BY <1>2 DEF ServeShape, AskedInv, AnsweredNow, SameAnswer
  <1>4. DataInv'
    <2> SUFFICES ASSUME NEW k \in Keys
                 PROVE  /\ Accepted(k)' => /\ req'[k].body.of = KeyArg(k)
                                           /\ floor[k] <= req'[k].body.version
                        /\ cache[k].loaded => cache[k].of = KeyArg(k)
                        /\ cache[k].loaded /\ ~cache[k].error /\ Idle(k)' =>
                             floor[k] <= cache[k].version
      BY DEF DataInv, KeyArg
    <2>1. CASE SameAnswer(k)
      BY <1>2, <2>1 DEF DataInv, SameAnswer
    <2>2. CASE AnsweredNow(k)
      <3>1. ~Idle(k)' /\ req[k].arg = KeyArg(k)
        BY <2>2 DEF AnsweredNow, Idle, AskedInv
      <3>2. Accepted(k)' => /\ req'[k].body.of = KeyArg(k)
                            /\ floor[k] <= req'[k].body.version
        BY <2>2, <3>1 DEF VersionInv, AnsweredNow, Accepted
      <3> QED
        BY <3>1, <3>2 DEF DataInv
    <2> QED
      BY <2>1, <2>2 DEF ServeShape
  <1> QED
    BY <1>1, <1>3, <1>4

\* Every query asks an endpoint that only reads.
LEMMA QueriesRead ==
  ASSUME NEW name \in Queries
  PROVE  Endpoint(name) \in Reads
  BY DEF Queries, PageQueries, ShellPages, Endpoint, Reads, TargetReads, IncidentReads,
         DashboardReads, DashboardPage, TargetsPage, TargetDetailPage, IncidentsPage,
         IncidentDetailPage, AdminUsersPage

LEMMA TabBodies ==
  ASSUME AccessInv, TabTouchesAll, NEW s \in Slots
  PROVE  req'[s].body \in {req[s].body, NoBody}
  <1>1. IsRequest(req[s]) /\ TabTouches(s)
    BY DEF AccessInv, FormInv, TabTouchesAll
  <1>2. CASE \E tok, op, arg : Known(tok) /\ req'[s] = Sent(tok, op, arg)
    BY <1>2, SentForm
  <1>3. CASE \E pc \in {"waiting", "lost"} : req'[s] = [req[s] EXCEPT !.pc = pc]
    BY <1>1, <1>3, PcForm
  <1>4. NoRequest.body = NoBody
    BY DEF NoRequest
  <1>5. CASE req'[s] = Answered(req[s], 401, NoBody)
    BY <1>1, <1>5, AnsweredForm
  <1> QED
    BY <1>1, <1>2, <1>3, <1>4, <1>5 DEF TabTouches

LEMMA TabKeepsShown ==
  ASSUME AccessInv, KeysApart, CacheInv, ShownInv, TabShape
  PROVE  ShownInv'
  <1>1. TabTouchesAll /\ version' = version
    BY TabShapeTouches DEF TabShape, apiVars
  <1>2. /\ version \in Nat
        /\ \A s \in Slots : req[s].body.version \in Nat /\ req[s].body.version <= version
    BY DEF ShownInv, VersionInv
  <1>3. \A s \in Slots : req'[s].body.version \in Nat /\ req'[s].body.version <= version
    BY <1>1, <1>2, TabBodies, BodyForms
  <1>4. ASSUME NEW k \in Keys
        PROVE  /\ req'[k].pc # "none" =>
                    /\ req'[k].op \in Reads /\ req'[k].arg = KeyArg(k)
                    /\ req'[k].pc \in {"sent", "waiting", "lost", "answered"}
               /\ floor'[k] \in Nat /\ floor'[k] <= version /\ cache'[k].version \in Nat
               /\ Accepted(k)' => /\ req'[k].body.of = KeyArg(k)
                                  /\ floor'[k] <= req'[k].body.version
               /\ cache'[k].loaded => cache'[k].of = KeyArg(k)
               /\ cache'[k].loaded /\ ~cache'[k].error /\ Idle(k)' => floor'[k] <= cache'[k].version
    <2>1. /\ k \in Slots /\ IsRequest(req[k]) /\ IsEntry(cache[k]) /\ KeyStep(k)
          /\ NoRequest.pc = "none"
      BY DEF KeysApart, AccessInv, FormInv, CacheInv, TabShape, NoRequest
    <2>2. /\ req[k].pc # "none" => /\ req[k].op \in Reads /\ req[k].arg = KeyArg(k)
                                   /\ req[k].pc \in {"sent", "waiting", "lost", "answered"}
          /\ floor[k] \in Nat /\ floor[k] <= version /\ cache[k].version \in Nat
          /\ Accepted(k) => req[k].body.of = KeyArg(k) /\ floor[k] <= req[k].body.version
          /\ cache[k].loaded => cache[k].of = KeyArg(k)
          /\ cache[k].loaded /\ ~cache[k].error /\ Idle(k) => floor[k] <= cache[k].version
      BY DEF ShownInv, AskedInv, VersionInv, DataInv
    <2>3. FetchStarts(k) => /\ req'[k].pc = "sent" /\ req'[k].op \in Reads
                            /\ req'[k].arg = KeyArg(k)
      BY SentForm, QueriesRead DEF FetchStarts
    <2>4. CASE Kept(k)
      <3>1. /\ cache'[k].loaded = cache[k].loaded /\ cache'[k].version = cache[k].version
            /\ cache'[k].of = cache[k].of /\ cache'[k].error = cache[k].error
            /\ floor'[k] = floor[k]
        BY <2>4 DEF Kept, SameData
      <3>2. CASE req'[k] = req[k]
        <4>1. (Accepted(k)' <=> Accepted(k)) /\ (Idle(k)' <=> Idle(k))
          BY <3>2 DEF Accepted, Idle
        <4> QED
          BY <2>2, <3>1, <3>2, <4>1
      <3>3. CASE req[k].pc # "none" /\ \E pc \in {"waiting", "lost"} : req'[k] = [req[k] EXCEPT !.pc = pc]
        <4>1. req'[k].pc \in {"waiting", "lost"} /\ req'[k].op = req[k].op /\ req'[k].arg = req[k].arg
          BY <2>1, <3>3, PcForm
        <4>2. ~Accepted(k)' /\ ~Idle(k)'
          BY <4>1 DEF Accepted, Idle
        <4> QED
          BY <2>2, <3>1, <3>3, <4>1, <4>2
      <3>4. CASE req[k].pc # "none" /\ \E tok : req'[k] = Sent(tok, req[k].op, req[k].arg)
        <4>1. req'[k].pc = "sent" /\ req'[k].op = req[k].op /\ req'[k].arg = req[k].arg
          BY <3>4, SentForm
        <4>2. ~Accepted(k)' /\ ~Idle(k)'
          BY <4>1 DEF Accepted, Idle
        <4> QED
          BY <2>2, <3>1, <3>4, <4>1, <4>2
      <3>5. CASE req[k].pc # "none" /\ req'[k] = Answered(req[k], 401, NoBody)
        <4>1. /\ req'[k].pc = "answered" /\ req'[k].status = 401
              /\ req'[k].op = req[k].op /\ req'[k].arg = req[k].arg
          BY <2>1, <3>5, AnsweredForm
        <4>2. ~Accepted(k)' /\ ~Idle(k)'
          BY <4>1 DEF Accepted, Idle
        <4> QED
          BY <2>2, <3>1, <3>5, <4>1, <4>2
      <3> QED
        BY <2>4, <3>2, <3>3, <3>4, <3>5 DEF Kept
    <2>5. CASE Reasked(k)
      <3>1. /\ FetchStarts(k) /\ cache'[k].loaded = cache[k].loaded
            /\ cache'[k].version = cache[k].version /\ cache'[k].of = cache[k].of
        BY <2>5 DEF Reasked, SameData
      <3>2. floor'[k] \in Nat /\ floor'[k] <= version
        BY <1>2, <2>2, <2>5 DEF Reasked
      <3>3. ~Accepted(k)' /\ ~Idle(k)'
        BY <2>3, <3>1 DEF Accepted, Idle
      <3> QED
        BY <2>2, <2>3, <3>1, <3>2, <3>3
    <2>6. CASE Restarted(k)
      <3>1. cache'[k].loaded = FALSE /\ cache'[k].version = 0 /\ floor'[k] = 0
        BY <2>6 DEF Restarted, NoEntry
      <3>2. ~Accepted(k)'
        BY <2>1, <2>3, <2>6 DEF Restarted, Accepted
      <3>3. req'[k].pc # "none" => FetchStarts(k)
        BY <2>1, <2>6 DEF Restarted
      <3> QED
        BY <1>2, <2>3, <3>1, <3>2, <3>3
    <2>7. CASE Stored(k)
      <3>1. /\ cache'[k].version = req[k].body.version /\ cache'[k].of = req[k].body.of
            /\ floor'[k] = floor[k] /\ Accepted(k) /\ req'[k].pc = "none"
        BY <2>1, <2>7 DEF Stored, NoEntry
      <3>2. ~Accepted(k)'
        BY <3>1 DEF Accepted
      <3> QED
        BY <1>2, <2>1, <2>2, <3>1, <3>2
    <2>8. CASE Failed(k)
      <3>1. /\ cache'[k].loaded = cache[k].loaded /\ cache'[k].version = cache[k].version
            /\ cache'[k].of = cache[k].of /\ cache'[k].error /\ floor'[k] = floor[k]
            /\ req'[k].pc = "none"
        BY <2>1, <2>8 DEF Failed, SameData
      <3>2. ~Accepted(k)'
        BY <3>1 DEF Accepted
      <3> QED
        BY <2>2, <3>1, <3>2
    <2> QED
      BY <2>1, <2>4, <2>5, <2>6, <2>7, <2>8 DEF KeyStep
  <1>5. AskedInv'
    BY <1>4 DEF AskedInv, KeyArg
  <1>6. VersionInv'
    BY <1>1, <1>2, <1>3, <1>4 DEF VersionInv
  <1>7. DataInv'
    BY <1>4 DEF DataInv, KeyArg
  <1> QED
    BY <1>5, <1>6, <1>7 DEF ShownInv

LEMMA StepKeepsShown ==
  ASSUME AccessAssumption, KeysApart, AccessInv, CacheInv, ShownInv, [Next]_vars
  PROVE  ShownInv'
  <1>1. CASE TabStep \/ Lose \/ ValidateFails \/ OtherCalls
    BY <1>1, TabTakesShape, TabKeepsShown
  <1>2. ASSUME UNCHANGED <<req, cache, floor>>, version' \in {version, version + 1}
        PROVE  ShownInv'
    <2>1. AskedInv'
      BY <1>2 DEF ShownInv, AskedInv
    <2>2. VersionInv'
      BY <1>2 DEF ShownInv, VersionInv
    <2>3. DataInv'
      BY <1>2 DEF ShownInv, DataInv, Accepted, Idle
    <2> QED
      BY <2>1, <2>2, <2>3 DEF ShownInv
  <1>3. CASE MonitoringGoesOn
    BY <1>2, <1>3 DEF MonitoringGoesOn, MonitoringChanges, Change
  <1>4. CASE Api
    <2>1. CASE Expire /\ UNCHANGED tabVars
      BY <1>2, <2>1 DEF Expire, tabVars
    <2>2. CASE \E s \in Slots : Serve(s) /\ UNCHANGED tabVars
      BY <2>2, ServeTakesShape, ServeKeepsShown DEF ShownInv
    <2> QED
      BY <1>4, <2>1, <2>2 DEF Api
  <1>5. CASE UNCHANGED vars
    BY <1>2, <1>5 DEF vars, accessVars, tabVars
  <1> QED
    BY <1>1, <1>3, <1>4, <1>5 DEF Next

LEMMA StartsWithShown ==
  ASSUME KeysApart, Init
  PROVE  ShownInv
  <1>1. NoRequest.pc = "none" /\ NoRequest.body.version = 0
    BY BodyForms DEF NoRequest
  <1>2. \A s \in Slots : req[s] = NoRequest
    BY DEF Init, AccessInit
  <1>3. \A k \in Keys : k \in Slots /\ floor[k] = 0 /\ cache[k] = NoEntry
    BY DEF Init, TabInit, KeysApart
  <1>4. version = 0
    BY DEF Init, AccessInit
  <1> QED
    BY <1>1, <1>2, <1>3, <1>4 DEF ShownInv, AskedInv, VersionInv, DataInv, NoEntry, Accepted, Idle

\* What is shown, asked for and answered stays in step with the versions of
\* the API, in every interleaving of polls, answers and mutations.
THEOREM ShownHolds == Spec => []ShownInv
  <1>1. Init => ShownInv
    BY StartsWithShown, KeysAreApart, WebClientAssumption
  <1>2. AccessInv /\ CacheInv /\ ShownInv /\ [Next]_vars => ShownInv'
    BY StepKeepsShown, KeysAreApart, AccessAssumption, WebClientAssumption
  <1> QED
    BY <1>1, <1>2, AccessHolds, PTL DEF Spec

\* What is shown under a window, a filter or a page number was asked for with
\* it (the query keys of the pages of apps/web).
THEOREM ShownIsWhatWasPicked == Spec => []ShownMatchesPicked
  <1>1. CacheInv /\ ShownInv => ShownMatchesPicked
    <2> SUFFICES ASSUME CacheInv, ShownInv, NEW k \in Shown, cache[k].loaded,
                        k.name \in ByChoice
                 PROVE  cache[k].of = picked
      BY DEF ShownMatchesPicked
    <2>1. k \in Keys /\ k.choice = picked
      BY KeysAreApart, WebClientAssumption, ActiveForms DEF Shown, CacheInv
    <2> QED
      BY <2>1 DEF ShownInv, DataInv, KeyArg
  <1> QED
    BY <1>1, AccessHolds, ShownHolds, PTL

\* Once the user's own change is answered, no page shows again what it had
\* loaded of the thing changed before (the invalidations of apps/web).
THEOREM ActionsAreSeen == Spec => []FreshAfterAction
  <1>1. CacheInv /\ ShownInv => FreshAfterAction
    <2> SUFFICES ASSUME CacheInv, ShownInv, NEW k \in Shown, cache[k].loaded,
                        ~cache[k].error, Idle(k)
                 PROVE  cache[k].version >= floor[k]
      BY DEF FreshAfterAction
    <2>1. k \in Keys
      BY KeysAreApart, WebClientAssumption, ActiveForms DEF Shown, CacheInv
    <2> QED
      BY <2>1 DEF ShownInv, DataInv, VersionInv
  <1> QED
    BY <1>1, AccessHolds, ShownHolds, PTL

=============================================================================
