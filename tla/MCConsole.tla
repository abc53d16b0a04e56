----------------------------- MODULE MCConsole -----------------------------
(* Values for model checking WebClient: a few ways to use the product,     *)
(* each with its own part of the pages and its own bounds.                 *)
EXTENDS WebClient, TLC

CONSTANTS u1, u2, u3, u4, n1, n2

MCAccounts == u1 :> [email |-> "a", role |-> "ADMIN"] @@ u2 :> [email |-> "o", role |-> "OPERATOR"]

MCNoteAuthor == n1 :> u1

\* Two sessions that last, and one of the tab that may expire.
MCSessions == << [sub |-> u1, role |-> "ADMIN"], [sub |-> u2, role |-> "OPERATOR"],
                 [sub |-> u1, role |-> "ADMIN"] >>

NobodyElse == [others |-> {}, callers |-> {}, calls |-> 0, changes |-> 1]
NoTab == [page |-> "closed", session |-> 0, follow |-> {}, ops |-> {}, moves |-> 0, losses |-> 0,
          changes |-> 0]

\* Other people at once: creations, changes of roles, notes.
ApiUses ==
  { NoTab @@ [others |-> {"createUser", "login"}, callers |-> {1}, calls |-> 2],
    NoTab @@ [others |-> {"updateRole", "acknowledge", "addNote", "editNote"},
              callers |-> {1, 2}, calls |-> 2] }

TabUses ==
  { \* a target paused while its page is polled, its window picked
    NobodyElse @@ [page |-> "/targets/:id", session |-> 1, follow |-> {"target", "metrics"},
                   ops |-> {"pause"}, moves |-> 2, losses |-> 0],
    \* windows picked, and a fetch lost
    NobodyElse @@ [page |-> "/targets/:id", session |-> 1, follow |-> {"metrics"},
                   ops |-> {}, moves |-> 2, losses |-> 1],
    \* an incident acknowledged, and fetches lost
    NobodyElse @@ [page |-> "/incidents/:id", session |-> 1, follow |-> {"incident"},
                   ops |-> {"acknowledge"}, moves |-> 2, losses |-> 2],
    \* a session that ends, and a login
    NobodyElse @@ [page |-> "/", session |-> 3, follow |-> {"summary"},
                   ops |-> {}, moves |-> 2, losses |-> 1],
    \* the users' page while somebody changes a role
    [others |-> {"updateRole"}, callers |-> {1}, calls |-> 1, changes |-> 0]
      @@ [page |-> "/admin/users", session |-> 1, follow |-> {"users"},
          ops |-> {"createUser"}, moves |-> 1, losses |-> 0],
    \* a target created, and its page
    NobodyElse @@ [page |-> "/targets/new", session |-> 1, follow |-> {"targets", "target"},
                   ops |-> {"createTarget", "archive"}, moves |-> 2, losses |-> 0] }

MCUses == ApiUses \cup TabUses

Others == {[name |-> "other", choice |-> c] : c \in Choices}
MCSlots == TabSlots \cup Others
=============================================================================
