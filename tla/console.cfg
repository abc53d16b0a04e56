SPECIFICATION Spec
CONSTANTS
  u1 = u1
  u2 = u2
  u3 = u3
  u4 = u4
  n1 = n1
  n2 = n2
  NoOne = NoOne
  UserIds = {u1, u2, u3, u4}
  Accounts <- MCAccounts
  NoteIds = {n1, n2}
  NoteAuthor <- MCNoteAuthor
  Sessions <- MCSessions
  Lasting = {1, 2}
  Slots <- MCSlots
  OtherSlots <- Others
  Choices = {"day", "week"}
  DefaultChoice = "day"
  Emails = {"a", "n"}
  Uses <- MCUses
INVARIANTS OneAccountPerEmail ShownMatchesPicked FreshAfterAction
PROPERTIES EffectsAuthorized CatchesUp
CHECK_DEADLOCK FALSE
