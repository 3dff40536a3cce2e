SPECIFICATION Spec
CONSTANTS
  link = link
  permission = permission
  text = text
  chat = chat
  Event = {link, permission, text, chat}
  Kind <- MCKind
  MaxLaunches = 2
INVARIANTS
  TypeOK
  PollsOnlyConfigured
  ToldIsStored
