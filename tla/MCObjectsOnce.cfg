CONSTANTS
  user = user
  thing = thing
  shade = shade
  Objects = {user, thing, shade}
  Users = {user}
  AddsActions = {thing}
  Shadows = {shade}
  MaxEfuns = 6
  MaxDepth = 2
  NoObject = NoObject
SPECIFICATION Spec
INVARIANT DestructedOnce
