CONSTANTS
  user = user
  thing = thing
  shade = shade
  Objects = {user, thing, shade}
  Users = {user}
  AddsActions = {thing, shade}
  Shadows = {shade}
  MaxEfuns = 7
  MaxDepth = 2
  NoObject = NoObject
SPECIFICATION Spec
INVARIANTS
  TypeOK
  InventoryMatches
  ShadowsMatch
  ActionsAreNear
  RestrictMatches
