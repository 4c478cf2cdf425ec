CONSTANTS
  VMs = {v1, v2}
  Packs <- MCPacks
  Core = "core"
  Tree <- MCTree
  Slash = "/"
  Base <- MCBase
  Modules <- MCModules
  Templates <- MCTemplates
  Nothing = Nothing
  Missing = Missing
  Syntax = Syntax
  MaxPacks = 3
SPECIFICATION Spec
INVARIANTS
  BaseScriptsLoaded
