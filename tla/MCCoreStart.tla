----------------------------- MODULE MCCoreStart -----------------------------
(* An instance of CoreStart for TLC: core's pack and three of programs. "over" *)
(* has a file where another has a directory, "top" has files that only the     *)
(* second template reaches, and "own" has a base directory of its own.         *)
EXTENDS CoreStart

lua == <<"l", "u", "a">>
name(n) == <<n>>
file0 == File(0, 1)

MCTree ==
  [core |-> (<<lua>> :> Dir @@ <<lua, name("base")>> :> Dir
             @@ <<lua, name("base"), name("copy.lua")>> :> file0
             @@ <<lua, name("json")>> :> Dir
             @@ <<lua, name("json"), name("json.lua")>> :> file0),
   over |-> (<<lua>> :> Dir @@ <<lua, name("json.lua")>> :> Dir
             @@ <<lua, name("json.lua"), name("x")>> :> file0
             @@ <<lua, name("json")>> :> file0),
   top  |-> (<<name("json.lua")>> :> file0 @@ <<name("json")>> :> Dir
             @@ <<name("json"), name("json.lua")>> :> file0),
   own  |-> (<<lua>> :> Dir @@ <<lua, name("json.lua")>> :> file0
             @@ <<lua, name("base")>> :> Dir @@ <<lua, name("base"), name("d")>> :> Dir
             @@ <<lua, name("base"), name("d"), name("own.lua")>> :> file0
             @@ <<lua \o name("base") \o name("copy.lua")>> :> file0)]

MCPacks == DOMAIN MCTree
MCBase == lua \o <<"/", "base">>
MCModules == {"json", "json.json"}

\* ?.lua below a prefix, "." of the module's name replaced by "/"
Template(prefix) ==
  [m \in MCModules |->
     prefix \o (IF m = "json" THEN <<"json.lua">> ELSE <<"json", "/", "json.lua">>)]
MCTemplates == <<Template(lua \o <<"/">>), Template(<<>>)>>

Symmetry == Permutations(VMs)

=============================================================================
