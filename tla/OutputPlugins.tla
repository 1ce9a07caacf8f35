--------------------------- MODULE OutputPlugins ---------------------------
(***************************************************************************)
(* The value of telemetry's --output, TYPE:NAME=VALUE,NAME=VALUE,...       *)
(* (main.cpp, outputPlugin.cpp, pluginFactory.hpp).  An option is the word *)
(* up to the first ':' and the items between the commas after it, their    *)
(* spaces removed: no items when nothing follows the word, but one blank   *)
(* item when only spaces do, since parseParams looks whether there is      *)
(* anything before it removes them.  An item without '=' has no value.     *)
(*                                                                         *)
(* The value of an interval is what std::stof and `<= 0` make of it:       *)
(* "positive", which includes nan, infinity and times too small or too     *)
(* large for the cast to milliseconds (ncurses-stdout-plugin.cpp:94), or   *)
(* "notPositive", or "notANumber".                                         *)
(***************************************************************************)
EXTENDS Sequences

Nothing == ""

\* the manifests put into the factory by static initialisers
RegisteredPlugins == {"appfs", "stdout"}

\* parseParams returns: no item lacks its name or value, no name comes twice
ParamsParse(items) ==
  /\ \A i \in DOMAIN items : items[i].name # Nothing /\ items[i].value # Nothing
  /\ \A i, j \in DOMAIN items : items[i].name = items[j].name => i = j

\* and the map it returns
ParseParams(items) ==
  [name \in {items[i].name : i \in DOMAIN items} |->
     LET at == CHOOSE i \in DOMAIN items : items[i].name = name
     IN  items[at].value]

\* validateParams returns; names a plugin does not know are ignored
ValidateInterval(params) == "interval" \in DOMAIN params => params["interval"] = "positive"
ValidateMountPoint(params) == "mountPoint" \in DOMAIN params /\ params["mountPoint"] # Nothing

\* the constructor of the plugin accepts the parameters
ConstructPlugin(plugin, params) ==
  \/ plugin = "stdout" /\ ValidateInterval(params)
  \/ plugin = "appfs" /\ ValidateMountPoint(params)

\* createPlugin finds the plugin and constructs it
CreatePlugin(option) ==
  /\ option.plugin \in RegisteredPlugins
  /\ ParamsParse(option.items)
  /\ ConstructPlugin(option.plugin, ParseParams(option.items))

=============================================================================
