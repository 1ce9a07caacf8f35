--------------------------- MODULE MCNemeaModule ---------------------------
(***************************************************************************)
(* Values of --output for checking NemeaModule: both plugins, and options  *)
(* that are refused (a blank, an item without a value, a name given twice, *)
(* a missing mount point, a plugin that is not registered).                *)
(***************************************************************************)
EXTENDS NemeaModule

Option(plugin, items) == [plugin |-> plugin, items |-> items]
Item(name, value) == [name |-> name, value |-> value]

Interval(value) == Item("interval", value)
MountPoint == Item("mountPoint", "path")

MCOutputs ==
  {Option("stdout", <<>>),
   Option("stdout", <<Interval("positive")>>),
   Option("stdout", <<Interval("notPositive")>>),
   Option("stdout", <<Item(Nothing, Nothing)>>),
   Option("appfs", <<MountPoint, Item("other", "positive")>>),
   Option("appfs", <<MountPoint, MountPoint>>),
   Option("appfs", <<Item("mountPoint", Nothing)>>),
   Option("appfs", <<>>),
   Option("json", <<>>)}
=============================================================================
