---------------------------- MODULE MCPluginCache ----------------------------
(***************************************************************************)
(* An instance of PluginCache: the default registry is empty and one of    *)
(* the preferences has a plugin, so that updates which know the second or  *)
(* do not leave different caches; a filter lets the plugin pass or not.    *)
(***************************************************************************)
EXTENDS PluginCache

CustomRegistries == <<"custom">>

PluginsOf == [default |-> <<>>, custom |-> <<"java">>]

Passing == [f \in {"", "php"} |-> IF f = "" THEN {"java"} ELSE {}]

=============================================================================
