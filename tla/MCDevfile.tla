------------------------------ MODULE MCDevfile ------------------------------
(***************************************************************************)
(* Instances of DevfileWriters: devfiles that have something of everything *)
(* the conversions treat apart, two plugins, one with two versions.        *)
(***************************************************************************)
EXTENDS DevfileWriters, TLC

\* The plugin of the default registry, and one of a registry of the user's.
Default(v) == [version |-> v, key |-> "red/p/" \o v, shortKey |-> "red/p/" \o v]
Custom == [version |-> "1", key |-> "http://my/p/q/1", shortKey |-> "my/q/1"]

MCCatalog == [p |-> <<Default("1"), Default("2")>>, q |-> <<Custom>>]

Machine ==
  [type |-> "dockerimage", alias |-> "m", image |-> "i", mountSources |-> "true",
   memoryLimit |-> "1G",
   env |-> <<[name |-> "E", value |-> ""]>>,
   volumes |-> <<[name |-> "v", containerPath |-> "/v"]>>,
   endpoints |-> <<[name |-> "e", port |-> "80",
                    attributes |-> [type |-> "ide", public |-> "false"]],
                   [name |-> "f", port |-> "81"]>>]

Editor == [type |-> "cheEditor", id |-> "red/editor/1", mountSources |-> "true"]

Limited == [type |-> "chePlugin", id |-> "red/p/1", memoryLimit |-> "1G"]

Plugin == [type |-> "chePlugin", reference |-> MetaYaml("http://my/p/q/1"),
           alias |-> "q", preferences |-> "tabs", cpuLimit |-> "1"]

Named == [type |-> "chePlugin", id |-> "my/q/1", registryUrl |-> "http://my"]

Recipe == [type |-> "kubernetes", alias |-> "k", reference |-> "r", selector |-> "s"]

Run == [name |-> "run", previewUrl |-> "u", actions |->
          <<[type |-> "exec", command |-> "c", component |-> "m", workdir |-> "/"],
            [type |-> "exec", command |-> "d"]>>]
Debug == [name |-> "debug",
          actions |-> <<[type |-> "vscode-launch", referenceContent |-> "l"]>>]
Task == [name |-> "task",
         actions |-> <<[type |-> "vscode-task", reference |-> "t"]>>]

Tagged == [name |-> "a", source |-> [type |-> "github", location |-> "l1", tag |-> "1.0",
                                     sparseCheckoutDir |-> "docs"]]
Pinned == [name |-> "b", clonePath |-> <<"d", "b">>,
           source |-> [type |-> "git", location |-> "l1", branch |-> "main",
                       startPoint |-> "main"]]
Archive == [name |-> "a", source |-> [type |-> "zip", location |-> "z"]]

Full == [metadata |-> [generateName |-> "w-"], attributes |-> [x |-> "1"],
         projects |-> <<Tagged, Pinned>>,
         components |-> <<Editor, Machine, Plugin, Recipe, Limited>>,
         commands |-> <<Run, Debug, Task>>]

Small == [metadata |-> [name |-> "w", generateName |-> "w-"],
          attributes |-> [infrastructureNamespace |-> "old", x |-> "1"],
          projects |-> <<Archive>>, components |-> <<Named>>, commands |-> <<>>]

MCDevfiles == {Full, Small}

MCChanges ==
  {[kind |-> "update", path |-> <<"a">>, url |-> "l2", branch |-> "dev"],
   [kind |-> "delete", path |-> <<"a">>],
   [kind |-> "update", path |-> <<"d", "b">>, url |-> "l1", branch |-> "dev"]}

Clicks == Permutations(Calls)

=============================================================================
