------------------------- MODULE DevfileWritersProofs -------------------------
(***************************************************************************)
(* What the devfile's two writers keep, for every catalog of plugins, every *)
(* devfile the Che server accepts and every set of project changes.        *)
(*                                                                         *)
(* First the conversions, one object at a time: what a component, command, *)
(* project or devfile is after a round trip through version 2, whatever    *)
(* fields it has.  Then lists, and what setWorkspacePlugins and the project *)
(* updaters make of one.  Then the invariants, each on top of the others:  *)
(*   Types         the shapes of the state, the devfile always acceptable  *)
(*   SavesBounded  a save comes from a call or a change, once              *)
(*   Fresh         what a writer no save has crossed holds is up to date   *)
(*   OnePerPlugin, a key the browser lists is the devfile's, or the answer *)
(*   Explained     that takes it off the list is under way                 *)
(*   Distinct      two projects never come to share a directory            *)
(*   Followed      the last change of a path is on the chain, or recorded  *)
(***************************************************************************)
EXTENDS DevfileWriters, FiniteSetTheorems, SequenceTheorems, TLAPS

-----------------------------------------------------------------------------
(* The parts of a component *)

LEMMA VolumeKept ==
  ASSUME NEW volume
  PROVE  VolumeV2toV1(VolumeV1toV2(volume)) = KeptVolume(volume)
BY DEF VolumeV2toV1, VolumeV1toV2, Copied, KeptVolume, Restricted, Without

LEMMA EnvKept ==
  ASSUME NEW env
  PROVE  EnvV2toV1(EnvV1toV2(env)) = KeptEnv(env)
BY DEF EnvV2toV1, EnvV1toV2, Copied, Same, KeptEnv, Restricted, Without

LEMMA EndpointKept ==
  ASSUME NEW endpoint, IsEndpoint(endpoint)
  PROVE  EndpointV2toV1(EndpointV1toV2(endpoint)) = KeptEndpoint(endpoint)
<1> DEFINE e == EndpointV1toV2(endpoint)
<1>1. /\ "name" \in DOMAIN e <=> "name" \in DOMAIN endpoint
      /\ "targetPort" \in DOMAIN e <=> "port" \in DOMAIN endpoint
      /\ "attributes" \in DOMAIN e <=> "attributes" \in DOMAIN endpoint
      /\ "name" \in DOMAIN e => e["name"] = endpoint["name"]
      /\ "targetPort" \in DOMAIN e => e["targetPort"] = endpoint["port"]
      /\ "attributes" \in DOMAIN endpoint =>
           e["attributes"] = [a \in DOMAIN endpoint.attributes |->
                             IF a = "type" /\ endpoint.attributes[a] = "ide"
                             THEN "main" ELSE endpoint.attributes[a]]
  BY DEF EndpointV1toV2, Copied, ++, Empty
<1> HIDE DEF e
<1>2. DOMAIN EndpointV2toV1(e) = DOMAIN endpoint \cap {"name", "port", "attributes"}
  BY <1>1 DEF EndpointV2toV1, Copied
<1>3. ASSUME "attributes" \in DOMAIN endpoint
      PROVE  e["attributes"] =
        IF "type" \in DOMAIN endpoint["attributes"] /\ endpoint["attributes"]["type"] = "ide"
        THEN [endpoint["attributes"] EXCEPT !["type"] = "main"] ELSE endpoint["attributes"]
  BY <1>1, <1>3 DEF IsEndpoint, IsObject
<1>4. \A f \in {"name", "port"} \cap DOMAIN endpoint : EndpointV2toV1(e)[f] = endpoint[f]
  BY <1>1 DEF EndpointV2toV1, Copied
<1>5. "attributes" \in DOMAIN endpoint => EndpointV2toV1(e)["attributes"] = e["attributes"]
  BY <1>1 DEF EndpointV2toV1, Copied
<1>6. EndpointV2toV1(e) = [f \in DOMAIN EndpointV2toV1(e) |-> EndpointV2toV1(e)[f]]
  BY DEF EndpointV2toV1, Copied
<1> QED BY <1>2, <1>3, <1>4, <1>5, <1>6 DEF KeptEndpoint, e

-----------------------------------------------------------------------------
(* A component's lists, then a component. *)

LEMMA ListsForth ==
  ASSUME NEW component
  PROVE  LET lists == ListsV1toV2(component)
         IN  /\ \A f : f \in DOMAIN lists <=>
                  \/ f = "env" /\ "env" \in DOMAIN component
                  \/ f = "volumeMounts" /\ "volumes" \in DOMAIN component
                  \/ f = "endpoints" /\ "endpoints" \in DOMAIN component
             /\ "env" \in DOMAIN component => lists["env"] = Each(component["env"], EnvV1toV2)
             /\ "volumes" \in DOMAIN component =>
                  lists["volumeMounts"] = Each(component["volumes"], VolumeV1toV2)
             /\ "endpoints" \in DOMAIN component =>
                  lists["endpoints"] = Each(component["endpoints"], EndpointV1toV2)
BY DEF ListsV1toV2, List, Field, ++, Empty, Each

LEMMA ListsBack ==
  ASSUME NEW part
  PROVE  LET lists == ListsV2toV1(part)
         IN  /\ \A f : f \in DOMAIN lists <=>
                  \/ f = "env" /\ "env" \in DOMAIN part
                  \/ f = "volumes" /\ "volumeMounts" \in DOMAIN part
                  \/ f = "endpoints" /\ "endpoints" \in DOMAIN part
             /\ "env" \in DOMAIN part => lists["env"] = Each(part["env"], EnvV2toV1)
             /\ "volumeMounts" \in DOMAIN part =>
                  lists["volumes"] = Each(part["volumeMounts"], VolumeV2toV1)
             /\ "endpoints" \in DOMAIN part =>
                  lists["endpoints"] = Each(part["endpoints"], EndpointV2toV1)
BY DEF ListsV2toV1, List, Field, ++, Empty, Each

LEMMA EnvListKept ==
  ASSUME NEW list
  PROVE  Each(Each(list, EnvV1toV2), EnvV2toV1) = Each(list, KeptEnv)
BY EnvKept DEF Each

LEMMA VolumeListKept ==
  ASSUME NEW list
  PROVE  Each(Each(list, VolumeV1toV2), VolumeV2toV1) = Each(list, KeptVolume)
BY VolumeKept DEF Each

LEMMA EndpointListKept ==
  ASSUME NEW list, \A i \in DOMAIN list : IsEndpoint(list[i])
  PROVE  Each(Each(list, EndpointV1toV2), EndpointV2toV1) = Each(list, KeptEndpoint)
BY EndpointKept DEF Each

LimitNames == {"cpuLimit", "cpuRequest", "memoryLimit", "memoryRequest"}

LEMMA FieldNames ==
  /\ ContainerFields = Same(LimitNames \cup {"image", "command", "args", "mountSources"})
  /\ PluginFields = [f \in LimitNames \cup {"id", "preferences", "registryUrl", "url"} |->
                       IF f = "url" THEN "reference" ELSE f]
  /\ PluginFieldsBack =
       [f \in LimitNames \cup {"id", "preferences", "registryUrl", "mountSources", "reference"} |->
          IF f = "reference" THEN "url" ELSE f]
BY DEF ContainerFields, PluginFields, PluginFieldsBack, Limits, Same, ++, LimitNames

\* Two objects that agree field by field.
LEMMA SameObjects ==
  ASSUME NEW D, NEW a, NEW b, a = [f \in DOMAIN a |-> a[f]], b = [f \in DOMAIN b |-> b[f]],
         DOMAIN a = D, DOMAIN b = D, \A f \in D : a[f] = b[f]
  PROVE  a = b
OBVIOUS

LEMMA Merged ==
  \A a, b : /\ IsObject(a ++ b)
            /\ \A f : f \in DOMAIN (a ++ b) <=> f \in DOMAIN a \/ f \in DOMAIN b
            /\ \A f : f \in DOMAIN a => (a ++ b)[f] = a[f]
            /\ \A f : f \in DOMAIN b /\ f \notin DOMAIN a => (a ++ b)[f] = b[f]
BY DEF ++, IsObject

LEMMA CopiedFields ==
  \A from, names :
    /\ IsObject(Copied(from, names))
    /\ \A f : f \in DOMAIN Copied(from, names) <=> f \in DOMAIN names /\ names[f] \in DOMAIN from
    /\ \A f : f \in DOMAIN names /\ names[f] \in DOMAIN from =>
                Copied(from, names)[f] = from[names[f]]
BY DEF Copied, IsObject

LEMMA OneField ==
  \A f, x : IsObject(Field(f, x)) /\ Field(f, x)[f] = x /\ \A g : g \in DOMAIN Field(f, x) <=> g = f
BY DEF Field, IsObject

ListNames == {"env", "volumes", "endpoints"}

LEMMA ListsKept ==
  ASSUME NEW component, HasEndpoints(component), NEW part,
         \A f \in {"env", "volumeMounts", "endpoints"} :
           /\ f \in DOMAIN part <=> f \in DOMAIN ListsV1toV2(component)
           /\ f \in DOMAIN part => part[f] = ListsV1toV2(component)[f]
  PROVE  /\ \A f : f \in DOMAIN ListsV2toV1(part) <=> f \in ListNames /\ f \in DOMAIN component
         /\ \A f \in ListNames : f \in DOMAIN component =>
              ListsV2toV1(part)[f] = KeptLists(component)[f]
<1>1. /\ "env" \in DOMAIN part <=> "env" \in DOMAIN component
      /\ "volumeMounts" \in DOMAIN part <=> "volumes" \in DOMAIN component
      /\ "endpoints" \in DOMAIN part <=> "endpoints" \in DOMAIN component
  BY ListsForth
<1>2. \A f : f \in DOMAIN ListsV2toV1(part) <=> f \in ListNames /\ f \in DOMAIN component
  BY <1>1, ListsBack DEF ListNames
<1>3. ASSUME "env" \in DOMAIN component
      PROVE  ListsV2toV1(part)["env"] = Each(component["env"], KeptEnv)
  <2>1. part["env"] = Each(component["env"], EnvV1toV2)
    BY <1>1, <1>3, ListsForth
  <2> QED BY <1>1, <1>3, <2>1, ListsBack, EnvListKept
<1>4. ASSUME "volumes" \in DOMAIN component
      PROVE  ListsV2toV1(part)["volumes"] = Each(component["volumes"], KeptVolume)
  <2>1. part["volumeMounts"] = Each(component["volumes"], VolumeV1toV2)
    BY <1>1, <1>4, ListsForth
  <2> QED BY <1>1, <1>4, <2>1, ListsBack, VolumeListKept
<1>5. ASSUME "endpoints" \in DOMAIN component
      PROVE  ListsV2toV1(part)["endpoints"] = Each(component["endpoints"], KeptEndpoint)
  <2>1. part["endpoints"] = Each(component["endpoints"], EndpointV1toV2)
    BY <1>1, <1>5, ListsForth
  <2>2. Each(Each(component["endpoints"], EndpointV1toV2), EndpointV2toV1)
          = Each(component["endpoints"], KeptEndpoint)
    BY <1>5, EndpointListKept DEF HasEndpoints
  <2> QED BY <1>1, <1>5, <2>1, <2>2, ListsBack
<1>6. /\ "env" \in DOMAIN component => KeptLists(component)["env"] = Each(component["env"], KeptEnv)
      /\ "volumes" \in DOMAIN component =>
           KeptLists(component)["volumes"] = Each(component["volumes"], KeptVolume)
      /\ "endpoints" \in DOMAIN component =>
           KeptLists(component)["endpoints"] = Each(component["endpoints"], KeptEndpoint)
  BY DEF KeptLists, Each
<1> QED BY <1>2, <1>3, <1>4, <1>5, <1>6 DEF ListNames

LEMMA KeptFields ==
  ASSUME NEW component, NEW names
  PROVE  LET kept == KeptLists(Restricted(component, names))
         IN  /\ IsObject(kept)
             /\ \A f : f \in DOMAIN kept <=> f \in names /\ f \in DOMAIN component
             /\ \A f : f \in names /\ f \in DOMAIN component =>
                  kept[f] = IF f \in ListNames THEN KeptLists(component)[f] ELSE component[f]
<1> DEFINE r == Restricted(component, names)
<1>1. /\ \A f : f \in DOMAIN r <=> f \in names /\ f \in DOMAIN component
      /\ \A f : f \in names /\ f \in DOMAIN component => r[f] = component[f]
  BY DEF Restricted, Without
<1> HIDE DEF r
<1>2. IsObject(KeptLists(r)) /\ DOMAIN KeptLists(r) = DOMAIN r
  BY DEF IsObject, KeptLists
<1>3. ASSUME NEW f, f \in names, f \in DOMAIN component
      PROVE  KeptLists(r)[f] = IF f \in ListNames THEN KeptLists(component)[f] ELSE component[f]
  BY <1>1, <1>3 DEF KeptLists, Each, ListNames
<1> QED BY <1>1, <1>2, <1>3 DEF r

LEMMA MachineKept ==
  ASSUME NEW component, HasEndpoints(component),
         "type" \in DOMAIN component, component.type = "dockerimage"
  PROVE  ComponentV2toV1(ComponentV1toV2(component)) = KeptComponent(component)
<1> DEFINE c == ComponentV1toV2(component)
           container == Copied(component, ContainerFields) ++ ListsV1toV2(component)
           back == ComponentV2toV1(c)
           names == LimitNames \cup {"image", "command", "args", "mountSources"}
           kept == KeptComponent(component)
<1>1. /\ \A f : f \in DOMAIN c <=> f = "container" \/ (f = "name" /\ "alias" \in DOMAIN component)
      /\ c["container"] = container
      /\ "alias" \in DOMAIN component => c["name"] = component["alias"]
  <2> DEFINE a == [name |-> "alias"]
             r == [container |-> container]
  <2>1. c = Copied(component, a) ++ r
    BY DEF ComponentV1toV2
  <2>2. r["container"] = container /\ a["name"] = "alias"
        /\ (\A f : f \in DOMAIN r <=> f = "container") /\ (\A f : f \in DOMAIN a <=> f = "name")
    OBVIOUS
  <2> HIDE DEF a, r, c, container
  <2> QED BY <2>1, <2>2, Merged, CopiedFields
<1>2. /\ \A f : f \in DOMAIN container <=> \/ f \in names /\ f \in DOMAIN component
                                          \/ f \in DOMAIN ListsV1toV2(component)
      /\ \A f \in names : f \in DOMAIN component => container[f] = component[f]
      /\ \A f \in {"env", "volumeMounts", "endpoints"} :
           f \in DOMAIN ListsV1toV2(component) => container[f] = ListsV1toV2(component)[f]
  <2>1. \A f \in {"env", "volumeMounts", "endpoints"} : f \notin names
    BY DEF LimitNames
  <2> HIDE DEF names
  <2>2. (\A f : f \in DOMAIN ContainerFields <=> f \in names) /\ \A f \in names : ContainerFields[f] = f
    BY FieldNames DEF names, Same
  <2> QED BY <2>1, <2>2, CopiedFields, Merged
<1> HIDE DEF container, c
<1>3. back = [type |-> "dockerimage"] ++ Copied(c, [alias |-> "name"])
               ++ Copied(container, ContainerFields) ++ ListsV2toV1(container)
  BY <1>1 DEF ComponentV2toV1
<1>4. /\ IsObject(back)
      /\ \A f : f \in DOMAIN back <=>
           f = "type" \/ (f \in names \cup {"alias"} \cup ListNames /\ f \in DOMAIN component)
      /\ back["type"] = "dockerimage"
      /\ "alias" \in DOMAIN component => back["alias"] = component["alias"]
      /\ \A f \in names : f \in DOMAIN component => back[f] = component[f]
      /\ \A f \in ListNames : f \in DOMAIN component => back[f] = KeptLists(component)[f]
  <2> DEFINE a == [alias |-> "name"]
             t == [type |-> "dockerimage"]
             lists == ListsV2toV1(container)
  <2>1. /\ a["alias"] = "name" /\ \A f : f \in DOMAIN a <=> f = "alias"
        /\ t["type"] = "dockerimage" /\ \A f : f \in DOMAIN t <=> f = "type"
    OBVIOUS
  <2>2. {"type", "alias"} \cap (names \cup ListNames) = {} /\ names \cap ListNames = {}
        /\ "volumeMounts" \notin names
    BY DEF LimitNames, ListNames
  <2> HIDE DEF names
  <2>3. (\A f : f \in DOMAIN ContainerFields <=> f \in names) /\ \A f \in names : ContainerFields[f] = f
    BY FieldNames DEF names, Same
  <2>4. /\ \A f : f \in DOMAIN lists <=> f \in ListNames /\ f \in DOMAIN component
        /\ \A f \in ListNames : f \in DOMAIN component => lists[f] = KeptLists(component)[f]
    <3>1. \A f \in {"env", "volumeMounts", "endpoints"} :
           /\ f \in DOMAIN container <=> f \in DOMAIN ListsV1toV2(component)
           /\ f \in DOMAIN container => container[f] = ListsV1toV2(component)[f]
      BY <1>2, <2>2 DEF ListNames
    <3> QED BY <3>1, ListsKept
  <2> DEFINE x == Copied(c, a)
             y == Copied(container, ContainerFields)
  <2>5. back = t ++ x ++ y ++ lists
    BY <1>3
  <2> HIDE DEF a, t, lists, back
  <2>6. /\ \A f : f \in DOMAIN x <=> f = "alias" /\ "alias" \in DOMAIN component
        /\ "alias" \in DOMAIN component => x["alias"] = component["alias"]
    BY <1>1, <2>1, CopiedFields
  <2>7. /\ \A f : f \in DOMAIN y <=> f \in names /\ f \in DOMAIN component
        /\ \A f \in names : f \in DOMAIN component => y[f] = component[f]
    BY <1>2, <2>2, <2>3, CopiedFields, ListsForth
  <2> HIDE DEF x, y
  <2>8. IsObject(back)
    BY <2>5, Merged
  <2>9. \A f : f \in DOMAIN back <=>
           f = "type" \/ (f \in names \cup {"alias"} \cup ListNames /\ f \in DOMAIN component)
    BY <2>1, <2>4, <2>5, <2>6, <2>7, Merged
  <2>10. back["type"] = "dockerimage"
    BY <2>1, <2>5, Merged
  <2>11. "alias" \in DOMAIN component => back["alias"] = component["alias"]
    BY <2>1, <2>5, <2>6, Merged
  <2>12. \A f \in names : f \in DOMAIN component => back[f] = component[f]
    BY <2>1, <2>2, <2>5, <2>6, <2>7, Merged
  <2>13. \A f \in ListNames : f \in DOMAIN component => back[f] = KeptLists(component)[f]
    BY <2>1, <2>2, <2>4, <2>5, <2>6, <2>7, Merged
  <2> QED BY <2>8, <2>9, <2>10, <2>11, <2>12, <2>13
<1>5. kept = KeptLists(Restricted(component, CommonFields \cup {"image", "command", "args", "mountSources"}))
  BY DEF KeptComponent
<1> HIDE DEF back, kept
<1>6. /\ IsObject(kept)
      /\ \A f : f \in DOMAIN kept <=>
           f \in names \cup {"type", "alias"} \cup ListNames /\ f \in DOMAIN component
      /\ \A f : f \in names \cup {"type", "alias"} \cup ListNames /\ f \in DOMAIN component =>
           kept[f] = IF f \in ListNames THEN KeptLists(component)[f] ELSE component[f]
  <2>1. CommonFields \cup {"image", "command", "args", "mountSources"}
          = names \cup {"type", "alias"} \cup ListNames
    BY DEF CommonFields, LimitNames, ListNames
  <2> QED BY <1>5, <2>1, KeptFields
<1> QED
  <2>1. {"type", "alias"} \cap ListNames = {} /\ names \cap ListNames = {}
    BY DEF LimitNames, ListNames
  <2> HIDE DEF names
  <2>2. DOMAIN back = DOMAIN kept /\ \A f \in DOMAIN back : back[f] = kept[f]
    BY <1>4, <1>6, <2>1
  <2>3. back = kept
    BY <1>4, <1>6, <2>2 DEF IsObject
  <2> QED BY <2>3 DEF back, kept, c

LEMMA PluginKept ==
  ASSUME NEW component, HasEndpoints(component),
         "type" \in DOMAIN component, component.type \in {"chePlugin", "cheEditor"}
  PROVE  ComponentV2toV1(ComponentV1toV2(component)) = KeptComponent(component)
<1> DEFINE type == component.type
           c == ComponentV1toV2(component)
           plugin == Copied(component, PluginFields) ++ ListsV1toV2(component)
           back == ComponentV2toV1(c)
           names == LimitNames \cup {"id", "preferences", "registryUrl", "reference"}
           kept == KeptComponent(component)
<1>1. /\ \A f : f \in DOMAIN c <=> f \in {"plugin", "attributes"} \/ (f = "name" /\ "alias" \in DOMAIN component)
      /\ c["plugin"] = plugin
      /\ "source-origin" \in DOMAIN c["attributes"] /\ c["attributes"]["source-origin"] = type
      /\ "alias" \in DOMAIN component => c["name"] = component["alias"]
  <2> DEFINE a == [name |-> "alias"]
             o == Field("source-origin", type)
             r == [plugin |-> plugin, attributes |-> o]
  <2>1. c = Copied(component, a) ++ r
    BY DEF ComponentV1toV2
  <2>2. r["plugin"] = plugin /\ r["attributes"] = o /\ a["name"] = "alias"
        /\ (\A f : f \in DOMAIN r <=> f \in {"plugin", "attributes"}) /\ (\A f : f \in DOMAIN a <=> f = "name")
    OBVIOUS
  <2>3. "source-origin" \in DOMAIN o /\ o["source-origin"] = type
    BY OneField
  <2> HIDE DEF a, o, r, c, plugin
  <2> QED BY <2>1, <2>2, <2>3, Merged, CopiedFields
<1>2. /\ \A f : f \in DOMAIN plugin <=>
           \/ f \in names \ {"reference"} /\ f \in DOMAIN component
           \/ f = "url" /\ "reference" \in DOMAIN component
           \/ f \in DOMAIN ListsV1toV2(component)
      /\ \A f \in names \ {"reference"} : f \in DOMAIN component => plugin[f] = component[f]
      /\ "reference" \in DOMAIN component => plugin["url"] = component["reference"]
      /\ \A f \in {"env", "volumeMounts", "endpoints"} :
           f \in DOMAIN ListsV1toV2(component) => plugin[f] = ListsV1toV2(component)[f]
  <2>1. /\ \A f \in {"env", "volumeMounts", "endpoints"} : f \notin names \cup {"url"}
        /\ "url" \notin names
    BY DEF LimitNames
  <2>2. /\ \A f : f \in DOMAIN PluginFields <=> f = "url" \/ f \in names \ {"reference"}
        /\ \A f \in names \ {"reference"} : PluginFields[f] = f
        /\ PluginFields["url"] = "reference"
    BY FieldNames DEF LimitNames
  <2> HIDE DEF names
  <2> QED BY <2>1, <2>2, CopiedFields, Merged
<1> HIDE DEF plugin, c, type
<1>3. back = [type |-> type] ++ Copied(c, [alias |-> "name"])
               ++ Copied(plugin, PluginFieldsBack) ++ ListsV2toV1(plugin)
  BY <1>1 DEF ComponentV2toV1
<1>4. /\ IsObject(back)
      /\ \A f : f \in DOMAIN back <=>
           f = "type" \/ (f \in names \cup {"alias"} \cup ListNames /\ f \in DOMAIN component)
      /\ back["type"] = type
      /\ "alias" \in DOMAIN component => back["alias"] = component["alias"]
      /\ \A f \in names : f \in DOMAIN component => back[f] = component[f]
      /\ \A f \in ListNames : f \in DOMAIN component => back[f] = KeptLists(component)[f]
  <2> DEFINE a == [alias |-> "name"]
             t == [type |-> type]
             lists == ListsV2toV1(plugin)
             x == Copied(c, a)
             y == Copied(plugin, PluginFieldsBack)
  <2>1. /\ a["alias"] = "name" /\ \A f : f \in DOMAIN a <=> f = "alias"
        /\ t["type"] = type /\ \A f : f \in DOMAIN t <=> f = "type"
    OBVIOUS
  <2>2. /\ {"type", "alias"} \cap (names \cup ListNames) = {} /\ names \cap ListNames = {}
        /\ {"volumeMounts", "url", "mountSources"} \cap names = {}
        /\ "reference" \in names /\ "url" \notin ListNames
    BY DEF LimitNames, ListNames
  <2>3. /\ \A f : f \in DOMAIN PluginFieldsBack <=> f = "mountSources" \/ f \in names
        /\ \A f \in names \cup {"mountSources"} :
             PluginFieldsBack[f] = IF f = "reference" THEN "url" ELSE f
    BY FieldNames DEF LimitNames
  <2> HIDE DEF names
  <2>4. /\ \A f : f \in DOMAIN lists <=> f \in ListNames /\ f \in DOMAIN component
        /\ \A f \in ListNames : f \in DOMAIN component => lists[f] = KeptLists(component)[f]
    <3>1. \A f \in {"env", "volumeMounts", "endpoints"} :
           /\ f \in DOMAIN plugin <=> f \in DOMAIN ListsV1toV2(component)
           /\ f \in DOMAIN plugin => plugin[f] = ListsV1toV2(component)[f]
      BY <1>2, <2>2 DEF ListNames
    <3> QED BY <3>1, ListsKept
  <2>5. back = t ++ x ++ y ++ lists
    BY <1>3
  <2> HIDE DEF a, t, lists, back
  <2>6. /\ \A f : f \in DOMAIN x <=> f = "alias" /\ "alias" \in DOMAIN component
        /\ "alias" \in DOMAIN component => x["alias"] = component["alias"]
    BY <1>1, <2>1, CopiedFields
  <2>7. /\ \A f : f \in DOMAIN y <=> f \in names /\ f \in DOMAIN component
        /\ \A f \in names : f \in DOMAIN component => y[f] = component[f]
    <3>1. \A f \in names : f # "reference" =>
            (f \in DOMAIN plugin <=> f \in DOMAIN component)
      BY <1>2, <2>2, ListsForth
    <3>2. "url" \in DOMAIN plugin <=> "reference" \in DOMAIN component
      BY <1>2, <2>2, ListsForth
    <3>3. "mountSources" \notin DOMAIN plugin
      BY <1>2, <2>2, ListsForth
    <3> QED BY <1>2, <2>2, <2>3, <3>1, <3>2, <3>3, CopiedFields
  <2> HIDE DEF x, y
  <2>8. IsObject(back)
    BY <2>5, Merged
  <2>9. \A f : f \in DOMAIN back <=>
           f = "type" \/ (f \in names \cup {"alias"} \cup ListNames /\ f \in DOMAIN component)
    BY <2>1, <2>4, <2>5, <2>6, <2>7, Merged
  <2>10. back["type"] = type
    BY <2>1, <2>5, Merged
  <2>11. "alias" \in DOMAIN component => back["alias"] = component["alias"]
    BY <2>1, <2>5, <2>6, Merged
  <2>12. \A f \in names : f \in DOMAIN component => back[f] = component[f]
    BY <2>1, <2>2, <2>5, <2>6, <2>7, Merged
  <2>13. \A f \in ListNames : f \in DOMAIN component => back[f] = KeptLists(component)[f]
    BY <2>1, <2>2, <2>4, <2>5, <2>6, <2>7, Merged
  <2> QED BY <2>8, <2>9, <2>10, <2>11, <2>12, <2>13
<1>5. kept = KeptLists(Restricted(component, CommonFields \cup {"id", "reference", "registryUrl", "preferences"}))
  BY DEF KeptComponent
<1> HIDE DEF back, kept
<1>6. /\ IsObject(kept)
      /\ \A f : f \in DOMAIN kept <=>
           f \in names \cup {"type", "alias"} \cup ListNames /\ f \in DOMAIN component
      /\ \A f : f \in names \cup {"type", "alias"} \cup ListNames /\ f \in DOMAIN component =>
           kept[f] = IF f \in ListNames THEN KeptLists(component)[f] ELSE component[f]
  <2>1. CommonFields \cup {"id", "reference", "registryUrl", "preferences"}
          = names \cup {"type", "alias"} \cup ListNames
    BY DEF CommonFields, LimitNames, ListNames
  <2> QED BY <1>5, <2>1, KeptFields
<1> QED
  <2>1. {"type", "alias"} \cap ListNames = {} /\ names \cap ListNames = {}
    BY DEF LimitNames, ListNames
  <2>2. component["type"] = type
    BY DEF type
  <2> HIDE DEF names
  <2>3. DOMAIN back = DOMAIN kept /\ \A f \in DOMAIN back : back[f] = kept[f]
    BY <1>4, <1>6, <2>1, <2>2
  <2>4. back = kept
    BY <1>4, <1>6, <2>3 DEF IsObject
  <2> QED BY <2>4 DEF back, kept, c

\* A component comes back as Kept says, whatever its type.
LEMMA ComponentKept ==
  ASSUME NEW component, HasEndpoints(component)
  PROVE  ComponentV2toV1(ComponentV1toV2(component)) = KeptComponent(component)
<1> DEFINE type == IF "type" \in DOMAIN component THEN component.type ELSE "none"
<1>1. CASE type = "dockerimage" \/ type \in {"chePlugin", "cheEditor"}
  BY <1>1, MachineKept, PluginKept
<1>2. CASE type \in {"kubernetes", "openshift"}
  <2> DEFINE c == ComponentV1toV2(component)
             a == [name |-> "alias"]
             r == IF type = "kubernetes" THEN [kubernetes |-> [inlined |-> component]]
                  ELSE [openshift |-> [inlined |-> component]]
  <2>1. c = Copied(component, a) ++ r
    BY <1>2 DEF ComponentV1toV2
  <2>2. /\ r[type].inlined = component
        /\ (\A f : f \in DOMAIN r <=> f = type) /\ (\A f : f \in DOMAIN a <=> f = "name")
    BY <1>2
  <2> HIDE DEF a, r, c
  <2>3. type \in DOMAIN c /\ c[type] = r[type] /\ (\A f : f \in DOMAIN c => f \in {type, "name"})
    BY <1>2, <2>1, <2>2, Merged, CopiedFields
  <2>4. ComponentV2toV1(c) = component
    <3>1. CASE type = "kubernetes"
      BY <2>2, <2>3, <3>1 DEF ComponentV2toV1
    <3>2. CASE type = "openshift"
      <4>1. "kubernetes" \notin DOMAIN c
        BY <2>3, <3>2
      <4> QED BY <2>2, <2>3, <3>2, <4>1 DEF ComponentV2toV1
    <3> QED BY <1>2, <3>1, <3>2
  <2>5. KeptComponent(component) = component
    BY <1>2 DEF KeptComponent
  <2> QED BY <2>4, <2>5 DEF c
<1>3. CASE type \notin {"dockerimage", "chePlugin", "cheEditor", "kubernetes", "openshift"}
  <2> DEFINE c == ComponentV1toV2(component)
             a == [name |-> "alias"]
  <2>1. c = Copied(component, a) ++ Empty
    BY <1>3 DEF ComponentV1toV2
  <2>2. (\A f : f \in DOMAIN a <=> f = "name") /\ (\A f : f \notin DOMAIN Empty)
    BY DEF Empty
  <2> HIDE DEF a, c
  <2>3. \A f : f \in DOMAIN c => f = "name"
    BY <2>1, <2>2, Merged, CopiedFields
  <2>4. /\ "kubernetes" \notin DOMAIN c /\ "openshift" \notin DOMAIN c
        /\ "plugin" \notin DOMAIN c /\ "container" \notin DOMAIN c
    BY <2>3
  <2>5. ComponentV2toV1(c) = Empty
    BY <2>4 DEF ComponentV2toV1
  <2>6. KeptComponent(component) = Empty
    BY <1>3 DEF KeptComponent
  <2> QED BY <2>5, <2>6 DEF c
<1> QED BY <1>1, <1>2, <1>3

-----------------------------------------------------------------------------
(* Commands. *)

ActionTypes == {"exec", "vscode-launch", "vscode-task"}

LEMMA ActionKept ==
  ASSUME NEW action, "type" \in DOMAIN action,
         NEW part, NEW names, NEW back, NEW fields,
         \A f : f \in DOMAIN names <=> \E g \in fields : back[g] = f,
         \A g : g \in DOMAIN back <=> g \in fields,
         \A g \in fields : names[back[g]] = g,
         "type" \notin fields,
         part = Copied(action, names)
  PROVE  [type |-> action.type] ++ Copied(part, back) = Restricted(action, {"type"} \cup fields)
<1> DEFINE t == [type |-> action.type]
           x == Copied(part, back)
           kept == Restricted(action, {"type"} \cup fields)
<1>1. t["type"] = action["type"] /\ \A f : f \in DOMAIN t <=> f = "type"
  OBVIOUS
<1>2. /\ \A g : g \in DOMAIN x <=> g \in fields /\ g \in DOMAIN action
      /\ \A g \in fields : g \in DOMAIN action => x[g] = action[g]
  <2>1. \A g \in fields : back[g] \in DOMAIN part <=> g \in DOMAIN action
    BY CopiedFields
  <2>2. \A g \in fields : g \in DOMAIN action => part[back[g]] = action[g]
    BY CopiedFields
  <2> QED BY <2>1, <2>2, CopiedFields
<1>3. /\ IsObject(kept) /\ \A f : f \in DOMAIN kept <=> f \in {"type"} \cup fields /\ f \in DOMAIN action
      /\ \A f : f \in {"type"} \cup fields /\ f \in DOMAIN action => kept[f] = action[f]
  BY DEF Restricted, Without, IsObject
<1> DEFINE y == t ++ x
<1> HIDE DEF t, x, kept
<1>4. /\ IsObject(y) /\ \A f : f \in DOMAIN y <=> f \in DOMAIN t \/ f \in DOMAIN x
      /\ \A f : f \in DOMAIN t => y[f] = t[f]
      /\ \A f : f \in DOMAIN x /\ f \notin DOMAIN t => y[f] = x[f]
  BY Merged
<1> HIDE DEF y
<1>5. DOMAIN y = DOMAIN kept /\ \A f \in DOMAIN kept : y[f] = kept[f]
  BY <1>1, <1>2, <1>3, <1>4
<1>6. y = kept
  BY <1>3, <1>4, <1>5 DEF IsObject
<1> QED BY <1>6 DEF t, x, y, kept

LEMMA CommandKept ==
  ASSUME NEW command, IsCommand(command)
  PROVE  CommandV2toV1(CommandV1toV2(command)) = KeptCommand(command)
<1> DEFINE action == IF "actions" \in DOMAIN command
                     THEN Head(command.actions) ELSE [type |-> "none"]
           a == [id |-> "name"]
           b == [name |-> "id"]
           c == CommandV1toV2(command)
           forth == [commandLine |-> "command", component |-> "component", workingDir |-> "workdir"]
           back == [command |-> "commandLine", component |-> "component", workdir |-> "workingDir"]
           inline == [inline |-> "referenceContent"]
           content == [referenceContent |-> "inline"]
<1>1. /\ a["id"] = "name" /\ \A f : f \in DOMAIN a <=> f = "id"
      /\ b["name"] = "id" /\ \A f : f \in DOMAIN b <=> f = "name"
  OBVIOUS
<1>2. CASE "actions" \in DOMAIN command /\ action.type \in ActionTypes
  <2> DEFINE part == IF action.type = "exec" THEN Copied(action, forth) ELSE Copied(action, inline)
             field == CASE action.type = "exec" -> "exec"
                        [] action.type = "vscode-launch" -> "vscodeLaunch"
                        [] action.type = "vscode-task" -> "vscodeTask"
             r == [f \in {field} |-> part]
             copy == Copied(part, IF action.type = "exec" THEN back ELSE content)
             kept == KeptAction(action)
             d == [actions |-> <<[type |-> action.type] ++ copy>>]
  <2>1. "type" \in DOMAIN action
    BY <1>2 DEF IsCommand
  <2>2. c = Copied(command, a) ++ r
    <3>1. CASE action.type = "exec"
      <4>1. r = [exec |-> part]
        BY <3>1
      <4> QED BY <3>1, <4>1 DEF CommandV1toV2
    <3>2. CASE action.type = "vscode-launch"
      <4>1. r = [vscodeLaunch |-> part]
        BY <3>2
      <4> QED BY <3>2, <4>1 DEF CommandV1toV2
    <3>3. CASE action.type = "vscode-task"
      <4>1. r = [vscodeTask |-> part]
        BY <3>3
      <4> QED BY <3>3, <4>1 DEF CommandV1toV2
    <3> QED BY <1>2, <3>1, <3>2, <3>3 DEF ActionTypes
  <2>3. field \in {"exec", "vscodeLaunch", "vscodeTask"} /\ r[field] = part /\ \A f : f \in DOMAIN r <=> f = field
    BY <1>2 DEF ActionTypes
  <2>4. [type |-> action.type] ++ copy = kept
    <3>1. CASE action.type = "exec"
      <4> DEFINE fields == {"command", "component", "workdir"}
      <4>1. /\ \A f : f \in DOMAIN forth <=> \E g \in fields : back[g] = f
            /\ \A g : g \in DOMAIN back <=> g \in fields
            /\ \A g \in fields : forth[back[g]] = g
            /\ "type" \notin fields
        OBVIOUS
      <4>2. kept = Restricted(action, {"type"} \cup fields)
        BY <3>1 DEF KeptAction
      <4>3. part = Copied(action, forth) /\ copy = Copied(part, back)
        BY <3>1
      <4> HIDE DEF part, copy, kept, forth, back, action, fields
      <4> QED BY <2>1, <4>1, <4>2, <4>3, ActionKept
    <3>2. CASE action.type # "exec"
      <4> DEFINE fields == {"referenceContent"}
      <4>1. /\ \A f : f \in DOMAIN inline <=> \E g \in fields : content[g] = f
            /\ \A g : g \in DOMAIN content <=> g \in fields
            /\ \A g \in fields : inline[content[g]] = g
            /\ "type" \notin fields
        OBVIOUS
      <4>2. kept = Restricted(action, {"type"} \cup fields)
        BY <3>2 DEF KeptAction
      <4>3. part = Copied(action, inline) /\ copy = Copied(part, content)
        BY <3>2
      <4> HIDE DEF part, copy, kept, inline, content, action, fields
      <4> QED BY <2>1, <4>1, <4>2, <4>3, ActionKept
    <3> QED BY <3>1, <3>2
  <2> HIDE DEF r, part, copy, kept, a, b, c
  <2>5. /\ \A f : f \in DOMAIN c <=> f = field \/ (f = "id" /\ "name" \in DOMAIN command)
        /\ c[field] = part
        /\ "name" \in DOMAIN command => c["id"] = command["name"]
    <3> DEFINE x == Copied(command, a)
    <3> HIDE DEF field
    <3>1. /\ \A f : f \in DOMAIN x <=> f = "id" /\ "name" \in DOMAIN command
          /\ "name" \in DOMAIN command => x["id"] = command["name"]
      BY <1>1, CopiedFields
    <3>2. c = x ++ r
      BY <2>2
    <3> HIDE DEF x
    <3> QED BY <2>3, <3>1, <3>2, Merged
  <2>6. CommandV2toV1(c) = Copied(c, b) ++ d
    <3>1. CASE action.type = "exec"
      <4>1. field = "exec"
        BY <3>1
      <4>2. copy = Copied(c["exec"], back)
        BY <2>5, <3>1, <4>1 DEF copy
      <4> HIDE DEF action, back
      <4> QED BY <2>5, <3>1, <4>1, <4>2 DEF CommandV2toV1, b, back
    <3>2. CASE action.type = "vscode-launch"
      <4>1. field = "vscodeLaunch"
        BY <3>2
      <4>2. copy = Copied(c["vscodeLaunch"], content) /\ "exec" \notin DOMAIN c
        BY <2>5, <3>2, <4>1 DEF copy
      <4> HIDE DEF action, content
      <4> QED BY <2>5, <3>2, <4>1, <4>2 DEF CommandV2toV1, b, content
    <3>3. CASE action.type = "vscode-task"
      <4>1. field = "vscodeTask"
        BY <3>3
      <4>2. copy = Copied(c["vscodeTask"], content) /\ "exec" \notin DOMAIN c
            /\ "vscodeLaunch" \notin DOMAIN c
        BY <2>5, <3>3, <4>1 DEF copy
      <4> HIDE DEF action, content
      <4> QED BY <2>5, <3>3, <4>1, <4>2 DEF CommandV2toV1, b, content
    <3> QED BY <1>2, <3>1, <3>2, <3>3 DEF ActionTypes
  <2>7. d["actions"] = <<kept>> /\ \A f : f \in DOMAIN d <=> f = "actions"
    BY <2>4
  <2> HIDE DEF d
  <2>8. /\ IsObject(CommandV2toV1(c))
        /\ \A f : f \in DOMAIN CommandV2toV1(c) <=>
             f = "actions" \/ (f = "name" /\ "name" \in DOMAIN command)
        /\ CommandV2toV1(c)["actions"] = <<kept>>
        /\ "name" \in DOMAIN command => CommandV2toV1(c)["name"] = command["name"]
    <3> DEFINE x == Copied(c, b)
               y == CommandV2toV1(c)
    <3> HIDE DEF field
    <3>1. /\ \A f : f \in DOMAIN x <=> f = "name" /\ "name" \in DOMAIN command
          /\ "name" \in DOMAIN command => x["name"] = command["name"]
      BY <1>1, <2>3, <2>5, CopiedFields
    <3>2. y = x ++ d
      BY <2>6
    <3> HIDE DEF x, y
    <3>3. /\ IsObject(y)
          /\ \A f : f \in DOMAIN y <=> f = "actions" \/ (f = "name" /\ "name" \in DOMAIN command)
          /\ y["actions"] = <<kept>>
          /\ "name" \in DOMAIN command => y["name"] = command["name"]
      BY <2>7, <3>1, <3>2, Merged
    <3> QED BY <3>3 DEF y
  <2>9. KeptCommand(command) = [Restricted(command, {"name", "actions"}) EXCEPT !.actions = <<kept>>]
    <3>1. KeptCommand(command) =
            [Restricted(command, {"name", "actions"}) EXCEPT !.actions = <<KeptAction(Head(@))>>]
      BY <1>2 DEF KeptCommand, ActionTypes
    <3>2. Restricted(command, {"name", "actions"}).actions = command.actions
      BY <1>2 DEF Restricted, Without
    <3> QED BY <1>2, <3>1, <3>2 DEF kept
  <2>10. /\ IsObject(KeptCommand(command))
         /\ \A f : f \in DOMAIN KeptCommand(command) <=>
              f = "actions" \/ (f = "name" /\ "name" \in DOMAIN command)
         /\ KeptCommand(command)["actions"] = <<kept>>
         /\ "name" \in DOMAIN command => KeptCommand(command)["name"] = command["name"]
    BY <1>2, <2>9 DEF Restricted, Without, IsObject
  <2>11. /\ DOMAIN CommandV2toV1(c) = DOMAIN KeptCommand(command)
         /\ \A f \in DOMAIN KeptCommand(command) : CommandV2toV1(c)[f] = KeptCommand(command)[f]
    BY <2>8, <2>10
  <2> QED BY <2>8, <2>10, <2>11 DEF IsObject, c
<1>3. CASE ~("actions" \in DOMAIN command /\ action.type \in ActionTypes)
  <2>1. action.type \notin ActionTypes
    BY <1>3 DEF ActionTypes
  <2>2. c = Copied(command, a) ++ Empty
    BY <2>1 DEF CommandV1toV2, ActionTypes
  <2>3. \A f : f \notin DOMAIN Empty
    BY DEF Empty
  <2> HIDE DEF a, b, c
  <2>4. /\ \A f : f \in DOMAIN c <=> f = "id" /\ "name" \in DOMAIN command
        /\ "name" \in DOMAIN command => c["id"] = command["name"]
    BY <1>1, <2>2, <2>3, Merged, CopiedFields
  <2>5. "exec" \notin DOMAIN c /\ "vscodeLaunch" \notin DOMAIN c /\ "vscodeTask" \notin DOMAIN c
    BY <2>4
  <2>6. CommandV2toV1(c) = Copied(c, b) ++ Empty
    BY <2>5 DEF CommandV2toV1, b
  <2>7. KeptCommand(command) = Restricted(command, {"name"})
    BY <1>3 DEF KeptCommand, ActionTypes
  <2>8. /\ IsObject(CommandV2toV1(c))
        /\ \A f : f \in DOMAIN CommandV2toV1(c) <=> f = "name" /\ "name" \in DOMAIN command
        /\ "name" \in DOMAIN command => CommandV2toV1(c)["name"] = command["name"]
    BY <1>1, <2>3, <2>4, <2>6, Merged, CopiedFields
  <2>9. /\ IsObject(KeptCommand(command))
        /\ \A f : f \in DOMAIN KeptCommand(command) <=> f = "name" /\ "name" \in DOMAIN command
        /\ "name" \in DOMAIN command => KeptCommand(command)["name"] = command["name"]
    BY <2>7 DEF Restricted, Without, IsObject
  <2>10. /\ DOMAIN CommandV2toV1(c) = DOMAIN KeptCommand(command)
         /\ \A f \in DOMAIN KeptCommand(command) : CommandV2toV1(c)[f] = KeptCommand(command)[f]
    BY <2>8, <2>9
  <2> QED BY <2>8, <2>9, <2>10 DEF IsObject, c
<1> QED BY <1>2, <1>3

-----------------------------------------------------------------------------
(* Projects. *)

Present(source) == {i \in DOMAIN RevisionKinds : RevisionKinds[i] \in DOMAIN source}

FirstKind(source) ==
  RevisionKinds[CHOOSE i \in Present(source) : \A j \in Present(source) : i <= j]

Kinds == {"branch", "commitId", "startPoint", "tag"}

LEMMA RevisionKindsAre ==
  /\ DOMAIN RevisionKinds = 1..4
  /\ RevisionKinds[1] = "branch" /\ RevisionKinds[2] = "commitId"
  /\ RevisionKinds[3] = "startPoint" /\ RevisionKinds[4] = "tag"
BY DEF RevisionKinds

\* The first kind that is there is the one of those up to it that is there.
LEMMA FirstKindIs ==
  ASSUME NEW source
  PROVE  LET before(i) == {RevisionKinds[j] : j \in 1..(i - 1)}
             kinds == {RevisionKinds[i] : i \in {j \in 1..4 : before(j) \cap DOMAIN source = {}}}
         IN  /\ kinds \subseteq Kinds
             /\ Present(source) = {} => kinds \cap DOMAIN source = {}
             /\ Present(source) # {} =>
                  /\ FirstKind(source) \in Kinds \cap DOMAIN source
                  /\ kinds \cap DOMAIN source = {FirstKind(source)}
<1> DEFINE before(i) == {RevisionKinds[j] : j \in 1..(i - 1)}
           kinds == {RevisionKinds[i] : i \in {j \in 1..4 : before(j) \cap DOMAIN source = {}}}
           present == Present(source)
<1>1. before(1) = {} /\ before(2) = {"branch"} /\ before(3) = {"branch", "commitId"}
      /\ before(4) = {"branch", "commitId", "startPoint"}
  <2>1. 1..(1 - 1) = {} /\ 1..(2 - 1) = {1} /\ 1..(3 - 1) = {1, 2} /\ 1..(4 - 1) = {1, 2, 3}
    OBVIOUS
  <2> QED BY <2>1, RevisionKindsAre
<1>2. kinds = {k \in Kinds :
         \/ k = "branch"
         \/ k = "commitId" /\ "branch" \notin DOMAIN source
         \/ k = "startPoint" /\ {"branch", "commitId"} \cap DOMAIN source = {}
         \/ k = "tag" /\ {"branch", "commitId", "startPoint"} \cap DOMAIN source = {}}
  <2>1. kinds = {RevisionKinds[i] : i \in {j \in 1..4 :
           \/ j = 1 \/ (j = 2 /\ "branch" \notin DOMAIN source)
           \/ j = 3 /\ {"branch", "commitId"} \cap DOMAIN source = {}
           \/ j = 4 /\ {"branch", "commitId", "startPoint"} \cap DOMAIN source = {}}}
    <3> HIDE DEF before
    <3>1. \A j \in 1..4 : j = 1 \/ j = 2 \/ j = 3 \/ j = 4
      OBVIOUS
    <3>2. \A j \in 1..4 : before(j) \cap DOMAIN source = {} <=>
           \/ j = 1 \/ (j = 2 /\ "branch" \notin DOMAIN source)
           \/ j = 3 /\ {"branch", "commitId"} \cap DOMAIN source = {}
           \/ j = 4 /\ {"branch", "commitId", "startPoint"} \cap DOMAIN source = {}
      BY <1>1, <3>1
    <3> QED BY <3>2
  <2> QED BY <2>1, RevisionKindsAre DEF Kinds
<1>3. \A i : i \in present <=>
         \/ i = 1 /\ "branch" \in DOMAIN source
         \/ i = 2 /\ "commitId" \in DOMAIN source
         \/ i = 3 /\ "startPoint" \in DOMAIN source
         \/ i = 4 /\ "tag" \in DOMAIN source
  BY RevisionKindsAre DEF Present
<1> HIDE DEF before, kinds, present
<1>4. present = {} => kinds \cap DOMAIN source = {}
  BY <1>2, <1>3 DEF Kinds
<1>5. ASSUME present # {}
      PROVE  FirstKind(source) \in Kinds \cap DOMAIN source /\ kinds \cap DOMAIN source = {FirstKind(source)}
  <2> DEFINE m == CHOOSE i \in present : \A j \in present : i <= j
  <2>1. m \in present /\ \A j \in present : m <= j
    <3>1. \E i \in present : \A j \in present : i <= j
      <4>1. CASE 1 \in present
        BY <1>3, <4>1
      <4>2. CASE 1 \notin present /\ 2 \in present
        BY <1>3, <4>2
      <4>3. CASE 1 \notin present /\ 2 \notin present /\ 3 \in present
        BY <1>3, <4>3
      <4>4. CASE 1 \notin present /\ 2 \notin present /\ 3 \notin present
        BY <1>3, <1>5, <4>4
      <4> QED BY <4>1, <4>2, <4>3, <4>4
    <3> QED BY <3>1
  <2>2. FirstKind(source) = RevisionKinds[m]
    BY DEF FirstKind, present
  <2> HIDE DEF m
  <2>3. CASE m = 1
    BY <1>2, <1>3, <2>1, <2>2, <2>3, RevisionKindsAre DEF Kinds
  <2>4. CASE m = 2
    <3>1. "branch" \notin DOMAIN source
      BY <1>3, <2>1, <2>4
    <3> QED BY <1>2, <1>3, <2>1, <2>2, <2>4, <3>1, RevisionKindsAre DEF Kinds
  <2>5. CASE m = 3
    <3>1. "branch" \notin DOMAIN source /\ "commitId" \notin DOMAIN source
      BY <1>3, <2>1, <2>5
    <3> QED BY <1>2, <1>3, <2>1, <2>2, <2>5, <3>1, RevisionKindsAre DEF Kinds
  <2>6. CASE m = 4
    <3>1. "branch" \notin DOMAIN source /\ "commitId" \notin DOMAIN source /\ "startPoint" \notin DOMAIN source
      BY <1>3, <2>1, <2>6
    <3> QED BY <1>2, <1>3, <2>1, <2>2, <2>6, <3>1, RevisionKindsAre DEF Kinds
  <2> QED BY <1>3, <2>1, <2>3, <2>4, <2>5, <2>6
<1>6. kinds \subseteq Kinds
  BY <1>2
<1> QED BY <1>4, <1>5, <1>6 DEF kinds, before, present

IsGitSource(source) == source.type \in {"git", "github"}

HasSource(project, types) == "source" \in DOMAIN project /\ project.source.type \in types

\* What of a project's version 2 the way back looks at.
LEMMA ProjectForth ==
  ASSUME NEW project, IsProject(project)
  PROVE  LET p == ProjectV1toV2(project)
             source == project.source
         IN  /\ {"name", "attributes"} \subseteq DOMAIN p /\ p["name"] = project["name"]
             /\ "clonePath" \in DOMAIN p <=> "clonePath" \in DOMAIN project
             /\ "clonePath" \in DOMAIN p => p["clonePath"] = project["clonePath"]
             /\ "git" \in DOMAIN p <=> HasSource(project, {"git", "github"})
             /\ "zip" \in DOMAIN p <=> HasSource(project, {"zip"})
             /\ "zip" \in DOMAIN p => p["zip"] = [location |-> source.location]
             /\ "git" \in DOMAIN p =>
                  /\ {"remotes"} \subseteq DOMAIN p["git"]
                  /\ p["git"]["remotes"] = [origin |-> source.location]
                  /\ "checkoutFrom" \in DOMAIN p["git"] <=> Present(source) # {}
                  /\ "checkoutFrom" \in DOMAIN p["git"] =>
                       /\ p["git"]["checkoutFrom"] = [revision |-> source[FirstKind(source)]]
                       /\ p["attributes"] = Field("source-origin", FirstKind(source))
             /\ ~("git" \in DOMAIN p /\ "checkoutFrom" \in DOMAIN p["git"]) => p["attributes"] = Empty
<1> DEFINE p == ProjectV1toV2(project)
           source == IF "source" \in DOMAIN project THEN project.source ELSE Empty
           type == IF "type" \in DOMAIN source THEN source.type ELSE "none"
           location == IF "location" \in DOMAIN source THEN source.location ELSE ""
           isGit == type \in {"git", "github"}
           pinned == isGit /\ Present(source) # {}
           checkout == IF pinned THEN [checkoutFrom |-> [revision |-> source[FirstKind(source)]]]
                       ELSE Empty
           r == [remotes |-> [origin |-> location]]
           git == r ++ checkout
           a == [name |-> project.name,
                 attributes |-> IF pinned THEN Field("source-origin", FirstKind(source)) ELSE Empty]
           b == Copied(project, Same({"clonePath"}))
           c == IF "sparseCheckoutDir" \in DOMAIN source
                THEN [sparseCheckoutDirs |-> <<source.sparseCheckoutDir>>] ELSE Empty
           d == IF isGit THEN [git |-> git]
                ELSE IF type = "zip" THEN [zip |-> [location |-> location]] ELSE Empty
<1>1. p = a ++ b ++ c ++ d
  BY DEF ProjectV1toV2, Present, FirstKind, IsProject
<1>2. /\ a["name"] = project["name"]
      /\ a["attributes"] = IF pinned THEN Field("source-origin", FirstKind(source)) ELSE Empty
      /\ \A f : f \in DOMAIN a <=> f \in {"name", "attributes"}
  OBVIOUS
<1>3. /\ \A f : f \in DOMAIN b <=> f = "clonePath" /\ f \in DOMAIN project
      /\ "clonePath" \in DOMAIN project => b["clonePath"] = project["clonePath"]
  BY DEF Copied, Same
<1>4. \A f : f \in DOMAIN c => f = "sparseCheckoutDirs"
  BY DEF Empty
<1>5. /\ \A f : f \in DOMAIN d <=> (f = "git" /\ isGit) \/ (f = "zip" /\ type = "zip")
      /\ isGit => d["git"] = git
      /\ type = "zip" => d["zip"] = [location |-> location]
  BY DEF Empty
<1>6. /\ "remotes" \in DOMAIN git /\ git["remotes"] = [origin |-> location]
      /\ "checkoutFrom" \in DOMAIN git <=> pinned
      /\ pinned => git["checkoutFrom"] = [revision |-> source[FirstKind(source)]]
  <2>1. r["remotes"] = [origin |-> location] /\ \A f : f \in DOMAIN r <=> f = "remotes"
    OBVIOUS
  <2>2. /\ \A f : f \in DOMAIN checkout <=> f = "checkoutFrom" /\ pinned
        /\ pinned => checkout["checkoutFrom"] = [revision |-> source[FirstKind(source)]]
    BY DEF Empty
  <2> HIDE DEF r, checkout, pinned, source, location
  <2> QED BY <2>1, <2>2, Merged
<1>7. "source" \in DOMAIN project => source = project.source /\ type = source.type /\ location = source.location
  BY DEF IsProject
<1>8. /\ isGit <=> HasSource(project, {"git", "github"})
      /\ type = "zip" <=> HasSource(project, {"zip"})
  BY <1>7 DEF HasSource, Empty
<1> HIDE DEF a, b, c, d, git, p, pinned, isGit
<1>9. /\ \A f : f \in DOMAIN p <=> f \in DOMAIN a \/ f \in DOMAIN b \/ f \in DOMAIN c \/ f \in DOMAIN d
      /\ p["name"] = a["name"] /\ p["attributes"] = a["attributes"]
      /\ "clonePath" \in DOMAIN b => p["clonePath"] = b["clonePath"]
      /\ "git" \in DOMAIN d => p["git"] = d["git"]
      /\ "zip" \in DOMAIN d => p["zip"] = d["zip"]
  <2> DEFINE y == a ++ b
             z == y ++ c
  <2>1. p = z ++ d
    BY <1>1
  <2>2. /\ \A f : f \in DOMAIN y <=> f \in DOMAIN a \/ f \in DOMAIN b
        /\ \A f : f \in DOMAIN a => y[f] = a[f]
        /\ \A f : f \in DOMAIN b /\ f \notin DOMAIN a => y[f] = b[f]
    BY Merged
  <2> HIDE DEF y
  <2>3. /\ \A f : f \in DOMAIN z <=> f \in DOMAIN y \/ f \in DOMAIN c
        /\ \A f : f \in DOMAIN y => z[f] = y[f]
    BY Merged
  <2> HIDE DEF z
  <2>4. /\ \A f : f \in DOMAIN p <=> f \in DOMAIN z \/ f \in DOMAIN d
        /\ \A f : f \in DOMAIN z => p[f] = z[f]
        /\ \A f : f \in DOMAIN d /\ f \notin DOMAIN z => p[f] = d[f]
    BY <2>1, Merged
  <2>5. \A f : f \in DOMAIN p <=> f \in DOMAIN a \/ f \in DOMAIN b \/ f \in DOMAIN c \/ f \in DOMAIN d
    BY <2>2, <2>3, <2>4
  <2>6. p["name"] = a["name"] /\ p["attributes"] = a["attributes"]
    BY <1>2, <2>2, <2>3, <2>4
  <2>7. "clonePath" \in DOMAIN b => p["clonePath"] = b["clonePath"]
    BY <1>2, <2>2, <2>3, <2>4
  <2>8. "git" \notin DOMAIN z /\ "zip" \notin DOMAIN z
    BY <1>2, <1>3, <1>4, <2>2, <2>3
  <2> QED BY <2>4, <2>5, <2>6, <2>7, <2>8
<1>10. pinned <=> isGit /\ Present(source) # {}
  BY DEF pinned
<1>11. isGit => "source" \in DOMAIN project
  BY <1>8 DEF HasSource
<1>12. type = "zip" => "source" \in DOMAIN project
  BY <1>8 DEF HasSource
<1> HIDE DEF type, location, source
<1>13. /\ {"name", "attributes"} \subseteq DOMAIN p /\ p["name"] = project["name"]
       /\ "clonePath" \in DOMAIN p <=> "clonePath" \in DOMAIN project
       /\ "clonePath" \in DOMAIN p => p["clonePath"] = project["clonePath"]
  BY <1>2, <1>3, <1>4, <1>5, <1>9
<1>14. /\ "git" \in DOMAIN p <=> isGit
       /\ "zip" \in DOMAIN p <=> type = "zip"
       /\ "git" \in DOMAIN p => p["git"] = git
       /\ "zip" \in DOMAIN p => p["zip"] = [location |-> project.source.location]
  BY <1>2, <1>3, <1>4, <1>5, <1>7, <1>9, <1>12
<1>15. /\ "git" \in DOMAIN p =>
            /\ {"remotes"} \subseteq DOMAIN p["git"]
            /\ p["git"]["remotes"] = [origin |-> project.source.location]
            /\ "checkoutFrom" \in DOMAIN p["git"] <=> Present(project.source) # {}
            /\ "checkoutFrom" \in DOMAIN p["git"] =>
                 /\ p["git"]["checkoutFrom"] = [revision |-> project.source[FirstKind(project.source)]]
                 /\ p["attributes"] = Field("source-origin", FirstKind(project.source))
       /\ ~("git" \in DOMAIN p /\ "checkoutFrom" \in DOMAIN p["git"]) => p["attributes"] = Empty
  BY <1>2, <1>6, <1>7, <1>9, <1>10, <1>11, <1>14
<1> QED BY <1>8, <1>13, <1>14, <1>15 DEF p

LEMMA ProjectBack ==
  ASSUME NEW p, "name" \in DOMAIN p
  PROVE  LET project == ProjectV2toV1(p)
         IN  /\ IsObject(project)
             /\ \A f : f \in DOMAIN project <=>
                  \/ f = "name" \/ (f = "clonePath" /\ "clonePath" \in DOMAIN p)
                  \/ f = "source" /\ ("git" \in DOMAIN p \/ "zip" \in DOMAIN p)
             /\ project["name"] = p["name"]
             /\ "clonePath" \in DOMAIN p => project["clonePath"] = p["clonePath"]
             /\ "git" \in DOMAIN p => project["source"] = SourceOf(p)
             /\ "git" \notin DOMAIN p /\ "zip" \in DOMAIN p =>
                  project["source"] = [type |-> "zip", location |-> p["zip"].location]
<1> DEFINE project == ProjectV2toV1(p)
           x == Copied(p, Same({"name", "clonePath"}))
           d == IF "git" \in DOMAIN p THEN [source |-> SourceOf(p)]
                ELSE IF "zip" \in DOMAIN p
                THEN [source |-> [type |-> "zip", location |-> p.zip.location]] ELSE Empty
<1>1. project = x ++ d
  BY DEF ProjectV2toV1
<1>2. /\ \A f : f \in DOMAIN x <=> f \in {"name", "clonePath"} /\ f \in DOMAIN p
      /\ \A f : f \in {"name", "clonePath"} /\ f \in DOMAIN p => x[f] = p[f]
  BY DEF Copied, Same
<1>3. /\ \A f : f \in DOMAIN d <=> f = "source" /\ ("git" \in DOMAIN p \/ "zip" \in DOMAIN p)
      /\ "git" \in DOMAIN p => d["source"] = SourceOf(p)
      /\ "git" \notin DOMAIN p /\ "zip" \in DOMAIN p =>
           d["source"] = [type |-> "zip", location |-> p["zip"].location]
  BY DEF Empty
<1> HIDE DEF x, d, project
<1>4. /\ IsObject(project)
      /\ \A f : f \in DOMAIN project <=> f \in DOMAIN x \/ f \in DOMAIN d
      /\ \A f : f \in DOMAIN x => project[f] = x[f]
      /\ \A f : f \in DOMAIN d /\ f \notin DOMAIN x => project[f] = d[f]
  BY <1>1, Merged
<1>5. /\ \A f : f \in DOMAIN project <=>
                  \/ f = "name" \/ (f = "clonePath" /\ "clonePath" \in DOMAIN p)
                  \/ f = "source" /\ ("git" \in DOMAIN p \/ "zip" \in DOMAIN p)
      /\ project["name"] = p["name"]
      /\ "clonePath" \in DOMAIN p => project["clonePath"] = p["clonePath"]
  BY <1>2, <1>3, <1>4
<1>6. /\ "git" \in DOMAIN p => project["source"] = SourceOf(p)
      /\ "git" \notin DOMAIN p /\ "zip" \in DOMAIN p =>
                  project["source"] = [type |-> "zip", location |-> p["zip"].location]
  BY <1>2, <1>3, <1>4
<1> QED BY <1>4, <1>5, <1>6 DEF project

\* The kind of revision a project's version 2 names.
OriginOf(p) ==
  IF "attributes" \in DOMAIN p /\ "source-origin" \in DOMAIN p["attributes"]
  THEN p["attributes"]["source-origin"] ELSE "startPoint"

LEMMA SourceBack ==
  ASSUME NEW p, OriginOf(p) \in Kinds
  PROVE  LET source == SourceOf(p)
             git == p["git"]
         IN  /\ IsObject(source)
             /\ \A f : f \in DOMAIN source <=>
                  f \in {"type", "location"} \/ (f = OriginOf(p) /\ "checkoutFrom" \in DOMAIN git)
             /\ source["type"] = "git" /\ source["location"] = git["remotes"].origin
             /\ "checkoutFrom" \in DOMAIN git => source[OriginOf(p)] = git["checkoutFrom"].revision
<1> DEFINE source == SourceOf(p)
           git == p["git"]
           t == [type |-> "git", location |-> git["remotes"].origin]
           d == IF "checkoutFrom" \in DOMAIN git
                THEN Field(OriginOf(p), git["checkoutFrom"].revision) ELSE Empty
<1>1. source = t ++ d
  BY DEF SourceOf, OriginOf
<1>2. /\ t["type"] = "git" /\ t["location"] = git["remotes"].origin
      /\ \A f : f \in DOMAIN t <=> f \in {"type", "location"}
  OBVIOUS
<1>3. /\ \A f : f \in DOMAIN d <=> f = OriginOf(p) /\ "checkoutFrom" \in DOMAIN git
      /\ "checkoutFrom" \in DOMAIN git => d[OriginOf(p)] = git["checkoutFrom"].revision
  BY DEF Field, Empty
<1>4. OriginOf(p) \notin {"type", "location"}
  BY DEF Kinds
<1> HIDE DEF t, d, source, git
<1>5. /\ IsObject(source)
      /\ \A f : f \in DOMAIN source <=> f \in DOMAIN t \/ f \in DOMAIN d
      /\ \A f : f \in DOMAIN t => source[f] = t[f]
      /\ \A f : f \in DOMAIN d /\ f \notin DOMAIN t => source[f] = d[f]
  BY <1>1, Merged
<1> QED BY <1>2, <1>3, <1>4, <1>5 DEF source, git

LEMMA KeptSourceFields ==
  ASSUME NEW source, {"type", "location"} \subseteq DOMAIN source, source.type \in {"git", "github"}
  PROVE  LET kept == KeptSource(source)
         IN  /\ IsObject(kept)
             /\ \A f : f \in DOMAIN kept <=>
                  f \in {"type", "location"} \/ (f = FirstKind(source) /\ Present(source) # {})
             /\ kept["type"] = "git" /\ kept["location"] = source["location"]
             /\ Present(source) # {} => kept[FirstKind(source)] = source[FirstKind(source)]
<1> DEFINE before(i) == {RevisionKinds[j] : j \in 1..(i - 1)}
           kinds == {RevisionKinds[i] : i \in {j \in 1..4 : before(j) \cap DOMAIN source = {}}}
           names == {"type", "location"} \cup kinds
           r == Restricted(source, names)
           kept == KeptSource(source)
<1>1. kept = [r EXCEPT !.type = "git"]
  BY DEF KeptSource
<1>2. /\ kinds \subseteq Kinds
      /\ Present(source) = {} => kinds \cap DOMAIN source = {}
      /\ Present(source) # {} =>
           FirstKind(source) \in Kinds \cap DOMAIN source /\ kinds \cap DOMAIN source = {FirstKind(source)}
  BY FirstKindIs
<1> HIDE DEF kinds, kept
<1>3. \A f \in Kinds : f # "type" /\ f # "location"
  BY DEF Kinds
<1>4. /\ \A f : f \in DOMAIN r <=> f \in names /\ f \in DOMAIN source
      /\ \A f : f \in names /\ f \in DOMAIN source => r[f] = source[f]
      /\ IsObject(r)
  BY DEF Restricted, Without, IsObject
<1> HIDE DEF r
<1>5. /\ IsObject(kept) /\ \A f : f \in DOMAIN kept <=> f \in DOMAIN r
      /\ kept["type"] = "git" /\ \A f : f \in DOMAIN r /\ f # "type" => kept[f] = r[f]
  BY <1>1, <1>4 DEF IsObject
<1>6. \A f : f \in names /\ f \in DOMAIN source <=>
         f \in {"type", "location"} \/ (f = FirstKind(source) /\ Present(source) # {})
  BY <1>2
<1>7. /\ \A f : f \in DOMAIN kept <=>
                  f \in {"type", "location"} \/ (f = FirstKind(source) /\ Present(source) # {})
      /\ kept["location"] = source["location"]
  BY <1>4, <1>5, <1>6
<1>8. Present(source) # {} => kept[FirstKind(source)] = source[FirstKind(source)]
  BY <1>2, <1>3, <1>4, <1>5, <1>6
<1> QED BY <1>5, <1>7, <1>8 DEF kept

LEMMA ProjectKept ==
  ASSUME NEW project, IsProject(project)
  PROVE  ProjectV2toV1(ProjectV1toV2(project)) = KeptProject(project)
<1> DEFINE p == ProjectV1toV2(project)
           back == ProjectV2toV1(p)
           kept == KeptProject(project)
           source == project.source
<1>1. /\ IsObject(kept)
      /\ \A f : f \in DOMAIN kept <=>
           f \in DOMAIN project /\ (f = "source" => HasSource(project, {"git", "github", "zip"}))
      /\ \A f : f \in DOMAIN kept /\ f # "source" => kept[f] = project[f]
      /\ "source" \in DOMAIN kept => kept["source"] = KeptSource(source)
  BY DEF KeptProject, HasSource, IsObject
<1>2. /\ {"name", "attributes"} \subseteq DOMAIN p /\ p["name"] = project["name"]
      /\ "clonePath" \in DOMAIN p <=> "clonePath" \in DOMAIN project
      /\ "clonePath" \in DOMAIN p => p["clonePath"] = project["clonePath"]
      /\ "git" \in DOMAIN p <=> HasSource(project, {"git", "github"})
      /\ "zip" \in DOMAIN p <=> HasSource(project, {"zip"})
      /\ "zip" \in DOMAIN p => p["zip"] = [location |-> source.location]
  BY ProjectForth
<1>3. /\ IsObject(back)
      /\ \A f : f \in DOMAIN back <=>
                  \/ f = "name" \/ (f = "clonePath" /\ "clonePath" \in DOMAIN p)
                  \/ f = "source" /\ ("git" \in DOMAIN p \/ "zip" \in DOMAIN p)
      /\ back["name"] = p["name"]
      /\ "clonePath" \in DOMAIN p => back["clonePath"] = p["clonePath"]
      /\ "git" \in DOMAIN p => back["source"] = SourceOf(p)
      /\ "git" \notin DOMAIN p /\ "zip" \in DOMAIN p =>
           back["source"] = [type |-> "zip", location |-> p["zip"].location]
  BY <1>2, ProjectBack
<1>4. ASSUME HasSource(project, {"git", "github"}) PROVE SourceOf(p) = KeptSource(source)
  <2> DEFINE s == SourceOf(p)
             k == KeptSource(source)
  <2>1. /\ p["git"]["remotes"] = [origin |-> source.location]
        /\ "checkoutFrom" \in DOMAIN p["git"] <=> Present(source) # {}
        /\ "checkoutFrom" \in DOMAIN p["git"] =>
             /\ p["git"]["checkoutFrom"] = [revision |-> source[FirstKind(source)]]
             /\ p["attributes"] = Field("source-origin", FirstKind(source))
        /\ "checkoutFrom" \notin DOMAIN p["git"] => p["attributes"] = Empty
    BY <1>2, <1>4, ProjectForth
  <2>2. "source" \in DOMAIN project /\ source.type \in {"git", "github"}
        /\ {"type", "location"} \subseteq DOMAIN source
    BY <1>4 DEF HasSource, IsProject
  <2>3. Present(source) # {} => FirstKind(source) \in Kinds
    BY FirstKindIs
  <2>4. OriginOf(p) = IF Present(source) # {} THEN FirstKind(source) ELSE "startPoint"
    <3>1. CASE Present(source) # {}
      BY <1>2, <2>1, <3>1 DEF OriginOf, Field
    <3>2. CASE Present(source) = {}
      BY <1>2, <2>1, <3>2 DEF OriginOf, Empty
    <3> QED BY <3>1, <3>2
  <2>5. OriginOf(p) \in Kinds
    BY <2>3, <2>4 DEF Kinds
  <2> HIDE DEF p, source
  <2>6. /\ IsObject(s)
        /\ \A f : f \in DOMAIN s <=>
             f \in {"type", "location"} \/ (f = OriginOf(p) /\ "checkoutFrom" \in DOMAIN p["git"])
        /\ s["type"] = "git" /\ s["location"] = p["git"]["remotes"].origin
        /\ "checkoutFrom" \in DOMAIN p["git"] => s[OriginOf(p)] = p["git"]["checkoutFrom"].revision
    BY <2>5, SourceBack
  <2>7. /\ IsObject(k)
        /\ \A f : f \in DOMAIN k <=>
             f \in {"type", "location"} \/ (f = FirstKind(source) /\ Present(source) # {})
        /\ k["type"] = "git" /\ k["location"] = source["location"]
        /\ Present(source) # {} => k[FirstKind(source)] = source[FirstKind(source)]
    BY <2>2, KeptSourceFields
  <2> HIDE DEF s, k
  <2>8. p["git"]["remotes"].origin = source["location"]
        /\ (Present(source) # {} => p["git"]["checkoutFrom"].revision = source[FirstKind(source)])
    BY <2>1
  <2>9. DOMAIN s = DOMAIN k /\ \A f \in DOMAIN k : s[f] = k[f]
    BY <2>1, <2>4, <2>6, <2>7, <2>8
  <2>10. s = k
    BY <2>6, <2>7, <2>9 DEF IsObject
  <2> QED BY <2>10 DEF s, k
<1>5. ASSUME HasSource(project, {"zip"})
      PROVE  [type |-> "zip", location |-> source.location] = KeptSource(source)
  <2>1. "source" \in DOMAIN project /\ source.type = "zip" /\ {"type", "location"} \subseteq DOMAIN source
    BY <1>5 DEF HasSource, IsProject
  <2>2. KeptSource(source) = Restricted(source, {"type", "location"})
    BY <2>1 DEF KeptSource
  <2> QED BY <2>1, <2>2 DEF Restricted, Without
<1>6. /\ HasSource(project, {"git", "github", "zip"}) <=>
           HasSource(project, {"git", "github"}) \/ HasSource(project, {"zip"})
      /\ HasSource(project, {"git", "github", "zip"}) => "source" \in DOMAIN project
      /\ ~(HasSource(project, {"git", "github"}) /\ HasSource(project, {"zip"}))
  BY DEF HasSource
<1>7. \A f \in DOMAIN project : f \in {"name", "clonePath", "source"} /\ "name" \in DOMAIN project
  BY DEF IsProject
<1>8. "name" \in DOMAIN project
  BY DEF IsProject
<1>9. "source" \in DOMAIN back => back["source"] = kept["source"]
  <2>1. ASSUME HasSource(project, {"git", "github"}) PROVE back["source"] = kept["source"]
    BY <1>1, <1>2, <1>3, <1>4, <1>6, <2>1
  <2>2. ASSUME HasSource(project, {"zip"}) PROVE back["source"] = kept["source"]
    BY <1>1, <1>2, <1>3, <1>5, <1>6, <2>2
  <2> QED BY <1>2, <1>3, <2>1, <2>2
<1> HIDE DEF p, back, kept, source
<1>10. DOMAIN back = DOMAIN kept /\ \A f \in DOMAIN kept : back[f] = kept[f]
  <2>1. DOMAIN back = DOMAIN kept
    BY <1>1, <1>2, <1>3, <1>6, <1>7, <1>8
  <2>2. \A f \in DOMAIN kept : f \in {"name", "clonePath", "source"}
    BY <1>1, <1>7
  <2> QED BY <1>1, <1>2, <1>3, <1>9, <2>1, <2>2
<1>11. back = kept
  BY <1>1, <1>3, <1>10 DEF IsObject
<1> QED BY <1>11 DEF p, back, kept

-----------------------------------------------------------------------------
(* A devfile. *)

\* The name and the attributes of a devfile come back from version 2.
LEMMA MetadataKept ==
  ASSUME NEW original, NameField \notin DOMAIN original.attributes
  PROVE  LET metadata == DevfileV1toV2(original).metadata
             dropped == {InfrastructureNamespace}
                          \cup {NameField : f \in DOMAIN metadata \cap {"name"}}
         IN  /\ MetadataV2toV1(metadata) = KeptMetadata(original.metadata)
             /\ Without(metadata.attributes, dropped)
                  = Without(original.attributes, {InfrastructureNamespace})
<1> DEFINE given == original.metadata
           own == original.attributes
           m == DevfileV1toV2(original).metadata
           names == DOMAIN given \cap {"name", "generateName"}
           field == IF "name" \in names THEN "name" ELSE "generateName"
           namespace == Field(InfrastructureNamespace, Namespace)
           first == MetadataV1toV2(given)
           dropped == {InfrastructureNamespace} \cup {NameField : f \in DOMAIN m \cap {"name"}}
<1>1. m = [first EXCEPT !.attributes = own ++ @]
  BY DEF DevfileV1toV2
<1>2. NameField # InfrastructureNamespace
  BY DEF NameField, InfrastructureNamespace
<1>3. \A f : f \in DOMAIN namespace <=> f = InfrastructureNamespace
  BY OneField
<1>4. CASE names = {}
  <2>1. first = [attributes |-> namespace]
    BY <1>4 DEF MetadataV1toV2
  <2> DEFINE all == own ++ namespace
  <2> HIDE DEF namespace, first
  <2>2. m = [attributes |-> all]
    BY <1>1, <2>1
  <2>3. "name" \notin DOMAIN m /\ m.attributes = all
    BY <2>2
  <2>4. dropped = {InfrastructureNamespace}
    BY <2>3
  <2>5. MetadataV2toV1(m) = Empty
    BY <2>3 DEF MetadataV2toV1
  <2>6. KeptMetadata(given) = Empty
    BY <1>4 DEF KeptMetadata, Restricted, Without, Empty
  <2>7. /\ \A f : f \in DOMAIN all <=> f \in DOMAIN own \/ f \in DOMAIN namespace
        /\ \A f : f \in DOMAIN own => all[f] = own[f]
    BY Merged
  <2> HIDE DEF all, m, given, own, dropped
  <2>8. Without(all, {InfrastructureNamespace}) = Without(own, {InfrastructureNamespace})
    BY <1>3, <2>7 DEF Without
  <2> QED BY <2>3, <2>4, <2>5, <2>6, <2>8 DEF m, given, own, dropped
<1>5. CASE names # {}
  <2> DEFINE mark == Field(NameField, field)
             rest == mark ++ namespace
             all == own ++ rest
  <2>1. first = [name |-> given[field], attributes |-> rest]
    BY <1>5 DEF MetadataV1toV2
  <2>2. mark[NameField] = field /\ \A f : f \in DOMAIN mark <=> f = NameField
    BY OneField
  <2> HIDE DEF namespace, first, mark
  <2>3. m = [name |-> given[field], attributes |-> all]
    <3> HIDE DEF rest
    <3> QED BY <1>1, <2>1
  <2>4. "name" \in DOMAIN m /\ m.attributes = all /\ m.name = given[field]
    BY <2>3
  <2>5. dropped = {InfrastructureNamespace, NameField}
    BY <2>4
  <2>6. /\ \A f : f \in DOMAIN rest <=> f = NameField \/ f = InfrastructureNamespace
        /\ rest[NameField] = field
    BY <1>3, <2>2, Merged
  <2> HIDE DEF rest
  <2>7. /\ \A f : f \in DOMAIN all <=> f \in DOMAIN own \/ f = NameField \/ f = InfrastructureNamespace
        /\ \A f : f \in DOMAIN own => all[f] = own[f]
        /\ all[NameField] = field /\ NameField \in DOMAIN all
    BY <2>6, Merged
  <2> HIDE DEF all
  <2>8. Without(all, {InfrastructureNamespace, NameField}) = Without(own, {InfrastructureNamespace})
    BY <2>7 DEF Without
  <2>9. MetadataV2toV1(m) = KeptMetadata(given)
    <3>1. CASE "name" \in DOMAIN given
      <4>1. field = "name"
        BY <3>1
      <4>2. MetadataV2toV1(m) = [name |-> given["name"]]
        BY <2>4, <2>7, <4>1 DEF MetadataV2toV1
      <4>3. KeptMetadata(given) = Restricted(given, {"name"})
        BY <3>1 DEF KeptMetadata
      <4> QED BY <3>1, <4>2, <4>3 DEF Restricted, Without
    <3>2. CASE "name" \notin DOMAIN given
      <4>1. field = "generateName" /\ "generateName" \in DOMAIN given
        BY <1>5, <3>2
      <4>2. MetadataV2toV1(m) = [generateName |-> given["generateName"]]
        BY <2>4, <2>7, <4>1 DEF MetadataV2toV1
      <4>3. KeptMetadata(given) = Restricted(given, {"generateName"})
        BY <3>2 DEF KeptMetadata
      <4> QED BY <4>1, <4>2, <4>3 DEF Restricted, Without
    <3> QED BY <3>1, <3>2
  <2> QED BY <2>4, <2>5, <2>8, <2>9
<1> QED BY <1>4, <1>5

\* Whatever it holds, a devfile that goes to version 2 and back keeps what Kept
\* says and nothing else.
LEMMA RoundTripKeeps ==
  ASSUME NEW original, IsDevfile(original)
  PROVE  RoundTrip(original) = Kept(original)
<1> DEFINE d == DevfileV1toV2(original)
<1>1. /\ MetadataV2toV1(d.metadata) = KeptMetadata(original.metadata)
      /\ Without(d.metadata.attributes, {InfrastructureNamespace}
                   \cup {NameField : f \in DOMAIN d.metadata \cap {"name"}})
           = Without(original.attributes, {InfrastructureNamespace})
  BY MetadataKept DEF IsDevfile
<1>2. /\ d.projects = Each(original.projects, ProjectV1toV2)
      /\ d.components = Each(original.components, ComponentV1toV2)
      /\ d.commands = Each(original.commands, CommandV1toV2)
  BY DEF DevfileV1toV2
<1>3. Each(d.projects, ProjectV2toV1) = Each(original.projects, KeptProject)
  BY <1>2, ProjectKept DEF Each, IsDevfile
<1>4. Each(d.components, ComponentV2toV1) = Each(original.components, KeptComponent)
  BY <1>2, ComponentKept DEF Each, IsDevfile, IsComponent
<1>5. Each(d.commands, CommandV2toV1) = Each(original.commands, KeptCommand)
  BY <1>2, CommandKept DEF Each, IsDevfile
<1>6. RoundTrip(original) = DevfileV2toV1(d)
  BY DEF RoundTrip
<1> HIDE DEF d
<1>7. DevfileV2toV1(d) =
        [metadata |-> MetadataV2toV1(d.metadata),
         projects |-> Each(d.projects, ProjectV2toV1),
         components |-> Each(d.components, ComponentV2toV1),
         commands |-> Each(d.commands, CommandV2toV1),
         attributes |-> Without(d.metadata.attributes, {InfrastructureNamespace}
                   \cup {NameField : f \in DOMAIN d.metadata \cap {"name"}})]
  BY DEF DevfileV2toV1
<1> QED BY <1>1, <1>3, <1>4, <1>5, <1>6, <1>7 DEF Kept

-----------------------------------------------------------------------------
(* Lists, and the elements at some of their indices *)

\* What it is to be a list.
LEMMA Lists ==
  ASSUME NEW list
  PROVE  IsList(list) <=> IsObject(list) /\ \E n \in Nat : DOMAIN list = 1..n
<1> DEFINE S == {list[i] : i \in DOMAIN list}
<1>1. ASSUME IsList(list)
      PROVE  IsObject(list) /\ \E n \in Nat : DOMAIN list = 1..n
  <2>1. list \in Seq(S)
    BY <1>1 DEF IsList
  <2>2. PICK n \in Nat : list \in [1..n -> S]
    BY <2>1, SeqDef
  <2> QED BY <2>2 DEF IsObject
<1>2. ASSUME IsObject(list), NEW n \in Nat, DOMAIN list = 1..n
      PROVE  IsList(list)
  <2>1. list \in [1..n -> S]
    BY <1>2 DEF IsObject
  <2>2. list \in Seq(S)
    BY <2>1, SeqDef
  <2> QED BY <2>2 DEF IsList
<1> QED BY <1>1, <1>2

LEMMA IntervalSize ==
  ASSUME NEW n \in Nat
  PROVE  IsFiniteSet(1..n) /\ Cardinality(1..n) = n
<1>1. 1 \in Int /\ n \in Int
  OBVIOUS
<1>2. IsFiniteSet(1..n) /\ Cardinality(1..n) = IF 1 > n THEN 0 ELSE n - 1 + 1
  BY <1>1, FS_Interval
<1> QED BY <1>2

LEMMA ListLen ==
  ASSUME NEW list, IsList(list)
  PROVE  Len(list) \in Nat /\ DOMAIN list = 1..Len(list) /\ IsFiniteSet(DOMAIN list)
         /\ Cardinality(DOMAIN list) = Len(list)
<1>1. Len(list) \in Nat /\ DOMAIN list = 1..Len(list)
  BY LenProperties DEF IsList
<1>2. IsFiniteSet(1..Len(list)) /\ Cardinality(1..Len(list)) = Len(list)
  BY <1>1, IntervalSize
<1> QED BY <1>1, <1>2

\* The rank of an index counts the indices up to it: the ranks of a finite set
\* of indices are exactly 1..Cardinality.
Rank(I, i) == Cardinality({j \in I : j <= i})

LEMMA Ranks ==
  ASSUME NEW n \in Nat, NEW I, I \subseteq 1..n
  PROVE  /\ IsFiniteSet(I) /\ Cardinality(I) \in Nat
         /\ \A i \in I : Rank(I, i) \in 1..Cardinality(I)
         /\ \A i, j \in I : i < j => Rank(I, i) < Rank(I, j)
         /\ \A k \in 1..Cardinality(I) : \E i \in I : Rank(I, i) = k
<1> DEFINE upto(i) == {j \in I : j <= i}
           m == Cardinality(I)
<1>1. IsFiniteSet(I) /\ m \in Nat
  <2>1. IsFiniteSet(1..n)
    BY IntervalSize
  <2>2. IsFiniteSet(I)
    BY <2>1, FS_Subset
  <2> QED BY <2>2, FS_CardinalityType
<1>2. ASSUME NEW i \in I
      PROVE  Rank(I, i) \in 1..m
  <2>1. upto(i) \subseteq I /\ IsFiniteSet(upto(i)) /\ Cardinality(upto(i)) \in Nat
        /\ Cardinality(upto(i)) <= m
    BY <1>1, FS_Subset, FS_CardinalityType
  <2>2. i \in upto(i)
    OBVIOUS
  <2>3. Cardinality(upto(i)) # 0
    BY <2>1, <2>2, FS_EmptySet
  <2> QED BY <2>1, <2>3, <1>1 DEF Rank
<1>3. ASSUME NEW i \in I, NEW j \in I, i < j
      PROVE  Rank(I, i) < Rank(I, j)
  <2>1. IsFiniteSet(upto(j)) /\ Cardinality(upto(j)) \in Nat /\ Cardinality(upto(i)) \in Nat
    BY <1>1, FS_Subset, FS_CardinalityType
  <2>2. upto(i) \subseteq upto(j) /\ upto(i) # upto(j)
    <3>1. i \in Nat /\ j \in Nat
      OBVIOUS
    <3>2. j \in upto(j) /\ j \notin upto(i)
      BY <3>1, <1>3
    <3>3. \A k \in I : k \in Nat
      OBVIOUS
    <3>4. \A k \in upto(i) : k \in upto(j)
      BY <3>1, <3>3, <1>3
    <3> QED BY <3>2, <3>4
  <2>3. Cardinality(upto(i)) < Cardinality(upto(j))
    BY <2>1, <2>2, FS_Subset
  <2> QED BY <2>3 DEF Rank
<1>4. ASSUME NEW k \in 1..m
      PROVE  \E i \in I : Rank(I, i) = k
  <2> DEFINE f == [i \in I |-> Rank(I, i)]
  <2>1. f \in [I -> 1..m]
    BY <1>2
  <2>2. \A i, j \in I : f[i] = f[j] => i = j
    <3> SUFFICES ASSUME NEW i \in I, NEW j \in I, Rank(I, i) = Rank(I, j)
                 PROVE  i = j
      OBVIOUS
    <3>1. Rank(I, i) \in Int /\ Rank(I, j) \in Int
      BY <1>2
    <3> QED BY <3>1, <1>3
  <2>3. f \in Injection(I, 1..m)
    BY <2>1, <2>2 DEF Injection, IsInjective
  <2>4. IsFiniteSet(1..m) /\ Cardinality(1..m) = m
    BY <1>1, IntervalSize
  <2>5. f \in Surjection(I, 1..m)
    BY <2>3, <2>4, <1>1, FS_Injection
  <2> QED BY <2>5 DEF Surjection
<1> QED BY <1>1, <1>2, <1>3, <1>4

\* At(list, I) lists the elements at the indices I, in the order of their ranks.
LEMMA Picked ==
  ASSUME NEW list, IsList(list), NEW I, I \subseteq DOMAIN list
  PROVE  /\ IsList(At(list, I)) /\ Cardinality(I) \in Nat /\ IsFiniteSet(I)
         /\ DOMAIN At(list, I) = 1..Cardinality(I)
         /\ \A i \in I : /\ Rank(I, i) \in DOMAIN At(list, I)
                         /\ At(list, I)[Rank(I, i)] = list[i]
         /\ \A k \in DOMAIN At(list, I) : \E i \in I : Rank(I, i) = k
<1> DEFINE n == Cardinality(I)
<1>1. PICK len \in Nat : DOMAIN list = 1..len
  BY Lists
<1>2. /\ n \in Nat /\ IsFiniteSet(I)
      /\ \A i \in I : Rank(I, i) \in 1..n
      /\ \A i, j \in I : i < j => Rank(I, i) < Rank(I, j)
      /\ \A k \in 1..n : \E i \in I : Rank(I, i) = k
  BY <1>1, Ranks
<1>3. At(list, I) = [k \in 1..n |-> list[CHOOSE i \in I : Rank(I, i) = k]]
  BY DEF At, Rank
<1>4. ASSUME NEW i \in I
      PROVE  (CHOOSE j \in I : Rank(I, j) = Rank(I, i)) = i
  <2> DEFINE j == CHOOSE j \in I : Rank(I, j) = Rank(I, i)
  <2>1. j \in I /\ Rank(I, j) = Rank(I, i)
    OBVIOUS
  <2>2. i \in Nat /\ j \in Nat /\ Rank(I, i) \in Nat
    BY <2>1, <1>1, <1>2
  <2> HIDE DEF j
  <2>3. ~(i < j) /\ ~(j < i)
    BY <2>1, <2>2, <1>2
  <2>4. i = j
    BY <2>2, <2>3
  <2> QED BY <2>4 DEF j
<1>5. IsList(At(list, I))
  BY <1>2, <1>3, Lists DEF IsObject
<1> QED BY <1>2, <1>3, <1>4, <1>5

LEMMA SeqIsList ==
  ASSUME NEW S, NEW s \in Seq(S)
  PROVE  IsList(s)
<1>1. PICK n \in Nat : s \in [1..n -> S]
  BY SeqDef
<1>2. DOMAIN s = 1..n /\ IsObject(s)
  BY <1>1 DEF IsObject
<1> QED BY <1>2, Lists

\* Lists that are joined, and appended to.
LEMMA Joined ==
  ASSUME NEW a, IsList(a), NEW b, IsList(b)
  PROVE  /\ IsList(a \o b) /\ Len(a \o b) = Len(a) + Len(b)
         /\ \A i \in DOMAIN a : i \in DOMAIN (a \o b) /\ (a \o b)[i] = a[i]
         /\ \A j \in DOMAIN b : Len(a) + j \in DOMAIN (a \o b) /\ (a \o b)[Len(a) + j] = b[j]
         /\ \A k \in DOMAIN (a \o b) : \/ k \in DOMAIN a
                                       \/ \E j \in DOMAIN b : k = Len(a) + j
<1> DEFINE S == {a[i] : i \in DOMAIN a} \cup {b[i] : i \in DOMAIN b}
<1>1. Len(a) \in Nat /\ DOMAIN a = 1..Len(a) /\ Len(b) \in Nat /\ DOMAIN b = 1..Len(b)
  BY ListLen
<1>2. a \in Seq(S) /\ b \in Seq(S)
  <2>1. a \in [1..Len(a) -> S] /\ b \in [1..Len(b) -> S]
    BY <1>1, Lists DEF IsObject
  <2> QED BY <2>1, <1>1, SeqDef
<1>3. a \o b \in Seq(S) /\ Len(a \o b) = Len(a) + Len(b)
      /\ \A i \in 1..(Len(a) + Len(b)) : (a \o b)[i] = IF i <= Len(a) THEN a[i] ELSE b[i - Len(a)]
  BY <1>2, ConcatProperties
<1>4. DOMAIN (a \o b) = 1..(Len(a) + Len(b))
  BY <1>3, LenProperties
<1>5. IsList(a \o b)
  BY <1>3, SeqIsList
<1>6. \A k \in 1..(Len(a) + Len(b)) : k \in 1..Len(a) \/ \E j \in 1..Len(b) : k = Len(a) + j
  <2> SUFFICES ASSUME NEW k \in 1..(Len(a) + Len(b)), k \notin 1..Len(a)
               PROVE  \E j \in 1..Len(b) : k = Len(a) + j
    OBVIOUS
  <2>1. k - Len(a) \in 1..Len(b) /\ k = Len(a) + (k - Len(a))
    BY <1>1
  <2> QED BY <2>1
<1> DEFINE c == a \o b
<1>7. \A i \in DOMAIN a : i \in DOMAIN c /\ c[i] = a[i]
  BY <1>1, <1>3, <1>4
<1>8. \A j \in DOMAIN b : Len(a) + j \in DOMAIN c /\ c[Len(a) + j] = b[j]
  <2> SUFFICES ASSUME NEW j \in 1..Len(b)
               PROVE  Len(a) + j \in DOMAIN c /\ c[Len(a) + j] = b[j]
    BY <1>1
  <2>1. Len(a) + j \in 1..(Len(a) + Len(b)) /\ ~(Len(a) + j <= Len(a)) /\ Len(a) + j - Len(a) = j
    BY <1>1
  <2> QED BY <2>1, <1>3, <1>4
<1> QED BY <1>1, <1>3, <1>4, <1>5, <1>6, <1>7, <1>8

LEMMA Appended ==
  ASSUME NEW a, IsList(a), NEW x
  PROVE  /\ IsList(Append(a, x)) /\ Len(Append(a, x)) = Len(a) + 1
         /\ DOMAIN Append(a, x) = 1..(Len(a) + 1)
         /\ \A i \in DOMAIN a : i \in DOMAIN Append(a, x) /\ Append(a, x)[i] = a[i]
         /\ Append(a, x)[Len(a) + 1] = x
<1> DEFINE S == {a[i] : i \in DOMAIN a} \cup {x}
<1>1. Len(a) \in Nat /\ DOMAIN a = 1..Len(a)
  BY ListLen
<1>2. a \in Seq(S) /\ x \in S
  <2>1. a \in [1..Len(a) -> S]
    BY <1>1, Lists DEF IsObject
  <2> QED BY <2>1, <1>1, SeqDef
<1>3. /\ Append(a, x) \in Seq(S) /\ Len(Append(a, x)) = Len(a) + 1
      /\ \A i \in 1..Len(a) : Append(a, x)[i] = a[i]
      /\ Append(a, x)[Len(a) + 1] = x
  BY <1>2, AppendProperties
<1>4. DOMAIN Append(a, x) = 1..(Len(a) + 1)
  BY <1>3, LenProperties
<1>5. IsList(Append(a, x))
  BY <1>3, SeqIsList
<1> QED BY <1>1, <1>3, <1>4, <1>5

\* What a writer's copy, of version 2, is: enough for a save to store what the
\* server accepts.
IsCopy(copy) ==
  /\ copy = [metadata |-> copy.metadata, projects |-> copy.projects,
             components |-> copy.components, commands |-> copy.commands]
  /\ NameField \notin DOMAIN DevfileV2toV1(copy).attributes
  /\ IsList(copy.projects) /\ IsList(copy.components)
  /\ \A i \in DOMAIN copy.projects : "name" \in DOMAIN copy.projects[i]
  /\ \A i \in DOMAIN copy.components : IsComponent(ComponentV2toV1(copy.components[i]))
  /\ \A i \in DOMAIN copy.commands : IsCommand(CommandV2toV1(copy.commands[i]))

LEMMA KeptEndpoints ==
  ASSUME NEW component, HasEndpoints(component)
  PROVE  HasEndpoints(KeptComponent(component))
<1> DEFINE kept(names) == KeptLists(Restricted(component, names))
<1>1. ASSUME NEW names
      PROVE  HasEndpoints(kept(names))
  <2> DEFINE r == Restricted(component, names)
  <2>1. \A f \in DOMAIN r : f \in DOMAIN component /\ r[f] = component[f]
    BY DEF Restricted, Without
  <2> HIDE DEF r
  <2>2. DOMAIN KeptLists(r) = DOMAIN r
    BY DEF KeptLists
  <2>3. "endpoints" \in DOMAIN r => KeptLists(r)["endpoints"] = Each(r["endpoints"], KeptEndpoint)
    BY DEF KeptLists
  <2>4. ASSUME "endpoints" \in DOMAIN r, NEW i \in DOMAIN component["endpoints"]
        PROVE  IsEndpoint(KeptEndpoint(component["endpoints"][i]))
    <3> DEFINE e == component["endpoints"][i]
    <3>1. IsEndpoint(e)
      BY <2>1, <2>4 DEF HasEndpoints
    <3> HIDE DEF e
    <3>2. "attributes" \in DOMAIN KeptEndpoint(e) =>
            /\ "attributes" \in DOMAIN e
            /\ KeptEndpoint(e)["attributes"] =
                 IF "type" \in DOMAIN e["attributes"] /\ e["attributes"]["type"] = "ide"
                 THEN [e["attributes"] EXCEPT !["type"] = "main"] ELSE e["attributes"]
      BY DEF KeptEndpoint
    <3>3. \A o : IsObject(o) => IsObject([o EXCEPT !["type"] = "main"])
      BY DEF IsObject
    <3>4. IsEndpoint(KeptEndpoint(e))
      BY <3>1, <3>2, <3>3 DEF IsEndpoint
    <3> QED BY <3>4 DEF e
  <2>5. HasEndpoints(KeptLists(r))
    BY <2>1, <2>2, <2>3, <2>4 DEF HasEndpoints, Each
  <2> QED BY <2>5 DEF r
<1>2. HasEndpoints(Empty)
  BY DEF HasEndpoints, Empty
<1> HIDE DEF kept
<1>3. KeptComponent(component) \in {component, Empty}
      \/ \E names : KeptComponent(component) = kept(names)
  BY DEF KeptComponent, kept
<1> QED BY <1>1, <1>2, <1>3

\* The id of a plugin, read in version 1.
IdOf(component) ==
  IF "reference" \in DOMAIN component THEN NormalizeId(component.reference)
  ELSE component.id

\* A field a save keeps of a component without touching it.
LEMMA KeptAsIs ==
  ASSUME NEW component, NEW names, NEW f, f \notin {"endpoints", "volumes", "env"}
  PROVE  LET kept == KeptLists(Restricted(component, names))
         IN  /\ f \in DOMAIN kept <=> f \in DOMAIN component /\ f \in names
             /\ f \in DOMAIN kept => kept[f] = component[f]
BY DEF KeptLists, Restricted, Without

LEMMA KeptPlugin ==
  ASSUME NEW component
  PROVE  /\ IsPlugin(KeptComponent(component)) <=> IsPlugin(component)
         /\ IsPlugin(component) =>
              /\ KeptComponent(component).type = component.type
              /\ "id" \in DOMAIN KeptComponent(component) <=> "id" \in DOMAIN component
              /\ "reference" \in DOMAIN KeptComponent(component) <=> "reference" \in DOMAIN component
              /\ "id" \in DOMAIN component => KeptComponent(component).id = component.id
              /\ "reference" \in DOMAIN component =>
                   KeptComponent(component).reference = component.reference
<1> DEFINE type == IF "type" \in DOMAIN component THEN component.type ELSE "none"
           machine == CommonFields \cup {"image", "command", "args", "mountSources"}
           plugin == CommonFields \cup {"id", "reference", "registryUrl", "preferences"}
           kept == KeptComponent(component)
<1>1. kept = CASE type \in {"kubernetes", "openshift"} -> component
               [] type = "dockerimage" -> KeptLists(Restricted(component, machine))
               [] type \in {"chePlugin", "cheEditor"} -> KeptLists(Restricted(component, plugin))
               [] OTHER -> Empty
  BY DEF KeptComponent
<1>2. "type" \in machine /\ {"type", "id", "reference"} \subseteq plugin
  BY DEF CommonFields
<1>3. IsPlugin(component) <=> type \in {"chePlugin", "cheEditor"}
  BY DEF IsPlugin
<1> HIDE DEF machine, plugin, kept
<1>4. CASE type \in {"chePlugin", "cheEditor"}
  <2>1. kept = KeptLists(Restricted(component, plugin))
    BY <1>1, <1>4
  <2>2. "type" \in DOMAIN component
    BY <1>4
  <2>3. \A f \in {"type", "id", "reference"} :
          (f \in DOMAIN kept <=> f \in DOMAIN component) /\ (f \in DOMAIN kept => kept[f] = component[f])
    BY <2>1, <1>2, KeptAsIs
  <2> QED BY <2>2, <2>3, <1>4 DEF IsPlugin, kept
<1>5. CASE type = "dockerimage"
  <2>1. kept = KeptLists(Restricted(component, machine))
    BY <1>1, <1>5
  <2>2. "type" \in DOMAIN kept => kept["type"] = component["type"]
    BY <2>1, KeptAsIs
  <2>3. "type" \in DOMAIN kept => "type" \in DOMAIN component
    BY <2>1, KeptAsIs
  <2> QED BY <2>2, <2>3, <1>3, <1>5 DEF IsPlugin, kept
<1>6. CASE type \in {"kubernetes", "openshift"}
  <2>1. kept = component
    BY <1>1, <1>6
  <2> QED BY <2>1, <1>3, <1>6 DEF kept
<1>7. CASE type \notin {"chePlugin", "cheEditor", "dockerimage", "kubernetes", "openshift"}
  <2>1. kept = Empty
    BY <1>1, <1>7
  <2> QED BY <2>1, <1>3, <1>7 DEF kept, IsPlugin, Empty
<1> QED BY <1>4, <1>5, <1>6, <1>7

LEMMA KeptIsComponent ==
  ASSUME NEW component, IsComponent(component)
  PROVE  IsComponent(KeptComponent(component))
BY KeptPlugin, KeptEndpoints DEF IsComponent

LEMMA KeptIsCommand ==
  ASSUME NEW command, IsCommand(command)
  PROVE  IsCommand(KeptCommand(command))
<1>1. CASE /\ "actions" \in DOMAIN command
           /\ Head(command.actions).type \in {"exec", "vscode-launch", "vscode-task"}
  <2> DEFINE r == Restricted(command, {"name", "actions"})
             action == Head(command.actions)
  <2>1. "actions" \in DOMAIN r /\ r.actions = command.actions
    BY <1>1 DEF Restricted, Without
  <2>2. KeptCommand(command) = [r EXCEPT !.actions = <<KeptAction(Head(r.actions))>>]
    BY <1>1 DEF KeptCommand
  <2>3. KeptCommand(command).actions = <<KeptAction(action)>>
    BY <2>1, <2>2
  <2>4. "type" \in DOMAIN action
    BY <1>1 DEF IsCommand
  <2>5. "type" \in DOMAIN KeptAction(action)
    BY <2>4 DEF KeptAction, Restricted, Without
  <2>6. Head(<<KeptAction(action)>>) = KeptAction(action)
    OBVIOUS
  <2> QED BY <2>3, <2>5, <2>6 DEF IsCommand
<1>2. CASE ~(/\ "actions" \in DOMAIN command
             /\ Head(command.actions).type \in {"exec", "vscode-launch", "vscode-task"})
  <2>1. KeptCommand(command) = Restricted(command, {"name"})
    BY <1>2 DEF KeptCommand
  <2> QED BY <2>1 DEF IsCommand, Restricted, Without
<1> QED BY <1>1, <1>2

\* get() makes a copy of a devfile the server accepts ...
LEMMA GetCopies ==
  ASSUME NEW d, IsDevfile(d)
  PROVE  IsCopy(DevfileV1toV2(d))
<1> DEFINE x == DevfileV1toV2(d)
<1>1. /\ x = [metadata |-> x.metadata, projects |-> x.projects,
              components |-> x.components, commands |-> x.commands]
      /\ x.projects = Each(d.projects, ProjectV1toV2)
      /\ x.components = Each(d.components, ComponentV1toV2)
      /\ x.commands = Each(d.commands, CommandV1toV2)
  BY DEF DevfileV1toV2
<1>2. DevfileV2toV1(x).attributes = Without(d.attributes, {InfrastructureNamespace})
  BY MetadataKept DEF IsDevfile, DevfileV2toV1
<1> HIDE DEF x
<1>3. NameField \notin DOMAIN DevfileV2toV1(x).attributes
  BY <1>2 DEF IsDevfile, Without
<1>4. IsList(x.projects) /\ IsList(x.components)
      /\ DOMAIN x.projects = DOMAIN d.projects /\ DOMAIN x.components = DOMAIN d.components
  BY <1>1, Lists DEF IsDevfile, Each, IsObject
<1>5. \A i \in DOMAIN x.projects : "name" \in DOMAIN x.projects[i]
  <2> SUFFICES ASSUME NEW i \in DOMAIN d.projects
               PROVE  "name" \in DOMAIN ProjectV1toV2(d.projects[i])
    BY <1>1, <1>4 DEF Each
  <2>1. IsProject(d.projects[i])
    BY DEF IsDevfile
  <2>2. {"name", "attributes"} \subseteq DOMAIN ProjectV1toV2(d.projects[i])
    BY <2>1, ProjectForth
  <2> QED BY <2>2
<1>6. \A i \in DOMAIN x.components : IsComponent(ComponentV2toV1(x.components[i]))
  <2> SUFFICES ASSUME NEW i \in DOMAIN d.components
               PROVE  IsComponent(ComponentV2toV1(ComponentV1toV2(d.components[i])))
    BY <1>1, <1>4 DEF Each
  <2>1. IsComponent(d.components[i])
    BY DEF IsDevfile
  <2>2. ComponentV2toV1(ComponentV1toV2(d.components[i])) = KeptComponent(d.components[i])
    BY <2>1, ComponentKept DEF IsComponent
  <2> QED BY <2>1, <2>2, KeptIsComponent
<1>7. \A i \in DOMAIN x.commands : IsCommand(CommandV2toV1(x.commands[i]))
  BY <1>1, CommandKept, KeptIsCommand DEF IsDevfile, Each
<1>8. IsCopy(x)
  BY <1>1, <1>3, <1>4, <1>5, <1>6, <1>7 DEF IsCopy
<1> QED BY <1>8 DEF x

\* ... and updateDevfile() stores one it accepts.
LEMMA UpdateStores ==
  ASSUME NEW copy, IsCopy(copy)
  PROVE  IsDevfile(DevfileV2toV1(copy))
<1> DEFINE d == DevfileV2toV1(copy)
<1>1. /\ d.projects = Each(copy.projects, ProjectV2toV1)
      /\ d.components = Each(copy.components, ComponentV2toV1)
      /\ d.commands = Each(copy.commands, CommandV2toV1)
  BY DEF DevfileV2toV1
<1>2. NameField \notin DOMAIN d.attributes
  BY DEF IsCopy
<1> HIDE DEF d
<1>3. IsList(d.projects) /\ IsList(d.components)
      /\ DOMAIN d.projects = DOMAIN copy.projects /\ DOMAIN d.components = DOMAIN copy.components
  BY <1>1, Lists DEF IsCopy, Each, IsObject
<1>4. ASSUME NEW i \in DOMAIN copy.projects
      PROVE  IsProject(ProjectV2toV1(copy.projects[i]))
  <2> DEFINE p == copy.projects[i]
             project == ProjectV2toV1(p)
  <2>1. "name" \in DOMAIN p
    BY <1>4 DEF IsCopy
  <2> HIDE DEF p
  <2>2. /\ \A f : f \in DOMAIN project <=>
                  \/ f = "name" \/ (f = "clonePath" /\ "clonePath" \in DOMAIN p)
                  \/ f = "source" /\ ("git" \in DOMAIN p \/ "zip" \in DOMAIN p)
        /\ "git" \in DOMAIN p => project["source"] = SourceOf(p)
        /\ "git" \notin DOMAIN p /\ "zip" \in DOMAIN p =>
             project["source"] = [type |-> "zip", location |-> p["zip"].location]
    BY <2>1, ProjectBack
  <2> HIDE DEF project
  <2>3. {"type", "location"} \subseteq DOMAIN SourceOf(p)
    BY Merged DEF SourceOf
  <2>4. IsProject(project)
    BY <2>2, <2>3 DEF IsProject
  <2> QED BY <2>4 DEF project, p
<1>5. \A i \in DOMAIN d.projects : IsProject(d.projects[i])
  BY <1>1, <1>3, <1>4 DEF Each
<1>6. \A i \in DOMAIN d.components : IsComponent(d.components[i])
  BY <1>1, <1>3 DEF Each, IsCopy
<1>7. \A i \in DOMAIN d.commands : IsCommand(d.commands[i])
  BY <1>1 DEF Each, IsCopy
<1>8. IsDevfile(d)
  BY <1>2, <1>3, <1>5, <1>6, <1>7 DEF IsDevfile
<1> QED BY <1>8 DEF d

\* setWorkspacePlugins: the ids of a list of components, the components it
\* keeps and the plugins it adds.
Ids(components) ==
  [i \in {j \in DOMAIN components : IsPluginComponent(components[j])} |->
     PluginId(components[i])]

Staying(components, plugins) ==
  {i \in DOMAIN components :
     i \in DOMAIN Ids(components) =>
       Nth(Ids(components), i) <= Count(plugins, Ids(components)[i])}

Joining(components, plugins) ==
  {j \in DOMAIN plugins : Nth(plugins, j) > Count(Ids(components), plugins[j])}

LEMMA SetPluginsIs ==
  ASSUME NEW components, IsList(components), NEW plugins, IsList(plugins)
  PROVE  LET stay == At(components, Staying(components, plugins))
             join == Each(At(plugins, Joining(components, plugins)), CreatePluginComponent)
         IN  /\ SetPlugins(components, plugins) = stay \o join
             /\ IsList(stay) /\ IsList(join)
             /\ DOMAIN join = DOMAIN At(plugins, Joining(components, plugins))
             /\ Staying(components, plugins) \subseteq DOMAIN components
             /\ Joining(components, plugins) \subseteq DOMAIN plugins
<1> DEFINE stay == At(components, Staying(components, plugins))
           some == At(plugins, Joining(components, plugins))
           join == Each(some, CreatePluginComponent)
<1>1. SetPlugins(components, plugins) = stay \o join
  BY DEF SetPlugins, Ids, Staying, Joining
<1>2. Staying(components, plugins) \subseteq DOMAIN components
      /\ Joining(components, plugins) \subseteq DOMAIN plugins
  BY DEF Staying, Joining
<1>3. IsList(stay) /\ IsList(some)
  BY <1>2, Picked
<1> HIDE DEF some, stay
<1>4. IsList(join) /\ DOMAIN join = DOMAIN some
  BY <1>3, Lists DEF Each, IsObject
<1> QED BY <1>1, <1>2, <1>3, <1>4 DEF some, stay

\* Every component of the new list was there before or is made from a plugin.
LEMMA SetPluginsElements ==
  ASSUME NEW components, IsList(components), NEW plugins, IsList(plugins)
  PROVE  LET result == SetPlugins(components, plugins)
         IN  /\ IsList(result)
             /\ \A k \in DOMAIN result :
                  \/ \E i \in Staying(components, plugins) : result[k] = components[i]
                  \/ \E j \in Joining(components, plugins) :
                       result[k] = CreatePluginComponent(plugins[j])
             /\ \A i \in Staying(components, plugins) :
                  \E k \in DOMAIN result : result[k] = components[i]
             /\ \A j \in Joining(components, plugins) :
                  \E k \in DOMAIN result : result[k] = CreatePluginComponent(plugins[j])
<1> DEFINE S == Staying(components, plugins)
           J == Joining(components, plugins)
           stay == At(components, S)
           some == At(plugins, J)
           join == Each(some, CreatePluginComponent)
           result == SetPlugins(components, plugins)
<1>1. /\ result = stay \o join /\ IsList(stay) /\ IsList(join)
      /\ DOMAIN join = DOMAIN some /\ S \subseteq DOMAIN components /\ J \subseteq DOMAIN plugins
  BY SetPluginsIs
<1>2. \A j \in DOMAIN join : join[j] = CreatePluginComponent(some[j])
  BY DEF Each
<1>3. /\ \A i \in S : Rank(S, i) \in DOMAIN stay /\ stay[Rank(S, i)] = components[i]
      /\ \A k \in DOMAIN stay : \E i \in S : Rank(S, i) = k
  BY <1>1, Picked
<1>4. /\ \A j \in J : Rank(J, j) \in DOMAIN some /\ some[Rank(J, j)] = plugins[j]
      /\ \A k \in DOMAIN some : \E j \in J : Rank(J, j) = k
  BY <1>1, Picked
<1> HIDE DEF stay, join, some, result, S, J
<1>5. /\ IsList(result)
      /\ \A i \in DOMAIN stay : i \in DOMAIN result /\ result[i] = stay[i]
      /\ \A j \in DOMAIN join : Len(stay) + j \in DOMAIN result /\ result[Len(stay) + j] = join[j]
      /\ \A k \in DOMAIN result : k \in DOMAIN stay \/ \E j \in DOMAIN join : k = Len(stay) + j
  BY <1>1, Joined
<1>6. \A k \in DOMAIN result : \/ \E i \in S : result[k] = components[i]
                               \/ \E j \in J : result[k] = CreatePluginComponent(plugins[j])
  <2> SUFFICES ASSUME NEW k \in DOMAIN result
               PROVE  \/ \E i \in S : result[k] = components[i]
                      \/ \E j \in J : result[k] = CreatePluginComponent(plugins[j])
    OBVIOUS
  <2>1. CASE k \in DOMAIN stay
    BY <2>1, <1>3, <1>5
  <2>2. ASSUME NEW j \in DOMAIN join, k = Len(stay) + j
        PROVE  \E i \in J : result[k] = CreatePluginComponent(plugins[i])
    <3>1. PICK i \in J : Rank(J, i) = j
      BY <1>1, <1>4, <2>2
    <3> QED BY <3>1, <2>2, <1>1, <1>2, <1>4, <1>5
  <2> QED BY <2>1, <2>2, <1>5
<1>7. \A i \in S : \E k \in DOMAIN result : result[k] = components[i]
  BY <1>3, <1>5
<1>8. \A j \in J : \E k \in DOMAIN result : result[k] = CreatePluginComponent(plugins[j])
  <2> SUFFICES ASSUME NEW j \in J
               PROVE  \E k \in DOMAIN result : result[k] = CreatePluginComponent(plugins[j])
    OBVIOUS
  <2>1. Rank(J, j) \in DOMAIN join /\ join[Rank(J, j)] = CreatePluginComponent(plugins[j])
    BY <1>1, <1>2, <1>4
  <2> QED BY <2>1, <1>5
<1> QED BY <1>5, <1>6, <1>7, <1>8 DEF result, S, J

\* A component made from a plugin's key is stored as a plugin of that key.
LEMMA CreatedIsStored ==
  ASSUME NEW key
  PROVE  LET component == ComponentV2toV1(CreatePluginComponent(key))
         IN  IsComponent(component) /\ IsPlugin(component) /\ IdOf(component) = key
<1> DEFINE c == CreatePluginComponent(key)
           part == c.plugin
           alias == Copied(c, [alias |-> "name"])
           url == "url" \in DOMAIN part
<1>1. /\ \A f : f \in DOMAIN c <=> f = "plugin"
      /\ "plugin" \in DOMAIN c => c["plugin"] = part
      /\ url => part["url"] = MetaYaml(key) /\ \A f : f \in DOMAIN part <=> f = "url"
      /\ ~url => part["id"] = key /\ \A f : f \in DOMAIN part <=> f = "id"
  BY DEF CreatePluginComponent
<1> HIDE DEF c, part
<1> DEFINE origin == IF "attributes" \in DOMAIN c /\ "source-origin" \in DOMAIN c.attributes
                     THEN c.attributes["source-origin"] ELSE "chePlugin"
           names == PluginFieldsBack
           named == Copied(part, names)
           type == [type |-> "chePlugin"]
<1>2. ComponentV2toV1(c) = [type |-> origin] ++ alias ++ Copied(part, names) ++ ListsV2toV1(part)
  BY <1>1 DEF ComponentV2toV1
<1>3. origin = "chePlugin"
  BY <1>1
<1>4. /\ "endpoints" \notin DOMAIN names /\ "type" \notin DOMAIN names
      /\ "id" \in DOMAIN names /\ names["id"] = "id"
      /\ "reference" \in DOMAIN names /\ names["reference"] = "url"
  BY FieldNames DEF LimitNames
<1> HIDE DEF names
<1>5. "endpoints" \notin DOMAIN ListsV2toV1(part)
      /\ "id" \notin DOMAIN ListsV2toV1(part) /\ "reference" \notin DOMAIN ListsV2toV1(part)
  BY <1>1, ListsBack
<1>6. /\ "endpoints" \notin DOMAIN named
      /\ "id" \in DOMAIN named <=> "id" \in DOMAIN part
      /\ "reference" \in DOMAIN named <=> "url" \in DOMAIN part
      /\ "id" \in DOMAIN named => named["id"] = part["id"]
      /\ "reference" \in DOMAIN named => named["reference"] = part["url"]
  BY <1>4, CopiedFields
<1>7. "endpoints" \notin DOMAIN alias /\ "id" \notin DOMAIN alias /\ "reference" \notin DOMAIN alias
  BY DEF Copied
<1>8. /\ "type" \in DOMAIN type /\ type["type"] = "chePlugin"
      /\ "endpoints" \notin DOMAIN type /\ "id" \notin DOMAIN type /\ "reference" \notin DOMAIN type
  OBVIOUS
<1> HIDE DEF named, alias, type
<1> DEFINE one == type ++ alias
           two == one ++ named
           all == two ++ ListsV2toV1(part)
<1>9. /\ "type" \in DOMAIN one /\ one["type"] = "chePlugin"
      /\ "endpoints" \notin DOMAIN one /\ "id" \notin DOMAIN one /\ "reference" \notin DOMAIN one
  BY <1>7, <1>8, Merged
<1> HIDE DEF one
<1>10. /\ "type" \in DOMAIN two /\ two["type"] = "chePlugin" /\ "endpoints" \notin DOMAIN two
       /\ "id" \in DOMAIN two <=> "id" \in DOMAIN part
       /\ "reference" \in DOMAIN two <=> "url" \in DOMAIN part
       /\ "id" \in DOMAIN two => two["id"] = part["id"]
       /\ "reference" \in DOMAIN two => two["reference"] = part["url"]
  BY <1>6, <1>9, Merged
<1> HIDE DEF two
<1>11. /\ "type" \in DOMAIN all /\ all["type"] = "chePlugin" /\ "endpoints" \notin DOMAIN all
       /\ "id" \in DOMAIN all <=> "id" \in DOMAIN part
       /\ "reference" \in DOMAIN all <=> "url" \in DOMAIN part
       /\ "id" \in DOMAIN all => all["id"] = part["id"]
       /\ "reference" \in DOMAIN all => all["reference"] = part["url"]
  BY <1>5, <1>10, Merged
<1>12. all = ComponentV2toV1(c)
  BY <1>2, <1>3 DEF one, two, named, type
<1> HIDE DEF all
<1>13. NormalizeId(MetaYaml(key)) = key
  BY DEF NormalizeId, MetaYaml
<1>14. IsPlugin(all)
  BY <1>11 DEF IsPlugin
<1>15. IsComponent(all)
  BY <1>1, <1>11 DEF IsComponent, HasEndpoints
<1>16. IdOf(all) = key
  BY <1>1, <1>11, <1>13 DEF IdOf
<1> QED BY <1>12, <1>14, <1>15, <1>16 DEF c

LEMMA PluginsAreSet ==
  ASSUME NEW copy, IsCopy(copy), NEW plugins, IsList(plugins)
  PROVE  IsCopy([copy EXCEPT !.components = SetPlugins(copy.components, plugins)])
<1> DEFINE result == SetPlugins(copy.components, plugins)
           x == [copy EXCEPT !.components = result]
<1>1. IsList(copy.components)
  BY DEF IsCopy
<1>2. /\ IsList(result)
      /\ \A k \in DOMAIN result :
           \/ \E i \in DOMAIN copy.components : result[k] = copy.components[i]
           \/ \E j \in DOMAIN plugins : result[k] = CreatePluginComponent(plugins[j])
  BY <1>1, SetPluginsElements DEF Staying, Joining
<1> HIDE DEF result
<1>3. \A k \in DOMAIN result : IsComponent(ComponentV2toV1(result[k]))
  BY <1>2, CreatedIsStored DEF IsCopy
<1>4. copy = [metadata |-> copy.metadata, projects |-> copy.projects,
              components |-> copy.components, commands |-> copy.commands]
  BY DEF IsCopy
<1>5. x = [metadata |-> copy.metadata, projects |-> copy.projects,
           components |-> result, commands |-> copy.commands]
  BY <1>4
<1> HIDE DEF x
<1>6. DevfileV2toV1(x).attributes = DevfileV2toV1(copy).attributes
  BY <1>5 DEF DevfileV2toV1
<1>7. IsCopy(x)
  <2>1. /\ x.metadata = copy.metadata /\ x.projects = copy.projects
        /\ x.components = result /\ x.commands = copy.commands
    BY <1>5
  <2>2. x = [metadata |-> x.metadata, projects |-> x.projects,
             components |-> x.components, commands |-> x.commands]
    BY <1>5, <2>1
  <2> QED BY <2>1, <2>2, <1>2, <1>3, <1>6 DEF IsCopy
<1> QED BY <1>7 DEF x, result

LEMMA ProjectsAreSet ==
  ASSUME NEW copy, IsCopy(copy), NEW projects, IsList(projects),
         \A i \in DOMAIN projects : "name" \in DOMAIN projects[i]
  PROVE  IsCopy([copy EXCEPT !.projects = projects])
<1> DEFINE x == [copy EXCEPT !.projects = projects]
<1>1. copy = [metadata |-> copy.metadata, projects |-> copy.projects,
              components |-> copy.components, commands |-> copy.commands]
  BY DEF IsCopy
<1>2. x = [metadata |-> copy.metadata, projects |-> projects,
           components |-> copy.components, commands |-> copy.commands]
  BY <1>1
<1> HIDE DEF x
<1>3. DevfileV2toV1(x).attributes = DevfileV2toV1(copy).attributes
  BY <1>2 DEF DevfileV2toV1
<1>4. IsCopy(x)
  <2>1. /\ x.metadata = copy.metadata /\ x.projects = projects
        /\ x.components = copy.components /\ x.commands = copy.commands
    BY <1>2
  <2>2. x = [metadata |-> x.metadata, projects |-> x.projects,
             components |-> x.components, commands |-> x.commands]
    BY <1>2, <2>1
  <2> QED BY <2>1, <2>2, <1>3 DEF IsCopy
<1> QED BY <1>4 DEF x

Named(projects) == IsList(projects) /\ \A i \in DOMAIN projects : "name" \in DOMAIN projects[i]

\* The project a change makes when no project has its path.
NewProject(change) ==
  [name |-> Last(change.path), git |-> GitOf(change)]
    ++ (IF Len(change.path) > 1 THEN [clonePath |-> change.path] ELSE Empty)

LEMMA UpdatedNames ==
  ASSUME NEW projects, Named(projects), NEW change
  PROVE  Named(UpdateOrCreateGitProject(projects, change))
<1>1. CASE \E i \in DOMAIN projects : PathOf(projects[i]) = change.path
  <2> DEFINE result == [i \in DOMAIN projects |->
                          IF PathOf(projects[i]) = change.path
                          THEN WithGit(projects[i], change) ELSE projects[i]]
  <2>1. UpdateOrCreateGitProject(projects, change) = result
    BY <1>1 DEF UpdateOrCreateGitProject
  <2>2. \A i \in DOMAIN projects : "name" \in DOMAIN WithGit(projects[i], change)
    BY Merged DEF Named, WithGit
  <2>3. IsList(result)
    BY Lists DEF Named, IsObject
  <2> QED BY <2>1, <2>2, <2>3 DEF Named
<1>2. CASE ~\E i \in DOMAIN projects : PathOf(projects[i]) = change.path
  <2>1. UpdateOrCreateGitProject(projects, change) = Append(projects, NewProject(change))
    BY <1>2 DEF UpdateOrCreateGitProject, NewProject
  <2>2. "name" \in DOMAIN NewProject(change)
    BY Merged DEF NewProject
  <2> HIDE <1>2
  <2>3. Len(projects) \in Nat /\ DOMAIN projects = 1..Len(projects)
    BY ListLen DEF Named
  <2>4. /\ IsList(Append(projects, NewProject(change)))
        /\ DOMAIN Append(projects, NewProject(change)) = 1..(Len(projects) + 1)
        /\ \A i \in DOMAIN projects : Append(projects, NewProject(change))[i] = projects[i]
        /\ Append(projects, NewProject(change))[Len(projects) + 1] = NewProject(change)
    BY Appended DEF Named
  <2>5. \A i \in 1..(Len(projects) + 1) : i \in DOMAIN projects \/ i = Len(projects) + 1
    BY <2>3
  <2> QED BY <2>1, <2>2, <2>4, <2>5 DEF Named
<1> QED BY <1>1, <1>2

LEMMA DeletedNames ==
  ASSUME NEW projects, Named(projects), NEW path
  PROVE  Named(DeleteGitProject(projects, path))
<1> DEFINE there == {i \in DOMAIN projects : PathOf(projects[i]) = path}
           I == DOMAIN projects \ {CHOOSE i \in there : \A j \in there : i <= j}
<1>1. DeleteGitProject(projects, path) = IF there = {} THEN projects ELSE At(projects, I)
  BY DEF DeleteGitProject
<1>2. I \subseteq DOMAIN projects
  OBVIOUS
<1> HIDE DEF I, there
<1>3. /\ IsList(At(projects, I))
      /\ \A i \in I : At(projects, I)[Rank(I, i)] = projects[i]
      /\ \A k \in DOMAIN At(projects, I) : \E i \in I : Rank(I, i) = k
  BY <1>2, Picked DEF Named
<1>4. \A k \in DOMAIN At(projects, I) : "name" \in DOMAIN At(projects, I)[k]
  BY <1>2, <1>3 DEF Named
<1> QED BY <1>1, <1>3, <1>4 DEF Named

\* The ids of a devfile's plugins, and the list a call makes of them.
LEMMA PluginsAreListed ==
  ASSUME NEW components, IsList(components)
  PROVE  /\ IsList(PluginComponents(components))
         /\ IsList(WorkspacePlugins(components))
         /\ \A k \in DOMAIN WorkspacePlugins(components) : \E i \in DOMAIN components :
              /\ IsPluginComponent(components[i])
              /\ WorkspacePlugins(components)[k] = PluginId(components[i])
         /\ \A i \in DOMAIN components : IsPluginComponent(components[i]) =>
              \E k \in DOMAIN WorkspacePlugins(components) :
                WorkspacePlugins(components)[k] = PluginId(components[i])
<1> DEFINE I == {i \in DOMAIN components : IsPluginComponent(components[i])}
           some == At(components, I)
           ids == WorkspacePlugins(components)
<1>1. /\ IsList(some)
      /\ \A i \in I : Rank(I, i) \in DOMAIN some /\ some[Rank(I, i)] = components[i]
      /\ \A k \in DOMAIN some : \E i \in I : Rank(I, i) = k
  BY Picked
<1>2. PluginComponents(components) = some /\ ids = [k \in DOMAIN some |-> PluginId(some[k])]
  BY DEF PluginComponents, WorkspacePlugins, Each
<1>3. \A i : i \in I <=> i \in DOMAIN components /\ IsPluginComponent(components[i])
  OBVIOUS
<1> HIDE DEF I, some, ids
<1>4. IsList(ids)
  BY <1>1, <1>2, Lists DEF IsObject
<1>5. \A k \in DOMAIN ids : \E i \in DOMAIN components :
        IsPluginComponent(components[i]) /\ ids[k] = PluginId(components[i])
  BY <1>1, <1>2, <1>3
<1>6. \A i \in DOMAIN components : IsPluginComponent(components[i]) =>
        \E k \in DOMAIN ids : ids[k] = PluginId(components[i])
  BY <1>1, <1>2, <1>3
<1> QED BY <1>1, <1>2, <1>4, <1>5, <1>6 DEF ids

LEMMA OthersAre ==
  ASSUME NEW list, IsList(list), NEW value
  PROVE  /\ IsList(Others(list, value))
         /\ \A k \in DOMAIN Others(list, value) : \E i \in DOMAIN list :
              list[i] # value /\ Others(list, value)[k] = list[i]
         /\ \A i \in DOMAIN list : list[i] # value =>
              \E k \in DOMAIN Others(list, value) : Others(list, value)[k] = list[i]
<1> DEFINE I == {i \in DOMAIN list : list[i] # value}
<1>1. Others(list, value) = At(list, I) /\ I \subseteq DOMAIN list
  BY DEF Others
<1>2. /\ IsList(At(list, I))
      /\ \A i \in I : Rank(I, i) \in DOMAIN At(list, I) /\ At(list, I)[Rank(I, i)] = list[i]
      /\ \A k \in DOMAIN At(list, I) : \E i \in I : Rank(I, i) = k
  BY <1>1, Picked
<1>3. \A i : i \in I <=> i \in DOMAIN list /\ list[i] # value
  OBVIOUS
<1> HIDE DEF I
<1> QED BY <1>1, <1>2, <1>3

LEMMA NewPluginsIsList ==
  ASSUME NEW kind \in {"add", "remove", "update"}, NEW before, NEW after,
         NEW plugins, IsList(plugins)
  PROVE  IsList(NewPlugins(kind, before, after, plugins))
<1>1. IsList(Others(plugins, before))
  BY OthersAre
<1>2. IsList(Append(plugins, after)) /\ IsList(Append(Others(plugins, before), after))
  BY <1>1, Appended
<1> QED BY <1>1, <1>2 DEF NewPlugins

\* A component is a plugin of an id in both versions, or in none.
LEMMA PluginForth ==
  ASSUME NEW x, IsComponent(x)
  PROVE  /\ IsPluginComponent(ComponentV1toV2(x)) <=> IsPlugin(x)
         /\ IsPlugin(x) => PluginId(ComponentV1toV2(x)) = IdOf(x)
<1> DEFINE type == IF "type" \in DOMAIN x THEN x.type ELSE "none"
           alias == Copied(x, [name |-> "alias"])
           named == Copied(x, PluginFields)
           part == named ++ ListsV1toV2(x)
           y == ComponentV1toV2(x)
<1>1. "plugin" \notin DOMAIN alias /\ "attributes" \notin DOMAIN alias
  BY DEF Copied
<1>2. IsPlugin(x) <=> type \in {"chePlugin", "cheEditor"}
  BY DEF IsPlugin
<1>3. /\ "id" \in DOMAIN PluginFields /\ PluginFields["id"] = "id"
      /\ "url" \in DOMAIN PluginFields /\ PluginFields["url"] = "reference"
  BY FieldNames
<1>4. /\ "id" \in DOMAIN named <=> "id" \in DOMAIN x
      /\ "url" \in DOMAIN named <=> "reference" \in DOMAIN x
      /\ "id" \in DOMAIN named => named["id"] = x["id"]
      /\ "url" \in DOMAIN named => named["url"] = x["reference"]
  BY <1>3, CopiedFields
<1>5. "id" \notin DOMAIN ListsV1toV2(x) /\ "url" \notin DOMAIN ListsV1toV2(x)
  BY ListsForth
<1> HIDE DEF named, alias
<1>6. /\ "id" \in DOMAIN part <=> "id" \in DOMAIN x
      /\ "url" \in DOMAIN part <=> "reference" \in DOMAIN x
      /\ "id" \in DOMAIN part => part["id"] = x["id"]
      /\ "url" \in DOMAIN part => part["url"] = x["reference"]
  BY <1>4, <1>5, Merged
<1>7. CASE type \in {"chePlugin", "cheEditor"}
  <2> DEFINE own == [plugin |-> part, attributes |-> Field("source-origin", type)]
  <2>1. y = alias ++ own
    BY <1>7 DEF ComponentV1toV2, alias, named
  <2>2. "plugin" \in DOMAIN own /\ own["plugin"] = part
    OBVIOUS
  <2> HIDE DEF own, part, y
  <2>3. "plugin" \in DOMAIN y /\ y["plugin"] = part
    BY <2>1, <2>2, <1>1, Merged
  <2>4. IsPluginComponent(y)
    BY <2>3 DEF IsPluginComponent
  <2>5. PluginId(y) = IF "url" \in DOMAIN part THEN NormalizeId(part["url"]) ELSE part["id"]
    BY <2>3 DEF PluginId
  <2>6. "id" \in DOMAIN x \/ "reference" \in DOMAIN x
    BY <1>2, <1>7 DEF IsComponent
  <2>7. PluginId(y) = IdOf(x)
    BY <2>5, <2>6, <1>6 DEF IdOf
  <2> QED BY <2>4, <2>7, <1>2, <1>7 DEF y
<1>8. CASE type \notin {"chePlugin", "cheEditor"}
  <2>1. \E own : y = alias ++ own /\ "plugin" \notin DOMAIN own
    <3>1. CASE type = "dockerimage"
      <4> WITNESS [container |-> Copied(x, ContainerFields) ++ ListsV1toV2(x)]
      <4> QED BY <3>1 DEF ComponentV1toV2, alias
    <3>2. CASE type = "kubernetes"
      <4> WITNESS [kubernetes |-> [inlined |-> x]]
      <4> QED BY <3>2 DEF ComponentV1toV2, alias
    <3>3. CASE type = "openshift"
      <4> WITNESS [openshift |-> [inlined |-> x]]
      <4> QED BY <3>3 DEF ComponentV1toV2, alias
    <3>4. CASE type \notin {"dockerimage", "kubernetes", "openshift"}
      <4> WITNESS Empty
      <4> QED BY <3>4, <1>8 DEF ComponentV1toV2, alias, Empty
    <3> QED BY <3>1, <3>2, <3>3, <3>4
  <2> HIDE DEF y
  <2>2. "plugin" \notin DOMAIN y
    BY <2>1, <1>1, Merged
  <2>3. ~IsPluginComponent(y)
    BY <2>2 DEF IsPluginComponent
  <2> QED BY <2>3, <1>2, <1>8 DEF y
<1> QED BY <1>7, <1>8

\* The ids of the plugins of a devfile.
LEMMA IdsOfIs ==
  ASSUME NEW d, IsDevfile(d)
  PROVE  IdsOf(d) = {IdOf(d.components[i]) : i \in {j \in DOMAIN d.components :
                                                      IsPlugin(d.components[j])}}
<1> DEFINE comps == DevfileV1toV2(d).components
           some == PluginComponents(comps)
           I == {i \in DOMAIN comps : IsPluginComponent(comps[i])}
<1>1. comps = Each(d.components, ComponentV1toV2)
  BY DEF DevfileV1toV2
<1> HIDE DEF comps
<1>2. IsList(comps) /\ DOMAIN comps = DOMAIN d.components
      /\ \A i \in DOMAIN comps : comps[i] = ComponentV1toV2(d.components[i])
  BY <1>1, Lists DEF IsDevfile, Each, IsObject
<1>3. /\ some = At(comps, I) /\ I \subseteq DOMAIN comps
      /\ \A i : i \in I <=> i \in DOMAIN comps /\ IsPluginComponent(comps[i])
  BY DEF PluginComponents
<1> HIDE DEF I, some
<1>4. /\ \A i \in I : Rank(I, i) \in DOMAIN some /\ some[Rank(I, i)] = comps[i]
      /\ \A k \in DOMAIN some : \E i \in I : Rank(I, i) = k
  BY <1>2, <1>3, Picked
<1>5. \A i \in DOMAIN comps :
        /\ IsPluginComponent(comps[i]) <=> IsPlugin(d.components[i])
        /\ IsPlugin(d.components[i]) => PluginId(comps[i]) = IdOf(d.components[i])
  BY <1>2, PluginForth DEF IsDevfile
<1>6. IdsOf(d) = {PluginId(some[k]) : k \in DOMAIN some}
  BY DEF IdsOf, some, comps, Range
<1>7. \A k \in DOMAIN some : \E i \in DOMAIN d.components :
        IsPlugin(d.components[i]) /\ PluginId(some[k]) = IdOf(d.components[i])
  BY <1>2, <1>3, <1>4, <1>5
<1>8. \A i \in DOMAIN d.components : IsPlugin(d.components[i]) =>
        \E k \in DOMAIN some : PluginId(some[k]) = IdOf(d.components[i])
  BY <1>2, <1>3, <1>4, <1>5
<1> QED BY <1>6, <1>7, <1>8

\* Where a value is in a list, and which of its occurrences an index is.
Places(list, x) == {i \in DOMAIN list : list[i] = x}

LEMMA Occurrences ==
  ASSUME NEW n \in Nat, NEW list, DOMAIN list \subseteq 1..n, NEW x
  PROVE  /\ Count(list, x) \in Nat
         /\ Count(list, x) = 0 <=> Places(list, x) = {}
         /\ \A i \in Places(list, x) : Nth(list, i) \in 1..Count(list, x)
         /\ \A k \in 1..Count(list, x) : \E i \in Places(list, x) : Nth(list, i) = k
<1> DEFINE I == Places(list, x)
<1>1. I \subseteq 1..n /\ Count(list, x) = Cardinality(I)
  BY DEF Places, Count
<1>2. \A i \in I : Nth(list, i) = Rank(I, i)
  <2> SUFFICES ASSUME NEW i \in I
               PROVE  Nth(list, i) = Rank(I, i)
    OBVIOUS
  <2>1. {j \in DOMAIN list : j <= i /\ list[j] = list[i]} = {j \in I : j <= i}
    BY DEF Places
  <2> QED BY <2>1 DEF Nth, Rank
<1> HIDE DEF I
<1>3. /\ IsFiniteSet(I) /\ Cardinality(I) \in Nat
      /\ \A i \in I : Rank(I, i) \in 1..Cardinality(I)
      /\ \A k \in 1..Cardinality(I) : \E i \in I : Rank(I, i) = k
  BY <1>1, Ranks
<1>4. Cardinality(I) = 0 <=> I = {}
  BY <1>3, FS_EmptySet
<1> QED BY <1>1, <1>2, <1>3, <1>4 DEF I

\* setWorkspacePlugins makes the list true: the ids of the new components are
\* the plugins of the list.
LEMMA SetPluginsIds ==
  ASSUME NEW components, IsList(components), NEW plugins, IsList(plugins)
  PROVE  /\ \A i \in Staying(components, plugins) : IsPluginComponent(components[i]) =>
              \E j \in DOMAIN plugins : plugins[j] = PluginId(components[i])
         /\ \A j \in DOMAIN plugins :
              \/ \E i \in Staying(components, plugins) :
                   IsPluginComponent(components[i]) /\ PluginId(components[i]) = plugins[j]
              \/ \E k \in Joining(components, plugins) : plugins[k] = plugins[j]
<1> DEFINE ids == Ids(components)
<1>1. PICK n \in Nat : DOMAIN components = 1..n
  BY Lists
<1>2. PICK m \in Nat : DOMAIN plugins = 1..m
  BY Lists
<1>3. /\ DOMAIN ids \subseteq 1..n
      /\ \A i : i \in DOMAIN ids <=> i \in DOMAIN components /\ IsPluginComponent(components[i])
      /\ \A i \in DOMAIN ids : ids[i] = PluginId(components[i])
  BY <1>1 DEF Ids
<1>4. /\ \A i : i \in Staying(components, plugins) <=>
              /\ i \in DOMAIN components
              /\ i \in DOMAIN ids => Nth(ids, i) <= Count(plugins, ids[i])
      /\ \A j : j \in Joining(components, plugins) <=>
              j \in DOMAIN plugins /\ Nth(plugins, j) > Count(ids, plugins[j])
  BY DEF Staying, Joining
<1> HIDE DEF ids
<1>5. ASSUME NEW i \in Staying(components, plugins), IsPluginComponent(components[i])
      PROVE  \E j \in DOMAIN plugins : plugins[j] = PluginId(components[i])
  <2> DEFINE x == ids[i]
  <2>1. i \in DOMAIN ids /\ i \in Places(ids, x)
    BY <1>3, <1>4, <1>5 DEF Places
  <2>2. Nth(ids, i) \in 1..Count(ids, x) /\ Count(ids, x) \in Nat
    BY <2>1, <1>3, Occurrences
  <2>3. Count(plugins, x) \in Nat /\ (Count(plugins, x) = 0 <=> Places(plugins, x) = {})
    BY <1>2, Occurrences
  <2>4. Nth(ids, i) <= Count(plugins, x)
    BY <2>1, <1>4
  <2>5. Places(plugins, x) # {}
    BY <2>2, <2>3, <2>4
  <2> QED BY <2>1, <2>5, <1>3 DEF Places
<1>6. ASSUME NEW j \in DOMAIN plugins
      PROVE  \/ \E i \in Staying(components, plugins) :
                  IsPluginComponent(components[i]) /\ PluginId(components[i]) = plugins[j]
             \/ \E k \in Joining(components, plugins) : plugins[k] = plugins[j]
  <2> DEFINE x == plugins[j]
  <2>1. /\ Count(plugins, x) \in Nat
        /\ Count(plugins, x) = 0 <=> Places(plugins, x) = {}
        /\ \A i \in Places(plugins, x) : Nth(plugins, i) \in 1..Count(plugins, x)
    BY <1>2, Occurrences
  <2>2. /\ Count(ids, x) \in Nat
        /\ Count(ids, x) = 0 <=> Places(ids, x) = {}
        /\ \A k \in 1..Count(ids, x) : \E i \in Places(ids, x) : Nth(ids, i) = k
    BY <1>3, Occurrences
  <2>3. j \in Places(plugins, x)
    BY DEF Places
  <2>4. CASE Count(ids, x) = 0
    <3>1. Nth(plugins, j) > Count(ids, x)
      BY <2>1, <2>3, <2>4
    <3> QED BY <3>1, <1>4
  <2>5. CASE Count(ids, x) # 0
    <3>1. 1 \in 1..Count(ids, x)
      BY <2>2, <2>5
    <3>2. PICK i \in Places(ids, x) : Nth(ids, i) = 1
      BY <3>1, <2>2
    <3>3. i \in DOMAIN ids /\ ids[i] = x
      BY DEF Places
    <3>4. Nth(ids, i) <= Count(plugins, x)
      BY <3>2, <2>1, <2>3
    <3> QED BY <3>3, <3>4, <1>3, <1>4
  <2> QED BY <2>4, <2>5
<1> QED BY <1>5, <1>6

Statuses == {"not_installed", "installing", "installed", "removing"}

Kinds3 == {"add", "remove", "update"}

Fields(phase) ==
  {"phase", "kind", "plugin", "before", "after", "previous", "shown"}
    \cup (IF phase \in {"set", "save"} THEN {"plugins", "since"} ELSE {})
    \cup (IF phase = "save" THEN {"copy"} ELSE {})

\* A call of the manager under way.
IsRequest(r) ==
  /\ IsObject(r) /\ r.phase \in {"list", "set", "save", "answer"}
  /\ \A f : f \in DOMAIN r <=> f \in Fields(r.phase)
  /\ r.kind \in Kinds3 /\ r.plugin \in Plugins
  /\ r.before \in Range(Catalog[r.plugin]) /\ r.after \in Range(Catalog[r.plugin])
  /\ r.kind = "update" => r.before # r.after
  /\ r.previous \in Statuses /\ r.shown \in BOOLEAN
  /\ r.phase \in {"set", "save"} => IsList(r.plugins) /\ r.since \in Nat
  /\ r.phase = "save" => IsCopy(r.copy)

\* What a step of a call leaves of the request.
SameRequest(r, s) ==
  /\ s.kind = r.kind /\ s.plugin = r.plugin /\ s.before = r.before
  /\ s.after = r.after /\ s.previous = r.previous

LEMMA Requested ==
  ASSUME NEW p \in Plugins, NEW kind \in Kinds3,
         NEW before \in Range(Catalog[p]), NEW after \in Range(Catalog[p]),
         kind = "update" => before # after, NEW previous \in Statuses
  PROVE  IsRequest([phase |-> "list", kind |-> kind, plugin |-> p,
                    before |-> before, after |-> after,
                    previous |-> previous, shown |-> TRUE])
BY DEF IsRequest, IsObject, Fields

LEMMA RequestListed ==
  ASSUME NEW r, IsRequest(r), r.phase = "list", NEW plugins, IsList(plugins), NEW v \in Nat
  PROVE  LET s == [r EXCEPT !.phase = "set"] ++ [plugins |-> plugins, since |-> v]
         IN  /\ IsRequest(s) /\ SameRequest(r, s) /\ s.shown = r.shown
             /\ s.phase = "set" /\ s.plugins = plugins /\ s.since = v
<1> DEFINE a == [r EXCEPT !.phase = "set"]
           b == [plugins |-> plugins, since |-> v]
           s == a ++ b
<1>1. /\ \A f : f \in DOMAIN a <=> f \in Fields("list")
      /\ a["phase"] = "set"
      /\ \A f : f \in Fields("list") /\ f # "phase" => a[f] = r[f]
  BY DEF IsRequest, Fields
<1>2. (\A f : f \in DOMAIN b <=> f = "plugins" \/ f = "since")
      /\ b["plugins"] = plugins /\ b["since"] = v
  OBVIOUS
<1> HIDE DEF a, b
<1>3. /\ IsObject(s) /\ \A f : f \in DOMAIN s <=> f \in Fields("set")
      /\ s["phase"] = "set" /\ s["plugins"] = plugins /\ s["since"] = v
      /\ \A f : f \in Fields("list") /\ f # "phase" => s[f] = r[f]
  BY <1>1, <1>2, Merged DEF Fields
<1> HIDE DEF s
<1>4. /\ s["kind"] = r["kind"] /\ s["plugin"] = r["plugin"] /\ s["before"] = r["before"]
      /\ s["after"] = r["after"] /\ s["previous"] = r["previous"] /\ s["shown"] = r["shown"]
  BY <1>3 DEF Fields
<1>5. IsRequest(s)
  BY <1>3, <1>4 DEF IsRequest
<1> QED BY <1>3, <1>4, <1>5 DEF SameRequest, s, a, b

LEMMA RequestSet ==
  ASSUME NEW r, IsRequest(r), r.phase = "set", NEW copy, IsCopy(copy)
  PROVE  LET s == [r EXCEPT !.phase = "save"] ++ [copy |-> copy]
         IN  /\ IsRequest(s) /\ SameRequest(r, s) /\ s.shown = r.shown
             /\ s.phase = "save" /\ s.plugins = r.plugins /\ s.since = r.since /\ s.copy = copy
<1> DEFINE a == [r EXCEPT !.phase = "save"]
           b == [copy |-> copy]
           s == a ++ b
<1>1. /\ \A f : f \in DOMAIN a <=> f \in Fields("set")
      /\ a["phase"] = "save"
      /\ \A f : f \in Fields("set") /\ f # "phase" => a[f] = r[f]
  BY DEF IsRequest, Fields
<1>2. (\A f : f \in DOMAIN b <=> f = "copy") /\ b["copy"] = copy
  OBVIOUS
<1> HIDE DEF a, b
<1>3. /\ IsObject(s) /\ \A f : f \in DOMAIN s <=> f \in Fields("save")
      /\ s["phase"] = "save" /\ s["copy"] = copy
      /\ \A f : f \in Fields("set") /\ f # "phase" => s[f] = r[f]
  BY <1>1, <1>2, Merged DEF Fields
<1> HIDE DEF s
<1>4. /\ s["kind"] = r["kind"] /\ s["plugin"] = r["plugin"] /\ s["before"] = r["before"]
      /\ s["after"] = r["after"] /\ s["previous"] = r["previous"] /\ s["shown"] = r["shown"]
      /\ s["plugins"] = r["plugins"] /\ s["since"] = r["since"]
  BY <1>3 DEF Fields
<1>5. IsRequest(s)
  BY <1>3, <1>4 DEF IsRequest
<1> QED BY <1>3, <1>4, <1>5 DEF SameRequest, s, a, b

LEMMA RequestSaved ==
  ASSUME NEW r, IsRequest(r), r.phase = "save"
  PROVE  LET s == [f \in DOMAIN r \ {"plugins", "copy", "since"} |->
                     IF f = "phase" THEN "answer" ELSE r[f]]
         IN  IsRequest(s) /\ SameRequest(r, s) /\ s.shown = r.shown /\ s.phase = "answer"
<1> DEFINE s == [f \in DOMAIN r \ {"plugins", "copy", "since"} |->
                   IF f = "phase" THEN "answer" ELSE r[f]]
<1>1. /\ IsObject(s) /\ \A f : f \in DOMAIN s <=> f \in Fields("answer")
      /\ s["phase"] = "answer"
      /\ \A f : f \in Fields("answer") /\ f # "phase" => s[f] = r[f]
  BY DEF IsRequest, Fields, IsObject
<1> HIDE DEF s
<1>2. /\ s["kind"] = r["kind"] /\ s["plugin"] = r["plugin"] /\ s["before"] = r["before"]
      /\ s["after"] = r["after"] /\ s["previous"] = r["previous"] /\ s["shown"] = r["shown"]
  BY <1>1 DEF Fields
<1>3. IsRequest(s)
  BY <1>1, <1>2 DEF IsRequest
<1> QED BY <1>1, <1>2, <1>3 DEF SameRequest, s

LEMMA RequestHidden ==
  ASSUME NEW r, IsRequest(r)
  PROVE  LET s == [r EXCEPT !.shown = FALSE]
         IN  /\ IsRequest(s) /\ SameRequest(r, s) /\ s.phase = r.phase
             /\ s.phase \in {"set", "save"} => s.plugins = r.plugins /\ s.since = r.since
             /\ s.phase = "save" => s.copy = r.copy
<1> DEFINE s == [r EXCEPT !.shown = FALSE]
<1>1. /\ IsObject(s) /\ \A f : f \in DOMAIN s <=> f \in Fields(r.phase)
      /\ s["shown"] = FALSE
      /\ \A f : f \in Fields(r.phase) /\ f # "shown" => s[f] = r[f]
  BY DEF IsRequest, Fields, IsObject
<1> HIDE DEF s
<1>2. /\ s["kind"] = r["kind"] /\ s["plugin"] = r["plugin"] /\ s["before"] = r["before"]
      /\ s["after"] = r["after"] /\ s["previous"] = r["previous"] /\ s["phase"] = r["phase"]
  BY <1>1 DEF Fields
<1>3. r.phase \in {"set", "save"} => s["plugins"] = r["plugins"] /\ s["since"] = r["since"]
  BY <1>1 DEF Fields
<1>4. r.phase = "save" => s["copy"] = r["copy"]
  BY <1>1 DEF Fields
<1>5. IsRequest(s)
  BY <1>1, <1>2, <1>3, <1>4 DEF IsRequest
<1> QED BY <1>2, <1>3, <1>4, <1>5 DEF SameRequest, s

IsItem(i, p) ==
  /\ IsObject(i) /\ \A f : f \in DOMAIN i <=> f \in {"installed", "version", "status"}
  /\ i.installed \in BOOLEAN /\ i.version \in Range(Catalog[p]) /\ i.status \in Statuses

LEMMA EmptyList ==
  ASSUME NEW list, IsList(list)
  PROVE  /\ list = <<>> <=> Len(list) = 0
         /\ list # <<>> => Len(list) \in DOMAIN list /\ Last(list) = list[Len(list)]
<1>1. Len(list) \in Nat /\ DOMAIN list = 1..Len(list) /\ IsObject(list)
  BY ListLen, Lists
<1>2. Len(list) = 0 => list = <<>>
  <2> SUFFICES ASSUME Len(list) = 0
               PROVE  list = <<>>
    OBVIOUS
  <2>1. list \in Seq({list[i] : i \in DOMAIN list})
    BY DEF IsList
  <2> QED BY <2>1, EmptySeq
<1>3. list = <<>> => Len(list) = 0
  BY EmptySeq
<1> QED BY <1>1, <1>2, <1>3 DEF Last

LEMMA InstalledVersionsAre ==
  ASSUME IsList(installed), NEW p \in Plugins
  PROVE  /\ IsList(InstalledVersions(p))
         /\ \A k \in DOMAIN InstalledVersions(p) :
              \E m \in Range(Catalog[p]) : InstalledVersions(p)[k] \in KeysOf(m)
<1> DEFINE I == {i \in DOMAIN installed : \E m \in Range(Catalog[p]) : installed[i] \in KeysOf(m)}
           keys == At(installed, I)
<1>1. InstalledVersions(p) = keys /\ I \subseteq DOMAIN installed
  BY DEF InstalledVersions
<1>2. \A i \in I : \E m \in Range(Catalog[p]) : installed[i] \in KeysOf(m)
  OBVIOUS
<1> HIDE DEF I
<1>3. /\ IsList(keys)
      /\ \A i \in I : keys[Rank(I, i)] = installed[i]
      /\ \A k \in DOMAIN keys : \E i \in I : Rank(I, i) = k
  BY <1>1, Picked
<1>4. \A k \in DOMAIN keys : \E m \in Range(Catalog[p]) : keys[k] \in KeysOf(m)
  BY <1>2, <1>3
<1> QED BY <1>1, <1>3, <1>4

LEMMA InMetadata ==
  ASSUME NEW p \in Plugins, NEW m \in Range(Catalog[p])
  PROVE  m \in Metadata
BY DEF Metadata, Plugins

LEMMA ListedIs ==
  ASSUME IsList(installed), NEW p \in Plugins
  PROVE  Listed(p).installed \in BOOLEAN /\ Listed(p).version \in Range(Catalog[p])
<1> DEFINE keys == InstalledVersions(p)
<1>1. IsList(keys) /\ \A k \in DOMAIN keys : \E m \in Range(Catalog[p]) : keys[k] \in KeysOf(m)
  BY InstalledVersionsAre
<1>2. /\ Listed(p).installed = (keys # <<>>)
      /\ Listed(p).version = IF keys = <<>> THEN Last(Catalog[p])
                             ELSE CHOOSE m \in Metadata : Last(keys) \in KeysOf(m)
  BY DEF Listed
<1> HIDE DEF keys
<1>3. CASE keys = <<>>
  <2>1. Catalog[p] \in Seq(Metadata) /\ Catalog[p] # <<>>
    BY CatalogAssumption DEF Plugins
  <2>2. IsList(Catalog[p])
    BY <2>1, SeqIsList
  <2>3. Len(Catalog[p]) \in DOMAIN Catalog[p] /\ Last(Catalog[p]) = Catalog[p][Len(Catalog[p])]
    BY <2>1, <2>2, EmptyList
  <2>4. Last(Catalog[p]) \in Range(Catalog[p])
    BY <2>3 DEF Range
  <2> QED BY <2>4, <1>2, <1>3
<1>4. CASE keys # <<>>
  <2>1. Len(keys) \in DOMAIN keys /\ Last(keys) = keys[Len(keys)]
    BY <1>1, <1>4, EmptyList
  <2>2. PICK m \in Range(Catalog[p]) : Last(keys) \in KeysOf(m)
    BY <2>1, <1>1
  <2>3. m \in Metadata
    BY InMetadata
  <2>4. \A n \in Metadata : Last(keys) \in KeysOf(n) => n = m
    BY <2>2, <2>3, CatalogAssumption DEF KeysOf
  <2>5. (CHOOSE n \in Metadata : Last(keys) \in KeysOf(n)) = m
    BY <2>2, <2>3, <2>4
  <2> QED BY <2>5, <1>2, <1>4
<1> QED BY <1>3, <1>4

LEMMA ListedFields ==
  ASSUME NEW p
  PROVE  \A f : f \in DOMAIN Listed(p) <=> f = "installed" \/ f = "version"
BY DEF Listed

\* The items the view makes.
LEMMA ItemMade ==
  ASSUME IsList(installed), NEW p \in Plugins
  PROVE  IsItem(Listed(p) ++ [status |-> StatusOf(p)], p)
<1> DEFINE l == Listed(p)
           b == [status |-> StatusOf(p)]
           i == l ++ b
<1>1. l.installed \in BOOLEAN /\ l.version \in Range(Catalog[p])
      /\ \A f : f \in DOMAIN l <=> f = "installed" \/ f = "version"
  BY ListedIs, ListedFields
<1>2. b["status"] \in Statuses /\ \A f : f \in DOMAIN b <=> f = "status"
  BY DEF StatusOf, Statuses
<1> HIDE DEF l, b
<1>3. /\ IsObject(i) /\ \A f : f \in DOMAIN i <=> f \in {"installed", "version", "status"}
      /\ i["installed"] = l["installed"] /\ i["version"] = l["version"] /\ i["status"] = b["status"]
  BY <1>1, <1>2, Merged
<1> HIDE DEF i
<1>4. IsItem(i, p)
  BY <1>1, <1>2, <1>3 DEF IsItem
<1> QED BY <1>4 DEF i, b, l

LEMMA ItemRelisted ==
  ASSUME IsList(installed), NEW p \in Plugins, NEW old, IsItem(old, p)
  PROVE  IsItem(Listed(p) ++ old, p)
<1> DEFINE l == Listed(p)
           i == l ++ old
<1>1. l.installed \in BOOLEAN /\ l.version \in Range(Catalog[p])
      /\ \A f : f \in DOMAIN l <=> f = "installed" \/ f = "version"
  BY ListedIs, ListedFields
<1>2. old["status"] \in Statuses
      /\ \A f : f \in DOMAIN old <=> f \in {"installed", "version", "status"}
  BY DEF IsItem
<1> HIDE DEF l
<1>3. /\ IsObject(i) /\ \A f : f \in DOMAIN i <=> f \in {"installed", "version", "status"}
      /\ i["installed"] = l["installed"] /\ i["version"] = l["version"] /\ i["status"] = old["status"]
  BY <1>1, <1>2, Merged
<1> HIDE DEF i
<1>4. IsItem(i, p)
  BY <1>1, <1>2, <1>3 DEF IsItem
<1> QED BY <1>4 DEF i, l

LEMMA ItemChanged ==
  ASSUME NEW p \in Plugins, NEW old, IsItem(old, p)
  PROVE  /\ \A status \in Statuses : IsItem([old EXCEPT !.status = status], p)
         /\ \A m \in Range(Catalog[p]) : IsItem([old EXCEPT !.version = m], p)
BY DEF IsItem, IsObject

-----------------------------------------------------------------------------
(* The types of the state *)

CountersTyped ==
  /\ version \in Nat /\ calls \in 0..MaxCalls /\ changes \in 0..MaxChanges
  /\ disturbed \in BOOLEAN /\ unsure \in BOOLEAN

ViewTyped ==
  /\ IsList(installed)
  /\ item = [p \in Plugins |-> item[p]] /\ \A p \in Plugins : IsItem(item[p], p)

CallsTyped ==
  /\ call = [c \in Calls |-> call[c]]
  /\ \A c \in Calls : call[c] = Idle \/ IsRequest(call[c])

ChainTyped ==
  /\ chain \in Seq(Changes)
  /\ \/ job = Idle
     \/ /\ job = [phase |-> "save", copy |-> job.copy, since |-> job.since]
        /\ IsCopy(job.copy) /\ job.since \in Nat /\ job.since <= version
        /\ chain # <<>>
  /\ wanted = [path \in DOMAIN wanted |-> wanted[path]]
  /\ DOMAIN wanted \subseteq {change.path : change \in Changes}

Types ==
  IsDevfile(devfile) /\ CountersTyped /\ ViewTyped /\ CallsTyped /\ ChainTyped

LEMMA CallSteps ==
  ASSUME CallsTyped, NEW c \in Calls, NEW r, r = Idle \/ IsRequest(r),
         call' = [call EXCEPT ![c] = r]
  PROVE  /\ CallsTyped' /\ call'[c] = r
         /\ \A d \in Calls : d # c => call'[d] = call[d]
BY DEF CallsTyped

LEMMA ItemSteps ==
  ASSUME ViewTyped, NEW p \in Plugins, NEW i, IsItem(i, p), IsList(installed'),
         item' = [item EXCEPT ![p] = i]
  PROVE  ViewTyped'
BY DEF ViewTyped

-----------------------------------------------------------------------------
(* The steps of a call *)

PluginsFor(d, r) ==
  NewPlugins(r.kind, KeyBefore(r), r.after.key, WorkspacePlugins(DevfileV1toV2(d).components))

CopyFor(d, r) ==
  [DevfileV1toV2(d) EXCEPT
     !.components = SetPlugins(DevfileV1toV2(d).components, r.plugins)]

\* One call goes on, with the same request.
Continues(c, from, to) ==
  /\ IsRequest(call[c]) /\ IsRequest(call'[c]) /\ SameRequest(call[c], call'[c])
  /\ call[c].phase = from /\ call'[c].phase = to /\ call'[c].shown = call[c].shown
  /\ call' = [call EXCEPT ![c] = call'[c]]

LEMMA IdleIsNoRequest ==
  \A r : IsRequest(r) => r # Idle /\ r.phase # "idle"
BY DEF IsRequest, Idle

LEMMA ListStep ==
  ASSUME Types, NEW c \in Calls, ListPlugins(c)
  PROVE  /\ Continues(c, "list", "set")
         /\ call'[c].plugins = PluginsFor(devfile, call[c]) /\ call'[c].since = version
         /\ UNCHANGED <<devfile, version, view, calls, workspacePlugin, ghosts>>
<1> DEFINE r == call[c]
           ids == WorkspacePlugins(DevfileV1toV2(devfile).components)
           plugins == PluginsFor(devfile, r)
           s == [r EXCEPT !.phase = "set"] ++ [plugins |-> plugins, since |-> version]
<1>1. /\ r.phase = "list" /\ call' = [call EXCEPT ![c] = s]
      /\ UNCHANGED <<devfile, version, view, calls, workspacePlugin, ghosts>>
  BY DEF ListPlugins, PluginsFor
<1>2. IsRequest(r) /\ version \in Nat
  BY <1>1 DEF Types, CallsTyped, CountersTyped, Idle
<1>3. IsList(ids)
  BY GetCopies, PluginsAreListed DEF Types, IsCopy
<1>4. IsList(plugins)
  BY <1>2, <1>3, NewPluginsIsList DEF PluginsFor, IsRequest, Kinds3
<1>5. call'[c] = s
  BY <1>1 DEF Types, CallsTyped
<1> HIDE DEF plugins, r
<1>6. /\ IsRequest(s) /\ SameRequest(r, s) /\ s.phase = "set" /\ s.plugins = plugins
      /\ s.since = version /\ s.shown = r.shown
  BY <1>1, <1>2, <1>4, RequestListed
<1> HIDE DEF s
<1> QED BY <1>1, <1>2, <1>5, <1>6 DEF Continues, plugins, r

LEMMA SetStep ==
  ASSUME Types, NEW c \in Calls, SetWorkspacePlugins(c)
  PROVE  /\ Continues(c, "set", "save")
         /\ call'[c].plugins = call[c].plugins /\ call'[c].since = call[c].since
         /\ call'[c].copy = CopyFor(devfile, call[c])
         /\ UNCHANGED <<devfile, version, view, calls, workspacePlugin, ghosts>>
<1> DEFINE r == call[c]
           copy == CopyFor(devfile, r)
           s == [r EXCEPT !.phase = "save"] ++ [copy |-> copy]
<1>1. "components" \in DOMAIN DevfileV1toV2(devfile)
  BY DEF DevfileV1toV2
<1>2. /\ r.phase = "set" /\ call' = [call EXCEPT ![c] = s]
      /\ UNCHANGED <<devfile, version, view, calls, workspacePlugin, ghosts>>
  BY <1>1 DEF SetWorkspacePlugins, CopyFor
<1>3. IsRequest(r)
  BY <1>2 DEF Types, CallsTyped, Idle
<1>4. IsCopy(copy)
  <2>1. IsCopy(DevfileV1toV2(devfile))
    BY GetCopies DEF Types
  <2> QED BY <1>2, <1>3, <2>1, PluginsAreSet DEF IsRequest, CopyFor
<1>5. call'[c] = s
  BY <1>2 DEF Types, CallsTyped
<1> HIDE DEF r, copy
<1>6. /\ IsRequest(s) /\ SameRequest(r, s) /\ s.phase = "save" /\ s.plugins = r.plugins
      /\ s.since = r.since /\ s.copy = copy /\ s.shown = r.shown
  BY <1>2, <1>3, <1>4, RequestSet
<1> HIDE DEF s
<1> QED BY <1>2, <1>3, <1>5, <1>6 DEF Continues, copy, r

LEMMA SaveStep ==
  ASSUME Types, NEW c \in Calls, UpdateDevfile(c)
  PROVE  /\ Continues(c, "save", "answer") /\ IsCopy(call[c].copy)
         /\ devfile' = DevfileV2toV1(call[c].copy) /\ version' = version + 1
         /\ disturbed' = (disturbed \/ call[c].since # version)
         /\ UNCHANGED <<view, calls, workspacePlugin, unsure>>
<1> DEFINE r == call[c]
           s == [f \in DOMAIN r \ {"plugins", "copy", "since"} |->
                   IF f = "phase" THEN "answer" ELSE r[f]]
<1>1. /\ r.phase = "save" /\ call' = [call EXCEPT ![c] = s]
      /\ devfile' = DevfileV2toV1(r.copy) /\ version' = version + 1
      /\ disturbed' = (disturbed \/ r.since # version)
      /\ UNCHANGED <<view, calls, workspacePlugin, unsure>>
  BY DEF UpdateDevfile, Save
<1>2. IsRequest(r) /\ IsCopy(r.copy)
  BY <1>1 DEF Types, CallsTyped, Idle, IsRequest
<1>3. call'[c] = s
  BY <1>1 DEF Types, CallsTyped
<1> HIDE DEF r
<1>4. IsRequest(s) /\ SameRequest(r, s) /\ s.phase = "answer" /\ s.shown = r.shown
  BY <1>1, <1>2, RequestSaved
<1> HIDE DEF s
<1> QED BY <1>1, <1>2, <1>3, <1>4 DEF Continues, r

LEMMA RemountStep ==
  ASSUME Types, Remount
  PROVE  /\ \A c \in Calls :
              \/ call[c] = Idle /\ call'[c] = Idle
              \/ /\ IsRequest(call[c]) /\ IsRequest(call'[c]) /\ SameRequest(call[c], call'[c])
                 /\ call'[c].phase = call[c].phase
                 /\ call[c].phase \in {"set", "save"} =>
                      call'[c].plugins = call[c].plugins /\ call'[c].since = call[c].since
                 /\ call[c].phase = "save" => call'[c].copy = call[c].copy
         /\ call' = [c \in Calls |-> call'[c]] /\ calls < MaxCalls /\ calls' = calls + 1
         /\ UNCHANGED <<devfile, version, installed, workspacePlugin, ghosts>>
<1>1. /\ call' = [c \in Calls |-> IF call[c] = Idle THEN Idle
                                   ELSE [call[c] EXCEPT !.shown = FALSE]]
      /\ calls < MaxCalls /\ calls' = calls + 1
      /\ UNCHANGED <<devfile, version, installed, workspacePlugin, ghosts>>
  BY DEF Remount
<1>2. ASSUME NEW c \in Calls, call[c] # Idle
      PROVE  /\ IsRequest(call[c]) /\ IsRequest(call'[c]) /\ SameRequest(call[c], call'[c])
             /\ call'[c].phase = call[c].phase
             /\ call[c].phase \in {"set", "save"} =>
                  call'[c].plugins = call[c].plugins /\ call'[c].since = call[c].since
             /\ call[c].phase = "save" => call'[c].copy = call[c].copy
  <2>1. IsRequest(call[c]) /\ call'[c] = [call[c] EXCEPT !.shown = FALSE]
    BY <1>1, <1>2 DEF Types, CallsTyped
  <2> QED BY <2>1, RequestHidden
<1>3. \A c \in Calls : call[c] = Idle => call'[c] = Idle
  BY <1>1
<1>4. call' = [c \in Calls |-> call'[c]]
  BY <1>1
<1> QED BY <1>1, <1>2, <1>3, <1>4

LEMMA InitTypes == Init => Types
<1> SUFFICES ASSUME Init PROVE Types
  OBVIOUS
<1>1. IsDevfile(devfile)
  BY DevfilesAssumption DEF Init
<1>2. CountersTyped
  <2>1. MaxCalls \in Nat /\ MaxChanges \in Nat
    BY CatalogAssumption
  <2>2. version = 0 /\ calls = 0 /\ changes = 0 /\ disturbed = FALSE /\ unsure = FALSE
    BY DEF Init
  <2>3. 0 \in 0..MaxCalls /\ 0 \in 0..MaxChanges
    BY <2>1
  <2>4. version \in Nat /\ calls \in 0..MaxCalls /\ changes \in 0..MaxChanges
    BY <2>2, <2>3
  <2>5. disturbed \in BOOLEAN /\ unsure \in BOOLEAN
    BY <2>2
  <2> QED BY <2>4, <2>5 DEF CountersTyped
<1>3. IsList(installed)
  <2>1. IsList(DevfileV1toV2(devfile).components)
    BY <1>1, GetCopies DEF IsCopy
  <2> QED BY <2>1, PluginsAreListed DEF Init
<1>4. ViewTyped
  <2>1. item = [p \in Plugins |-> Listed(p) ++ [status |-> StatusOf(p)]]
    BY DEF Init
  <2>2. \A p \in Plugins : IsItem(Listed(p) ++ [status |-> StatusOf(p)], p)
    BY <1>3, ItemMade
  <2> QED BY <1>3, <2>1, <2>2 DEF ViewTyped
<1>5. CallsTyped
  BY DEF Init, CallsTyped
<1>6. ChainTyped
  <2>1. chain \in Seq(Changes)
    BY DEF Init
  <2>2. wanted = [path \in DOMAIN wanted |-> wanted[path]] /\ DOMAIN wanted = {}
    BY DEF Init, Empty
  <2> QED BY <2>1, <2>2 DEF Init, ChainTyped
<1> QED BY <1>1, <1>2, <1>4, <1>5, <1>6 DEF Types

\* What a start of a call changes.
LEMMA StartTypes ==
  ASSUME Types, NEW c \in Calls, NEW p \in Plugins, NEW kind \in Kinds3,
         NEW before \in Range(Catalog[p]), NEW after \in Range(Catalog[p]),
         kind = "update" => before # after, NEW shown, IsItem(shown, p), Start(c, p, kind, before, after, shown)
  PROVE  Types'
<1> DEFINE r == [phase |-> "list", kind |-> kind, plugin |-> p, before |-> before,
                 after |-> after, previous |-> item[p].status, shown |-> TRUE]
<1>1. /\ call' = [call EXCEPT ![c] = r] /\ calls < MaxCalls /\ calls' = calls + 1
      /\ item' = [item EXCEPT ![p] = shown]
      /\ unsure' = (unsure \/ \E d \in Calls : call[d] # Idle /\ call[d].plugin = p)
      /\ UNCHANGED <<devfile, version, installed, workspacePlugin, disturbed>>
  BY DEF Start
<1>2. item[p].status \in Statuses
  BY DEF Types, ViewTyped, IsItem
<1>3. IsRequest(r)
  BY <1>2, Requested
<1> HIDE DEF r
<1>4. CallsTyped'
  BY <1>1, <1>3, CallSteps DEF Types
<1>5. ViewTyped'
  <2>1. IsList(installed')
    BY <1>1 DEF Types, ViewTyped
  <2> QED BY <2>1, <1>1, ItemSteps DEF Types
<1>6. CountersTyped'
  BY <1>1, CatalogAssumption DEF Types, CountersTyped, workspacePlugin
<1>7. ChainTyped'
  BY <1>1 DEF Types, ChainTyped, workspacePlugin
<1> QED BY <1>1, <1>4, <1>5, <1>6, <1>7 DEF Types

LEMMA NextTypes == Types /\ [Next]_vars => Types'
<1> SUFFICES ASSUME Types, [Next]_vars PROVE Types'
  OBVIOUS
<1>0. /\ IsDevfile(devfile) /\ CountersTyped /\ ViewTyped /\ CallsTyped /\ ChainTyped
      /\ IsCopy(DevfileV1toV2(devfile)) /\ version \in Nat
  BY GetCopies DEF Types, CountersTyped
<1>1. ASSUME NEW c \in Calls, NEW p \in Plugins, InstallPlugin(c, p)
      PROVE  Types'
  <2>1. item[p].version \in Range(Catalog[p])
    BY <1>0 DEF ViewTyped, IsItem
  <2>2. IsItem([item[p] EXCEPT !.status = "installing"], p)
    BY <1>0, ItemChanged DEF ViewTyped, Statuses
  <2>3. Start(c, p, "add", item[p].version, item[p].version,
              [item[p] EXCEPT !.status = "installing"])
    BY <1>1 DEF InstallPlugin
  <2>4. "add" \in Kinds3 /\ "add" # "update"
    BY DEF Kinds3
  <2> QED BY <2>1, <2>2, <2>3, <2>4, StartTypes
<1>2. ASSUME NEW c \in Calls, NEW p \in Plugins, RemovePlugin(c, p)
      PROVE  Types'
  <2>1. item[p].version \in Range(Catalog[p])
    BY <1>0 DEF ViewTyped, IsItem
  <2>2. IsItem([item[p] EXCEPT !.status = "removing"], p)
    BY <1>0, ItemChanged DEF ViewTyped, Statuses
  <2>3. Start(c, p, "remove", item[p].version, item[p].version,
              [item[p] EXCEPT !.status = "removing"])
    BY <1>2 DEF RemovePlugin
  <2>4. "remove" \in Kinds3 /\ "remove" # "update"
    BY DEF Kinds3
  <2> QED BY <2>1, <2>2, <2>3, <2>4, StartTypes
<1>3. ASSUME NEW c \in Calls, NEW p \in Plugins, NEW metadata \in Range(Catalog[p]),
             VersionChanged(c, p, metadata)
      PROVE  Types'
  <2> DEFINE shown == [item[p] EXCEPT !.version = metadata]
  <2>1. item[p].version \in Range(Catalog[p])
    BY <1>0 DEF ViewTyped, IsItem
  <2>2. IsItem(shown, p)
    BY <1>0, ItemChanged DEF ViewTyped
  <2>3. \/ Start(c, p, "update", item[p].version, metadata, shown)
        \/ /\ item' = [item EXCEPT ![p] = shown]
           /\ UNCHANGED <<devfile, version, installed, backend, workspacePlugin, ghosts>>
    BY <1>3 DEF VersionChanged
  <2> HIDE DEF shown
  <2>4. CASE Start(c, p, "update", item[p].version, metadata, shown)
    <3>1. "update" \in Kinds3 /\ metadata # item[p].version
      BY <1>3 DEF Kinds3, VersionChanged
    <3> QED BY <2>1, <2>2, <2>4, <3>1, StartTypes
  <2>5. CASE /\ item' = [item EXCEPT ![p] = shown]
             /\ UNCHANGED <<devfile, version, installed, backend, workspacePlugin, ghosts>>
    <3>1. IsList(installed')
      BY <1>0, <2>5 DEF ViewTyped
    <3>2. ViewTyped'
      BY <1>0, <2>2, <2>5, <3>1, ItemSteps
    <3> QED BY <1>0, <2>5, <3>2
        DEF Types, CountersTyped, CallsTyped, ChainTyped, backend, workspacePlugin, ghosts
  <2> QED BY <2>3, <2>4, <2>5
<1>4. ASSUME Filter PROVE Types'
  <2>1. /\ item' = [p \in Plugins |-> Listed(p) ++ item[p]]
        /\ UNCHANGED <<devfile, version, installed, backend, workspacePlugin, ghosts>>
    BY <1>4 DEF Filter
  <2>2. \A p \in Plugins : IsItem(Listed(p) ++ item[p], p)
    BY <1>0, ItemRelisted DEF ViewTyped
  <2>3. ViewTyped'
    BY <1>0, <2>1, <2>2 DEF ViewTyped
  <2> QED BY <1>0, <2>1, <2>3
      DEF Types, CountersTyped, CallsTyped, ChainTyped, backend, workspacePlugin, ghosts
<1>5. ASSUME Remount PROVE Types'
  <2>1. item' = [p \in Plugins |-> Listed(p) ++ [status |-> StatusOf(p)]]
    BY <1>5 DEF Remount
  <2>2. \A p \in Plugins : IsItem(Listed(p) ++ [status |-> StatusOf(p)], p)
    BY <1>0, ItemMade DEF ViewTyped
  <2>3. /\ \A c \in Calls : call'[c] = Idle \/ IsRequest(call'[c])
        /\ call' = [c \in Calls |-> call'[c]] /\ calls < MaxCalls /\ calls' = calls + 1
        /\ UNCHANGED <<devfile, version, installed, workspacePlugin, ghosts>>
    BY <1>5, RemountStep
  <2>4. ViewTyped'
    BY <1>0, <2>1, <2>2, <2>3 DEF ViewTyped
  <2>5. CallsTyped'
    BY <2>3 DEF CallsTyped
  <2>6. CountersTyped'
    BY <1>0, <2>3, CatalogAssumption DEF CountersTyped, workspacePlugin, ghosts
  <2> QED BY <1>0, <2>3, <2>4, <2>5, <2>6 DEF Types, ChainTyped, workspacePlugin, ghosts
<1>6. ASSUME NEW c \in Calls, NEW from, NEW to, Continues(c, from, to)
      PROVE  CallsTyped'
  BY <1>0, <1>6, CallSteps DEF Continues
<1>7. ASSUME NEW c \in Calls, ListPlugins(c) \/ SetWorkspacePlugins(c)
      PROVE  Types'
  <2>1. /\ \E from, to : Continues(c, from, to)
        /\ UNCHANGED <<devfile, version, view, calls, workspacePlugin, ghosts>>
    BY <1>7, ListStep, SetStep
  <2>2. CallsTyped'
    BY <2>1, <1>6
  <2> QED BY <1>0, <2>1, <2>2
      DEF Types, CountersTyped, ViewTyped, ChainTyped, view, workspacePlugin, ghosts
<1>8. ASSUME NEW c \in Calls, UpdateDevfile(c)
      PROVE  Types'
  <2>1. /\ Continues(c, "save", "answer") /\ IsCopy(call[c].copy)
        /\ devfile' = DevfileV2toV1(call[c].copy) /\ version' = version + 1
        /\ disturbed' = (disturbed \/ call[c].since # version)
        /\ UNCHANGED <<view, calls, workspacePlugin, unsure>>
    BY <1>8, SaveStep
  <2>2. CallsTyped'
    BY <2>1, <1>6
  <2>3. IsDevfile(devfile')
    BY <2>1, UpdateStores
  <2>4. CountersTyped'
    BY <1>0, <2>1 DEF CountersTyped, workspacePlugin
  <2>5. ViewTyped'
    BY <1>0, <2>1 DEF ViewTyped, view
  <2>6. ChainTyped'
    BY <1>0, <2>1 DEF ChainTyped, workspacePlugin
  <2> QED BY <2>2, <2>3, <2>4, <2>5, <2>6 DEF Types
<1>9. ASSUME NEW c \in Calls, NEW status \in Statuses, IsRequest(call[c]), Shows(c, status),
             IsList(installed')
      PROVE  ViewTyped'
  <2> DEFINE p == call[c].plugin
             i == [item[p] EXCEPT !.status = status]
  <2>1. p \in Plugins
    BY <1>9 DEF IsRequest
  <2>2. IsItem(i, p)
    BY <1>0, <2>1, ItemChanged DEF ViewTyped
  <2>3. item' = [item EXCEPT ![p] = i] \/ item' = item
    BY <1>9 DEF Shows
  <2> HIDE DEF i, p
  <2> QED BY <1>0, <1>9, <2>1, <2>2, <2>3, ItemSteps DEF ViewTyped
<1>10. ASSUME NEW c \in Calls, Succeed(c)
       PROVE  Types'
  <2> DEFINE r == call[c]
             rest == Others(installed, r.before.key)
             status == IF r.kind = "add" THEN "installed" ELSE "not_installed"
  <2>1. /\ r.phase = "answer" /\ call' = [call EXCEPT ![c] = Idle]
        /\ installed' = CASE r.kind = "add" -> Append(installed, r.after.key)
                          [] r.kind = "remove" -> rest
                          [] r.kind = "update" -> Append(rest, r.after.key)
        /\ Shows(c, status)
        /\ UNCHANGED <<devfile, version, calls, workspacePlugin, ghosts>>
    BY <1>10 DEF Succeed
  <2>2. IsRequest(r) /\ status \in Statuses
    BY <1>0, <2>1 DEF CallsTyped, Idle, Statuses
  <2>3. IsList(rest)
    BY <1>0, OthersAre DEF ViewTyped
  <2> HIDE DEF rest
  <2>4. IsList(Append(installed, r.after.key)) /\ IsList(Append(rest, r.after.key))
    BY <1>0, <2>3, Appended DEF ViewTyped
  <2>5. IsList(installed')
    BY <2>1, <2>2, <2>3, <2>4 DEF IsRequest, Kinds3
  <2> HIDE DEF status
  <2>6. ViewTyped'
    BY <1>9, <2>1, <2>2, <2>5
  <2>7. CallsTyped'
    BY <1>0, <2>1, CallSteps
  <2> QED BY <1>0, <2>1, <2>6, <2>7 DEF Types, CountersTyped, ChainTyped, workspacePlugin, ghosts
<1>11. ASSUME NEW c \in Calls, Fail(c)
       PROVE  Types'
  <2>1. /\ call[c] # Idle /\ call' = [call EXCEPT ![c] = Idle]
        /\ Shows(c, call[c].previous)
        /\ unsure' = (unsure \/ call[c].phase = "answer")
        /\ UNCHANGED <<devfile, version, installed, calls, workspacePlugin, disturbed>>
    BY <1>11 DEF Fail
  <2>2. IsRequest(call[c]) /\ call[c].previous \in Statuses
    BY <1>0, <2>1 DEF CallsTyped, IsRequest
  <2>3. IsList(installed')
    BY <1>0, <2>1 DEF ViewTyped
  <2>4. ViewTyped'
    BY <1>9, <2>1, <2>2, <2>3
  <2>5. CallsTyped'
    BY <1>0, <2>1, CallSteps
  <2> QED BY <1>0, <2>1, <2>4, <2>5 DEF Types, CountersTyped, ChainTyped, workspacePlugin
<1>12. ASSUME NEW change \in Changes, Noticed(change)
       PROVE  Types'
  <2>1. /\ changes < MaxChanges /\ changes' = changes + 1
        /\ chain' = Append(chain, change)
        /\ wanted' = Field(change.path, change) ++ wanted
        /\ UNCHANGED <<devfile, version, view, backend, job, ghosts>>
    BY <1>12 DEF Noticed
  <2>2. CountersTyped'
    BY <1>0, <2>1, CatalogAssumption DEF CountersTyped, backend, ghosts
  <2>3. chain' \in Seq(Changes) /\ chain' # <<>>
    BY <1>0, <2>1, AppendProperties DEF ChainTyped
  <2>4. /\ IsObject(wanted')
        /\ \A f : f \in DOMAIN wanted' <=> f = change.path \/ f \in DOMAIN wanted
    BY <2>1, Merged, OneField
  <2>5. ChainTyped'
    <3>1. \A f \in DOMAIN wanted' : f \in {x.path : x \in Changes}
      BY <1>0, <2>4 DEF ChainTyped
    <3>2. wanted' = [path \in DOMAIN wanted' |-> wanted'[path]]
      BY <2>4 DEF IsObject
    <3>3. \/ job' = Idle
          \/ /\ job' = [phase |-> "save", copy |-> job'.copy, since |-> job'.since]
             /\ IsCopy(job'.copy) /\ job'.since \in Nat /\ job'.since <= version'
      BY <1>0, <2>1 DEF ChainTyped
    <3> QED BY <3>1, <3>2, <3>3, <2>3 DEF ChainTyped
  <2> QED BY <1>0, <2>1, <2>2, <2>5 DEF Types, ViewTyped, CallsTyped, view, backend
<1>13. ASSUME GetDevfile PROVE Types'
  <2>1. /\ chain # <<>>
        /\ job' = [phase |-> "save", copy |-> DevfileV1toV2(devfile), since |-> version]
        /\ UNCHANGED <<devfile, version, view, backend, chain, changes, wanted, ghosts>>
    BY <1>13 DEF GetDevfile
  <2>2. ChainTyped'
    BY <1>0, <2>1 DEF ChainTyped
  <2> QED BY <1>0, <2>1, <2>2
      DEF Types, CountersTyped, ViewTyped, CallsTyped, view, backend, ghosts
<1>14. ASSUME SaveProjects PROVE Types'
  <2> DEFINE change == Head(chain)
             projects == IF change.kind = "delete"
                         THEN DeleteGitProject(job.copy.projects, change.path)
                         ELSE UpdateOrCreateGitProject(job.copy.projects, change)
             copy == [job.copy EXCEPT !.projects = projects]
  <2>1. /\ job # Idle /\ chain' = Tail(chain) /\ job' = Idle
        /\ UNCHANGED <<view, backend, changes, wanted, unsure>>
        /\ \/ UNCHANGED <<devfile, version, disturbed>>
           \/ Save(copy, job.since)
    BY <1>14 DEF SaveProjects
  <2>2. IsCopy(job.copy) /\ job.since \in Nat /\ chain # <<>> /\ chain \in Seq(Changes)
    BY <1>0, <2>1 DEF ChainTyped
  <2>3. Named(job.copy.projects)
    BY <2>2 DEF IsCopy, Named
  <2>4. Named(projects)
    BY <2>3, UpdatedNames, DeletedNames
  <2> HIDE DEF projects
  <2>5. IsCopy(copy)
    BY <2>2, <2>4, ProjectsAreSet DEF Named
  <2> HIDE DEF copy
  <2>6. IsDevfile(devfile')
    BY <1>0, <2>1, <2>5, UpdateStores DEF Save
  <2>7. CountersTyped'
    <3>1. version' = version \/ version' = version + 1
      BY <2>1 DEF Save
    <3>2. disturbed' = disturbed \/ disturbed' = (disturbed \/ job.since # version)
      BY <2>1 DEF Save
    <3>3. calls' = calls /\ changes' = changes /\ unsure' = unsure
      BY <2>1 DEF backend
    <3>4. version' \in Nat
      BY <1>0, <3>1
    <3>5. disturbed' \in BOOLEAN
      BY <1>0, <3>2 DEF CountersTyped
    <3> QED BY <1>0, <3>3, <3>4, <3>5 DEF CountersTyped
  <2>8. chain' \in Seq(Changes)
    BY <2>1, <2>2, HeadTailProperties
  <2>9. ChainTyped'
    BY <1>0, <2>1, <2>8 DEF ChainTyped
  <2> QED BY <1>0, <2>1, <2>6, <2>7, <2>9 DEF Types, ViewTyped, CallsTyped, view, backend
<1>15. ASSUME JobFails PROVE Types'
  <2> DEFINE path == Head(chain).path
  <2>1. /\ chain # <<>> /\ chain' = Tail(chain) /\ job' = Idle
        /\ wanted' = wanted \/ wanted' = Without(wanted, {path})
        /\ UNCHANGED <<devfile, version, view, backend, changes, ghosts>>
    BY <1>15 DEF JobFails
  <2>2. chain' \in Seq(Changes)
    BY <1>0, <2>1, HeadTailProperties DEF ChainTyped
  <2> HIDE DEF path
  <2>3. ChainTyped'
    BY <1>0, <2>1, <2>2 DEF ChainTyped, Without
  <2> QED BY <1>0, <2>1, <2>3
      DEF Types, CountersTyped, ViewTyped, CallsTyped, view, backend, ghosts
<1>16. ASSUME UNCHANGED vars PROVE Types'
  BY <1>0, <1>16 DEF Types, CountersTyped, ViewTyped, CallsTyped, ChainTyped,
     vars, view, backend, workspacePlugin, ghosts
<1> QED BY <1>1, <1>2, <1>3, <1>4, <1>5, <1>7, <1>8, <1>10, <1>11, <1>12, <1>13,
           <1>14, <1>15, <1>16 DEF Next

\* Whatever the two writers do, the Che server never gets a devfile that it would
\* not take, every copy under way can be stored, and calls, items and the chain
\* have the shape their code counts on.
THEOREM AlwaysTypes == Spec => []Types
<1>1. Init => Types
  BY InitTypes
<1>2. Types /\ [Next]_vars => Types'
  BY NextTypes
<1> QED BY <1>1, <1>2, PTL DEF Spec

\* A save is a round trip of the whole devfile through version 2 (get and
\* updateDevfile of CheServerDevfileServiceImpl): at every moment it would drop
\* and rewrite what Kept says of the devfile there is, and nothing else.
THEOREM SavesKeep == Spec => []SavesKeepTheRest
<1>1. Types => SavesKeepTheRest
  BY RoundTripKeeps DEF Types, SavesKeepTheRest
<1> QED BY <1>1, AlwaysTypes, PTL

\* The calls that may still save, and the bound on the saves to come.
Unsaved == {c \in Calls : call[c].phase \in {"list", "set", "save"}}

SavesBounded ==
  /\ IsFiniteSet(Unsaved) /\ Len(chain) <= changes
  /\ version + Cardinality(Unsaved) + Len(chain) <= calls + changes

LEMMA UnsavedCard ==
  ASSUME IsFiniteSet(Unsaved)
  PROVE  Cardinality(Unsaved) \in Nat
BY FS_CardinalityType

LEMMA UnsavedGrows ==
  ASSUME NEW c \in Calls, IsFiniteSet(Unsaved), c \notin Unsaved, Unsaved' = Unsaved \cup {c}
  PROVE  IsFiniteSet(Unsaved') /\ Cardinality(Unsaved') = Cardinality(Unsaved) + 1
BY FS_AddElement

LEMMA UnsavedShrinks ==
  ASSUME NEW c \in Calls, IsFiniteSet(Unsaved), Unsaved' = Unsaved \ {c}
  PROVE  /\ IsFiniteSet(Unsaved') /\ Cardinality(Unsaved') <= Cardinality(Unsaved)
         /\ c \in Unsaved => Cardinality(Unsaved') = Cardinality(Unsaved) - 1
<1>1. /\ IsFiniteSet(Unsaved \ {c})
      /\ Cardinality(Unsaved \ {c}) = IF c \in Unsaved THEN Cardinality(Unsaved) - 1
                                     ELSE Cardinality(Unsaved)
  BY FS_RemoveElement
<1>2. Cardinality(Unsaved) \in Nat
  BY UnsavedCard
<1> QED BY <1>1, <1>2

\* Where one call goes on, the others' phases are as they were.
LEMMA UnsavedStep ==
  ASSUME CallsTyped, NEW c \in Calls, NEW r, call' = [call EXCEPT ![c] = r]
  PROVE  Unsaved' = IF r.phase \in {"list", "set", "save"} THEN Unsaved \cup {c}
                    ELSE Unsaved \ {c}
<1>1. call'[c] = r /\ \A d \in Calls : d # c => call'[d] = call[d]
  BY DEF CallsTyped
<1>2. \A d : d \in Unsaved' <=> d \in Calls /\ call'[d].phase \in {"list", "set", "save"}
  BY DEF Unsaved
<1>3. \A d : d \in Unsaved <=> d \in Calls /\ call[d].phase \in {"list", "set", "save"}
  BY DEF Unsaved
<1> QED BY <1>1, <1>2, <1>3

LEMMA StartBounded ==
  ASSUME Types, SavesBounded, NEW c \in Calls, NEW p, NEW kind, NEW before, NEW after, NEW shown,
         Start(c, p, kind, before, after, shown)
  PROVE  SavesBounded'
<1> DEFINE r == [phase |-> "list", kind |-> kind, plugin |-> p, before |-> before,
                 after |-> after, previous |-> item[p].status, shown |-> TRUE]
<1>1. /\ call[c] = Idle /\ call' = [call EXCEPT ![c] = r] /\ r.phase = "list"
      /\ version' = version /\ calls' = calls + 1 /\ chain' = chain /\ changes' = changes
  BY DEF Start, workspacePlugin
<1> HIDE DEF r
<1>2. c \notin Unsaved
  BY <1>1 DEF Unsaved, Idle
<1>3. Unsaved' = Unsaved \cup {c}
  BY <1>1, UnsavedStep DEF Types
<1>4. IsFiniteSet(Unsaved') /\ Cardinality(Unsaved') = Cardinality(Unsaved) + 1
  BY <1>2, <1>3, UnsavedGrows DEF SavesBounded
<1>5. Cardinality(Unsaved) \in Nat /\ version \in Nat /\ calls \in Nat /\ changes \in Nat
      /\ Len(chain) \in Nat
  BY UnsavedCard DEF SavesBounded, Types, CountersTyped, ChainTyped
<1> QED BY <1>1, <1>4, <1>5 DEF SavesBounded

LEMMA NextBounded == Types /\ SavesBounded /\ [Next]_vars => SavesBounded'
<1> SUFFICES ASSUME Types, SavesBounded, [Next]_vars PROVE SavesBounded'
  OBVIOUS
<1>0. /\ CallsTyped /\ chain \in Seq(Changes) /\ Len(chain) \in Nat
      /\ version \in Nat /\ calls \in Nat /\ changes \in Nat
      /\ IsFiniteSet(Unsaved) /\ Cardinality(Unsaved) \in Nat
  BY UnsavedCard DEF SavesBounded, Types, CountersTyped, ChainTyped
<1>1. ASSUME NEW c \in Calls, NEW p \in Plugins, InstallPlugin(c, p) \/ RemovePlugin(c, p)
      PROVE  SavesBounded'
  <2>1. \E kind, shown : Start(c, p, kind, item[p].version, item[p].version, shown)
    BY <1>1 DEF InstallPlugin, RemovePlugin
  <2> QED BY <2>1, StartBounded
<1>2. ASSUME UNCHANGED <<version, backend, chain, changes>>
      PROVE  SavesBounded'
  BY <1>2 DEF SavesBounded, Unsaved, backend
<1>3. ASSUME NEW c \in Calls, NEW p \in Plugins, NEW metadata \in Range(Catalog[p]),
             VersionChanged(c, p, metadata)
      PROVE  SavesBounded'
  <2>1. \/ \E shown : Start(c, p, "update", item[p].version, metadata, shown)
        \/ UNCHANGED <<version, backend, chain, changes>>
    BY <1>3 DEF VersionChanged, workspacePlugin
  <2> QED BY <2>1, <1>2, StartBounded
<1>4. ASSUME Filter PROVE SavesBounded'
  BY <1>4, <1>2 DEF Filter, workspacePlugin
<1>5. ASSUME Remount PROVE SavesBounded'
  <2>1. /\ calls' = calls + 1 /\ version' = version /\ chain' = chain /\ changes' = changes
        /\ \A c \in Calls : call'[c].phase = call[c].phase
    BY <1>5, RemountStep DEF workspacePlugin
  <2>2. Unsaved' = Unsaved
    BY <2>1 DEF Unsaved
  <2> QED BY <1>0, <2>1, <2>2 DEF SavesBounded
<1>6. ASSUME NEW c \in Calls, ListPlugins(c) \/ SetWorkspacePlugins(c)
      PROVE  SavesBounded'
  <2>1. /\ call[c].phase \in {"list", "set"} /\ call'[c].phase \in {"set", "save"}
        /\ call' = [call EXCEPT ![c] = call'[c]]
        /\ UNCHANGED <<version, calls, chain, changes>>
    BY <1>6, ListStep, SetStep DEF Continues, workspacePlugin
  <2>2. c \in Unsaved
    BY <2>1 DEF Unsaved
  <2>3. Unsaved' = Unsaved
    BY <1>0, <2>1, <2>2, UnsavedStep
  <2> QED BY <2>1, <2>3 DEF SavesBounded
<1>9. ASSUME NEW c \in Calls, UpdateDevfile(c) PROVE SavesBounded'
  <2>1. /\ call[c].phase = "save" /\ call'[c].phase = "answer"
        /\ call' = [call EXCEPT ![c] = call'[c]] /\ version' = version + 1
        /\ calls' = calls /\ chain' = chain /\ changes' = changes
    BY <1>9, SaveStep DEF Continues, workspacePlugin
  <2>2. c \in Unsaved /\ Unsaved' = Unsaved \ {c}
    BY <1>0, <2>1, UnsavedStep DEF Unsaved
  <2>3. IsFiniteSet(Unsaved') /\ Cardinality(Unsaved') = Cardinality(Unsaved) - 1
    BY <1>0, <2>2, UnsavedShrinks
  <2> QED BY <1>0, <2>1, <2>3 DEF SavesBounded
<1>10. ASSUME NEW c \in Calls, Succeed(c) \/ Fail(c) PROVE SavesBounded'
  <2>1. /\ call' = [call EXCEPT ![c] = Idle]
        /\ version' = version /\ calls' = calls /\ chain' = chain /\ changes' = changes
    BY <1>10 DEF Succeed, Fail, workspacePlugin
  <2>2. Unsaved' = Unsaved \ {c}
    BY <1>0, <2>1, UnsavedStep DEF Idle
  <2>3. IsFiniteSet(Unsaved') /\ Cardinality(Unsaved') <= Cardinality(Unsaved)
    BY <1>0, <2>2, UnsavedShrinks
  <2>4. Cardinality(Unsaved') \in Nat
    BY <2>3, FS_CardinalityType
  <2> QED BY <1>0, <2>1, <2>3, <2>4 DEF SavesBounded
<1>11. ASSUME Unsaved' = Unsaved, version' \in {version, version + 1}, calls' = calls,
              changes' = changes, chain # <<>>, chain' = Tail(chain)
       PROVE  SavesBounded'
  <2>1. Len(chain') = Len(chain) - 1
    BY <1>0, <1>11, HeadTailProperties
  <2> QED BY <1>0, <1>11, <2>1 DEF SavesBounded
<1>12. ASSUME NEW change \in Changes, Noticed(change) PROVE SavesBounded'
  <2>1. /\ changes' = changes + 1 /\ chain' = Append(chain, change)
        /\ version' = version /\ calls' = calls /\ call' = call
    BY <1>12 DEF Noticed, backend
  <2>2. Len(chain') = Len(chain) + 1
    BY <1>0, <2>1, AppendProperties
  <2>3. Unsaved' = Unsaved
    BY <2>1 DEF Unsaved
  <2> QED BY <1>0, <2>1, <2>2, <2>3 DEF SavesBounded
<1>13. ASSUME GetDevfile PROVE SavesBounded'
  BY <1>13, <1>2 DEF GetDevfile
<1>14. ASSUME SaveProjects PROVE SavesBounded'
  <2>1. /\ job # Idle /\ chain' = Tail(chain) /\ call' = call /\ calls' = calls
        /\ changes' = changes /\ version' \in {version, version + 1}
    BY <1>14 DEF SaveProjects, Save, backend
  <2>2. chain # <<>>
    BY <2>1 DEF Types, ChainTyped
  <2>3. Unsaved' = Unsaved
    BY <2>1 DEF Unsaved
  <2> QED BY <2>1, <2>2, <2>3, <1>11
<1>15. ASSUME JobFails PROVE SavesBounded'
  <2>1. /\ chain # <<>> /\ chain' = Tail(chain) /\ call' = call /\ calls' = calls
        /\ changes' = changes /\ version' = version
    BY <1>15 DEF JobFails, backend
  <2>2. Unsaved' = Unsaved
    BY <2>1 DEF Unsaved
  <2> QED BY <2>1, <2>2, <1>11
<1>16. ASSUME UNCHANGED vars PROVE SavesBounded'
  BY <1>16, <1>2 DEF vars, workspacePlugin
<1> QED BY <1>1, <1>3, <1>4, <1>5, <1>6, <1>9, <1>10, <1>12, <1>13, <1>14, <1>15, <1>16
        DEF Next

LEMMA InitBounded == Init => SavesBounded
<1> SUFFICES ASSUME Init PROVE SavesBounded
  OBVIOUS
<1>1. Unsaved = {} /\ Len(chain) = 0
  BY DEF Init, Unsaved, Idle
<1>2. IsFiniteSet(Unsaved) /\ Cardinality(Unsaved) = 0
  BY <1>1, FS_EmptySet
<1> QED BY <1>1, <1>2 DEF Init, SavesBounded

LEMMA TypesGive == Types /\ SavesBounded => TypeOK
<1> SUFFICES ASSUME Types, SavesBounded PROVE TypeOK
  OBVIOUS
<1>1. MaxCalls \in Nat /\ MaxChanges \in Nat
  BY CatalogAssumption
<1>2. /\ version \in Nat /\ calls \in 0..MaxCalls /\ changes \in 0..MaxChanges
      /\ disturbed \in BOOLEAN /\ unsure \in BOOLEAN
      /\ chain \in Seq(Changes) /\ Len(chain) \in Nat /\ Cardinality(Unsaved) \in Nat
  BY UnsavedCard DEF Types, CountersTyped, ChainTyped, SavesBounded
<1>3. version \in 0..(MaxCalls + MaxChanges) /\ Len(chain) <= MaxChanges
  BY <1>1, <1>2 DEF SavesBounded
<1>4. \A p \in Plugins :
       /\ item[p].status \in {"not_installed", "installing", "installed", "removing"}
       /\ item[p].version \in Range(Catalog[p])
       /\ item[p].installed \in BOOLEAN
  BY DEF Types, ViewTyped, IsItem, Statuses
<1>5. \A c \in Calls : call[c].phase \in {"idle", "list", "set", "save", "answer"}
  BY DEF Types, CallsTyped, IsRequest, Idle
<1>6. Range(chain) \subseteq Changes
  BY <1>2, LenProperties DEF Range
<1>7. /\ job # Idle => chain # <<>> /\ job.since <= version
      /\ DOMAIN wanted \subseteq {change.path : change \in Changes}
  BY DEF Types, ChainTyped
<1> QED BY <1>2, <1>3, <1>4, <1>5, <1>6, <1>7 DEF TypeOK

\* The state has the shape TypeOK gives it; in particular the server stores no
\* more versions than plugins were clicked and projects changed.
THEOREM DevfileTypeCorrect == Spec => []TypeOK
<1>1. Init => Types /\ SavesBounded
  BY InitTypes, InitBounded
<1>2. (Types /\ SavesBounded) /\ [Next]_vars => (Types /\ SavesBounded)'
  BY NextTypes, NextBounded
<1>3. Types /\ SavesBounded => TypeOK
  BY TypesGive
<1> QED BY <1>1, <1>2, <1>3, PTL DEF Spec

LEMMA ListedIds ==
  ASSUME NEW d, IsDevfile(d)
  PROVE  LET list == WorkspacePlugins(DevfileV1toV2(d).components)
         IN  IsList(list) /\ Range(list) = IdsOf(d)
<1> DEFINE comps == DevfileV1toV2(d).components
           some == PluginComponents(comps)
<1>1. IsList(comps)
  BY GetCopies DEF IsCopy
<1>2. IsList(WorkspacePlugins(comps))
  BY <1>1, PluginsAreListed
<1>3. WorkspacePlugins(comps) = [i \in DOMAIN some |-> PluginId(some[i])]
  BY DEF WorkspacePlugins, Each
<1>4. IdsOf(d) = {PluginId(some[i]) : i \in DOMAIN some}
  BY DEF IdsOf, Range
<1> QED BY <1>2, <1>3, <1>4 DEF Range

LEMMA NewPluginsAre ==
  ASSUME NEW kind \in Kinds3, NEW before, NEW after, NEW plugins, IsList(plugins)
  PROVE  LET gone == IF kind = "add" THEN {} ELSE {before}
             new == IF kind = "remove" THEN {} ELSE {after}
             list == NewPlugins(kind, before, after, plugins)
         IN  IsList(list) /\ Range(list) = (Range(plugins) \ gone) \cup new
<1> DEFINE rest == Others(plugins, before)
           list == NewPlugins(kind, before, after, plugins)
<1>1. IsList(rest) /\ Range(rest) = Range(plugins) \ {before}
  <2>1. /\ IsList(rest)
        /\ \A k \in DOMAIN rest : \E i \in DOMAIN plugins : plugins[i] # before /\ rest[k] = plugins[i]
        /\ \A i \in DOMAIN plugins : plugins[i] # before => \E k \in DOMAIN rest : rest[k] = plugins[i]
    BY OthersAre
  <2> HIDE DEF rest
  <2> QED BY <2>1 DEF Range
<1> HIDE DEF rest
<1>2. ASSUME NEW a, IsList(a)
      PROVE  IsList(Append(a, after)) /\ Range(Append(a, after)) = Range(a) \cup {after}
  <2> DEFINE b == Append(a, after)
  <2>1. Len(a) \in Nat /\ DOMAIN a = 1..Len(a)
    BY <1>2, ListLen
  <2>2. /\ IsList(b) /\ DOMAIN b = 1..(Len(a) + 1)
        /\ \A i \in DOMAIN a : i \in DOMAIN b /\ b[i] = a[i]
        /\ b[Len(a) + 1] = after
    BY <1>2, Appended
  <2> HIDE DEF b
  <2>3. Len(a) + 1 \in DOMAIN b /\ \A i \in DOMAIN b : i \in DOMAIN a \/ i = Len(a) + 1
    BY <2>1, <2>2
  <2>4. \A x : x \in Range(b) <=> x \in Range(a) \/ x = after
    BY <2>2, <2>3 DEF Range
  <2> QED BY <2>2, <2>4 DEF b
<1>3. list = CASE kind = "add" -> Append(plugins, after)
               [] kind = "remove" -> rest
               [] kind = "update" -> Append(rest, after)
  BY DEF NewPlugins, rest
<1> HIDE DEF list
<1>4. /\ IsList(Append(plugins, after)) /\ Range(Append(plugins, after)) = Range(plugins) \cup {after}
      /\ IsList(Append(rest, after)) /\ Range(Append(rest, after)) = Range(rest) \cup {after}
  BY <1>1, <1>2
<1>5. CASE kind = "add"
  BY <1>3, <1>4, <1>5 DEF list
<1>6. CASE kind = "remove"
  BY <1>3, <1>1, <1>6 DEF list
<1>7. CASE kind = "update"
  BY <1>3, <1>4, <1>1, <1>7 DEF list
<1> QED BY <1>5, <1>6, <1>7 DEF Kinds3

\* What a plugin call saves has the plugins of its list and no others.
LEMMA SavedIds ==
  ASSUME NEW d, IsDevfile(d), NEW plugins, IsList(plugins)
  PROVE  LET copy == DevfileV1toV2(d)
             e == DevfileV2toV1([copy EXCEPT !.components = SetPlugins(copy.components, plugins)])
         IN  IsDevfile(e) /\ IdsOf(e) = Range(plugins)
<1> DEFINE copy == DevfileV1toV2(d)
           comps == copy.components
           S == Staying(comps, plugins)
           J == Joining(comps, plugins)
           R == SetPlugins(comps, plugins)
           x == [copy EXCEPT !.components = R]
           e == DevfileV2toV1(x)
<1>1. IsCopy(copy) /\ IsList(comps)
  BY GetCopies DEF IsCopy
<1>2. "components" \in DOMAIN copy /\ comps = Each(d.components, ComponentV1toV2)
  BY DEF DevfileV1toV2
<1> HIDE DEF copy
<1>3. IsDevfile(e)
  BY <1>1, PluginsAreSet, UpdateStores
<1>4. x.components = R
  BY <1>2
<1>5. e.components = Each(R, ComponentV2toV1)
  BY <1>4 DEF DevfileV2toV1
<1>6. /\ S \subseteq DOMAIN comps /\ J \subseteq DOMAIN plugins
      /\ \A k \in DOMAIN R : \/ \E i \in S : R[k] = comps[i]
                             \/ \E j \in J : R[k] = CreatePluginComponent(plugins[j])
      /\ \A i \in S : \E k \in DOMAIN R : R[k] = comps[i]
      /\ \A j \in J : \E k \in DOMAIN R : R[k] = CreatePluginComponent(plugins[j])
  <2>1. S \subseteq DOMAIN comps /\ J \subseteq DOMAIN plugins
    BY <1>1, SetPluginsIs
  <2> HIDE DEF comps
  <2> QED BY <2>1, <1>1, SetPluginsElements
<1>7. /\ \A i \in S : IsPluginComponent(comps[i]) => \E j \in DOMAIN plugins : plugins[j] = PluginId(comps[i])
      /\ \A j \in DOMAIN plugins :
           \/ \E i \in S : IsPluginComponent(comps[i]) /\ PluginId(comps[i]) = plugins[j]
           \/ \E k \in J : plugins[k] = plugins[j]
  BY <1>1, SetPluginsIds
<1>8. DOMAIN comps = DOMAIN d.components /\ \A i \in DOMAIN comps : comps[i] = ComponentV1toV2(d.components[i])
  BY <1>2 DEF Each
<1>9. DOMAIN e.components = DOMAIN R /\ \A k \in DOMAIN R : e.components[k] = ComponentV2toV1(R[k])
  BY <1>5 DEF Each
<1> HIDE DEF comps, R, e, S, J
\* A component that stays is the plugin it was.
<1>10. ASSUME NEW i \in S
       PROVE  LET c == ComponentV2toV1(comps[i])
              IN  /\ IsPlugin(c) <=> IsPluginComponent(comps[i])
                  /\ IsPlugin(c) => IdOf(c) = PluginId(comps[i])
  <2> DEFINE v == d.components[i]
  <2>1. IsComponent(v) /\ comps[i] = ComponentV1toV2(v)
    BY <1>6, <1>8 DEF IsDevfile
  <2> HIDE DEF v
  <2>2. ComponentV2toV1(comps[i]) = KeptComponent(v)
    BY <2>1, ComponentKept DEF IsComponent
  <2>3. /\ IsPluginComponent(comps[i]) <=> IsPlugin(v)
        /\ IsPlugin(v) => PluginId(comps[i]) = IdOf(v)
    BY <2>1, PluginForth
  <2>4. IsPlugin(KeptComponent(v)) <=> IsPlugin(v)
    BY KeptPlugin
  <2>5. IsPlugin(v) => IdOf(KeptComponent(v)) = IdOf(v)
    BY <2>1, KeptPlugin DEF IdOf, IsComponent
  <2> QED BY <2>2, <2>3, <2>4, <2>5
<1>11. IdsOf(e) = {IdOf(e.components[k]) : k \in {j \in DOMAIN e.components : IsPlugin(e.components[j])}}
  BY <1>3, IdsOfIs
<1>12. ASSUME NEW k \in DOMAIN R, IsPlugin(e.components[k])
       PROVE  IdOf(e.components[k]) \in Range(plugins)
  <2>1. ASSUME NEW i \in S, R[k] = comps[i]
        PROVE  IdOf(e.components[k]) \in Range(plugins)
    <3>1. IsPluginComponent(comps[i]) /\ IdOf(e.components[k]) = PluginId(comps[i])
      BY <1>9, <1>10, <1>12, <2>1
    <3> QED BY <3>1, <1>7 DEF Range
  <2>2. ASSUME NEW j \in J, R[k] = CreatePluginComponent(plugins[j])
        PROVE  IdOf(e.components[k]) \in Range(plugins)
    <3>1. IdOf(e.components[k]) = plugins[j]
      BY <1>9, <2>2, CreatedIsStored
    <3> QED BY <3>1, <1>6 DEF Range
  <2> QED BY <2>1, <2>2, <1>6
<1>13. ASSUME NEW j \in DOMAIN plugins
       PROVE  \E k \in DOMAIN R : IsPlugin(e.components[k]) /\ IdOf(e.components[k]) = plugins[j]
  <2>1. ASSUME NEW i \in S, IsPluginComponent(comps[i]), PluginId(comps[i]) = plugins[j]
        PROVE  \E k \in DOMAIN R : IsPlugin(e.components[k]) /\ IdOf(e.components[k]) = plugins[j]
    <3>1. PICK k \in DOMAIN R : R[k] = comps[i]
      BY <1>6
    <3> QED BY <3>1, <2>1, <1>9, <1>10
  <2>2. ASSUME NEW i \in J, plugins[i] = plugins[j]
        PROVE  \E k \in DOMAIN R : IsPlugin(e.components[k]) /\ IdOf(e.components[k]) = plugins[j]
    <3>1. PICK k \in DOMAIN R : R[k] = CreatePluginComponent(plugins[i])
      BY <1>6
    <3> QED BY <3>1, <2>2, <1>9, CreatedIsStored
  <2> QED BY <2>1, <2>2, <1>7
<1>14. \A id : id \in IdsOf(e) <=> id \in Range(plugins)
  BY <1>9, <1>11, <1>12, <1>13 DEF Range
<1>15. IdsOf(e) = Range(plugins)
  BY <1>14
<1> QED BY <1>3, <1>15 DEF e, R, comps, copy

\* A project change leaves the plugins alone.
LEMMA ProjectsKeepIds ==
  ASSUME NEW d, IsDevfile(d), NEW projects, Named(projects)
  PROVE  LET e == DevfileV2toV1([DevfileV1toV2(d) EXCEPT !.projects = projects])
         IN  IsDevfile(e) /\ IdsOf(e) = IdsOf(d)
<1> DEFINE copy == DevfileV1toV2(d)
           x == [copy EXCEPT !.projects = projects]
           e == DevfileV2toV1(x)
<1>1. IsCopy(copy)
  BY GetCopies
<1>2. copy.components = Each(d.components, ComponentV1toV2)
  BY DEF DevfileV1toV2
<1> HIDE DEF copy
<1>3. x.components = copy.components
  OBVIOUS
<1>4. IsDevfile(e)
  BY <1>1, ProjectsAreSet, UpdateStores DEF Named
<1>5. e.components = Each(copy.components, ComponentV2toV1)
  BY <1>3 DEF DevfileV2toV1
<1> HIDE DEF e
<1>6. DOMAIN e.components = DOMAIN d.components
      /\ \A i \in DOMAIN d.components :
           e.components[i] = ComponentV2toV1(ComponentV1toV2(d.components[i]))
  BY <1>2, <1>5 DEF Each
<1>7. \A i \in DOMAIN d.components :
        /\ IsPlugin(e.components[i]) <=> IsPlugin(d.components[i])
        /\ IsPlugin(d.components[i]) => IdOf(e.components[i]) = IdOf(d.components[i])
  <2> SUFFICES ASSUME NEW v, IsComponent(v)
               PROVE  LET k == ComponentV2toV1(ComponentV1toV2(v))
                      IN  (IsPlugin(k) <=> IsPlugin(v)) /\ (IsPlugin(v) => IdOf(k) = IdOf(v))
    BY <1>6 DEF IsDevfile
  <2>1. ComponentV2toV1(ComponentV1toV2(v)) = KeptComponent(v)
    BY ComponentKept DEF IsComponent
  <2>2. IsPlugin(v) => IdOf(KeptComponent(v)) = IdOf(v)
    BY KeptPlugin DEF IdOf, IsComponent
  <2> QED BY <2>1, <2>2, KeptPlugin
<1>8. /\ IdsOf(e) = {IdOf(e.components[k]) : k \in {j \in DOMAIN e.components : IsPlugin(e.components[j])}}
      /\ IdsOf(d) = {IdOf(d.components[k]) : k \in {j \in DOMAIN d.components : IsPlugin(d.components[j])}}
  BY <1>4, IdsOfIs
<1>9. \A id : id \in IdsOf(e) <=> id \in IdsOf(d)
  BY <1>6, <1>7, <1>8
<1>10. IdsOf(e) = IdsOf(d)
  BY <1>9
<1> QED BY <1>4, <1>10 DEF e, copy

-----------------------------------------------------------------------------
(* The copies of writers no save has crossed *)

FreshCall(r, d, v) ==
  /\ r.phase \in {"set", "save"} =>
       /\ r.since <= v
       /\ r.since = v => r.plugins = PluginsFor(d, r)
  /\ r.phase = "save" /\ r.since = v => r.copy = CopyFor(d, r)

\* When no save has landed since a writer began, its copy is of the devfile
\* that is stored.
Fresh ==
  /\ \A c \in Calls : FreshCall(call[c], devfile, version)
  /\ job # Idle /\ job.since = version => job.copy = DevfileV1toV2(devfile)

LEMMA FreshIdle == \A d, v : FreshCall(Idle, d, v)
BY DEF FreshCall, Idle

LEMMA FreshAged ==
  ASSUME NEW r, r = Idle \/ IsRequest(r), NEW d, NEW v \in Nat, NEW e, FreshCall(r, d, v)
  PROVE  FreshCall(r, e, v + 1)
<1>1. r.phase \in {"set", "save"} => r.since \in Nat /\ r.since <= v
  BY DEF FreshCall, IsRequest, Idle
<1>2. r.phase \in {"set", "save"} => r.since <= v + 1 /\ r.since # v + 1
  BY <1>1
<1> QED BY <1>2 DEF FreshCall

LEMMA FreshCalls ==
  ASSUME CallsTyped, Fresh, UNCHANGED <<devfile, version>>,
         NEW c \in Calls, NEW r, call' = [call EXCEPT ![c] = r], FreshCall(r, devfile, version)
  PROVE  \A d \in Calls : FreshCall(call'[d], devfile', version')
<1>1. call'[c] = r /\ \A d \in Calls : d # c => call'[d] = call[d]
  BY DEF CallsTyped
<1> QED BY <1>1 DEF Fresh

LEMMA SameAsked ==
  ASSUME NEW r, NEW s, SameRequest(r, s), NEW d
  PROVE  PluginsFor(d, s) = PluginsFor(d, r)
BY DEF SameRequest, PluginsFor, KeyBefore

LEMMA NextFresh == Types /\ Fresh /\ [Next]_vars => Fresh'
<1> SUFFICES ASSUME Types, Fresh, [Next]_vars PROVE Fresh'
  OBVIOUS
<1>0. /\ CallsTyped /\ version \in Nat
      /\ \A c \in Calls : FreshCall(call[c], devfile, version)
      /\ \A c \in Calls : call[c] = Idle \/ IsRequest(call[c])
  BY DEF Types, CountersTyped, CallsTyped, Fresh
<1>1. ASSUME NEW c \in Calls, NEW p, NEW kind, NEW before, NEW after, NEW shown,
             Start(c, p, kind, before, after, shown)
      PROVE  Fresh'
  <2> DEFINE r == [phase |-> "list", kind |-> kind, plugin |-> p, before |-> before,
                   after |-> after, previous |-> item[p].status, shown |-> TRUE]
  <2>1. call' = [call EXCEPT ![c] = r] /\ r.phase = "list"
        /\ UNCHANGED <<devfile, version, job>>
    BY <1>1 DEF Start, workspacePlugin
  <2> HIDE DEF r
  <2>2. FreshCall(r, devfile, version)
    BY <2>1 DEF FreshCall
  <2> QED BY <1>0, <2>1, <2>2, FreshCalls DEF Fresh
<1>2. ASSUME UNCHANGED <<devfile, version, call, job>>
      PROVE  Fresh'
  BY <1>2 DEF Fresh
<1>3. ASSUME NEW c \in Calls, NEW p \in Plugins, InstallPlugin(c, p) \/ RemovePlugin(c, p)
      PROVE  Fresh'
  <2>1. \E kind, shown : Start(c, p, kind, item[p].version, item[p].version, shown)
    BY <1>3 DEF InstallPlugin, RemovePlugin
  <2> QED BY <2>1, <1>1
<1>4. ASSUME NEW c \in Calls, NEW p \in Plugins, NEW metadata \in Range(Catalog[p]),
             VersionChanged(c, p, metadata)
      PROVE  Fresh'
  <2>1. \/ \E shown : Start(c, p, "update", item[p].version, metadata, shown)
        \/ UNCHANGED <<devfile, version, call, job>>
    BY <1>4 DEF VersionChanged, workspacePlugin, backend
  <2> QED BY <2>1, <1>1, <1>2
<1>5. ASSUME Filter PROVE Fresh'
  BY <1>5, <1>2 DEF Filter, workspacePlugin, backend
<1>6. ASSUME Remount PROVE Fresh'
  <2>1. /\ UNCHANGED <<devfile, version, job>>
        /\ \A c \in Calls :
              \/ call'[c] = Idle
              \/ /\ SameRequest(call[c], call'[c]) /\ call'[c].phase = call[c].phase
                 /\ call[c].phase \in {"set", "save"} =>
                      call'[c].plugins = call[c].plugins /\ call'[c].since = call[c].since
                 /\ call[c].phase = "save" => call'[c].copy = call[c].copy
    BY <1>6, RemountStep DEF workspacePlugin
  <2>2. \A c \in Calls : FreshCall(call'[c], devfile, version)
    BY <1>0, <2>1, FreshIdle, SameAsked DEF FreshCall, CopyFor
  <2> QED BY <2>1, <2>2 DEF Fresh
<1>7. ASSUME NEW c \in Calls, ListPlugins(c) PROVE Fresh'
  <2>1. /\ Continues(c, "list", "set")
        /\ call'[c].plugins = PluginsFor(devfile, call[c]) /\ call'[c].since = version
        /\ UNCHANGED <<devfile, version, job>>
    BY <1>7, ListStep DEF workspacePlugin
  <2>2. FreshCall(call'[c], devfile, version)
    BY <1>0, <2>1, SameAsked DEF FreshCall, Continues
  <2> QED BY <1>0, <2>1, <2>2, FreshCalls DEF Fresh, Continues
<1>8. ASSUME NEW c \in Calls, SetWorkspacePlugins(c) PROVE Fresh'
  <2>1. /\ Continues(c, "set", "save")
        /\ call'[c].plugins = call[c].plugins /\ call'[c].since = call[c].since
        /\ call'[c].copy = CopyFor(devfile, call[c])
        /\ UNCHANGED <<devfile, version, job>>
    BY <1>8, SetStep DEF workspacePlugin
  <2>2. FreshCall(call[c], devfile, version)
    BY <1>0
  <2>3. FreshCall(call'[c], devfile, version)
    BY <2>1, <2>2, SameAsked DEF FreshCall, Continues, CopyFor
  <2> QED BY <1>0, <2>1, <2>3, FreshCalls DEF Fresh, Continues
<1>9. ASSUME NEW c \in Calls, UpdateDevfile(c) PROVE Fresh'
  <2>1. /\ Continues(c, "save", "answer") /\ version' = version + 1 /\ job' = job
    BY <1>9, SaveStep DEF workspacePlugin
  <2>2. FreshCall(call'[c], devfile', version + 1)
    BY <2>1 DEF FreshCall, Continues
  <2>3. \A d \in Calls : d # c => call'[d] = call[d]
    BY <1>0, <2>1 DEF CallsTyped, Continues
  <2>4. \A d \in Calls : FreshCall(call'[d], devfile', version + 1)
    BY <1>0, <2>2, <2>3, FreshAged
  <2>5. job # Idle => job.since # version + 1
    <3>1. job # Idle => job.since \in Nat /\ job.since <= version
      BY DEF Types, ChainTyped
    <3> QED BY <1>0, <3>1
  <2> QED BY <2>1, <2>4, <2>5 DEF Fresh
<1>10. ASSUME NEW c \in Calls, Succeed(c) \/ Fail(c) PROVE Fresh'
  <2>1. call' = [call EXCEPT ![c] = Idle] /\ UNCHANGED <<devfile, version, job>>
    BY <1>10 DEF Succeed, Fail, workspacePlugin
  <2> QED BY <1>0, <2>1, FreshIdle, FreshCalls DEF Fresh
<1>11. ASSUME NEW change \in Changes, Noticed(change) PROVE Fresh'
  BY <1>11, <1>2 DEF Noticed, backend
<1>12. ASSUME GetDevfile PROVE Fresh'
  BY <1>12 DEF GetDevfile, backend, Fresh
<1>13. ASSUME SaveProjects PROVE Fresh'
  <2>1. call' = call /\ job' = Idle
        /\ (UNCHANGED <<devfile, version>> \/ version' = version + 1)
    BY <1>13 DEF SaveProjects, Save, backend
  <2>2. CASE UNCHANGED <<devfile, version>>
    BY <2>1, <2>2 DEF Fresh
  <2>3. CASE version' = version + 1
    <3>1. \A d \in Calls : FreshCall(call[d], devfile', version + 1)
      BY <1>0, FreshAged
    <3> QED BY <2>1, <2>3, <3>1 DEF Fresh
  <2> QED BY <2>1, <2>2, <2>3
<1>14. ASSUME JobFails PROVE Fresh'
  BY <1>14 DEF JobFails, backend, Fresh
<1>15. ASSUME UNCHANGED vars PROVE Fresh'
  BY <1>15, <1>2 DEF vars, backend, workspacePlugin
<1> QED BY <1>3, <1>4, <1>5, <1>6, <1>7, <1>8, <1>9, <1>10, <1>11, <1>12, <1>13, <1>14, <1>15
        DEF Next

LEMMA InitFresh == Init => Fresh
BY FreshIdle DEF Init, Fresh

-----------------------------------------------------------------------------
(* InstalledIsThere *)

\* While nobody is unsure, the calls under way are for plugins of their own.
OnePerPlugin ==
  ~unsure => \A c, d \in Calls :
    c # d /\ call[c] # Idle /\ call[d] # Idle => call[c].plugin # call[d].plugin

Keys == {m.key : m \in Metadata}

\* An installed plugin that the devfile does not have is one that an answer on
\* its way will take off the list; one an answer will put on it is there.
Explained ==
  ~disturbed /\ ~unsure =>
    /\ \A k \in Range(installed) \cap Keys :
         \/ k \in IdsOf(devfile)
         \/ \E c \in Calls : /\ call[c].phase = "answer" /\ call[c].kind \in {"remove", "update"}
                             /\ call[c].before.key = k
    /\ \A c \in Calls : call[c].phase = "answer" /\ call[c].kind \in {"add", "update"} =>
         call[c].after.key \in IdsOf(devfile)

\* What a call's step leaves of its plugin, and of the others' calls.
LEMMA OnePerPluginStep ==
  ASSUME CallsTyped, OnePerPlugin, unsure' = unsure, NEW c \in Calls, call[c] # Idle, NEW r,
         call' = [call EXCEPT ![c] = r], r = Idle \/ r.plugin = call[c].plugin
  PROVE  OnePerPlugin'
<1>1. call'[c] = r /\ \A d \in Calls : d # c => call'[d] = call[d]
  BY DEF CallsTyped
<1>2. \A d \in Calls : call'[d] # Idle => call[d] # Idle /\ call'[d].plugin = call[d].plugin
  BY <1>1
<1> QED BY <1>2 DEF OnePerPlugin

LEMMA NextOnePerPlugin == Types /\ OnePerPlugin /\ [Next]_vars => OnePerPlugin'
<1> SUFFICES ASSUME Types, OnePerPlugin, [Next]_vars PROVE OnePerPlugin'
  OBVIOUS
<1>0. /\ CallsTyped /\ \A c \in Calls : call[c] = Idle \/ IsRequest(call[c])
      /\ version \in Nat
  BY DEF Types, CallsTyped, CountersTyped
<1>1. ASSUME NEW c \in Calls, NEW p, NEW kind, NEW before, NEW after, NEW shown,
             Start(c, p, kind, before, after, shown)
      PROVE  OnePerPlugin'
  <2> DEFINE r == [phase |-> "list", kind |-> kind, plugin |-> p, before |-> before,
                   after |-> after, previous |-> item[p].status, shown |-> TRUE]
  <2>1. /\ call[c] = Idle /\ call' = [call EXCEPT ![c] = r] /\ r.plugin = p
        /\ unsure' = (unsure \/ \E d \in Calls : call[d] # Idle /\ call[d].plugin = p)
    BY <1>1 DEF Start
  <2> HIDE DEF r
  <2>2. call'[c] = r /\ \A d \in Calls : d # c => call'[d] = call[d]
    BY <1>0, <2>1 DEF CallsTyped
  <2>3. ~unsure' => ~unsure /\ \A d \in Calls : call[d] # Idle => call[d].plugin # p
    BY <2>1
  <2> QED BY <2>1, <2>2, <2>3 DEF OnePerPlugin
<1>2. ASSUME UNCHANGED <<call, unsure>> PROVE OnePerPlugin'
  BY <1>2 DEF OnePerPlugin
<1>3. ASSUME NEW c \in Calls, NEW p \in Plugins, InstallPlugin(c, p) \/ RemovePlugin(c, p)
      PROVE  OnePerPlugin'
  <2>1. \E kind, shown : Start(c, p, kind, item[p].version, item[p].version, shown)
    BY <1>3 DEF InstallPlugin, RemovePlugin
  <2> QED BY <2>1, <1>1
<1>4. ASSUME NEW c \in Calls, NEW p \in Plugins, NEW metadata \in Range(Catalog[p]),
             VersionChanged(c, p, metadata)
      PROVE  OnePerPlugin'
  <2>1. \/ \E shown : Start(c, p, "update", item[p].version, metadata, shown)
        \/ UNCHANGED <<call, unsure>>
    BY <1>4 DEF VersionChanged, backend, ghosts
  <2> QED BY <2>1, <1>1, <1>2
<1>5. ASSUME Filter PROVE OnePerPlugin'
  BY <1>5, <1>2 DEF Filter, backend, ghosts
<1>6. ASSUME Remount PROVE OnePerPlugin'
  <2>1. /\ unsure' = unsure
        /\ \A c \in Calls : \/ call'[c] = Idle
                            \/ IsRequest(call[c]) /\ SameRequest(call[c], call'[c])
    BY <1>6, RemountStep DEF ghosts
  <2>2. \A c \in Calls : call'[c] # Idle => call[c] # Idle /\ call'[c].plugin = call[c].plugin
    BY <2>1, IdleIsNoRequest DEF SameRequest
  <2> QED BY <2>1, <2>2 DEF OnePerPlugin
<1>7. ASSUME NEW c \in Calls, ListPlugins(c) \/ SetWorkspacePlugins(c) \/ UpdateDevfile(c)
      PROVE  OnePerPlugin'
  <2>1. /\ IsRequest(call[c]) /\ SameRequest(call[c], call'[c]) /\ unsure' = unsure
        /\ call' = [call EXCEPT ![c] = call'[c]]
    BY <1>7, ListStep, SetStep, SaveStep DEF Continues, ghosts
  <2> QED BY <1>0, <2>1, OnePerPluginStep, IdleIsNoRequest DEF SameRequest
<1>10. ASSUME NEW c \in Calls, Succeed(c) PROVE OnePerPlugin'
  <2>1. call[c] # Idle /\ call' = [call EXCEPT ![c] = Idle] /\ unsure' = unsure
    BY <1>10 DEF Succeed, ghosts, Idle
  <2> QED BY <1>0, <2>1, OnePerPluginStep
<1>11. ASSUME NEW c \in Calls, Fail(c) PROVE OnePerPlugin'
  <2>1. call[c] # Idle /\ call' = [call EXCEPT ![c] = Idle]
        /\ unsure' = (unsure \/ call[c].phase = "answer")
    BY <1>11 DEF Fail
  <2>2. call'[c] = Idle /\ \A d \in Calls : d # c => call'[d] = call[d]
    BY <1>0, <2>1 DEF CallsTyped
  <2> QED BY <2>1, <2>2 DEF OnePerPlugin
<1>12. ASSUME NEW change \in Changes, Noticed(change) PROVE OnePerPlugin'
  BY <1>12, <1>2 DEF Noticed, backend, ghosts
<1>13. ASSUME GetDevfile \/ JobFails PROVE OnePerPlugin'
  BY <1>13, <1>2 DEF GetDevfile, JobFails, backend, ghosts
<1>14. ASSUME SaveProjects PROVE OnePerPlugin'
  BY <1>14, <1>2 DEF SaveProjects, backend
<1>15. ASSUME UNCHANGED vars PROVE OnePerPlugin'
  BY <1>15, <1>2 DEF vars, backend, ghosts
<1> QED BY <1>3, <1>4, <1>5, <1>6, <1>7, <1>10, <1>11, <1>12, <1>13, <1>14, <1>15
        DEF Next

\* An answer on its way that will take a key off the installed ones.
TakesOff(r, k) ==
  r.phase = "answer" /\ r.kind \in {"remove", "update"} /\ r.before.key = k

PutsOn(r) == r.phase = "answer" /\ r.kind \in {"add", "update"}

LEMMA ExplainedIs ==
  Explained <=>
    (~disturbed /\ ~unsure =>
       /\ \A k \in Range(installed) \cap Keys :
            k \in IdsOf(devfile) \/ \E c \in Calls : TakesOff(call[c], k)
       /\ \A c \in Calls : PutsOn(call[c]) => call[c].after.key \in IdsOf(devfile))
BY DEF Explained, TakesOff, PutsOn

\* A key that a request takes off the devfile is that of its version before.
LEMMA KeyTaken ==
  ASSUME NEW r, IsRequest(r), NEW m \in Metadata, m.key = KeyBefore(r)
  PROVE  m = r.before
<1>1. r.before \in Metadata
  BY InMetadata DEF IsRequest
<1>2. m.key = r.before.key \/ m.key = r.before.shortKey
  BY DEF KeyBefore
<1> QED BY <1>1, <1>2, CatalogAssumption

\* Where no answer comes or goes and nothing is saved.
LEMMA ExplainedStays ==
  ASSUME Explained, UNCHANGED <<devfile, installed>>, unsure \in BOOLEAN,
         disturbed' = disturbed, ~unsure' => ~unsure,
         \A c \in Calls : /\ call'[c].phase = "answer" <=> call[c].phase = "answer"
                          /\ call[c].phase = "answer" => SameRequest(call[c], call'[c])
  PROVE  Explained'
<1>1. \A c \in Calls : /\ \A k : TakesOff(call'[c], k) <=> TakesOff(call[c], k)
                       /\ PutsOn(call'[c]) <=> PutsOn(call[c])
                       /\ PutsOn(call[c]) => call'[c].after = call[c].after
  BY DEF TakesOff, PutsOn, SameRequest
<1> QED BY <1>1, ExplainedIs DEF Explained, TakesOff, PutsOn

\* What one call saves when nothing has landed since it began.
LEMMA CallSaves ==
  ASSUME Types, Fresh, NEW c \in Calls, call[c].phase = "save", call[c].since = version,
         IsRequest(call[c])
  PROVE  LET r == call[c]
             gone == IF r.kind = "add" THEN {} ELSE {KeyBefore(r)}
             new == IF r.kind = "remove" THEN {} ELSE {r.after.key}
         IN  IdsOf(DevfileV2toV1(r.copy)) = (IdsOf(devfile) \ gone) \cup new
<1> DEFINE r == call[c]
           copy == DevfileV1toV2(devfile)
           ids == WorkspacePlugins(copy.components)
           gone == IF r.kind = "add" THEN {} ELSE {KeyBefore(r)}
           new == IF r.kind = "remove" THEN {} ELSE {r.after.key}
<1>1. IsDevfile(devfile)
  BY DEF Types
<1>2. r.plugins = PluginsFor(devfile, r) /\ r.copy = CopyFor(devfile, r) /\ r.kind \in Kinds3
      /\ IsList(r.plugins)
  BY DEF Fresh, FreshCall, IsRequest
<1> HIDE DEF r
<1>3. IsList(ids) /\ Range(ids) = IdsOf(devfile)
  BY <1>1, ListedIds
<1>4. r.plugins = NewPlugins(r.kind, KeyBefore(r), r.after.key, ids)
  BY <1>2 DEF PluginsFor
<1> HIDE DEF ids
<1>5. Range(r.plugins) = (IdsOf(devfile) \ gone) \cup new
  BY <1>2, <1>3, <1>4, NewPluginsAre
<1>6. IdsOf(DevfileV2toV1([copy EXCEPT !.components = SetPlugins(copy.components, r.plugins)]))
        = Range(r.plugins)
  BY <1>1, <1>2, SavedIds
<1>7. r.copy = [copy EXCEPT !.components = SetPlugins(copy.components, r.plugins)]
  BY <1>2 DEF CopyFor
<1> QED BY <1>5, <1>6, <1>7 DEF r

LEMMA UpdateExplained ==
  ASSUME Types, Fresh, OnePerPlugin, Explained, NEW c \in Calls, UpdateDevfile(c)
  PROVE  Explained'
<1> DEFINE r == call[c]
           s == call'[c]
           gone == IF r.kind = "add" THEN {} ELSE {KeyBefore(r)}
           new == IF r.kind = "remove" THEN {} ELSE {r.after.key}
<1> SUFFICES ASSUME ~disturbed', ~unsure'
             PROVE  /\ \A k \in Range(installed') \cap Keys :
                         k \in IdsOf(devfile') \/ \E d \in Calls : TakesOff(call'[d], k)
                    /\ \A d \in Calls : PutsOn(call'[d]) => call'[d].after.key \in IdsOf(devfile')
  BY DEF Explained, TakesOff, PutsOn
<1>1. /\ IsRequest(r) /\ IsRequest(s) /\ SameRequest(r, s) /\ r.phase = "save" /\ s.phase = "answer"
      /\ call' = [call EXCEPT ![c] = s]
      /\ devfile' = DevfileV2toV1(r.copy) /\ installed' = installed
      /\ disturbed' = (disturbed \/ r.since # version) /\ unsure' = unsure
  BY SaveStep DEF Continues, view
<1>2. ~disturbed /\ ~unsure /\ r.since = version
  BY <1>1
<1>3. IdsOf(devfile') = (IdsOf(devfile) \ gone) \cup new
  BY <1>1, <1>2, CallSaves
<1>4. \A d \in Calls : d # c => call'[d] = call[d]
  BY <1>1 DEF Types, CallsTyped
<1>5. /\ \A k \in Range(installed) \cap Keys :
            k \in IdsOf(devfile) \/ \E d \in Calls : TakesOff(call[d], k)
      /\ \A d \in Calls : PutsOn(call[d]) => call[d].after.key \in IdsOf(devfile)
  BY <1>2 DEF Explained, TakesOff, PutsOn
<1>6. ASSUME NEW k \in Range(installed') \cap Keys
      PROVE  k \in IdsOf(devfile') \/ \E d \in Calls : TakesOff(call'[d], k)
  <2>1. k \in Range(installed) \cap Keys
    BY <1>1
  <2>2. ASSUME NEW d \in Calls, TakesOff(call[d], k)
        PROVE  \E e \in Calls : TakesOff(call'[e], k)
    <3>1. d # c
      BY <1>1, <2>2 DEF TakesOff
    <3> QED BY <3>1, <2>2, <1>4
  <2>3. CASE k \in IdsOf(devfile) /\ k \notin gone
    BY <2>3, <1>3
  <2>4. CASE k \in gone
    <3>1. PICK m \in Metadata : m.key = k
      BY <2>1 DEF Keys
    <3>2. r.kind # "add" /\ m.key = KeyBefore(r)
      BY <2>4, <3>1
    <3>3. m = r.before
      BY <1>1, <3>2, KeyTaken
    <3>4. TakesOff(s, k)
      BY <1>1, <3>1, <3>2, <3>3 DEF TakesOff, IsRequest, Kinds3, SameRequest
    <3> QED BY <3>4
  <2> QED BY <2>1, <2>2, <2>3, <2>4, <1>5
<1>7. ASSUME NEW d \in Calls, PutsOn(call'[d])
      PROVE  call'[d].after.key \in IdsOf(devfile')
  <2>1. CASE d = c
    <3>1. r.kind # "remove" /\ s.after = r.after
      BY <1>1, <1>7, <2>1 DEF PutsOn, SameRequest
    <3>2. r.after.key \in new
      BY <3>1
    <3> QED BY <1>3, <2>1, <3>1, <3>2
  <2>2. CASE d # c
    <3> DEFINE q == call[d]
    <3>1. call'[d] = q /\ PutsOn(q) /\ q.after.key \in IdsOf(devfile)
      BY <1>4, <1>5, <1>7, <2>2
    <3>2. q # Idle /\ IsRequest(q)
      BY <3>1 DEF PutsOn, Idle, Types, CallsTyped
    <3>3. q.plugin # r.plugin
      BY <1>1, <1>2, <2>2, <3>2, IdleIsNoRequest DEF OnePerPlugin
    <3>4. q.after # r.before
      <4>1. /\ q.plugin \in DOMAIN Catalog /\ r.plugin \in DOMAIN Catalog
            /\ q.after \in Range(Catalog[q.plugin]) /\ r.before \in Range(Catalog[r.plugin])
        BY <1>1, <3>2 DEF IsRequest, Plugins
      <4>2. Range(Catalog[q.plugin]) \cap Range(Catalog[r.plugin]) = {}
        BY <4>1, <3>3, CatalogAssumption
      <4> QED BY <4>1, <4>2
    <3>5. q.after \in Metadata
      BY <3>2, InMetadata DEF IsRequest
    <3>6. q.after.key # KeyBefore(r)
      BY <1>1, <3>4, <3>5, KeyTaken
    <3> QED BY <3>1, <3>6, <1>3
  <2> QED BY <2>1, <2>2
<1> QED BY <1>6, <1>7

LEMMA SucceedExplained ==
  ASSUME Types, Explained, NEW c \in Calls, Succeed(c)
  PROVE  Explained'
<1> DEFINE r == call[c]
           rest == Others(installed, r.before.key)
<1> SUFFICES ASSUME ~disturbed', ~unsure'
             PROVE  /\ \A k \in Range(installed') \cap Keys :
                         k \in IdsOf(devfile') \/ \E d \in Calls : TakesOff(call'[d], k)
                    /\ \A d \in Calls : PutsOn(call'[d]) => call'[d].after.key \in IdsOf(devfile')
  BY DEF Explained, TakesOff, PutsOn
<1>1. /\ r.phase = "answer" /\ call' = [call EXCEPT ![c] = Idle]
      /\ installed' = CASE r.kind = "add" -> Append(installed, r.after.key)
                        [] r.kind = "remove" -> rest
                        [] r.kind = "update" -> Append(rest, r.after.key)
      /\ UNCHANGED <<devfile, disturbed, unsure>>
  BY DEF Succeed, ghosts
<1>2. r.kind \in Kinds3 /\ IsList(installed)
  BY <1>1 DEF Types, CallsTyped, ViewTyped, IsRequest, Idle
<1>3. installed' = NewPlugins(r.kind, r.before.key, r.after.key, installed)
  BY <1>1 DEF NewPlugins
<1>4. Range(installed') = (Range(installed) \ (IF r.kind = "add" THEN {} ELSE {r.before.key}))
                            \cup (IF r.kind = "remove" THEN {} ELSE {r.after.key})
  BY <1>2, <1>3, NewPluginsAre
<1>5. call'[c] = Idle /\ \A d \in Calls : d # c => call'[d] = call[d]
  BY <1>1 DEF Types, CallsTyped
<1>6. /\ \A k \in Range(installed) \cap Keys :
            k \in IdsOf(devfile) \/ \E d \in Calls : TakesOff(call[d], k)
      /\ \A d \in Calls : PutsOn(call[d]) => call[d].after.key \in IdsOf(devfile)
  BY <1>1 DEF Explained, TakesOff, PutsOn
<1>7. ASSUME NEW k \in Range(installed') \cap Keys
      PROVE  k \in IdsOf(devfile') \/ \E d \in Calls : TakesOff(call'[d], k)
  <2>1. CASE r.kind # "remove" /\ k = r.after.key
    <3>1. PutsOn(r)
      BY <1>1, <1>2, <2>1 DEF PutsOn, Kinds3
    <3> QED BY <3>1, <2>1, <1>1, <1>6
  <2>2. CASE k \in Range(installed) /\ (r.kind # "add" => k # r.before.key)
    <3>1. CASE k \in IdsOf(devfile)
      BY <3>1, <1>1
    <3>2. ASSUME NEW d \in Calls, TakesOff(call[d], k)
          PROVE  \E e \in Calls : TakesOff(call'[e], k)
      <4>1. d # c
        BY <2>2, <3>2 DEF TakesOff
      <4> QED BY <4>1, <3>2, <1>5
    <3> QED BY <3>1, <3>2, <2>2, <1>6
  <2> QED BY <2>1, <2>2, <1>4
<1>8. ASSUME NEW d \in Calls, PutsOn(call'[d])
      PROVE  call'[d].after.key \in IdsOf(devfile')
  <2>1. d # c
    BY <1>5, <1>8 DEF PutsOn, Idle
  <2> QED BY <2>1, <1>1, <1>5, <1>6, <1>8
<1> QED BY <1>7, <1>8

\* What the chain's head saves of the projects, and what it leaves alone.
ProjectsOf(change, projects) ==
  IF change.kind = "delete" THEN DeleteGitProject(projects, change.path)
  ELSE UpdateOrCreateGitProject(projects, change)

LEMMA SaveProjectsStep ==
  ASSUME Types, Fresh, SaveProjects
  PROVE  /\ job # Idle /\ job' = Idle /\ chain # <<>> /\ chain' = Tail(chain)
         /\ UNCHANGED <<view, backend, changes, wanted, unsure>>
         /\ \/ /\ UNCHANGED <<devfile, version, disturbed>>
               /\ Head(chain).kind = "delete"
               /\ DeleteGitProject(job.copy.projects, Head(chain).path) = job.copy.projects
            \/ /\ Named(ProjectsOf(Head(chain), job.copy.projects))
               /\ job.since = version => job.copy = DevfileV1toV2(devfile)
               /\ ~disturbed' => ~disturbed /\ job.since = version
               /\ devfile' = DevfileV2toV1([job.copy EXCEPT
                               !.projects = ProjectsOf(Head(chain), job.copy.projects)])
<1> DEFINE projects == ProjectsOf(Head(chain), job.copy.projects)
<1>1. job # Idle /\ chain # <<>> /\ IsCopy(job.copy)
  BY DEF SaveProjects, Types, ChainTyped
<1>2. /\ job' = Idle /\ chain' = Tail(chain)
      /\ UNCHANGED <<view, backend, changes, wanted, unsure>>
      /\ \/ /\ UNCHANGED <<devfile, version, disturbed>>
            /\ Head(chain).kind = "delete" /\ projects = job.copy.projects
         \/ /\ devfile' = DevfileV2toV1([job.copy EXCEPT !.projects = projects])
            /\ disturbed' = (disturbed \/ job.since # version)
  BY DEF SaveProjects, Save, ProjectsOf
<1>3. Named(job.copy.projects)
  BY <1>1 DEF IsCopy, Named
<1>4. Named(projects)
  BY <1>3, UpdatedNames, DeletedNames DEF ProjectsOf
<1>5. job.since = version => job.copy = DevfileV1toV2(devfile)
  BY <1>1 DEF Fresh
<1>6. Head(chain).kind = "delete" =>
        projects = DeleteGitProject(job.copy.projects, Head(chain).path)
  BY DEF ProjectsOf
<1> HIDE DEF projects
<1> QED BY <1>1, <1>2, <1>4, <1>5, <1>6 DEF projects

LEMMA ProjectsExplained ==
  ASSUME Types, Fresh, Explained, SaveProjects
  PROVE  Explained'
<1> DEFINE projects == ProjectsOf(Head(chain), job.copy.projects)
<1>1. /\ call' = call /\ installed' = installed /\ unsure' = unsure
      /\ \/ UNCHANGED <<devfile, version, disturbed>>
         \/ /\ ~disturbed' => ~disturbed /\ job.copy = DevfileV1toV2(devfile)
            /\ Named(projects)
            /\ devfile' = DevfileV2toV1([job.copy EXCEPT !.projects = projects])
  BY SaveProjectsStep DEF view, backend
<1> HIDE DEF projects
<1>2. CASE UNCHANGED <<devfile, version, disturbed>>
  BY <1>1, <1>2, ExplainedStays DEF SameRequest, Types, CountersTyped
<1>3. CASE /\ ~disturbed' => ~disturbed /\ job.copy = DevfileV1toV2(devfile)
           /\ Named(projects)
           /\ devfile' = DevfileV2toV1([job.copy EXCEPT !.projects = projects])
  <2>1. ~disturbed' => ~disturbed /\ IdsOf(devfile') = IdsOf(devfile)
    <3> SUFFICES ASSUME ~disturbed' PROVE ~disturbed /\ IdsOf(devfile') = IdsOf(devfile)
      OBVIOUS
    <3>1. devfile' = DevfileV2toV1([DevfileV1toV2(devfile) EXCEPT !.projects = projects])
      BY <1>3
    <3> QED BY <1>3, <3>1, ProjectsKeepIds DEF Types
  <2> QED BY <2>1, <1>1 DEF Explained
<1> QED BY <1>1, <1>2, <1>3

LEMMA NextExplained ==
  Types /\ Fresh /\ OnePerPlugin /\ Explained /\ [Next]_vars => Explained'
<1> SUFFICES ASSUME Types, Fresh, OnePerPlugin, Explained, [Next]_vars PROVE Explained'
  OBVIOUS
<1>0. /\ CallsTyped /\ \A c \in Calls : call[c] = Idle \/ IsRequest(call[c])
      /\ unsure \in BOOLEAN /\ disturbed \in BOOLEAN
      /\ Idle.phase = "idle"
  BY DEF Types, CallsTyped, CountersTyped, Idle
\* A call that neither was answered nor is.
<1>1. ASSUME NEW c \in Calls, NEW r, call' = [call EXCEPT ![c] = r],
             call[c].phase # "answer", r.phase # "answer",
             UNCHANGED <<devfile, installed, disturbed>>, ~unsure' => ~unsure
      PROVE  Explained'
  <2>1. call'[c] = r /\ \A d \in Calls : d # c => call'[d] = call[d]
    BY <1>0, <1>1 DEF CallsTyped
  <2>2. \A d \in Calls : /\ call'[d].phase = "answer" <=> call[d].phase = "answer"
                         /\ call[d].phase = "answer" => SameRequest(call[d], call'[d])
    BY <1>1, <2>1 DEF SameRequest
  <2> QED BY <1>0, <1>1, <2>2, ExplainedStays
<1>2. ASSUME UNCHANGED <<devfile, installed, call, disturbed, unsure>>
      PROVE  Explained'
  BY <1>0, <1>2, ExplainedStays DEF SameRequest
<1>3. ASSUME NEW c \in Calls, NEW p, NEW kind, NEW before, NEW after, NEW shown,
             Start(c, p, kind, before, after, shown)
      PROVE  Explained'
  <2> DEFINE r == [phase |-> "list", kind |-> kind, plugin |-> p, before |-> before,
                   after |-> after, previous |-> item[p].status, shown |-> TRUE]
  <2>1. /\ call[c] = Idle /\ call' = [call EXCEPT ![c] = r] /\ r.phase = "list"
        /\ UNCHANGED <<devfile, installed, disturbed>>
    BY <1>3 DEF Start
  <2> HIDE DEF r
  <2>2. ~unsure' => ~unsure
    <3>1. unsure' = (unsure \/ \E d \in Calls : call[d] # Idle /\ call[d].plugin = p)
      BY <1>3 DEF Start
    <3> QED BY <3>1
  <2>3. call[c].phase # "answer" /\ r.phase # "answer"
    BY <1>0, <2>1
  <2> QED BY <2>1, <2>2, <2>3, <1>1
<1>4. ASSUME NEW c \in Calls, NEW p \in Plugins, InstallPlugin(c, p) \/ RemovePlugin(c, p)
      PROVE  Explained'
  <2>1. \E kind, shown : Start(c, p, kind, item[p].version, item[p].version, shown)
    BY <1>4 DEF InstallPlugin, RemovePlugin
  <2> QED BY <2>1, <1>3
<1>5. ASSUME NEW c \in Calls, NEW p \in Plugins, NEW metadata \in Range(Catalog[p]),
             VersionChanged(c, p, metadata)
      PROVE  Explained'
  <2>1. \/ \E shown : Start(c, p, "update", item[p].version, metadata, shown)
        \/ UNCHANGED <<devfile, installed, call, disturbed, unsure>>
    BY <1>5 DEF VersionChanged, backend, ghosts
  <2> QED BY <2>1, <1>3, <1>2
<1>6. ASSUME Filter PROVE Explained'
  BY <1>6, <1>2 DEF Filter, backend, ghosts
<1>7. ASSUME Remount PROVE Explained'
  <2>1. /\ UNCHANGED <<devfile, installed, disturbed, unsure>>
        /\ \A c \in Calls :
              \/ call[c] = Idle /\ call'[c] = Idle
              \/ SameRequest(call[c], call'[c]) /\ call'[c].phase = call[c].phase
    BY <1>7, RemountStep DEF ghosts
  <2>2. \A c \in Calls : /\ call'[c].phase = "answer" <=> call[c].phase = "answer"
                         /\ call[c].phase = "answer" => SameRequest(call[c], call'[c])
    BY <2>1 DEF SameRequest
  <2> QED BY <1>0, <2>1, <2>2, ExplainedStays
<1>8. ASSUME NEW c \in Calls, ListPlugins(c) \/ SetWorkspacePlugins(c)
      PROVE  Explained'
  <2>1. /\ call[c].phase # "answer" /\ call'[c].phase # "answer"
        /\ call' = [call EXCEPT ![c] = call'[c]]
        /\ UNCHANGED <<devfile, installed, disturbed, unsure>>
    BY <1>8, ListStep, SetStep DEF Continues, ghosts, view
  <2> QED BY <2>1, <1>1
<1>9. ASSUME NEW c \in Calls, UpdateDevfile(c) PROVE Explained'
  BY <1>9, UpdateExplained
<1>10. ASSUME NEW c \in Calls, Succeed(c) PROVE Explained'
  BY <1>10, SucceedExplained
<1>11. ASSUME NEW c \in Calls, Fail(c) PROVE Explained'
  <2>1. /\ call' = [call EXCEPT ![c] = Idle] /\ UNCHANGED <<devfile, installed, disturbed>>
        /\ unsure' = (unsure \/ call[c].phase = "answer")
    BY <1>11 DEF Fail
  <2>2. CASE call[c].phase = "answer"
    BY <2>1, <2>2 DEF Explained
  <2>3. CASE call[c].phase # "answer"
    <3>1. ~unsure' => ~unsure
      BY <2>1
    <3> QED BY <1>0, <2>1, <2>3, <3>1, <1>1
  <2> QED BY <2>2, <2>3
<1>12. ASSUME NEW change \in Changes, Noticed(change) PROVE Explained'
  BY <1>12, <1>2 DEF Noticed, view, backend, ghosts
<1>13. ASSUME GetDevfile \/ JobFails PROVE Explained'
  BY <1>13, <1>2 DEF GetDevfile, JobFails, view, backend, ghosts
<1>14. ASSUME SaveProjects PROVE Explained'
  BY <1>14, ProjectsExplained
<1>15. ASSUME UNCHANGED vars PROVE Explained'
  BY <1>15, <1>2 DEF vars, view, backend, ghosts
<1> QED BY <1>4, <1>5, <1>6, <1>7, <1>8, <1>9, <1>10, <1>11, <1>12, <1>13, <1>14, <1>15
        DEF Next

LEMMA InitExplained == Init => OnePerPlugin /\ Explained
<1> SUFFICES ASSUME Init PROVE OnePerPlugin /\ Explained
  OBVIOUS
<1>1. /\ devfile \in Devfiles /\ installed = WorkspacePlugins(DevfileV1toV2(devfile).components)
      /\ \A c \in Calls : call[c] = Idle
  BY DEF Init
<1>2. Range(installed) = IdsOf(devfile)
  BY <1>1, ListedIds, DevfilesAssumption
<1> QED BY <1>1, <1>2 DEF OnePerPlugin, Explained, Idle

\* The browser's installedPlugins (install, remove, changeVersion) names no
\* plugin of the catalog that the devfile does not have, once every saved call
\* has been answered and unless saves crossed or an answer was lost.
THEOREM InstalledThere == Spec => []InstalledIsThere
<1> DEFINE IInv == Types /\ Fresh /\ OnePerPlugin /\ Explained
<1>1. Init => IInv
  BY InitTypes, InitFresh, InitExplained
<1>2. IInv /\ [Next]_vars => IInv'
  BY NextTypes, NextFresh, NextOnePerPlugin, NextExplained
<1>3. IInv => InstalledIsThere
  BY DEF Explained, InstalledIsThere, Keys
<1> QED BY <1>1, <1>2, <1>3, PTL DEF Spec

-----------------------------------------------------------------------------
(* The projects *)

PathsOf(projects) == {PathOf(projects[i]) : i \in DOMAIN projects}

DistinctPaths(projects) ==
  \A i, j \in DOMAIN projects : PathOf(projects[i]) = PathOf(projects[j]) => i = j

\* A project with the source a change asks for, and one revision only.
HasOnly(project, change) ==
  /\ "source" \in DOMAIN project
  /\ project.source.type = "git" /\ project.source.location = change.url
  /\ \E kind \in Kinds : /\ DOMAIN project.source = {"type", "location", kind}
                         /\ project.source[kind] = change.branch

Settled(projects, change) ==
  IF change.kind = "delete" THEN change.path \notin PathsOf(projects)
  ELSE /\ change.path \in PathsOf(projects)
       /\ \A i \in DOMAIN projects :
            PathOf(projects[i]) = change.path => HasOnly(projects[i], change)

LEMMA PathForth ==
  ASSUME NEW x, IsProject(x)
  PROVE  LET p == ProjectV1toV2(x)
         IN  /\ "name" \in DOMAIN p /\ PathOf(p) = PathOf(x) /\ OriginOf(p) \in Kinds
             /\ "git" \in DOMAIN p => DOMAIN p.git.remotes = {"origin"}
<1> DEFINE p == ProjectV1toV2(x)
<1>1. /\ {"name", "attributes"} \subseteq DOMAIN p /\ p["name"] = x["name"]
      /\ "clonePath" \in DOMAIN p <=> "clonePath" \in DOMAIN x
      /\ "clonePath" \in DOMAIN p => p["clonePath"] = x["clonePath"]
      /\ "git" \in DOMAIN p => p["git"]["remotes"] = [origin |-> x.source.location]
      /\ "git" \in DOMAIN p /\ "checkoutFrom" \in DOMAIN p["git"] =>
           /\ p["attributes"] = Field("source-origin", FirstKind(x.source))
           /\ Present(x.source) # {}
      /\ ~("git" \in DOMAIN p /\ "checkoutFrom" \in DOMAIN p["git"]) => p["attributes"] = Empty
  BY ProjectForth
<1> HIDE DEF p
<1>2. PathOf(p) = PathOf(x)
  BY <1>1 DEF PathOf
<1>3. CASE "git" \in DOMAIN p /\ "checkoutFrom" \in DOMAIN p["git"]
  <2>1. FirstKind(x.source) \in Kinds
    BY <1>1, <1>3, FirstKindIs
  <2>2. OriginOf(p) = FirstKind(x.source)
    BY <1>1, <1>3 DEF OriginOf, Field
  <2> QED BY <1>1, <1>2, <2>1, <2>2 DEF p
<1>4. CASE ~("git" \in DOMAIN p /\ "checkoutFrom" \in DOMAIN p["git"])
  <2>1. OriginOf(p) = "startPoint"
    BY <1>1, <1>4 DEF OriginOf, Empty
  <2> QED BY <1>1, <1>2, <2>1 DEF p, Kinds
<1> QED BY <1>3, <1>4

LEMMA PathBack ==
  ASSUME NEW p, "name" \in DOMAIN p
  PROVE  PathOf(ProjectV2toV1(p)) = PathOf(p)
BY ProjectBack DEF PathOf

LEMMA PathKept ==
  ASSUME NEW x, IsProject(x)
  PROVE  PathOf(KeptProject(x)) = PathOf(x)
BY ProjectKept, PathForth, PathBack

\* The project of a git change, as it is stored.
LEMMA GitStored ==
  ASSUME NEW p, "name" \in DOMAIN p, OriginOf(p) \in Kinds, NEW change,
         "git" \in DOMAIN p, p.git.remotes.origin = change.url,
         "checkoutFrom" \in DOMAIN p.git, p.git.checkoutFrom.revision = change.branch
  PROVE  HasOnly(ProjectV2toV1(p), change)
<1> DEFINE x == ProjectV2toV1(p)
           s == SourceOf(p)
<1>1. "source" \in DOMAIN x /\ x["source"] = s
  BY ProjectBack
<1>2. /\ \A f : f \in DOMAIN s <=>
           f \in {"type", "location"} \/ (f = OriginOf(p) /\ "checkoutFrom" \in DOMAIN p["git"])
      /\ s["type"] = "git" /\ s["location"] = p["git"]["remotes"].origin
      /\ "checkoutFrom" \in DOMAIN p["git"] => s[OriginOf(p)] = p["git"]["checkoutFrom"].revision
  BY SourceBack
<1> HIDE DEF x, s
<1>3. DOMAIN s = {"type", "location", OriginOf(p)}
  BY <1>2
<1>4. HasOnly(x, change)
  BY <1>1, <1>2, <1>3 DEF HasOnly
<1> QED BY <1>4 DEF x

\* What WithGit makes of a project.
LEMMA WithGitIs ==
  ASSUME NEW x, IsProject(x), NEW change
  PROVE  LET q == WithGit(ProjectV1toV2(x), change)
         IN  PathOf(ProjectV2toV1(q)) = PathOf(x) /\ HasOnly(ProjectV2toV1(q), change)
<1> DEFINE p == ProjectV1toV2(x)
           g == IF "git" \notin DOMAIN p THEN [git |-> GitOf(change)]
                ELSE [git |-> [remotes |-> [p.git.remotes EXCEPT !.origin = change.url],
                               checkoutFrom |-> [revision |-> change.branch]]]
           h == g ++ p
<1>2. /\ "name" \in DOMAIN p /\ PathOf(p) = PathOf(x) /\ OriginOf(p) \in Kinds
      /\ "git" \in DOMAIN p => DOMAIN p.git.remotes = {"origin"}
  BY PathForth
<1>3. WithGit(p, change) = h
  BY DEF WithGit
<1> HIDE DEF p
<1>4. \A f : f \in DOMAIN g <=> f = "git"
  OBVIOUS
<1>5. /\ g["git"].remotes.origin = change.url /\ "checkoutFrom" \in DOMAIN g["git"]
      /\ g["git"].checkoutFrom.revision = change.branch
  <2>1. CASE "git" \in DOMAIN p
    BY <2>1, <1>2
  <2>2. CASE "git" \notin DOMAIN p
    BY <2>2 DEF GitOf
  <2> QED BY <2>1, <2>2
<1> HIDE DEF g
<1>6. /\ \A f : f \in DOMAIN h <=> f = "git" \/ f \in DOMAIN p
      /\ h["git"] = g["git"] /\ \A f : f \in DOMAIN p /\ f # "git" => h[f] = p[f]
  BY <1>4, Merged
<1> HIDE DEF h
<1>7. "name" \in DOMAIN h /\ PathOf(h) = PathOf(p) /\ OriginOf(h) = OriginOf(p)
  BY <1>2, <1>6 DEF PathOf, OriginOf
<1>8. HasOnly(ProjectV2toV1(h), change)
  BY <1>2, <1>5, <1>6, <1>7, GitStored
<1>9. PathOf(ProjectV2toV1(h)) = PathOf(x)
  BY <1>2, <1>7, PathBack
<1> QED BY <1>3, <1>8, <1>9 DEF p

LEMMA NewProjectIs ==
  ASSUME NEW change, IsList(change.path), change.path # <<>>
  PROVE  LET q == NewProject(change)
         IN  /\ PathOf(q) = change.path /\ PathOf(ProjectV2toV1(q)) = change.path
             /\ HasOnly(ProjectV2toV1(q), change)
<1> DEFINE a == [name |-> Last(change.path), git |-> GitOf(change)]
           b == IF Len(change.path) > 1 THEN [clonePath |-> change.path] ELSE Empty
           q == NewProject(change)
           path == change.path
<1>1. q = a ++ b
  BY DEF NewProject
<1>2. /\ \A f : f \in DOMAIN a <=> f = "name" \/ f = "git"
      /\ a["name"] = Last(path) /\ a["git"] = GitOf(change)
  OBVIOUS
<1>3. /\ \A f : f \in DOMAIN b <=> f = "clonePath" /\ Len(path) > 1
      /\ Len(path) > 1 => b["clonePath"] = path
  BY DEF Empty
<1> HIDE DEF a, b, q
<1>4. /\ \A f : f \in DOMAIN q <=> f = "name" \/ f = "git" \/ (f = "clonePath" /\ Len(path) > 1)
      /\ q["name"] = Last(path) /\ q["git"] = GitOf(change)
      /\ Len(path) > 1 => q["clonePath"] = path
  BY <1>1, <1>2, <1>3, Merged
<1>5. PathOf(q) = path
  <2>1. CASE Len(path) > 1
    BY <2>1, <1>4 DEF PathOf
  <2>2. CASE ~(Len(path) > 1)
    <3>1. Len(path) \in Nat /\ DOMAIN path = 1..Len(path) /\ IsObject(path)
      BY ListLen, Lists
    <3>2. Len(path) # 0 /\ Last(path) = path[Len(path)]
      BY EmptyList
    <3>3. Len(path) = 1
      <4>1. \A n \in Nat : ~(n > 1) /\ n # 0 => n = 1
        OBVIOUS
      <4> HIDE DEF path
      <4> QED BY <2>2, <3>1, <3>2, <4>1
    <3>4. PathOf(q) = <<path[1]>>
      BY <1>4, <2>2, <3>2, <3>3 DEF PathOf
    <3>5. DOMAIN path = {1}
      BY <3>1, <3>3
    <3>6. path = [i \in {1} |-> path[1]]
      BY <3>1, <3>5 DEF IsObject
    <3>7. <<path[1]>> = [i \in {1} |-> path[1]]
      OBVIOUS
    <3> QED BY <3>4, <3>6, <3>7
  <2> QED BY <2>1, <2>2
<1>6. OriginOf(q) \in Kinds
  BY <1>4 DEF OriginOf, Kinds
<1>7. q.git.remotes.origin = change.url /\ "checkoutFrom" \in DOMAIN q.git
      /\ q.git.checkoutFrom.revision = change.branch /\ "git" \in DOMAIN q /\ "name" \in DOMAIN q
  BY <1>4 DEF GitOf
<1> QED BY <1>5, <1>6, <1>7, GitStored, PathBack DEF q

\* A save that is not about a project leaves it as it is settled.
LEMMA HasOnlyKept ==
  ASSUME NEW x, IsProject(x), NEW change, HasOnly(x, change)
  PROVE  HasOnly(KeptProject(x), change)
<1> DEFINE s == x.source
           k == KeptSource(s)
<1>1. "source" \in DOMAIN x /\ s.type = "git" /\ s.location = change.url
  BY DEF HasOnly
<1>2. PICK kind \in Kinds : DOMAIN s = {"type", "location", kind} /\ s[kind] = change.branch
  BY DEF HasOnly
<1>3. "source" \in DOMAIN KeptProject(x) /\ KeptProject(x).source = k
  BY <1>1 DEF KeptProject
<1> HIDE DEF s
<1>4. kind \notin {"type", "location"} /\ Kinds \cap DOMAIN s = {kind}
  BY <1>2 DEF Kinds
<1>5. Present(s) # {}
  BY <1>2, RevisionKindsAre DEF Present, Kinds
<1>6. FirstKind(s) = kind
  BY <1>4, <1>5, FirstKindIs
<1>7. /\ \A f : f \in DOMAIN k <=> f \in {"type", "location"} \/ f = kind
      /\ k["type"] = "git" /\ k["location"] = s["location"] /\ k[kind] = s[kind]
  BY <1>1, <1>2, <1>5, <1>6, KeptSourceFields
<1>8. DOMAIN k = {"type", "location", kind}
  BY <1>7
<1> QED BY <1>1, <1>2, <1>3, <1>7, <1>8 DEF HasOnly

LEMMA SettledStays ==
  ASSUME NEW d, \A j \in DOMAIN d : IsProject(d[j]), NEW e, NEW change,
         change.path \in PathsOf(e) <=> change.path \in PathsOf(d),
         \A i \in DOMAIN e : PathOf(e[i]) = change.path =>
           \E j \in DOMAIN d : e[i] = KeptProject(d[j]),
         Settled(d, change)
  PROVE  Settled(e, change)
<1>1. CASE change.kind = "delete"
  BY <1>1 DEF Settled
<1>2. CASE change.kind # "delete"
  <2>1. ASSUME NEW i \in DOMAIN e, PathOf(e[i]) = change.path
        PROVE  HasOnly(e[i], change)
    <3>1. PICK j \in DOMAIN d : e[i] = KeptProject(d[j])
      BY <2>1
    <3>2. PathOf(d[j]) = change.path
      BY <2>1, <3>1, PathKept
    <3>3. HasOnly(d[j], change)
      BY <1>2, <3>2 DEF Settled
    <3> QED BY <3>1, <3>3, HasOnlyKept
  <2> QED BY <1>2, <2>1 DEF Settled
<1> QED BY <1>1, <1>2

\* What a save that is about one path makes of the projects.
FollowsOn(d, e, change) ==
  /\ DistinctPaths(e) /\ Settled(e, change)
  /\ \A path : path # change.path => (path \in PathsOf(e) <=> path \in PathsOf(d))
  /\ \A i \in DOMAIN e : PathOf(e[i]) # change.path =>
       \E j \in DOMAIN d : e[i] = KeptProject(d[j])
  /\ \A j \in DOMAIN d : PathOf(d[j]) # change.path =>
       \E i \in DOMAIN e : e[i] = KeptProject(d[j])

\* The copy of the projects, and its paths.
LEMMA CopiedProjects ==
  ASSUME NEW d, IsList(d), \A i \in DOMAIN d : IsProject(d[i])
  PROVE  LET p == Each(d, ProjectV1toV2)
         IN  /\ IsList(p) /\ DOMAIN p = DOMAIN d /\ PathsOf(p) = PathsOf(d)
             /\ \A i \in DOMAIN d : /\ p[i] = ProjectV1toV2(d[i]) /\ PathOf(p[i]) = PathOf(d[i])
                                    /\ ProjectV2toV1(p[i]) = KeptProject(d[i])
                                    /\ PathOf(ProjectV2toV1(p[i])) = PathOf(d[i])
<1> DEFINE p == Each(d, ProjectV1toV2)
<1>1. p = [i \in DOMAIN d |-> ProjectV1toV2(d[i])]
  BY DEF Each
<1>2. DOMAIN p = DOMAIN d /\ IsObject(p) /\ \A i \in DOMAIN d : p[i] = ProjectV1toV2(d[i])
  BY <1>1 DEF IsObject
<1> HIDE DEF p
<1>3. IsList(p)
  BY <1>2, Lists
<1>4. \A i \in DOMAIN d : /\ PathOf(p[i]) = PathOf(d[i])
                          /\ ProjectV2toV1(p[i]) = KeptProject(d[i])
                          /\ PathOf(ProjectV2toV1(p[i])) = PathOf(d[i])
  BY <1>2, PathForth, ProjectKept, PathKept
<1>5. PathsOf(p) = PathsOf(d)
  BY <1>2, <1>4 DEF PathsOf
<1> QED BY <1>2, <1>3, <1>4, <1>5 DEF p

LEMMA UpdateFollows ==
  ASSUME NEW d, IsList(d), \A i \in DOMAIN d : IsProject(d[i]), DistinctPaths(d),
         NEW change, change.kind # "delete", IsList(change.path), change.path # <<>>
  PROVE  FollowsOn(d, Each(UpdateOrCreateGitProject(Each(d, ProjectV1toV2), change),
                           ProjectV2toV1), change)
<1> DEFINE p == Each(d, ProjectV1toV2)
           r == UpdateOrCreateGitProject(p, change)
           e == Each(r, ProjectV2toV1)
           n == Len(d)
<1>1. /\ IsList(p) /\ DOMAIN p = DOMAIN d
      /\ \A i \in DOMAIN d : /\ p[i] = ProjectV1toV2(d[i]) /\ PathOf(p[i]) = PathOf(d[i])
                             /\ ProjectV2toV1(p[i]) = KeptProject(d[i])
                             /\ PathOf(ProjectV2toV1(p[i])) = PathOf(d[i])
  BY CopiedProjects
<1>2. DOMAIN e = DOMAIN r /\ \A i \in DOMAIN r : e[i] = ProjectV2toV1(r[i])
  BY DEF Each
<1>3. n \in Nat /\ DOMAIN d = 1..n
  BY ListLen
<1> HIDE DEF p, e, n
<1>4. CASE \E i \in DOMAIN p : PathOf(p[i]) = change.path
  <2>1. /\ DOMAIN r = DOMAIN d
        /\ \A i \in DOMAIN d : r[i] = IF PathOf(p[i]) = change.path
                                      THEN WithGit(p[i], change) ELSE p[i]
    BY <1>1, <1>4 DEF UpdateOrCreateGitProject
  <2> HIDE DEF r
  <2>2. \A i \in DOMAIN d : PathOf(d[i]) = change.path =>
          PathOf(e[i]) = change.path /\ HasOnly(e[i], change)
    BY <1>1, <1>2, <2>1, WithGitIs
  <2>3. \A i \in DOMAIN d : PathOf(d[i]) # change.path =>
          PathOf(e[i]) = PathOf(d[i]) /\ e[i] = KeptProject(d[i])
    BY <1>1, <1>2, <2>1
  <2>4. DOMAIN e = DOMAIN d /\ \A i \in DOMAIN d : PathOf(e[i]) = PathOf(d[i])
    BY <1>2, <2>1, <2>2, <2>3
  <2>5. PathsOf(e) = PathsOf(d) /\ DistinctPaths(e)
    BY <2>4 DEF PathsOf, DistinctPaths
  <2>6. change.path \in PathsOf(e)
    BY <1>1, <1>4, <2>4 DEF PathsOf
  <2>7. Settled(e, change)
    BY <2>2, <2>4, <2>6 DEF Settled
  <2>8. /\ \A i \in DOMAIN e : PathOf(e[i]) # change.path =>
             \E j \in DOMAIN d : e[i] = KeptProject(d[j])
        /\ \A j \in DOMAIN d : PathOf(d[j]) # change.path =>
             \E i \in DOMAIN e : e[i] = KeptProject(d[j])
    BY <2>3, <2>4
  <2>9. FollowsOn(d, e, change)
    BY <2>5, <2>7, <2>8 DEF FollowsOn
  <2> QED BY <2>9 DEF e, r, p
<1>5. CASE ~\E i \in DOMAIN p : PathOf(p[i]) = change.path
  <2> DEFINE q == NewProject(change)
  <2>1. r = Append(p, q)
    BY <1>5 DEF UpdateOrCreateGitProject, NewProject
  <2>2. PathOf(ProjectV2toV1(q)) = change.path /\ HasOnly(ProjectV2toV1(q), change)
    BY NewProjectIs
  <2> HIDE DEF q, r
  <2>3. Len(p) \in Nat /\ DOMAIN p = 1..Len(p)
    BY <1>1, ListLen
  <2>4. Len(p) = n
    BY <1>1, <1>3, <2>3
  <2>5. /\ DOMAIN r = 1..(n + 1) /\ r[n + 1] = q
        /\ \A i \in DOMAIN d : i \in DOMAIN r /\ r[i] = p[i]
    BY <1>1, <2>1, <2>4, Appended
  <2>6. /\ n + 1 \in DOMAIN r /\ n + 1 \notin DOMAIN d
        /\ \A i \in DOMAIN r : i \in DOMAIN d \/ i = n + 1
    BY <1>3, <2>5
  <2>7. /\ PathOf(e[n + 1]) = change.path /\ HasOnly(e[n + 1], change)
        /\ \A i \in DOMAIN d : /\ e[i] = KeptProject(d[i]) /\ PathOf(e[i]) = PathOf(d[i])
                               /\ PathOf(d[i]) # change.path
    BY <1>1, <1>2, <1>5, <2>2, <2>5, <2>6
  <2>8. DistinctPaths(e)
    <3> SUFFICES ASSUME NEW i \in DOMAIN r, NEW j \in DOMAIN r, PathOf(e[i]) = PathOf(e[j])
                 PROVE  i = j
      BY <1>2 DEF DistinctPaths
    <3> QED BY <2>6, <2>7 DEF DistinctPaths
  <2>9. \A path : path \in PathsOf(e) <=> path \in PathsOf(d) \/ path = change.path
    <3>1. \A i \in DOMAIN d : i \in DOMAIN e /\ PathOf(e[i]) = PathOf(d[i])
      BY <1>2, <2>5, <2>7
    <3>2. n + 1 \in DOMAIN e /\ PathOf(e[n + 1]) = change.path
      BY <1>2, <2>6, <2>7
    <3>3. \A i \in DOMAIN e : i \in DOMAIN d \/ i = n + 1
      BY <1>2, <2>6
    <3> QED BY <3>1, <3>2, <3>3 DEF PathsOf
  <2>10. \A i \in DOMAIN e : PathOf(e[i]) = change.path => HasOnly(e[i], change)
    BY <1>2, <2>6, <2>7
  <2>11. Settled(e, change)
    BY <2>9, <2>10 DEF Settled
  <2>12. /\ \A i \in DOMAIN e : PathOf(e[i]) # change.path =>
              \E j \in DOMAIN d : e[i] = KeptProject(d[j])
         /\ \A j \in DOMAIN d : PathOf(d[j]) # change.path =>
              \E i \in DOMAIN e : e[i] = KeptProject(d[j])
    BY <1>2, <2>5, <2>6, <2>7
  <2>13. FollowsOn(d, e, change)
    BY <2>8, <2>9, <2>11, <2>12 DEF FollowsOn
  <2> QED BY <2>13 DEF e, r, p
<1> QED BY <1>4, <1>5

\* The project at a path is the only one: it goes, and the others stay.
LEMMA Deleted ==
  ASSUME NEW p, IsList(p), NEW path
  PROVE  LET r == DeleteGitProject(p, path)
         IN  /\ IsList(r)
             /\ r = p => path \notin PathsOf(p)
             /\ path \notin PathsOf(p) => r = p
             /\ DistinctPaths(p) =>
                  /\ \A k \in DOMAIN r : \E i \in DOMAIN p : r[k] = p[i] /\ PathOf(p[i]) # path
                  /\ \A i \in DOMAIN p : PathOf(p[i]) # path => \E k \in DOMAIN r : r[k] = p[i]
                  /\ DistinctPaths(r)
<1> DEFINE there == {i \in DOMAIN p : PathOf(p[i]) = path}
           first == CHOOSE i \in there : \A j \in there : i <= j
           I == DOMAIN p \ {first}
           r == DeleteGitProject(p, path)
<1>1. r = IF there = {} THEN p ELSE At(p, I)
  BY DEF DeleteGitProject
<1>2. path \notin PathsOf(p) <=> there = {}
  BY DEF PathsOf
<1>3. CASE there = {}
  <2>1. r = p
    BY <1>1, <1>3
  <2>2. \A i \in DOMAIN p : PathOf(p[i]) # path
    BY <1>3
  <2> QED BY <1>2, <1>3, <2>1, <2>2
<1>4. CASE there # {}
  <2>1. PICK n \in Nat : DOMAIN p = 1..n
    BY Lists
  <2>2. first \in there
    <3>1. \A i \in there : i \in Nat
      BY <2>1
    <3>2. \E i \in there : \A j \in there : i <= j
      <4> DEFINE S == there
      <4>1. S \subseteq 1..n /\ S # {}
        BY <2>1, <1>4
      <4> HIDE DEF S
      <4>2. PICK i \in S : Rank(S, i) = 1
        <5>1. IsFiniteSet(S) /\ Cardinality(S) \in Nat
              /\ \A k \in 1..Cardinality(S) : \E i \in S : Rank(S, i) = k
          BY <4>1, Ranks
        <5>2. Cardinality(S) # 0
          BY <4>1, <5>1, FS_EmptySet
        <5>3. 1 \in 1..Cardinality(S)
          BY <5>1, <5>2
        <5> QED BY <5>1, <5>3
      <4>3. ASSUME NEW j \in S PROVE i <= j
        <5>1. i \in Nat /\ j \in Nat
          BY <4>1
        <5>2. /\ \A k \in S : Rank(S, k) \in 1..Cardinality(S)
              /\ \A k, l \in S : k < l => Rank(S, k) < Rank(S, l)
              /\ Cardinality(S) \in Nat
          BY <4>1, Ranks
        <5>3. Rank(S, j) \in Nat /\ Rank(S, j) >= 1
          BY <5>2
        <5>4. ~(j < i)
          BY <4>2, <5>2, <5>3
        <5> QED BY <5>1, <5>4
      <4> QED BY <4>3 DEF S
    <3> QED BY <3>2
  <2>3. first \in DOMAIN p /\ PathOf(p[first]) = path
    BY <2>2
  <2> HIDE DEF first, there
  <2>4. I \subseteq DOMAIN p /\ \A i : i \in I <=> i \in DOMAIN p /\ i # first
    OBVIOUS
  <2> HIDE DEF I
  <2>5. r = At(p, I)
    BY <1>1, <1>4
  <2> HIDE DEF r
  <2>6. /\ IsList(r) /\ Cardinality(I) \in Nat /\ DOMAIN r = 1..Cardinality(I)
        /\ \A i \in I : Rank(I, i) \in DOMAIN r /\ r[Rank(I, i)] = p[i]
        /\ \A k \in DOMAIN r : \E i \in I : Rank(I, i) = k
    BY <2>4, <2>5, Picked
  <2>7. r # p
    <3>1. IsFiniteSet(DOMAIN p) /\ Cardinality(DOMAIN p) = n
      BY <2>1, IntervalSize
    <3>2. Cardinality(I) = n - 1
      BY <2>3, <3>1, FS_RemoveElement DEF I
    <3>3. SUFFICES ASSUME r = p PROVE FALSE
      OBVIOUS
    <3>4. 1..n = 1..Cardinality(I)
      BY <2>1, <2>6, <3>3
    <3>5. n \in 1..n
      BY <2>1, <2>3
    <3> QED BY <3>2, <3>4, <3>5
  <2>8. ASSUME DistinctPaths(p)
        PROVE  /\ \A k \in DOMAIN r : \E i \in DOMAIN p : r[k] = p[i] /\ PathOf(p[i]) # path
               /\ \A i \in DOMAIN p : PathOf(p[i]) # path => \E k \in DOMAIN r : r[k] = p[i]
               /\ DistinctPaths(r)
    <3>1. \A i \in DOMAIN p : i \in I <=> PathOf(p[i]) # path
      BY <2>3, <2>4, <2>8 DEF DistinctPaths
    <3>2. \A k \in DOMAIN r : \E i \in I : k = Rank(I, i) /\ r[k] = p[i]
      BY <2>6
    <3>3. DistinctPaths(r)
      BY <2>4, <2>8, <3>2 DEF DistinctPaths
    <3> QED BY <2>4, <2>6, <3>1, <3>2, <3>3
  <2> QED BY <1>2, <1>4, <2>6, <2>7, <2>8 DEF r
<1> QED BY <1>3, <1>4

LEMMA DeleteFollows ==
  ASSUME NEW d, IsList(d), \A i \in DOMAIN d : IsProject(d[i]), DistinctPaths(d),
         NEW change, change.kind = "delete"
  PROVE  FollowsOn(d, Each(DeleteGitProject(Each(d, ProjectV1toV2), change.path),
                           ProjectV2toV1), change)
<1> DEFINE p == Each(d, ProjectV1toV2)
           r == DeleteGitProject(p, change.path)
           e == Each(r, ProjectV2toV1)
<1>1. /\ IsList(p) /\ DOMAIN p = DOMAIN d
      /\ \A i \in DOMAIN d : /\ p[i] = ProjectV1toV2(d[i]) /\ PathOf(p[i]) = PathOf(d[i])
                             /\ ProjectV2toV1(p[i]) = KeptProject(d[i])
                             /\ PathOf(ProjectV2toV1(p[i])) = PathOf(d[i])
  BY CopiedProjects
<1>2. DOMAIN e = DOMAIN r /\ \A i \in DOMAIN r : e[i] = ProjectV2toV1(r[i])
  BY DEF Each
<1> HIDE DEF p, e
<1>3. DistinctPaths(p)
  BY <1>1 DEF DistinctPaths
<1>4. /\ \A k \in DOMAIN r : \E i \in DOMAIN p : r[k] = p[i] /\ PathOf(p[i]) # change.path
      /\ \A i \in DOMAIN p : PathOf(p[i]) # change.path => \E k \in DOMAIN r : r[k] = p[i]
      /\ DistinctPaths(r)
  BY <1>1, <1>3, Deleted
<1> HIDE DEF r
<1>5. \A k \in DOMAIN e : \E i \in DOMAIN d : /\ r[k] = p[i] /\ e[k] = KeptProject(d[i])
                                              /\ PathOf(e[k]) = PathOf(d[i])
                                              /\ PathOf(r[k]) = PathOf(e[k])
                                              /\ PathOf(e[k]) # change.path
  BY <1>1, <1>2, <1>4
<1>6. \A i \in DOMAIN d : PathOf(d[i]) # change.path =>
        \E k \in DOMAIN e : PathOf(e[k]) = PathOf(d[i]) /\ e[k] = KeptProject(d[i])
  BY <1>1, <1>2, <1>4
<1>7. DistinctPaths(e)
  BY <1>2, <1>4, <1>5 DEF DistinctPaths
<1>8. \A path : path # change.path => (path \in PathsOf(e) <=> path \in PathsOf(d))
  BY <1>5, <1>6 DEF PathsOf
<1>9. Settled(e, change)
  BY <1>5 DEF Settled, PathsOf
<1>10. \A i \in DOMAIN e : \E j \in DOMAIN d : e[i] = KeptProject(d[j])
  BY <1>5
<1> QED BY <1>6, <1>7, <1>8, <1>9, <1>10 DEF FollowsOn, e, r, p

-----------------------------------------------------------------------------
(* Two projects never come to share a directory *)

LEMMA InDevfile ==
  ASSUME NEW d, IsDevfile(d)
  PROVE  /\ IsList(d.projects) /\ \A i \in DOMAIN d.projects : IsProject(d.projects[i])
         /\ DevfileV1toV2(d).projects = Each(d.projects, ProjectV1toV2)
         /\ "projects" \in DOMAIN DevfileV1toV2(d)
BY DEF IsDevfile, DevfileV1toV2

LEMMA CopiedDistinct ==
  ASSUME NEW d, IsDevfile(d), DistinctPaths(d.projects)
  PROVE  DistinctPaths(DevfileV1toV2(d).projects)
<1> DEFINE p == DevfileV1toV2(d).projects
<1>1. p = Each(d.projects, ProjectV1toV2)
  BY InDevfile
<1> HIDE DEF p
<1>2. DOMAIN p = DOMAIN d.projects /\ \A i \in DOMAIN p : PathOf(p[i]) = PathOf(d.projects[i])
  BY <1>1, InDevfile, CopiedProjects
<1>3. DistinctPaths(p)
  BY <1>2 DEF DistinctPaths
<1> QED BY <1>3 DEF p

LEMMA StoredDistinct ==
  ASSUME NEW copy, Named(copy.projects), DistinctPaths(copy.projects)
  PROVE  DistinctPaths(DevfileV2toV1(copy).projects)
<1> DEFINE p == copy.projects
           e == DevfileV2toV1(copy).projects
<1>1. e = Each(p, ProjectV2toV1)
  BY DEF DevfileV2toV1
<1> HIDE DEF e
<1>2. DOMAIN e = DOMAIN p /\ \A i \in DOMAIN p : PathOf(e[i]) = PathOf(p[i])
  BY <1>1, PathBack DEF Each, Named
<1>3. DistinctPaths(e)
  BY <1>2 DEF DistinctPaths
<1> QED BY <1>3 DEF e

LEMMA ChangedDistinct ==
  ASSUME NEW p, Named(p), DistinctPaths(p), NEW change \in Changes
  PROVE  DistinctPaths(ProjectsOf(change, p))
<1>1. IsList(p) /\ IsList(change.path) /\ change.path # <<>>
  BY ChangesAssumption DEF Named
<1>2. CASE change.kind = "delete"
  BY <1>1, <1>2, Deleted DEF ProjectsOf
<1>3. CASE change.kind # "delete"
  <2> DEFINE r == UpdateOrCreateGitProject(p, change)
  <2>1. ASSUME \E i \in DOMAIN p : PathOf(p[i]) = change.path
        PROVE  DistinctPaths(r)
    <3>1. DOMAIN r = DOMAIN p
          /\ \A i \in DOMAIN p : r[i] = IF PathOf(p[i]) = change.path
                                        THEN WithGit(p[i], change) ELSE p[i]
      BY <2>1 DEF UpdateOrCreateGitProject
    <3> HIDE DEF r
    <3>2. ASSUME NEW q, "name" \in DOMAIN q
          PROVE  PathOf(WithGit(q, change)) = PathOf(q)
      <4> DEFINE g == IF "git" \notin DOMAIN q THEN [git |-> GitOf(change)]
                      ELSE [git |-> [remotes |-> [q.git.remotes EXCEPT !.origin = change.url],
                                     checkoutFrom |-> [revision |-> change.branch]]]
                 h == g ++ q
      <4>1. \A f : f \in DOMAIN g <=> f = "git"
        OBVIOUS
      <4>2. WithGit(q, change) = h
        BY DEF WithGit
      <4> HIDE DEF g
      <4>3. /\ \A f : f \in DOMAIN h <=> f = "git" \/ f \in DOMAIN q
            /\ \A f : f \in DOMAIN q /\ f # "git" => h[f] = q[f]
        BY <4>1, Merged
      <4> HIDE DEF h
      <4>4. PathOf(h) = PathOf(q)
        BY <3>2, <4>3 DEF PathOf
      <4> QED BY <4>2, <4>4
    <3>3. \A i \in DOMAIN p : PathOf(r[i]) = PathOf(p[i])
      BY <3>1, <3>2 DEF Named
    <3> QED BY <3>1, <3>3 DEF DistinctPaths
  <2>2. ASSUME ~\E i \in DOMAIN p : PathOf(p[i]) = change.path
        PROVE  DistinctPaths(r)
    <3> DEFINE n == Len(p)
    <3>1. r = Append(p, NewProject(change))
      BY <2>2 DEF UpdateOrCreateGitProject, NewProject
    <3>2. n \in Nat /\ DOMAIN p = 1..n
      BY <1>1, ListLen
    <3> HIDE DEF r
    <3>3. /\ DOMAIN r = 1..(n + 1) /\ r[n + 1] = NewProject(change)
          /\ \A i \in DOMAIN p : r[i] = p[i]
      BY <1>1, <3>1, Appended
    <3> HIDE DEF n
    <3>4. \A i \in DOMAIN r : i \in DOMAIN p \/ i = n + 1
      BY <3>2, <3>3
    <3>5. PathOf(r[n + 1]) = change.path
      BY <1>1, <3>3, NewProjectIs
    <3>6. \A i \in DOMAIN p : PathOf(r[i]) = PathOf(p[i]) /\ PathOf(r[i]) # change.path
      BY <2>2, <3>3
    <3> SUFFICES ASSUME NEW i \in DOMAIN r, NEW j \in DOMAIN r, PathOf(r[i]) = PathOf(r[j])
                 PROVE  i = j
      BY DEF DistinctPaths
    <3> QED BY <3>4, <3>5, <3>6 DEF DistinctPaths
  <2>3. DistinctPaths(r)
    BY <2>1, <2>2
  <2> QED BY <1>3, <2>3 DEF ProjectsOf
<1> QED BY <1>2, <1>3

\* The devfile and every copy of it have one project per directory, also those
\* of writers that have crossed.
Distinct ==
  /\ DistinctPaths(devfile.projects)
  /\ \A c \in Calls : call[c].phase = "save" => DistinctPaths(call[c].copy.projects)
  /\ job # Idle => DistinctPaths(job.copy.projects)

LEMMA DistinctCall ==
  ASSUME CallsTyped, Distinct, UNCHANGED <<devfile, job>>,
         NEW c \in Calls, NEW r, call' = [call EXCEPT ![c] = r],
         r.phase = "save" => DistinctPaths(r.copy.projects)
  PROVE  Distinct'
<1>1. call'[c] = r /\ \A d \in Calls : d # c => call'[d] = call[d]
  BY DEF CallsTyped
<1> QED BY <1>1 DEF Distinct

LEMMA HeadChange ==
  ASSUME ChainTyped, chain # <<>>
  PROVE  Head(chain) \in Changes
<1>1. chain \in Seq(Changes) /\ IsList(chain)
  BY SeqIsList DEF ChainTyped
<1>2. Len(chain) \in Nat /\ Len(chain) # 0 /\ Head(chain) = chain[1]
  BY <1>1, EmptyList, ListLen DEF Head
<1> QED BY <1>1, <1>2, ElementOfSeq

LEMMA NextDistinct == Types /\ Fresh /\ Distinct /\ [Next]_vars => Distinct'
<1> SUFFICES ASSUME Types, Fresh, Distinct, [Next]_vars PROVE Distinct'
  OBVIOUS
<1>0. CallsTyped /\ ChainTyped /\ IsDevfile(devfile) /\ Idle.phase # "save"
      /\ DistinctPaths(DevfileV1toV2(devfile).projects)
      /\ "projects" \in DOMAIN DevfileV1toV2(devfile)
  BY CopiedDistinct, InDevfile DEF Types, Distinct, Idle
<1>1. ASSUME UNCHANGED <<devfile, call, job>> PROVE Distinct'
  BY <1>1 DEF Distinct
<1>2. ASSUME NEW c \in Calls, NEW p, NEW kind, NEW before, NEW after, NEW shown,
             Start(c, p, kind, before, after, shown)
      PROVE  Distinct'
  <2> DEFINE r == [phase |-> "list", kind |-> kind, plugin |-> p, before |-> before,
                   after |-> after, previous |-> item[p].status, shown |-> TRUE]
  <2>1. call' = [call EXCEPT ![c] = r] /\ r.phase = "list" /\ UNCHANGED <<devfile, job>>
    BY <1>2 DEF Start, workspacePlugin
  <2> HIDE DEF r
  <2> QED BY <1>0, <2>1, DistinctCall
<1>3. ASSUME NEW c \in Calls, NEW p \in Plugins, InstallPlugin(c, p) \/ RemovePlugin(c, p)
      PROVE  Distinct'
  <2>1. \E kind, shown : Start(c, p, kind, item[p].version, item[p].version, shown)
    BY <1>3 DEF InstallPlugin, RemovePlugin
  <2> QED BY <2>1, <1>2
<1>4. ASSUME NEW c \in Calls, NEW p \in Plugins, NEW metadata \in Range(Catalog[p]),
             VersionChanged(c, p, metadata)
      PROVE  Distinct'
  <2>1. \/ \E shown : Start(c, p, "update", item[p].version, metadata, shown)
        \/ UNCHANGED <<devfile, call, job>>
    BY <1>4 DEF VersionChanged, backend, workspacePlugin
  <2> QED BY <2>1, <1>1, <1>2
<1>5. ASSUME Filter PROVE Distinct'
  BY <1>5, <1>1 DEF Filter, backend, workspacePlugin
<1>6. ASSUME Remount PROVE Distinct'
  <2>1. /\ UNCHANGED <<devfile, job>>
        /\ \A c \in Calls :
              \/ call'[c] = Idle
              \/ /\ call'[c].phase = call[c].phase
                 /\ call[c].phase = "save" => call'[c].copy = call[c].copy
    BY <1>6, RemountStep DEF workspacePlugin
  <2> QED BY <1>0, <2>1 DEF Distinct
<1>7. ASSUME NEW c \in Calls, ListPlugins(c) PROVE Distinct'
  <2>1. call' = [call EXCEPT ![c] = call'[c]] /\ call'[c].phase = "set" /\ UNCHANGED <<devfile, job>>
    BY <1>7, ListStep DEF Continues, workspacePlugin
  <2> QED BY <1>0, <2>1, DistinctCall
<1>8. ASSUME NEW c \in Calls, SetWorkspacePlugins(c) PROVE Distinct'
  <2>1. /\ call' = [call EXCEPT ![c] = call'[c]] /\ UNCHANGED <<devfile, job>>
        /\ call'[c].copy = CopyFor(devfile, call[c])
    BY <1>8, SetStep DEF Continues, workspacePlugin
  <2>2. call'[c].copy.projects = DevfileV1toV2(devfile).projects
    BY <1>0, <2>1 DEF CopyFor
  <2> QED BY <1>0, <2>1, <2>2, DistinctCall
<1>9. ASSUME NEW c \in Calls, UpdateDevfile(c) PROVE Distinct'
  <2>1. /\ call[c].phase = "save" /\ call'[c].phase = "answer"
        /\ call' = [call EXCEPT ![c] = call'[c]] /\ job' = job
        /\ IsCopy(call[c].copy) /\ devfile' = DevfileV2toV1(call[c].copy)
    BY <1>9, SaveStep DEF Continues, workspacePlugin
  <2>2. DistinctPaths(devfile'.projects)
    BY <2>1, StoredDistinct DEF Distinct, IsCopy, Named
  <2>3. \A d \in Calls : d # c => call'[d] = call[d]
    BY <1>0, <2>1 DEF CallsTyped
  <2> QED BY <2>1, <2>2, <2>3 DEF Distinct
<1>10. ASSUME NEW c \in Calls, Succeed(c) \/ Fail(c) PROVE Distinct'
  <2>1. call' = [call EXCEPT ![c] = Idle] /\ UNCHANGED <<devfile, job>>
    BY <1>10 DEF Succeed, Fail, workspacePlugin
  <2> QED BY <1>0, <2>1, DistinctCall
<1>11. ASSUME NEW change \in Changes, Noticed(change) PROVE Distinct'
  BY <1>11, <1>1 DEF Noticed, backend
<1>12. ASSUME GetDevfile PROVE Distinct'
  <2>1. job'.copy = DevfileV1toV2(devfile) /\ UNCHANGED <<devfile, call>>
    BY <1>12 DEF GetDevfile, backend
  <2> QED BY <1>0, <2>1 DEF Distinct
<1>13. ASSUME SaveProjects PROVE Distinct'
  <2> DEFINE projects == ProjectsOf(Head(chain), job.copy.projects)
             x == [job.copy EXCEPT !.projects = projects]
  <2>1. /\ job # Idle /\ job' = Idle /\ chain # <<>> /\ call' = call
        /\ devfile' = devfile \/ (Named(projects) /\ devfile' = DevfileV2toV1(x))
    BY <1>13, SaveProjectsStep DEF backend
  <2>2. IsCopy(job.copy) /\ Named(job.copy.projects) /\ DistinctPaths(job.copy.projects)
    BY <1>0, <2>1 DEF ChainTyped, IsCopy, Named, Distinct
  <2>3. DistinctPaths(projects)
    BY <1>0, <2>1, <2>2, HeadChange, ChangedDistinct
  <2> HIDE DEF projects
  <2>4. x.projects = projects
    BY <2>2 DEF IsCopy
  <2> HIDE DEF x
  <2>5. Named(projects) => DistinctPaths(DevfileV2toV1(x).projects)
    BY <2>3, <2>4, StoredDistinct
  <2> QED BY <2>1, <2>5 DEF Distinct
<1>14. ASSUME JobFails PROVE Distinct'
  BY <1>14 DEF JobFails, backend, Distinct
<1>15. ASSUME UNCHANGED vars PROVE Distinct'
  BY <1>15, <1>1 DEF vars, backend, workspacePlugin
<1> QED BY <1>3, <1>4, <1>5, <1>6, <1>7, <1>8, <1>9, <1>10, <1>11, <1>12, <1>13, <1>14, <1>15
        DEF Next

LEMMA InitDistinct == Init => Distinct
<1> SUFFICES ASSUME Init PROVE Distinct
  OBVIOUS
<1>1. devfile \in Devfiles /\ job = Idle /\ \A c \in Calls : call[c] = Idle
  BY DEF Init
<1>2. DistinctPaths(devfile.projects)
  BY <1>1, DevfilesAssumption DEF DistinctPaths
<1> QED BY <1>1, <1>2 DEF Distinct, Idle

-----------------------------------------------------------------------------
(* LastChangeWins *)

\* A change on the chain, and the last one there for its path.
LastOn(list, change) ==
  \E i \in DOMAIN list : /\ list[i] = change
                         /\ \A j \in DOMAIN list : j > i => list[j].path # change.path

ChainWanted ==
  \A i \in DOMAIN chain : /\ chain[i].path \in DOMAIN wanted
                          /\ LastOn(chain, wanted[chain[i].path])

WantedFollowed ==
  \A path \in DOMAIN wanted :
    /\ wanted[path].path = path
    /\ LastOn(chain, wanted[path]) \/ Settled(devfile.projects, wanted[path])

\* Of every path a change was noticed for, the devfile says what the last one
\* said, or that change is still on the chain.
Followed ==
  ~disturbed =>
    /\ job # Idle => PathsOf(job.copy.projects) = PathsOf(devfile.projects)
    /\ WantedFollowed /\ ChainWanted

LEMMA ChainIs ==
  ASSUME ChainTyped
  PROVE  IsList(chain) /\ Len(chain) \in Nat /\ DOMAIN chain = 1..Len(chain)
BY SeqIsList, ListLen DEF ChainTyped

LEMMA TailIs ==
  ASSUME ChainTyped, chain # <<>>, chain' = Tail(chain)
  PROVE  /\ 1 \in DOMAIN chain /\ Head(chain) = chain[1]
         /\ \A i \in DOMAIN chain : i \in Nat /\ i >= 1
         /\ \A i \in DOMAIN chain' : /\ i \in Nat /\ i + 1 \in DOMAIN chain
                                     /\ chain'[i] = chain[i + 1]
         /\ \A i \in DOMAIN chain : i # 1 => /\ i - 1 \in DOMAIN chain'
                                             /\ chain'[i - 1] = chain[i]
<1>1. chain \in Seq(Changes) /\ Len(chain) \in Nat /\ DOMAIN chain = 1..Len(chain)
  BY ChainIs DEF ChainTyped
<1>2. Len(chain) # 0
  BY <1>1, ChainIs, EmptyList
<1>3. /\ Tail(chain) \in Seq(Changes) /\ Len(Tail(chain)) = Len(chain) - 1
      /\ \A i \in 1..Len(Tail(chain)) : Tail(chain)[i] = chain[i + 1]
  BY <1>1, HeadTailProperties
<1>4. DOMAIN chain' = 1..(Len(chain) - 1)
  BY <1>3, LenProperties
<1>5. /\ \A i \in 1..(Len(chain) - 1) : i + 1 \in 1..Len(chain) /\ i \in Nat
      /\ \A i \in 1..Len(chain) : i # 1 => i - 1 \in 1..(Len(chain) - 1) /\ i - 1 + 1 = i
      /\ 1 \in 1..Len(chain)
  BY <1>1, <1>2
<1>6. \A i \in DOMAIN chain' : chain'[i] = chain[i + 1]
  BY <1>3, <1>4
<1>7. \A i \in DOMAIN chain : i # 1 => i - 1 \in DOMAIN chain' /\ chain'[i - 1] = chain[i]
  BY <1>1, <1>4, <1>5, <1>6
<1>8. Head(chain) = chain[1]
  BY DEF Head
<1> QED BY <1>1, <1>4, <1>5, <1>6, <1>7, <1>8

\* The change at the head may have been its path's last; the others still are.
LEMMA TailLast ==
  ASSUME ChainTyped, chain # <<>>, chain' = Tail(chain), NEW w, LastOn(chain, w)
  PROVE  \/ LastOn(chain', w)
         \/ w = Head(chain) /\ \A j \in DOMAIN chain : j # 1 => chain[j].path # w.path
<1>1. PICK i \in DOMAIN chain : /\ chain[i] = w
                                /\ \A j \in DOMAIN chain : j > i => chain[j].path # w.path
  BY DEF LastOn
<1>2. /\ 1 \in DOMAIN chain /\ Head(chain) = chain[1]
      /\ \A k \in DOMAIN chain : k \in Nat /\ k >= 1
      /\ \A k \in DOMAIN chain' : k \in Nat /\ k + 1 \in DOMAIN chain /\ chain'[k] = chain[k + 1]
      /\ \A k \in DOMAIN chain : k # 1 => k - 1 \in DOMAIN chain' /\ chain'[k - 1] = chain[k]
  BY TailIs
<1>3. CASE i = 1
  <2>1. \A j \in DOMAIN chain : j # 1 => j > i
    BY <1>2, <1>3
  <2> QED BY <1>1, <1>2, <1>3, <2>1
<1>4. CASE i # 1
  <2>1. i - 1 \in DOMAIN chain' /\ chain'[i - 1] = w
    BY <1>1, <1>2, <1>4
  <2>2. ASSUME NEW j \in DOMAIN chain', j > i - 1
        PROVE  chain'[j].path # w.path
    <3>1. j + 1 \in DOMAIN chain /\ chain'[j] = chain[j + 1] /\ j \in Nat /\ i \in Nat
      BY <1>2
    <3>2. j + 1 > i
      BY <3>1, <2>2
    <3> QED BY <1>1, <3>1, <3>2
  <2> QED BY <2>1, <2>2 DEF LastOn
<1> QED BY <1>3, <1>4

LEMMA TailWanted ==
  ASSUME ChainTyped, chain # <<>>, chain' = Tail(chain), ChainWanted, WantedFollowed,
         \A path \in DOMAIN wanted : path \in DOMAIN wanted' => wanted'[path] = wanted[path],
         \A path \in DOMAIN wanted :
           \/ path \in DOMAIN wanted'
           \/ \A i \in DOMAIN chain : i # 1 => chain[i].path # path
  PROVE  ChainWanted'
<1> SUFFICES ASSUME NEW i \in DOMAIN chain'
             PROVE  LET path == chain'[i].path
                    IN  path \in DOMAIN wanted' /\ LastOn(chain', wanted'[path])
  BY DEF ChainWanted
<1> DEFINE path == chain'[i].path
           w == wanted[path]
<1>1. i \in Nat /\ i + 1 \in DOMAIN chain /\ chain'[i] = chain[i + 1] /\ i + 1 # 1
      /\ \A k \in DOMAIN chain' : k \in Nat /\ k >= 1
  <2>1. /\ \A k \in DOMAIN chain' : k \in Nat /\ k + 1 \in DOMAIN chain /\ chain'[k] = chain[k + 1]
        /\ \A k \in DOMAIN chain : k - 1 \in DOMAIN chain' \/ k = 1
    BY TailIs
  <2>2. \A k \in DOMAIN chain' : k >= 1
    <3>1. DOMAIN chain' = 1..Len(chain')
      <4>1. Tail(chain) \in Seq(Changes)
        BY HeadTailProperties DEF ChainTyped
      <4> QED BY <4>1, LenProperties
    <3> QED BY <3>1, <2>1
  <2>3. i \in Nat /\ i >= 1
    BY <2>1, <2>2
  <2>4. i + 1 # 1
    BY <2>3
  <2> QED BY <2>1, <2>2, <2>4
<1>2. path \in DOMAIN wanted /\ LastOn(chain, w) /\ w.path = path
  BY <1>1 DEF ChainWanted, WantedFollowed
<1>3. path \in DOMAIN wanted' /\ wanted'[path] = w
  BY <1>1, <1>2
<1>4. LastOn(chain', w)
  <2>1. \/ LastOn(chain', w)
        \/ \A j \in DOMAIN chain : j # 1 => chain[j].path # w.path
    BY <1>2, TailLast
  <2> QED BY <1>1, <1>2, <2>1
<1> QED BY <1>3, <1>4

LEMMA PathsKept ==
  ASSUME NEW d, \A i \in DOMAIN d : IsProject(d[i]),
         NEW e, DOMAIN e = DOMAIN d, \A i \in DOMAIN d : e[i] = KeptProject(d[i])
  PROVE  /\ PathsOf(e) = PathsOf(d)
         /\ \A change : Settled(d, change) => Settled(e, change)
<1>1. \A i \in DOMAIN d : PathOf(e[i]) = PathOf(d[i])
  BY PathKept
<1>2. PathsOf(e) = PathsOf(d)
  BY <1>1 DEF PathsOf
<1>3. \A change : Settled(d, change) => Settled(e, change)
  BY <1>2, SettledStays
<1> QED BY <1>2, <1>3

\* A change goes to the end of the chain, and is the last one for its path.
LEMMA NoticedFollowed ==
  ASSUME Types, Followed, NEW change \in Changes, Noticed(change)
  PROVE  Followed'
<1> SUFFICES ASSUME ~disturbed
             PROVE  /\ job' # Idle => PathsOf(job'.copy.projects) = PathsOf(devfile'.projects)
                    /\ WantedFollowed' /\ ChainWanted'
  BY DEF Noticed, ghosts, Followed
<1>1. /\ job # Idle => PathsOf(job.copy.projects) = PathsOf(devfile.projects)
      /\ WantedFollowed /\ ChainWanted
  BY DEF Followed
<1> DEFINE f == Field(change.path, change)
           n == Len(chain)
<1>2. /\ chain' = Append(chain, change) /\ wanted' = f ++ wanted
      /\ UNCHANGED <<devfile, job>>
  BY DEF Noticed
<1>3. /\ \A path : path \in DOMAIN wanted' <=> path = change.path \/ path \in DOMAIN wanted
      /\ wanted'[change.path] = change
      /\ \A path \in DOMAIN wanted : path # change.path => wanted'[path] = wanted[path]
  <2>1. f[change.path] = change /\ \A path : path \in DOMAIN f <=> path = change.path
    BY OneField
  <2> HIDE DEF f
  <2> QED BY <1>2, <2>1, Merged
<1>4. IsList(chain) /\ n \in Nat /\ DOMAIN chain = 1..n
  BY ChainIs DEF Types
<1>5. /\ DOMAIN chain' = 1..(n + 1) /\ chain'[n + 1] = change
      /\ \A i \in DOMAIN chain : i \in DOMAIN chain' /\ chain'[i] = chain[i]
  BY <1>2, <1>4, Appended
<1>6. /\ n + 1 \in DOMAIN chain' /\ n + 1 \notin DOMAIN chain
      /\ \A i \in DOMAIN chain' : i \in Nat /\ (i \in DOMAIN chain \/ i = n + 1) /\ ~(i > n + 1)
  BY <1>4, <1>5
<1> HIDE DEF n, f
<1>7. LastOn(chain', change)
  BY <1>5, <1>6 DEF LastOn
<1>8. ASSUME NEW w, w.path # change.path, LastOn(chain, w)
      PROVE  LastOn(chain', w)
  <2>1. PICK i \in DOMAIN chain : /\ chain[i] = w
                                  /\ \A j \in DOMAIN chain : j > i => chain[j].path # w.path
    BY <1>8 DEF LastOn
  <2>2. i \in DOMAIN chain' /\ chain'[i] = w
    BY <2>1, <1>5
  <2>3. \A j \in DOMAIN chain' : j > i => chain'[j].path # w.path
    BY <2>1, <1>5, <1>6, <1>8
  <2> QED BY <2>2, <2>3 DEF LastOn
<1>9. ASSUME NEW path \in DOMAIN wanted'
      PROVE  /\ wanted'[path].path = path
             /\ LastOn(chain', wanted'[path]) \/ Settled(devfile.projects, wanted'[path])
  BY <1>1, <1>3, <1>7, <1>8 DEF WantedFollowed
<1>10. WantedFollowed'
  BY <1>2, <1>9 DEF WantedFollowed
<1>11. ChainWanted'
  <2> SUFFICES ASSUME NEW i \in DOMAIN chain'
               PROVE  /\ chain'[i].path \in DOMAIN wanted'
                      /\ LastOn(chain', wanted'[chain'[i].path])
    BY DEF ChainWanted
  <2>1. CASE chain'[i].path = change.path
    BY <2>1, <1>3, <1>7
  <2>2. CASE chain'[i].path # change.path
    <3>1. i \in DOMAIN chain /\ chain'[i] = chain[i]
      BY <2>2, <1>5, <1>6
    <3>2. chain[i].path \in DOMAIN wanted /\ LastOn(chain, wanted[chain[i].path])
          /\ wanted[chain[i].path].path = chain[i].path
      BY <3>1, <1>1 DEF ChainWanted, WantedFollowed
    <3> QED BY <2>2, <3>1, <3>2, <1>3, <1>8
  <2> QED BY <2>1, <2>2
<1> QED BY <1>1, <1>2, <1>10, <1>11

\* A change that fails is not wanted any more, if it was its path's last.
LEMMA JobFailsFollowed ==
  ASSUME Types, Followed, JobFails
  PROVE  Followed'
<1> SUFFICES ASSUME ~disturbed
             PROVE  /\ job' # Idle => PathsOf(job'.copy.projects) = PathsOf(devfile'.projects)
                    /\ WantedFollowed' /\ ChainWanted'
  BY DEF JobFails, ghosts, Followed
<1> DEFINE path == Head(chain).path
           again == \E i \in 2..Len(chain) : chain[i].path = path
<1>1. WantedFollowed /\ ChainWanted
  BY DEF Followed
<1>2. /\ chain # <<>> /\ chain' = Tail(chain) /\ job' = Idle /\ devfile' = devfile
      /\ wanted' = IF again THEN wanted ELSE Without(wanted, {path})
  BY DEF JobFails
<1>3. again <=> \E i \in DOMAIN chain : i # 1 /\ chain[i].path = path
  <2>1. \A i : i \in 2..Len(chain) <=> i \in DOMAIN chain /\ i # 1
    BY ChainIs DEF Types
  <2> QED BY <2>1
<1> HIDE DEF again
<1>4. /\ \A p : p \in DOMAIN wanted' <=> p \in DOMAIN wanted /\ (again \/ p # path)
      /\ \A p \in DOMAIN wanted' : wanted'[p] = wanted[p]
  <2>1. CASE again
    BY <1>2, <2>1
  <2>2. CASE ~again
    BY <1>2, <2>2 DEF Without
  <2> QED BY <2>1, <2>2
<1> HIDE DEF path
<1>5. ChainWanted'
  BY <1>1, <1>2, <1>3, <1>4, TailWanted DEF Types
<1>6. ASSUME NEW p \in DOMAIN wanted'
      PROVE  /\ wanted'[p].path = p
             /\ LastOn(chain', wanted'[p]) \/ Settled(devfile.projects, wanted'[p])
  <2> DEFINE w == wanted[p]
  <2>1. p \in DOMAIN wanted /\ wanted'[p] = w /\ w.path = p
        /\ (LastOn(chain, w) \/ Settled(devfile.projects, w))
    BY <1>1, <1>4 DEF WantedFollowed
  <2> HIDE DEF w
  <2>2. ASSUME LastOn(chain, w) PROVE LastOn(chain', w)
    <3>1. \/ LastOn(chain', w)
          \/ w = Head(chain) /\ \A j \in DOMAIN chain : j # 1 => chain[j].path # w.path
      BY <1>2, <2>2, TailLast DEF Types
    <3>2. w = Head(chain) => p = path
      BY <2>1 DEF path
    <3> QED BY <1>3, <1>4, <2>1, <3>1, <3>2
  <2> QED BY <2>1, <2>2
<1>7. WantedFollowed'
  BY <1>2, <1>6 DEF WantedFollowed
<1> QED BY <1>1, <1>2, <1>5, <1>7

\* The change at the head is saved, or there was nothing to delete.
LEMMA SaveProjectsFollowed ==
  ASSUME Types, Fresh, Distinct, Followed, SaveProjects
  PROVE  Followed'
<1> SUFFICES ASSUME ~disturbed'
             PROVE  /\ job' # Idle => PathsOf(job'.copy.projects) = PathsOf(devfile'.projects)
                    /\ WantedFollowed' /\ ChainWanted'
  BY DEF Followed
<1> DEFINE change == Head(chain)
           d == devfile.projects
           e == devfile'.projects
           projects == ProjectsOf(change, job.copy.projects)
<1>1. /\ job # Idle /\ job' = Idle /\ chain # <<>> /\ chain' = Tail(chain) /\ wanted' = wanted
      /\ \/ /\ UNCHANGED <<devfile, version, disturbed>>
            /\ change.kind = "delete"
            /\ DeleteGitProject(job.copy.projects, change.path) = job.copy.projects
         \/ /\ ~disturbed' => ~disturbed /\ job.copy = DevfileV1toV2(devfile)
            /\ devfile' = DevfileV2toV1([job.copy EXCEPT !.projects = projects])
  BY SaveProjectsStep
<1>2. /\ DistinctPaths(d) /\ PathsOf(job.copy.projects) = PathsOf(d)
      /\ WantedFollowed /\ ChainWanted
  BY <1>1 DEF Followed, Distinct
<1>3. /\ IsList(d) /\ \A i \in DOMAIN d : IsProject(d[i])
      /\ DevfileV1toV2(devfile).projects = Each(d, ProjectV1toV2)
      /\ "projects" \in DOMAIN DevfileV1toV2(devfile)
  BY InDevfile DEF Types
<1>4. ChainTyped /\ 1 \in DOMAIN chain /\ change = chain[1] /\ change \in Changes
  <2>1. ChainTyped /\ 1 \in DOMAIN chain /\ change = chain[1]
    BY <1>1, TailIs DEF Types
  <2>2. chain \in Seq(Changes)
    BY <2>1 DEF ChainTyped
  <2>3. chain[1] \in Changes
    BY <2>1, <2>2, ElementOfSeq, LenProperties
  <2> QED BY <2>1, <2>3
<1>5. change.kind \in {"update", "delete"} /\ IsList(change.path) /\ change.path # <<>>
  BY <1>4, ChangesAssumption
<1> HIDE DEF change, d, projects
<1>6. /\ Settled(e, change)
      /\ \A w : w.path # change.path /\ Settled(d, w) => Settled(e, w)
  <2>1. CASE /\ UNCHANGED <<devfile, version, disturbed>>
             /\ change.kind = "delete"
             /\ DeleteGitProject(job.copy.projects, change.path) = job.copy.projects
    <3>1. IsList(job.copy.projects)
      BY <1>1, <1>4 DEF ChainTyped, IsCopy
    <3>2. change.path \notin PathsOf(d)
      BY <1>2, <2>1, <3>1, Deleted
    <3>3. e = d
      BY <2>1 DEF d
    <3> QED BY <1>2, <2>1, <3>2, <3>3 DEF Settled
  <2>2. CASE /\ ~disturbed' => ~disturbed /\ job.copy = DevfileV1toV2(devfile)
             /\ devfile' = DevfileV2toV1([job.copy EXCEPT !.projects = projects])
    <3>1. job.copy.projects = Each(d, ProjectV1toV2) /\ "projects" \in DOMAIN job.copy
      BY <1>3, <2>2
    <3>2. e = Each(projects, ProjectV2toV1)
      <4> DEFINE x == [job.copy EXCEPT !.projects = projects]
      <4>1. x.projects = projects
        BY <3>1
      <4>2. devfile' = DevfileV2toV1(x)
        BY <2>2
      <4> HIDE DEF x
      <4> QED BY <4>1, <4>2 DEF DevfileV2toV1
    <3>3. projects = IF change.kind = "delete"
                     THEN DeleteGitProject(Each(d, ProjectV1toV2), change.path)
                     ELSE UpdateOrCreateGitProject(Each(d, ProjectV1toV2), change)
      BY <3>1 DEF projects, ProjectsOf
    <3> HIDE DEF e
    <3>4. FollowsOn(d, e, change)
      <4>1. CASE change.kind = "delete"
        BY <1>2, <1>3, <3>2, <3>3, <4>1, DeleteFollows
      <4>2. CASE change.kind # "delete"
        BY <1>2, <1>3, <1>5, <3>2, <3>3, <4>2, UpdateFollows
      <4> QED BY <4>1, <4>2
    <3>5. ASSUME NEW w, w.path # change.path, Settled(d, w)
          PROVE  Settled(e, w)
      <4>1. w.path \in PathsOf(e) <=> w.path \in PathsOf(d)
        BY <3>4, <3>5 DEF FollowsOn
      <4>2. \A i \in DOMAIN e : PathOf(e[i]) = w.path => \E j \in DOMAIN d : e[i] = KeptProject(d[j])
        BY <3>4, <3>5 DEF FollowsOn
      <4> QED BY <1>3, <3>5, <4>1, <4>2, SettledStays
    <3> QED BY <3>4, <3>5 DEF FollowsOn
  <2> QED BY <1>1, <2>1, <2>2
<1>7. ChainWanted'
  BY <1>1, <1>2, <1>4, TailWanted
<1>8. ASSUME NEW p \in DOMAIN wanted
      PROVE  /\ wanted[p].path = p
             /\ LastOn(chain', wanted[p]) \/ Settled(e, wanted[p])
  <2> DEFINE w == wanted[p]
  <2>1. w.path = p /\ (LastOn(chain, w) \/ Settled(d, w))
    BY <1>2 DEF WantedFollowed, d
  <2>2. ASSUME LastOn(chain, w) PROVE LastOn(chain', w) \/ Settled(e, w)
    <3> HIDE DEF w
    <3>1. LastOn(chain', w) \/ w = change
      BY <1>1, <1>4, <2>2, TailLast DEF change
    <3> QED BY <3>1, <1>6
  <2>3. ASSUME Settled(d, w), ~LastOn(chain, w) PROVE Settled(e, w)
    <3>1. change.path \in DOMAIN wanted /\ LastOn(chain, wanted[change.path])
      BY <1>2, <1>4 DEF ChainWanted
    <3>2. w.path # change.path
      BY <2>1, <2>3, <3>1
    <3> QED BY <3>2, <2>3, <1>6
  <2> QED BY <2>1, <2>2, <2>3
<1>9. WantedFollowed'
  BY <1>1, <1>8 DEF WantedFollowed
<1> QED BY <1>1, <1>6, <1>7, <1>9

\* A plugin call keeps the projects.
LEMMA UpdateFollowed ==
  ASSUME Types, Fresh, Followed, NEW c \in Calls, UpdateDevfile(c)
  PROVE  Followed'
<1> SUFFICES ASSUME ~disturbed'
             PROVE  /\ job' # Idle => PathsOf(job'.copy.projects) = PathsOf(devfile'.projects)
                    /\ WantedFollowed' /\ ChainWanted'
  BY DEF Followed
<1> DEFINE r == call[c]
           d == devfile.projects
           e == devfile'.projects
<1>1. /\ r.phase = "save" /\ devfile' = DevfileV2toV1(r.copy)
      /\ disturbed' = (disturbed \/ r.since # version)
      /\ UNCHANGED <<chain, job, wanted>>
  BY SaveStep DEF Continues, workspacePlugin
<1>2. ~disturbed /\ r.since = version
  BY <1>1
<1>3. r.copy = CopyFor(devfile, r)
  BY <1>1, <1>2 DEF Fresh, FreshCall
<1>4. /\ IsList(d) /\ \A i \in DOMAIN d : IsProject(d[i])
      /\ DevfileV1toV2(devfile).projects = Each(d, ProjectV1toV2)
      /\ "projects" \in DOMAIN DevfileV1toV2(devfile)
  BY InDevfile DEF Types
<1> HIDE DEF r
<1>5. r.copy.projects = Each(d, ProjectV1toV2)
  BY <1>3, <1>4 DEF CopyFor
<1> HIDE DEF d
<1>6. e = Each(Each(d, ProjectV1toV2), ProjectV2toV1)
  BY <1>1, <1>5 DEF DevfileV2toV1
<1> HIDE DEF e
<1>7. DOMAIN e = DOMAIN d /\ \A i \in DOMAIN d : e[i] = KeptProject(d[i])
  BY <1>4, <1>6, ProjectKept DEF Each
<1>8. /\ PathsOf(e) = PathsOf(d)
      /\ \A change : Settled(d, change) => Settled(e, change)
  BY <1>4, <1>7, PathsKept
<1>9. /\ job # Idle => PathsOf(job.copy.projects) = PathsOf(d)
      /\ WantedFollowed /\ ChainWanted
  BY <1>2 DEF Followed, d
<1>10. WantedFollowed'
  BY <1>1, <1>8, <1>9 DEF WantedFollowed, d, e
<1>11. ChainWanted'
  BY <1>1, <1>9 DEF ChainWanted
<1> QED BY <1>1, <1>8, <1>9, <1>10, <1>11 DEF e

LEMMA GetFollowed ==
  ASSUME Types, Followed, GetDevfile
  PROVE  Followed'
<1>1. /\ job' = [phase |-> "save", copy |-> DevfileV1toV2(devfile), since |-> version]
      /\ UNCHANGED <<devfile, chain, wanted, disturbed>>
  BY DEF GetDevfile, ghosts
<1>2. job'.copy.projects = Each(devfile.projects, ProjectV1toV2)
  BY <1>1, InDevfile DEF Types
<1>3. PathsOf(job'.copy.projects) = PathsOf(devfile.projects)
  BY <1>2, InDevfile, CopiedProjects DEF Types
<1> QED BY <1>1, <1>3 DEF Followed, WantedFollowed, ChainWanted

LEMMA NextFollowed == Types /\ Fresh /\ Distinct /\ Followed /\ [Next]_vars => Followed'
<1> SUFFICES ASSUME Types, Fresh, Distinct, Followed, [Next]_vars PROVE Followed'
  OBVIOUS
<1>1. ASSUME UNCHANGED <<devfile, chain, job, wanted, disturbed>>
      PROVE  Followed'
  BY <1>1 DEF Followed, WantedFollowed, ChainWanted
<1>2. ASSUME NEW c \in Calls, NEW p \in Plugins,
             \/ InstallPlugin(c, p) \/ RemovePlugin(c, p)
             \/ \E metadata \in Range(Catalog[p]) : VersionChanged(c, p, metadata)
      PROVE  Followed'
  BY <1>1, <1>2 DEF InstallPlugin, RemovePlugin, VersionChanged, Start, workspacePlugin, ghosts
<1>3. ASSUME Filter \/ Remount PROVE Followed'
  BY <1>1, <1>3 DEF Filter, Remount, workspacePlugin, ghosts
<1>4. ASSUME NEW c \in Calls,
             ListPlugins(c) \/ SetWorkspacePlugins(c) \/ Succeed(c) \/ Fail(c)
      PROVE  Followed'
  BY <1>1, <1>4 DEF ListPlugins, SetWorkspacePlugins, Succeed, Fail, workspacePlugin, ghosts
<1>5. ASSUME NEW c \in Calls, UpdateDevfile(c) PROVE Followed'
  BY <1>5, UpdateFollowed
<1>6. ASSUME NEW change \in Changes, Noticed(change) PROVE Followed'
  BY <1>6, NoticedFollowed
<1>7. ASSUME GetDevfile PROVE Followed'
  BY <1>7, GetFollowed
<1>8. ASSUME SaveProjects PROVE Followed'
  BY <1>8, SaveProjectsFollowed
<1>9. ASSUME JobFails PROVE Followed'
  BY <1>9, JobFailsFollowed
<1>10. ASSUME UNCHANGED vars PROVE Followed'
  BY <1>1, <1>10 DEF vars, workspacePlugin, ghosts
<1> QED BY <1>2, <1>3, <1>4, <1>5, <1>6, <1>7, <1>8, <1>9, <1>10 DEF Next

LEMMA InitFollowed == Init => Followed
<1> SUFFICES ASSUME Init PROVE Followed
  OBVIOUS
<1>1. chain = <<>> /\ job = Idle /\ wanted = Empty
  BY DEF Init
<1>2. DOMAIN chain = {} /\ DOMAIN wanted = {}
  BY <1>1 DEF Empty
<1> QED BY <1>1, <1>2 DEF Followed, WantedFollowed, ChainWanted

\* A settled project is recorded as the change said.
LEMMA SettledIsRecorded ==
  ASSUME NEW d, NEW change, Settled(d.projects, change)
  PROVE  Recorded(d, change)
<1> DEFINE projects == d.projects
<1>1. At_(d, change.path) = {p \in {projects[i] : i \in DOMAIN projects} : PathOf(p) = change.path}
  BY DEF At_, Range
<1>2. \A x : HasOnly(x, change) => HasGit(x, change)
  BY RevisionKindsAre DEF HasOnly, HasGit, Kinds
<1> QED BY <1>1, <1>2 DEF Recorded, Settled, PathsOf

\* When DevfileServiceImpl's chain is done, the devfile says of each project what
\* the last change for its path said, whatever failed and whatever plugins came
\* and went meanwhile, unless two saves crossed.
THEOREM LastChange == Spec => []LastChangeWins
<1> DEFINE IInv == Types /\ Fresh /\ Distinct /\ Followed
<1>1. Init => IInv
  BY InitTypes, InitFresh, InitDistinct, InitFollowed
<1>2. IInv /\ [Next]_vars => IInv'
  BY NextTypes, NextFresh, NextDistinct, NextFollowed
<1>3. IInv => LastChangeWins
  <2> SUFFICES ASSUME Followed, ~disturbed, chain = <<>>, NEW path \in DOMAIN wanted
               PROVE  Recorded(devfile, wanted[path])
    BY DEF LastChangeWins
  <2>1. ~LastOn(chain, wanted[path])
    BY DEF LastOn
  <2>2. Settled(devfile.projects, wanted[path])
    BY <2>1 DEF Followed, WantedFollowed
  <2> QED BY <2>2, SettledIsRecorded
<1> QED BY <1>1, <1>2, <1>3, PTL DEF Spec

-----------------------------------------------------------------------------
(* SavesOneThing *)

\* Sets of one size.
LEMMA SameSize ==
  ASSUME NEW I, IsFiniteSet(I), NEW J, NEW g, DOMAIN g = I, \A i \in I : g[i] \in J,
         \A i, j \in I : g[i] = g[j] => i = j, \A k \in J : \E i \in I : g[i] = k
  PROVE  IsFiniteSet(J) /\ Cardinality(J) = Cardinality(I)
<1> DEFINE f == [i \in I |-> g[i]]
<1>1. f \in Bijection(I, J)
  BY DEF Bijection, Injection, Surjection, IsInjective
<1>2. ExistsBijection(I, J)
  BY <1>1 DEF ExistsBijection
<1> QED BY <1>2, FS_Bijection

\* Two lists have the same elements in the same order at indices that correspond.
LEMMA SameAt ==
  ASSUME NEW a, IsList(a), NEW I, I \subseteq DOMAIN a,
         NEW b, IsList(b), NEW J, J \subseteq DOMAIN b,
         NEW g, DOMAIN g = I, \A i \in I : g[i] \in J /\ b[g[i]] = a[i],
         \A i, j \in I : i < j => g[i] < g[j], \A k \in J : \E i \in I : g[i] = k
  PROVE  At(b, J) = At(a, I)
<1> DEFINE x == At(a, I)
           y == At(b, J)
<1>1. /\ IsObject(x) /\ IsFiniteSet(I) /\ DOMAIN x = 1..Cardinality(I)
      /\ \A i \in I : Rank(I, i) \in DOMAIN x /\ x[Rank(I, i)] = a[i]
      /\ \A k \in DOMAIN x : \E i \in I : Rank(I, i) = k
  BY Picked, Lists
<1>2. /\ IsObject(y) /\ DOMAIN y = 1..Cardinality(J)
      /\ \A j \in J : Rank(J, j) \in DOMAIN y /\ y[Rank(J, j)] = b[j]
  BY Picked, Lists
<1> HIDE DEF x, y
<1>3. \A i \in I : i \in Nat
  BY ListLen
<1>4. \A j \in J : j \in Nat
  BY ListLen
<1>5. \A i, j \in I : g[i] \in Nat /\ g[j] \in Nat /\ (g[i] <= g[j] <=> i <= j)
  <2> SUFFICES ASSUME NEW i \in I, NEW j \in I
               PROVE  g[i] \in Nat /\ g[j] \in Nat /\ (g[i] <= g[j] <=> i <= j)
    OBVIOUS
  <2>1. i \in Nat /\ j \in Nat /\ g[i] \in Nat /\ g[j] \in Nat
    BY <1>3, <1>4
  <2>2. (i < j => g[i] < g[j]) /\ (j < i => g[j] < g[i])
    OBVIOUS
  <2> QED BY <2>1, <2>2
<1>6. \A i, j \in I : g[i] = g[j] => i = j
  BY <1>3, <1>5
<1>7. Cardinality(J) = Cardinality(I)
  BY <1>1, <1>6, SameSize
<1>8. \A i \in I : Rank(J, g[i]) = Rank(I, i)
  <2> SUFFICES ASSUME NEW i \in I
               PROVE  Rank(J, g[i]) = Rank(I, i)
    OBVIOUS
  <2> DEFINE A == {j \in I : j <= i}
             B == {k \in J : k <= g[i]}
             h == [j \in A |-> g[j]]
  <2>1. IsFiniteSet(A)
    BY <1>1, FS_Subset
  <2>2. \A j \in A : h[j] \in B
    BY <1>5
  <2>3. \A j, k \in A : h[j] = h[k] => j = k
    BY <1>6
  <2>4. \A k \in B : \E j \in A : h[j] = k
    BY <1>5
  <2>5. DOMAIN h = A
    OBVIOUS
  <2> HIDE DEF A, B, h
  <2>6. Cardinality(B) = Cardinality(A)
    BY <2>1, <2>2, <2>3, <2>4, <2>5, SameSize
  <2> QED BY <2>6 DEF A, B, Rank
<1>9. \A k \in DOMAIN x : y[k] = x[k]
  BY <1>1, <1>2, <1>8
<1>10. DOMAIN x = DOMAIN y
  BY <1>1, <1>2, <1>7
<1> QED BY <1>1, <1>2, <1>9, <1>10 DEF x, y, IsObject

\* How often a value is in a list made of another's elements at some indices.
LEMMA PickedCount ==
  ASSUME NEW list, IsList(list), NEW I, I \subseteq DOMAIN list,
         NEW l, DOMAIN l = DOMAIN At(list, I), NEW x, NEW Q, Q \subseteq I,
         \A i \in I : l[Rank(I, i)] = x <=> i \in Q
  PROVE  Count(l, x) = Cardinality(Q)
<1>1. /\ IsFiniteSet(I)
      /\ \A i \in I : Rank(I, i) \in DOMAIN l
      /\ \A k \in DOMAIN l : \E i \in I : Rank(I, i) = k
  BY Picked
<1>2. \A i \in I : i \in Nat
  BY ListLen
<1>3. \A i, j \in I : i < j => Rank(I, i) < Rank(I, j)
  BY ListLen, Ranks
<1>4. \A i \in I : Rank(I, i) \in Nat
  BY Picked
<1>5. \A i, j \in I : Rank(I, i) = Rank(I, j) => i = j
  <2> SUFFICES ASSUME NEW i \in I, NEW j \in I, i # j
               PROVE  Rank(I, i) # Rank(I, j)
    OBVIOUS
  <2>1. i < j \/ j < i
    BY <1>2
  <2> QED BY <2>1, <1>3, <1>4
<1> DEFINE h == [i \in Q |-> Rank(I, i)]
           P == {k \in DOMAIN l : l[k] = x}
<1>6. IsFiniteSet(Q)
  BY <1>1, FS_Subset
<1>7. DOMAIN h = Q /\ \A i \in Q : h[i] \in P
  BY <1>1
<1>8. \A i, j \in Q : h[i] = h[j] => i = j
  BY <1>5
<1>9. \A k \in P : \E i \in Q : h[i] = k
  BY <1>1
<1> HIDE DEF h, P
<1>10. Cardinality(P) = Cardinality(Q)
  BY <1>6, <1>7, <1>8, <1>9, SameSize
<1> QED BY <1>10 DEF P, Count

LEMMA ListCount ==
  ASSUME NEW list, IsList(list), NEW x
  PROVE  Count(list, x) \in Nat
<1>1. IsFiniteSet(DOMAIN list)
  BY ListLen
<1>2. IsFiniteSet({i \in DOMAIN list : list[i] = x})
  BY <1>1, FS_Subset
<1> QED BY <1>2, FS_CardinalityType DEF Count

LEMMA CountOthers ==
  ASSUME NEW list, IsList(list), NEW value, NEW x, x # value
  PROVE  Count(Others(list, value), x) = Count(list, x)
<1> DEFINE I == {i \in DOMAIN list : list[i] # value}
           Q == {i \in DOMAIN list : list[i] = x}
           l == At(list, I)
<1>1. I \subseteq DOMAIN list /\ Q \subseteq I
  OBVIOUS
<1>2. \A i \in I : list[i] = x <=> i \in Q
  OBVIOUS
<1> HIDE DEF I, Q
<1>3. \A i \in I : l[Rank(I, i)] = list[i]
  BY <1>1, Picked
<1> HIDE DEF l
<1>4. Count(l, x) = Cardinality(Q)
  BY <1>1, <1>2, <1>3, PickedCount DEF l
<1> QED BY <1>4 DEF l, I, Q, Others, Count

LEMMA CountAppended ==
  ASSUME NEW a, IsList(a), NEW y, NEW x
  PROVE  Count(a, x) \in Nat /\ Count(a, x) <= Count(Append(a, y), x)
<1> DEFINE b == Append(a, y)
           A == {i \in DOMAIN a : a[i] = x}
           B == {i \in DOMAIN b : b[i] = x}
<1>1. IsList(b) /\ \A i \in DOMAIN a : i \in DOMAIN b /\ b[i] = a[i]
  BY Appended
<1> HIDE DEF b
<1>2. A \subseteq B
  BY <1>1
<1>3. IsFiniteSet(DOMAIN b)
  BY <1>1, ListLen
<1>4. IsFiniteSet(B)
  BY <1>3, FS_Subset
<1> HIDE DEF A, B
<1>5. IsFiniteSet(A) /\ Cardinality(A) <= Cardinality(B)
  BY <1>2, <1>4, FS_Subset
<1> QED BY <1>5, FS_CardinalityType DEF A, B, b, Count

\* The list of the plugins has each as often as the components.
LEMMA CountListed ==
  ASSUME NEW components, IsList(components), NEW x
  PROVE  Count(WorkspacePlugins(components), x) = Count(Ids(components), x)
<1> DEFINE I == {i \in DOMAIN components : IsPluginComponent(components[i])}
           some == At(components, I)
           l == WorkspacePlugins(components)
           ids == Ids(components)
           Q == {i \in DOMAIN ids : ids[i] = x}
<1>1. l = [k \in DOMAIN some |-> PluginId(some[k])]
  BY DEF WorkspacePlugins, PluginComponents, Each
<1>2. I \subseteq DOMAIN components
  OBVIOUS
<1>3. DOMAIN ids = I /\ \A i \in I : ids[i] = PluginId(components[i])
  BY DEF Ids
<1> HIDE DEF I, l, ids
<1>4. \A i \in I : Rank(I, i) \in DOMAIN some /\ some[Rank(I, i)] = components[i]
  BY <1>2, Picked
<1> HIDE DEF some
<1>5. DOMAIN l = DOMAIN some /\ \A i \in I : l[Rank(I, i)] = ids[i]
  BY <1>1, <1>3, <1>4
<1>6. Q \subseteq I /\ \A i \in I : l[Rank(I, i)] = x <=> i \in Q
  BY <1>3, <1>5
<1> HIDE DEF Q
<1>7. DOMAIN l = DOMAIN At(components, I)
  BY <1>5 DEF some
<1>8. Count(l, x) = Cardinality(Q)
  BY <1>2, <1>6, <1>7, PickedCount
<1> QED BY <1>8 DEF l, ids, Q, Count

\* A plugin that a call does not take off the list stays as it is.
LEMMA PluginStays ==
  ASSUME NEW components, IsList(components), NEW i \in DOMAIN components,
         IsPluginComponent(components[i]), NEW kind \in Kinds3, NEW before, NEW after,
         kind # "add" => PluginId(components[i]) # before
  PROVE  i \in Staying(components,
                       NewPlugins(kind, before, after, WorkspacePlugins(components)))
<1> DEFINE v == PluginId(components[i])
           l == WorkspacePlugins(components)
           rest == Others(l, before)
           plugins == NewPlugins(kind, before, after, l)
           ids == Ids(components)
<1>1. IsList(l)
  BY PluginsAreListed
<1>2. i \in DOMAIN ids /\ ids[i] = v /\ DOMAIN ids \subseteq DOMAIN components
  BY DEF Ids
<1>3. Nth(ids, i) \in 1..Count(ids, v)
  <2>1. i \in Places(ids, v)
    BY <1>2 DEF Places
  <2> HIDE DEF ids, v
  <2>2. Len(components) \in Nat /\ DOMAIN ids \subseteq 1..Len(components)
    BY <1>2, ListLen
  <2> QED BY <2>1, <2>2, Occurrences
<1>4. Count(l, v) = Count(ids, v)
  BY CountListed
<1>5. IsList(rest)
  BY <1>1, OthersAre
<1>6. plugins = CASE kind = "add" -> Append(l, after)
                  [] kind = "remove" -> rest
                  [] kind = "update" -> Append(rest, after)
  BY DEF NewPlugins
<1>7. v # before => Count(rest, v) = Count(l, v)
  BY <1>1, CountOthers
<1> HIDE DEF v, l, rest, plugins, ids
<1>8. /\ Count(l, v) \in Nat /\ Count(l, v) <= Count(Append(l, after), v)
      /\ Count(rest, v) <= Count(Append(rest, after), v)
  BY <1>1, <1>5, CountAppended
<1>9. CASE kind = "add"
  <2>1. plugins = Append(l, after)
    BY <1>6, <1>9
  <2>2. Count(plugins, v) \in Nat
    BY <2>1, <1>1, Appended, ListCount
  <2> QED BY <2>1, <2>2, <1>2, <1>3, <1>4, <1>8 DEF Staying, ids, plugins, l
<1>10. CASE kind # "add"
  <2>1. v # before
    BY <1>10 DEF v
  <2>2. IsList(plugins) /\ Count(plugins, v) \in Nat
    BY <1>1, NewPluginsIsList, ListCount DEF plugins, Kinds3
  <2>3. plugins = rest \/ plugins = Append(rest, after)
    BY <1>6, <1>10 DEF Kinds3
  <2>4. Count(rest, v) = Count(l, v)
    BY <2>1, <1>7
  <2>5. Count(plugins, v) = Count(rest, v) \/ Count(plugins, v) = Count(Append(rest, after), v)
    BY <2>3
  <2>6. Count(l, v) <= Count(plugins, v)
    BY <2>4, <2>5, <1>8
  <2> QED BY <2>2, <2>6, <1>2, <1>3, <1>4, <1>8 DEF Staying, ids, plugins, l
<1> QED BY <1>9, <1>10

\* What a plugin call stores of the components, with what is kept of them.
LEMMA StoredComponents ==
  ASSUME NEW d, IsDevfile(d), NEW plugins, IsList(plugins)
  PROVE  LET copy == DevfileV1toV2(d)
             comps == copy.components
             S == Staying(comps, plugins)
             a == Kept(d).components
             e == DevfileV2toV1([copy EXCEPT !.components = SetPlugins(comps, plugins)])
             b == e.components
         IN  /\ e = [Kept(d) EXCEPT !.components = b]
             /\ IsList(comps) /\ IsList(a) /\ IsList(b) /\ DOMAIN a = DOMAIN comps
             /\ \A i \in DOMAIN a :
                  /\ IsComponent(a[i])
                  /\ IsPlugin(a[i]) <=> IsPluginComponent(comps[i])
                  /\ IsPlugin(a[i]) => IdOf(a[i]) = PluginId(comps[i])
             /\ S \subseteq DOMAIN a
             /\ \A i \in S : Rank(S, i) \in DOMAIN b /\ b[Rank(S, i)] = a[i]
             /\ \A k \in DOMAIN b : IsPlugin(b[k]) \/ \E i \in S : Rank(S, i) = k
<1> DEFINE copy == DevfileV1toV2(d)
           comps == copy.components
           S == Staying(comps, plugins)
           J == Joining(comps, plugins)
           a == Kept(d).components
           R == SetPlugins(comps, plugins)
           e == DevfileV2toV1([copy EXCEPT !.components = R])
           b == e.components
           stay == At(comps, S)
           added == At(plugins, J)
           join == Each(added, CreatePluginComponent)
<1>1. IsList(comps) /\ IsList(d.components) /\ IsList(R)
      /\ \A i \in DOMAIN d.components : IsComponent(d.components[i])
  BY GetCopies, SetPluginsElements DEF IsCopy, IsDevfile
<1>2. comps = Each(d.components, ComponentV1toV2) /\ "components" \in DOMAIN copy
  BY DEF DevfileV1toV2
<1>3. a = Each(d.components, KeptComponent)
  BY DEF Kept
<1>4. b = Each(R, ComponentV2toV1)
  BY <1>2 DEF DevfileV2toV1
<1>5. e = [Kept(d) EXCEPT !.components = b]
  <2>1. RoundTrip(d) = Kept(d)
    BY RoundTripKeeps
  <2>2. e = [DevfileV2toV1(copy) EXCEPT !.components = b]
    BY DEF DevfileV1toV2, DevfileV2toV1
  <2> QED BY <2>1, <2>2 DEF RoundTrip
<1>6. /\ R = stay \o join /\ IsList(stay) /\ IsList(join) /\ DOMAIN join = DOMAIN added
      /\ S \subseteq DOMAIN comps
  BY <1>1, SetPluginsIs
<1>7. \A j \in DOMAIN join : join[j] = CreatePluginComponent(added[j])
  BY DEF Each
<1> HIDE DEF copy, S, J, a, R, e, stay, added, join
<1>8. /\ \A i \in S : Rank(S, i) \in DOMAIN stay /\ stay[Rank(S, i)] = comps[i]
      /\ \A k \in DOMAIN stay : \E i \in S : Rank(S, i) = k
  BY <1>1, <1>6, Picked DEF stay
<1>9. /\ \A k \in DOMAIN stay : k \in DOMAIN R /\ R[k] = stay[k]
      /\ \A k \in DOMAIN R : k \in DOMAIN stay
                             \/ \E j \in DOMAIN join : k = Len(stay) + j /\ R[k] = join[j]
  BY <1>6, Joined
<1>10. /\ DOMAIN a = DOMAIN d.components /\ DOMAIN comps = DOMAIN d.components
       /\ \A i \in DOMAIN a : a[i] = KeptComponent(d.components[i])
       /\ \A i \in DOMAIN a : comps[i] = ComponentV1toV2(d.components[i])
  BY <1>2, <1>3 DEF Each
<1>11. DOMAIN b = DOMAIN R /\ \A k \in DOMAIN b : b[k] = ComponentV2toV1(R[k])
  BY <1>4 DEF Each
<1>12. IsList(a) /\ IsList(b)
  <2>1. IsObject(a) /\ IsObject(b)
    BY <1>3, <1>4 DEF Each, IsObject
  <2> HIDE DEF b, comps
  <2> QED BY <2>1, <1>1, <1>10, <1>11, Lists
<1> HIDE DEF b, comps
<1>13. ASSUME NEW i \in DOMAIN a
       PROVE  /\ IsComponent(a[i]) /\ ComponentV2toV1(comps[i]) = a[i]
              /\ IsPlugin(a[i]) <=> IsPluginComponent(comps[i])
              /\ IsPlugin(a[i]) => IdOf(a[i]) = PluginId(comps[i])
  <2> DEFINE x == d.components[i]
  <2>1. IsComponent(x)
    BY <1>1, <1>10
  <2>2. a[i] = KeptComponent(x) /\ comps[i] = ComponentV1toV2(x)
    BY <1>10
  <2> HIDE DEF x
  <2>3. ComponentV2toV1(ComponentV1toV2(x)) = KeptComponent(x)
    BY <2>1, ComponentKept DEF IsComponent
  <2>4. IsPlugin(x) => IdOf(KeptComponent(x)) = IdOf(x)
    BY <2>1, KeptPlugin DEF IdOf, IsComponent
  <2> QED BY <2>1, <2>2, <2>3, <2>4, KeptIsComponent, KeptPlugin, PluginForth
<1>14. \A i \in S : Rank(S, i) \in DOMAIN b /\ b[Rank(S, i)] = a[i]
  BY <1>6, <1>8, <1>9, <1>10, <1>11, <1>13
<1>15. ASSUME NEW k \in DOMAIN b
       PROVE  IsPlugin(b[k]) \/ \E i \in S : Rank(S, i) = k
  <2>1. CASE k \in DOMAIN stay
    BY <2>1, <1>8
  <2>2. ASSUME NEW j \in DOMAIN join, R[k] = join[j]
        PROVE  IsPlugin(b[k])
    BY <2>2, <1>7, <1>11, CreatedIsStored
  <2> QED BY <2>1, <2>2, <1>9, <1>11
<1>16. S \subseteq DOMAIN a /\ DOMAIN a = DOMAIN comps
  BY <1>6, <1>10
<1> QED BY <1>1, <1>5, <1>12, <1>13, <1>14, <1>15, <1>16 DEF e, b, S, a, comps, copy, R

\* The id in a devfile of one plugin.
LEMMA OnePlugin ==
  ASSUME NEW d, IsDevfile(d), "components" \in DOMAIN d, NEW x, IsComponent(x), IsPlugin(x)
  PROVE  IdsOf([d EXCEPT !.components = <<x>>]) = {IdOf(x)}
<1> DEFINE one == <<x>>
           e == [d EXCEPT !.components = one]
<1>1. IsList(one)
  <2>1. one \in Seq({x})
    OBVIOUS
  <2> QED BY <2>1, SeqIsList
<1>2. DOMAIN one = {1} /\ one[1] = x
  OBVIOUS
<1> HIDE DEF one
<1>3. /\ e.components = one /\ e.attributes = d.attributes /\ e.projects = d.projects
      /\ e.commands = d.commands
  OBVIOUS
<1> HIDE DEF e
<1>4. IsDevfile(e)
  BY <1>1, <1>2, <1>3 DEF IsDevfile
<1>5. IdsOf(e) = {IdOf(one[i]) : i \in {j \in DOMAIN one : IsPlugin(one[j])}}
  BY <1>3, <1>4, IdsOfIs
<1>6. \A id : id \in IdsOf(e) <=> id = IdOf(x)
  BY <1>2, <1>5
<1> QED BY <1>6 DEF e, one

LEMMA KeptIds ==
  ASSUME NEW d, IsDevfile(d)
  PROVE  IsDevfile(Kept(d)) /\ IdsOf(Kept(d)) = IdsOf(d)
<1> DEFINE copy == DevfileV1toV2(d)
           same == [copy EXCEPT !.projects = copy.projects]
<1>1. Named(copy.projects)
  BY GetCopies DEF IsCopy, Named
<1>2. same = copy
  BY DEF DevfileV1toV2
<1>3. DevfileV2toV1(copy) = Kept(d)
  BY RoundTripKeeps DEF RoundTrip
<1>4. IsDevfile(DevfileV2toV1(same)) /\ IdsOf(DevfileV2toV1(same)) = IdsOf(d)
  BY <1>1, ProjectsKeepIds
<1> HIDE DEF copy, same
<1> QED BY <1>2, <1>3, <1>4

\* The key a request takes off the list is not the one it puts on it.
LEMMA KeyGone ==
  ASSUME NEW r, IsRequest(r), r.kind # "add"
  PROVE  LET gone == IF r.kind = "add" THEN {} ELSE {KeyBefore(r)}
             new == IF r.kind = "remove" THEN {} ELSE {r.after.key}
         IN  KeyBefore(r) \in gone \ new
<1>1. r.kind = "update" => r.before # r.after
  BY DEF IsRequest
<1>2. r.before \in Metadata /\ r.after \in Metadata
  BY InMetadata DEF IsRequest
<1>3. r.kind = "update" => r.before.key # r.after.key
  BY <1>1, <1>2, CatalogAssumption
<1>4. r.kind \in {"remove", "update"}
  BY DEF IsRequest, Kinds3
<1> QED BY <1>3, <1>4 DEF KeyBefore

\* What is no plugin stays where it was among what is no plugin.
LEMMA OthersStay ==
  ASSUME NEW a, IsList(a), NEW b, IsList(b), NEW S, S \subseteq DOMAIN a,
         \A i \in DOMAIN a : ~IsPlugin(a[i]) => i \in S,
         \A i \in S : Rank(S, i) \in DOMAIN b /\ b[Rank(S, i)] = a[i],
         \A k \in DOMAIN b : IsPlugin(b[k]) \/ \E i \in S : Rank(S, i) = k
  PROVE  At(b, {k \in DOMAIN b : ~IsPlugin(b[k])}) = At(a, {i \in DOMAIN a : ~IsPlugin(a[i])})
<1> DEFINE I == {i \in DOMAIN a : ~IsPlugin(a[i])}
           J == {k \in DOMAIN b : ~IsPlugin(b[k])}
           g == [i \in I |-> Rank(S, i)]
<1>1. I \subseteq S /\ I \subseteq DOMAIN a /\ J \subseteq DOMAIN b
  OBVIOUS
<1>2. \A i, j \in S : i < j => Rank(S, i) < Rank(S, j)
  BY ListLen, Ranks
<1>3. DOMAIN g = I /\ \A i \in I : g[i] = Rank(S, i)
  OBVIOUS
<1>4. \A i \in I : g[i] \in J /\ b[g[i]] = a[i]
  BY <1>1, <1>3
<1>5. \A k \in J : \E i \in I : g[i] = k
  <2> SUFFICES ASSUME NEW k \in J PROVE \E i \in I : g[i] = k
    OBVIOUS
  <2>1. PICK i \in S : Rank(S, i) = k
    OBVIOUS
  <2>2. a[i] = b[k] /\ i \in DOMAIN a
    BY <2>1
  <2>3. i \in I
    BY <2>2
  <2> QED BY <2>1, <2>3, <1>3
<1>6. \A i, j \in I : i < j => g[i] < g[j]
  BY <1>1, <1>2, <1>3
<1> HIDE DEF I, J, g
<1>7. At(b, J) = At(a, I)
  BY <1>1, <1>3, <1>4, <1>5, <1>6, SameAt
<1> QED BY <1>7 DEF I, J

\* A plugin call that no save has crossed.
LEMMA CallSavesOnly ==
  ASSUME Types, Fresh, NEW c \in Calls, call[c].phase = "save", call[c].since = version,
         IsRequest(call[c])
  PROVE  OnlyPlugins(call[c], Kept(devfile), DevfileV2toV1(call[c].copy))
<1> DEFINE r == call[c]
           copy == DevfileV1toV2(devfile)
           comps == copy.components
           S == Staying(comps, r.plugins)
           before == Kept(devfile)
           a == before.components
           after == DevfileV2toV1(r.copy)
           b == after.components
           gone == IF r.kind = "add" THEN {} ELSE {KeyBefore(r)}
           new == IF r.kind = "remove" THEN {} ELSE {r.after.key}
<1>1. IsDevfile(devfile)
  BY DEF Types
<1>2. r.plugins = PluginsFor(devfile, r) /\ r.copy = CopyFor(devfile, r) /\ r.kind \in Kinds3
      /\ IsList(r.plugins) /\ IsRequest(r)
  BY DEF Fresh, FreshCall, IsRequest
<1>3. IdsOf(after) = (IdsOf(devfile) \ gone) \cup new
  BY CallSaves
<1>4. IsDevfile(before) /\ IdsOf(before) = IdsOf(devfile)
  BY <1>1, KeptIds
<1>5. r.kind # "add" => KeyBefore(r) \in gone \ new
  BY <1>2, KeyGone
<1> HIDE DEF r
<1>6. r.copy = [copy EXCEPT !.components = SetPlugins(comps, r.plugins)]
  BY <1>2 DEF CopyFor
<1>7. r.plugins = NewPlugins(r.kind, KeyBefore(r), r.after.key, WorkspacePlugins(comps))
  BY <1>2 DEF PluginsFor
<1>8. /\ after = [before EXCEPT !.components = b]
      /\ IsList(comps) /\ IsList(a) /\ IsList(b) /\ DOMAIN a = DOMAIN comps
      /\ \A i \in DOMAIN a :
           /\ IsComponent(a[i])
           /\ IsPlugin(a[i]) <=> IsPluginComponent(comps[i])
           /\ IsPlugin(a[i]) => IdOf(a[i]) = PluginId(comps[i])
      /\ S \subseteq DOMAIN a
      /\ \A i \in S : Rank(S, i) \in DOMAIN b /\ b[Rank(S, i)] = a[i]
      /\ \A k \in DOMAIN b : IsPlugin(b[k]) \/ \E i \in S : Rank(S, i) = k
  BY <1>1, <1>2, <1>6, StoredComponents
<1>9. "components" \in DOMAIN before
  BY DEF Kept
<1> HIDE DEF copy, comps, before, a, after, b, gone, new
<1>10. \A i \in DOMAIN a : ~IsPlugin(a[i]) => i \in S
  BY <1>8 DEF S, Staying, Ids
<1>11. ASSUME NEW i \in DOMAIN a, IsPlugin(a[i]), IdOf(a[i]) \notin gone \ new
       PROVE  i \in S
  <2>1. IsPluginComponent(comps[i]) /\ i \in DOMAIN comps
        /\ (r.kind # "add" => PluginId(comps[i]) # KeyBefore(r))
    BY <1>5, <1>8, <1>11
  <2> QED BY <2>1, <1>2, <1>7, <1>8, PluginStays DEF S
<1> HIDE DEF S
<1>12. At(b, {k \in DOMAIN b : ~IsPlugin(b[k])}) = At(a, {i \in DOMAIN a : ~IsPlugin(a[i])})
  BY <1>8, <1>10, OthersStay
<1>13. ASSUME NEW x \in Range(a), IsPlugin(x),
              IdsOf([before EXCEPT !.components = <<x>>]) \cap (gone \ new) = {}
       PROVE  x \in Range(b)
  <2>1. PICK i \in DOMAIN a : a[i] = x
    BY DEF Range
  <2>2. IdsOf([before EXCEPT !.components = <<x>>]) = {IdOf(x)}
    BY <2>1, <1>4, <1>8, <1>9, <1>13, OnePlugin
  <2>3. i \in S
    BY <2>1, <2>2, <1>11, <1>13
  <2> QED BY <2>1, <2>3, <1>8 DEF Range
<1> QED
  BY <1>3, <1>4, <1>8, <1>12, <1>13
     DEF OnlyPlugins, r, a, b, gone, new, before, after

\* Only updateDevfile brings a call from its save to its answer.
LEMMA CallSaved ==
  ASSUME Types, Next, NEW c \in Calls, call[c].phase = "save", call'[c].phase = "answer"
  PROVE  UpdateDevfile(c)
<1>0. CallsTyped /\ Idle.phase = "idle" /\ call[c].phase # "answer" /\ call[c] # Idle
  BY DEF Types, Idle
<1>1. ASSUME NEW d \in Calls, NEW r, call' = [call EXCEPT ![d] = r], r.phase # "answer"
      PROVE  FALSE
  <2>1. call'[c] = r \/ call'[c] = call[c]
    BY <1>0, <1>1 DEF CallsTyped
  <2> QED BY <2>1, <1>0, <1>1
<1>2. ASSUME call' = call PROVE FALSE
  BY <1>0, <1>2
<1>3. ASSUME NEW d \in Calls, NEW p, NEW kind, NEW before, NEW after, NEW shown,
             Start(d, p, kind, before, after, shown)
      PROVE  FALSE
  <2> DEFINE r == [phase |-> "list", kind |-> kind, plugin |-> p, before |-> before,
                   after |-> after, previous |-> item[p].status, shown |-> TRUE]
  <2>1. call' = [call EXCEPT ![d] = r] /\ r.phase = "list"
    BY <1>3 DEF Start
  <2> HIDE DEF r
  <2> QED BY <2>1, <1>1
<1>4. ASSUME NEW d \in Calls, NEW p \in Plugins, InstallPlugin(d, p) \/ RemovePlugin(d, p)
      PROVE  FALSE
  <2>1. \E kind, shown : Start(d, p, kind, item[p].version, item[p].version, shown)
    BY <1>4 DEF InstallPlugin, RemovePlugin
  <2> QED BY <2>1, <1>3
<1>5. ASSUME NEW d \in Calls, NEW p \in Plugins, NEW metadata \in Range(Catalog[p]),
             VersionChanged(d, p, metadata)
      PROVE  FALSE
  <2>1. \/ \E shown : Start(d, p, "update", item[p].version, metadata, shown)
        \/ call' = call
    BY <1>5 DEF VersionChanged, backend
  <2> QED BY <2>1, <1>3, <1>2
<1>6. ASSUME Filter PROVE FALSE
  BY <1>6, <1>2 DEF Filter, backend
<1>7. ASSUME Remount PROVE FALSE
  <2>1. \/ call[c] = Idle
        \/ call'[c].phase = call[c].phase
    BY <1>7, RemountStep DEF Types
  <2> QED BY <2>1, <1>0
<1>8. ASSUME NEW d \in Calls, ListPlugins(d) \/ SetWorkspacePlugins(d)
      PROVE  FALSE
  <2>1. call' = [call EXCEPT ![d] = call'[d]] /\ call'[d].phase # "answer"
    BY <1>8, ListStep, SetStep DEF Continues, Types
  <2> QED BY <2>1, <1>1
<1>9. ASSUME NEW d \in Calls, UpdateDevfile(d), d # c PROVE FALSE
  <2>1. call' = [call EXCEPT ![d] = call'[d]]
    BY <1>9, SaveStep DEF Continues, Types
  <2>2. call'[c] = call[c]
    BY <2>1, <1>0, <1>9 DEF CallsTyped
  <2> QED BY <2>2, <1>0
<1>10. ASSUME NEW d \in Calls, Succeed(d) \/ Fail(d) PROVE FALSE
  <2>1. call' = [call EXCEPT ![d] = Idle]
    BY <1>10 DEF Succeed, Fail
  <2> QED BY <2>1, <1>0, <1>1
<1>11. ASSUME (\E change \in Changes : Noticed(change)) \/ GetDevfile \/ SaveProjects \/ JobFails
       PROVE  FALSE
  BY <1>11, <1>2 DEF Noticed, GetDevfile, SaveProjects, JobFails, view, backend
<1> QED BY <1>4, <1>5, <1>6, <1>7, <1>8, <1>9, <1>10, <1>11 DEF Next

\* Only the chain's save ends a job with a new version.
LEMMA JobSaved ==
  ASSUME Next, job # Idle, job' = Idle, version' # version
  PROVE  SaveProjects
<1>1. ASSUME NEW c \in Calls, NEW p \in Plugins,
             \/ InstallPlugin(c, p) \/ RemovePlugin(c, p)
             \/ \E metadata \in Range(Catalog[p]) : VersionChanged(c, p, metadata)
      PROVE  FALSE
  BY <1>1 DEF InstallPlugin, RemovePlugin, VersionChanged, Start
<1>2. ASSUME Filter \/ Remount PROVE FALSE
  BY <1>2 DEF Filter, Remount
<1>3. ASSUME NEW c \in Calls,
             ListPlugins(c) \/ SetWorkspacePlugins(c) \/ Succeed(c) \/ Fail(c)
      PROVE  FALSE
  BY <1>3 DEF ListPlugins, SetWorkspacePlugins, Succeed, Fail
<1>4. ASSUME NEW c \in Calls, UpdateDevfile(c) PROVE FALSE
  BY <1>4 DEF UpdateDevfile, workspacePlugin
<1>5. ASSUME (\E change \in Changes : Noticed(change)) \/ GetDevfile \/ JobFails PROVE FALSE
  BY <1>5 DEF Noticed, GetDevfile, JobFails
<1> QED BY <1>1, <1>2, <1>3, <1>4, <1>5 DEF Next

\* A project change that no save has crossed.
LEMMA ChainSavesOnly ==
  ASSUME Types, Fresh, Distinct, SaveProjects, version' # version, job.since = version
  PROVE  OnlyProject(Head(chain), Kept(devfile), devfile')
<1> DEFINE change == Head(chain)
           before == Kept(devfile)
           d == devfile.projects
           a == before.projects
           b == devfile'.projects
           copy == DevfileV1toV2(devfile)
           projects == ProjectsOf(change, copy.projects)
<1>1. /\ chain # <<>>
      /\ devfile' = DevfileV2toV1([copy EXCEPT !.projects = projects])
  BY SaveProjectsStep
<1>2. /\ IsList(d) /\ \A i \in DOMAIN d : IsProject(d[i])
      /\ copy.projects = Each(d, ProjectV1toV2) /\ "projects" \in DOMAIN copy
      /\ DistinctPaths(d)
  BY InDevfile DEF Types, Distinct
<1>3. change \in Changes
  BY <1>1, HeadChange DEF Types
<1>4. change.kind \in {"update", "delete"} /\ IsList(change.path) /\ change.path # <<>>
  BY <1>3, ChangesAssumption
<1>5. devfile' = [before EXCEPT !.projects = b]
  <2>1. DevfileV2toV1(copy) = before
    BY RoundTripKeeps DEF RoundTrip, Types
  <2>2. DevfileV2toV1([copy EXCEPT !.projects = projects])
          = [DevfileV2toV1(copy) EXCEPT !.projects = Each(projects, ProjectV2toV1)]
    BY DEF DevfileV1toV2, DevfileV2toV1
  <2>3. devfile' = [before EXCEPT !.projects = Each(projects, ProjectV2toV1)]
    BY <1>1, <2>1, <2>2
  <2>4. "projects" \in DOMAIN before
    BY DEF Kept
  <2> HIDE DEF before, projects
  <2>5. devfile'.projects = Each(projects, ProjectV2toV1)
    BY <2>3, <2>4
  <2> QED BY <2>3, <2>5
<1>6. b = Each(projects, ProjectV2toV1)
  BY <1>1, <1>2 DEF DevfileV2toV1
<1>7. a = Each(d, KeptProject)
  BY DEF Kept
<1> HIDE DEF change, before, d, a, copy
<1>8. FollowsOn(d, b, change)
  BY <1>2, <1>4, <1>6, UpdateFollows, DeleteFollows DEF ProjectsOf
<1> HIDE DEF b
<1>9. Recorded(devfile', change)
  BY <1>8, SettledIsRecorded DEF FollowsOn, b
<1>10. DOMAIN a = DOMAIN d /\ \A j \in DOMAIN d : /\ a[j] = KeptProject(d[j])
                                                  /\ PathOf(a[j]) = PathOf(d[j])
  BY <1>2, <1>7, PathKept DEF Each
<1>11. \A p : p \in Range(b) /\ PathOf(p) # change.path
                <=> p \in Range(a) /\ PathOf(p) # change.path
  <2>1. ASSUME NEW i \in DOMAIN b, PathOf(b[i]) # change.path
        PROVE  \E j \in DOMAIN a : a[j] = b[i]
    BY <2>1, <1>8, <1>10 DEF FollowsOn
  <2>2. ASSUME NEW j \in DOMAIN a, PathOf(a[j]) # change.path
        PROVE  \E i \in DOMAIN b : b[i] = a[j]
    BY <2>2, <1>8, <1>10 DEF FollowsOn
  <2> QED BY <2>1, <2>2 DEF Range
<1>12. Range(b) \ At_(devfile', change.path) = Range(a) \ At_(before, change.path)
  <2>1. /\ \A p : p \in At_(devfile', change.path) <=> p \in Range(b) /\ PathOf(p) = change.path
        /\ \A p : p \in At_(before, change.path) <=> p \in Range(a) /\ PathOf(p) = change.path
    BY DEF At_, a, b
  <2> QED BY <2>1, <1>11
<1> QED BY <1>5, <1>9, <1>12 DEF OnlyProject, change, before, a, b

\* Unless another save landed since it began to read, a plugin call's save
\* (setWorkspacePlugins) changes that call's plugin only, and a project change's
\* (updateProject, deleteProject) that project only, whatever else a devfile has.
THEOREM SavesOne == Spec => SavesOneThing
<1> DEFINE IInv == Types /\ Fresh /\ Distinct
           CallsOnly == \A c \in Calls :
             call[c].phase = "save" /\ call'[c].phase = "answer" /\ call[c].since = version
               => OnlyPlugins(call[c], Kept(devfile), devfile')
           ChainOnly ==
             job # Idle /\ job' = Idle /\ version' # version /\ job.since = version
               => OnlyProject(Head(chain), Kept(devfile), devfile')
<1>1. Init => IInv
  BY InitTypes, InitFresh, InitDistinct
<1>2. IInv /\ [Next]_vars => IInv'
  BY NextTypes, NextFresh, NextDistinct
<1>3. ASSUME IInv, Next PROVE CallsOnly
  <2> SUFFICES ASSUME NEW c \in Calls, call[c].phase = "save", call'[c].phase = "answer",
                      call[c].since = version
               PROVE  OnlyPlugins(call[c], Kept(devfile), devfile')
    OBVIOUS
  <2>1. UpdateDevfile(c)
    BY <1>3, CallSaved
  <2>2. devfile' = DevfileV2toV1(call[c].copy)
    BY <2>1 DEF UpdateDevfile, Save
  <2>3. IsRequest(call[c])
    BY <1>3 DEF Types, CallsTyped, Idle
  <2>4. OnlyPlugins(call[c], Kept(devfile), DevfileV2toV1(call[c].copy))
    BY <1>3, <2>3, CallSavesOnly
  <2> QED BY <2>2, <2>4
<1>4. ASSUME IInv, Next PROVE ChainOnly
  BY <1>4, JobSaved, ChainSavesOnly
<1>5. IInv /\ [Next]_vars => [CallsOnly /\ ChainOnly]_vars
  <2> HIDE DEF IInv, CallsOnly, ChainOnly
  <2> QED BY <1>3, <1>4
<1>6. (Spec => []IInv)
  <2> HIDE DEF IInv
  <2> QED BY <1>1, <1>2, PTL DEF Spec
<1>7. Spec => [][CallsOnly /\ ChainOnly]_vars
  <2> HIDE DEF IInv, CallsOnly, ChainOnly
  <2> QED BY <1>5, <1>6, PTL DEF Spec
<1> QED BY <1>7, PTL DEF SavesOneThing

=============================================================================
