-------------------------- MODULE DevfileConversion --------------------------
(***************************************************************************)
(* The two conversions of CheServerDevfileServiceImpl.  The Che server     *)
(* stores a devfile of version 1, the editor and its plugins work on one   *)
(* of version 2: get() converts what the server has, updateDevfile()       *)
(* converts it back and stores it.  Every save is therefore a round trip   *)
(* of the WHOLE devfile, whatever the caller wanted to change.             *)
(*                                                                         *)
(* An object is a function from the names of the fields it has.  The code  *)
(* copies a field `if (x.f)`: a field holding an empty value is dropped as *)
(* an absent one, and is an absent one here.  Two values keep their empty  *)
(* string, those the code compares with undefined (an environment          *)
(* variable's name and value).  An absent list and an empty one are the    *)
(* same <<>> at the top of a devfile (`|| []`, deleted again when empty).  *)
(***************************************************************************)
EXTENDS Naturals, Sequences, FiniteSets

CONSTANT Namespace   \* the workspace's infrastructure namespace

Empty == [f \in {} |-> {}]

Field(f, value) == [x \in {f} |-> value]

\* An object with the fields of both: a's own, and b's others.
a ++ b == [f \in DOMAIN a \cup DOMAIN b |-> IF f \in DOMAIN a THEN a[f] ELSE b[f]]

\* `if (from.g) { to.f = from.g }` for every f |-> g in names.
Copied(from, names) ==
  [f \in {g \in DOMAIN names : names[g] \in DOMAIN from} |-> from[names[f]]]

Same(names) == [f \in names |-> f]

Without(object, names) == [f \in DOMAIN object \ names |-> object[f]]

Each(list, Op(_)) == [i \in DOMAIN list |-> Op(list[i])]

\* A list that may be undefined, converted and stored under another name.
List(from, g, f, Op(_)) ==
  IF g \in DOMAIN from THEN Field(f, Each(from[g], Op)) ELSE Empty

NameField == "metadata-name-field"

-----------------------------------------------------------------------------
(* What the conversions rely on: the schema of version 1 that the Che server *)
(* holds a devfile to when it is stored                                      *)

IsObject(o) == o = [f \in DOMAIN o |-> o[f]]

IsList(list) == list \in Seq({list[i] : i \in DOMAIN list})

IsEndpoint(endpoint) ==
  "attributes" \in DOMAIN endpoint => IsObject(endpoint.attributes)

HasEndpoints(component) ==
  "endpoints" \in DOMAIN component =>
    \A i \in DOMAIN component.endpoints : IsEndpoint(component.endpoints[i])

IsPlugin(component) ==
  "type" \in DOMAIN component /\ component.type \in {"chePlugin", "cheEditor"}

\* A plugin is named by its id or by a reference to its description.
IsComponent(component) ==
  /\ HasEndpoints(component)
  /\ IsPlugin(component) => "id" \in DOMAIN component \/ "reference" \in DOMAIN component

\* A command with actions has one at least, and it has a type.
IsCommand(command) ==
  "actions" \in DOMAIN command => "type" \in DOMAIN Head(command.actions)

\* A project has a name, its source a type and a location.
IsProject(project) ==
  /\ "name" \in DOMAIN project /\ DOMAIN project \subseteq {"name", "clonePath", "source"}
  /\ "source" \in DOMAIN project => {"type", "location"} \subseteq DOMAIN project.source

\* The attribute that says where a name came from is version 2's own.
IsDevfile(devfile) ==
  /\ NameField \notin DOMAIN devfile.attributes
  /\ IsList(devfile.projects) /\ IsList(devfile.components)
  /\ \A i \in DOMAIN devfile.projects : IsProject(devfile.projects[i])
  /\ \A i \in DOMAIN devfile.components : IsComponent(devfile.components[i])
  /\ \A i \in DOMAIN devfile.commands : IsCommand(devfile.commands[i])

-----------------------------------------------------------------------------
(* The parts of a component *)

VolumeV1toV2(volume) ==
  Copied(volume, [name |-> "name", path |-> "containerPath"])

VolumeV2toV1(volume) ==
  Copied(volume, [name |-> "name", containerPath |-> "path"])

EndpointV1toV2(endpoint) ==
  LET Main(attributes) == [a \in DOMAIN attributes |->
                             IF a = "type" /\ attributes[a] = "ide"
                             THEN "main" ELSE attributes[a]]
  IN  Copied(endpoint, [name |-> "name", targetPort |-> "port"])
        ++ (IF "attributes" \in DOMAIN endpoint
            THEN [attributes |-> Main(endpoint.attributes)] ELSE Empty)
        ++ (IF /\ "attributes" \in DOMAIN endpoint
               /\ "public" \in DOMAIN endpoint.attributes
               /\ endpoint.attributes["public"] = "false"
            THEN [exposure |-> "internal"] ELSE Empty)

\* The test of `endpoint.exposure` looks at the object being built, which
\* never has one: the exposure of the V2 endpoint itself is not read.
EndpointV2toV1(endpoint) ==
  Copied(endpoint, [name |-> "name", port |-> "targetPort",
                    attributes |-> "attributes"])

EnvV1toV2(env) == Copied(env, Same({"name", "value"}))

\* Variant: `if (env.value)`, as the other conversions test their fields.
TruthyEnv(env) ==
  Copied(env, Same({f \in {"name", "value"} : f \in DOMAIN env /\ env[f] # ""}))

EnvV2toV1(env) == Copied(env, Same({"name", "value"}))

ListsV1toV2(component) ==
  List(component, "env", "env", EnvV1toV2)
    ++ List(component, "volumes", "volumeMounts", VolumeV1toV2)
    ++ List(component, "endpoints", "endpoints", EndpointV1toV2)

ListsV2toV1(part) ==
  List(part, "env", "env", EnvV2toV1)
    ++ List(part, "volumeMounts", "volumes", VolumeV2toV1)
    ++ List(part, "endpoints", "endpoints", EndpointV2toV1)

-----------------------------------------------------------------------------
(* Components, commands, projects, metadata *)

Limits == Same({"cpuLimit", "cpuRequest", "memoryLimit", "memoryRequest"})

ContainerFields == Limits ++ Same({"image", "command", "args", "mountSources"})

\* The plugin part, by its V2 names.  mountSources goes one way only.
PluginFields ==
  Limits ++ Same({"id", "preferences", "registryUrl"}) ++ [url |-> "reference"]

PluginFieldsBack ==
  Limits ++ Same({"id", "preferences", "registryUrl", "mountSources"})
    ++ [reference |-> "url"]

\* JSON.stringify of the whole component, `inlined`, is the component itself:
\* what a definition converts is the objects, and parsing gives them back.
ComponentV1toV2(component) ==
  LET type == IF "type" \in DOMAIN component THEN component.type ELSE "none"
      part == ListsV1toV2(component)
  IN  Copied(component, [name |-> "alias"])
        ++ (CASE type = "dockerimage" ->
                   [container |-> Copied(component, ContainerFields) ++ part]
              [] type \in {"chePlugin", "cheEditor"} ->
                   [plugin |-> Copied(component, PluginFields) ++ part,
                    attributes |-> Field("source-origin", type)]
              [] type = "kubernetes" -> [kubernetes |-> [inlined |-> component]]
              [] type = "openshift" -> [openshift |-> [inlined |-> component]]
              [] OTHER -> Empty)

ComponentV2toV1(component) ==
  LET has(part) == part \in DOMAIN component
      origin == IF has("attributes") /\ "source-origin" \in DOMAIN component.attributes
                THEN component.attributes["source-origin"] ELSE "chePlugin"
      alias == Copied(component, [alias |-> "name"])
  IN  IF has("kubernetes") THEN component.kubernetes.inlined
      ELSE IF has("openshift") THEN component.openshift.inlined
      ELSE IF has("plugin")
      THEN [type |-> origin] ++ alias
             ++ Copied(component.plugin, PluginFieldsBack)
             ++ ListsV2toV1(component.plugin)
      ELSE IF has("container")
      THEN [type |-> "dockerimage"] ++ alias
             ++ Copied(component.container, ContainerFields)
             ++ ListsV2toV1(component.container)
      ELSE Empty

\* A command has one action in V2: the first of the V1 list, if its type is
\* one of three.  (The Che server accepts no empty list of actions.)
CommandV1toV2(command) ==
  LET action == IF "actions" \in DOMAIN command
                THEN Head(command.actions) ELSE [type |-> "none"]
      inline == Copied(action, [inline |-> "referenceContent"])
  IN  Copied(command, [id |-> "name"])
        ++ (CASE action.type = "exec" ->
                   [exec |-> Copied(action, [commandLine |-> "command",
                                             component |-> "component",
                                             workingDir |-> "workdir"])]
              [] action.type = "vscode-launch" -> [vscodeLaunch |-> inline]
              [] action.type = "vscode-task" -> [vscodeTask |-> inline]
              [] OTHER -> Empty)

CommandV2toV1(command) ==
  LET Action(type, part, names) ==
        [actions |-> <<[type |-> type] ++ Copied(command[part], names)>>]
      content == [referenceContent |-> "inline"]
  IN  Copied(command, [name |-> "id"])
        ++ (CASE "exec" \in DOMAIN command ->
                   Action("exec", "exec", [command |-> "commandLine",
                                           component |-> "component",
                                           workdir |-> "workingDir"])
              [] "vscodeLaunch" \in DOMAIN command ->
                   Action("vscode-launch", "vscodeLaunch", content)
              [] "vscodeTask" \in DOMAIN command ->
                   Action("vscode-task", "vscodeTask", content)
              [] OTHER -> Empty)

\* The kinds of revision a V1 source can name, in the order they are looked at.
RevisionKinds == <<"branch", "commitId", "startPoint", "tag">>

ProjectV1toV2(project) ==
  LET named == IF "name" \in DOMAIN project THEN project.name ELSE "unknown"
      source == IF "source" \in DOMAIN project THEN project.source ELSE Empty
      type == IF "type" \in DOMAIN source THEN source.type ELSE "none"
      location == IF "location" \in DOMAIN source THEN source.location ELSE ""
      present == {i \in DOMAIN RevisionKinds : RevisionKinds[i] \in DOMAIN source}
      kind == RevisionKinds[CHOOSE i \in present : \A j \in present : i <= j]
      isGit == type \in {"git", "github"}
      pinned == isGit /\ present # {}
      checkout == IF pinned THEN [checkoutFrom |-> [revision |-> source[kind]]]
                  ELSE Empty
  IN  [name |-> named,
       attributes |-> IF pinned THEN Field("source-origin", kind) ELSE Empty]
        ++ Copied(project, Same({"clonePath"}))
        ++ (IF "sparseCheckoutDir" \in DOMAIN source
            THEN [sparseCheckoutDirs |-> <<source.sparseCheckoutDir>>] ELSE Empty)
        ++ (IF isGit THEN [git |-> [remotes |-> [origin |-> location]] ++ checkout]
            ELSE IF type = "zip" THEN [zip |-> [location |-> location]] ELSE Empty)

\* Only one remote survives: the first key of `remotes`.  Every writer here
\* leaves the single `origin` that ProjectV1toV2 or a new project has.
SourceOf(project) ==
  LET git == project.git
      origin == IF /\ "attributes" \in DOMAIN project
                   /\ "source-origin" \in DOMAIN project.attributes
                THEN project.attributes["source-origin"] ELSE "startPoint"
  IN  [type |-> "git", location |-> git.remotes.origin]
        ++ (IF "checkoutFrom" \in DOMAIN git
            THEN Field(origin, git.checkoutFrom.revision) ELSE Empty)

ProjectV2toV1(project) ==
  Copied(project, Same({"name", "clonePath"}))
    ++ (IF "git" \in DOMAIN project THEN [source |-> SourceOf(project)]
        ELSE IF "zip" \in DOMAIN project
        THEN [source |-> [type |-> "zip", location |-> project.zip.location]]
        ELSE Empty)

InfrastructureNamespace == "infrastructureNamespace"

\* A name wins over a generateName; which one it was goes to an attribute.
MetadataV1toV2(metadata) ==
  LET given == DOMAIN metadata \cap {"name", "generateName"}
      field == IF "name" \in given THEN "name" ELSE "generateName"
      namespace == Field(InfrastructureNamespace, Namespace)
  IN  IF given = {} THEN [attributes |-> namespace]
      ELSE [name |-> metadata[field],
            attributes |-> Field(NameField, field) ++ namespace]

MetadataV2toV1(metadata) ==
  IF "name" \notin DOMAIN metadata THEN Empty
  ELSE IF NameField \in DOMAIN metadata.attributes
          /\ metadata.attributes[NameField] = "name"
  THEN [name |-> metadata.name]
  ELSE [generateName |-> metadata.name]

-----------------------------------------------------------------------------
(* The devfile *)

DevfileV1toV2(devfile) ==
  LET metadata == MetadataV1toV2(devfile.metadata)
  IN  [metadata |-> [metadata EXCEPT !.attributes = devfile.attributes ++ @],
       projects |-> Each(devfile.projects, ProjectV1toV2),
       components |-> Each(devfile.components, ComponentV1toV2),
       commands |-> Each(devfile.commands, CommandV1toV2)]

\* metadataV2toMetadataV1 has deleted the name's attribute before the others
\* are copied, if there was a name.
DevfileV2toV1(devfile) ==
  LET metadata == devfile.metadata
      dropped == {InfrastructureNamespace}
                   \cup {NameField : f \in DOMAIN metadata \cap {"name"}}
  IN  [metadata |-> MetadataV2toV1(metadata),
       projects |-> Each(devfile.projects, ProjectV2toV1),
       components |-> Each(devfile.components, ComponentV2toV1),
       commands |-> Each(devfile.commands, CommandV2toV1),
       attributes |-> Without(metadata.attributes, dropped)]

\* A save that changes nothing: what is left of a devfile after one.
RoundTrip(devfile) == DevfileV2toV1(DevfileV1toV2(devfile))

-----------------------------------------------------------------------------
(* What a save keeps, said of version 1 alone *)

Restricted(object, names) ==
  Without(object, {f \in DOMAIN object : f \notin names})

KeptEndpoint(endpoint) ==
  [f \in DOMAIN endpoint \cap {"name", "port", "attributes"} |->
     IF f = "attributes" /\ "type" \in DOMAIN endpoint[f] /\ endpoint[f]["type"] = "ide"
     THEN [endpoint[f] EXCEPT !["type"] = "main"] ELSE endpoint[f]]

KeptVolume(volume) == Restricted(volume, {"name", "containerPath"})

KeptEnv(env) == Restricted(env, {"name", "value"})

KeptLists(component) ==
  [f \in DOMAIN component |->
     CASE f = "endpoints" -> Each(component[f], KeptEndpoint)
       [] f = "volumes" -> Each(component[f], KeptVolume)
       [] f = "env" -> Each(component[f], KeptEnv)
       [] OTHER -> component[f]]

CommonFields ==
  {"type", "alias", "env", "volumes", "endpoints", "cpuLimit", "cpuRequest",
   "memoryLimit", "memoryRequest"}

KeptComponent(component) ==
  LET type == IF "type" \in DOMAIN component THEN component.type ELSE "none"
  IN  CASE type \in {"kubernetes", "openshift"} -> component
        [] type = "dockerimage" ->
             KeptLists(Restricted(component, CommonFields \cup
                         {"image", "command", "args", "mountSources"}))
        [] type \in {"chePlugin", "cheEditor"} ->
             KeptLists(Restricted(component, CommonFields \cup
                         {"id", "reference", "registryUrl", "preferences"}))
        [] OTHER -> Empty

KeptAction(action) ==
  Restricted(action, {"type"} \cup
               (IF action.type = "exec" THEN {"command", "component", "workdir"}
                ELSE {"referenceContent"}))

KeptCommand(command) ==
  IF /\ "actions" \in DOMAIN command
     /\ Head(command.actions).type \in {"exec", "vscode-launch", "vscode-task"}
  THEN [Restricted(command, {"name", "actions"})
          EXCEPT !.actions = <<KeptAction(Head(@))>>]
  ELSE Restricted(command, {"name"})

\* One revision: the branch if there is one, else the commit, the start point
\* or the tag.  A github project becomes a git one.
KeptSource(source) ==
  CASE source.type = "zip" -> Restricted(source, {"type", "location"})
    [] source.type \in {"git", "github"} ->
         LET before(i) == {RevisionKinds[j] : j \in 1..(i - 1)}
             kind == {RevisionKinds[i] : i \in {j \in 1..4 :
                                           before(j) \cap DOMAIN source = {}}}
         IN  [Restricted(source, {"type", "location"} \cup kind)
                EXCEPT !.type = "git"]

KeptProject(project) ==
  [f \in DOMAIN project \ (IF "source" \in DOMAIN project
                               /\ project.source.type \in {"git", "github", "zip"}
                           THEN {} ELSE {"source"}) |->
     IF f = "source" THEN KeptSource(project.source) ELSE project[f]]

KeptMetadata(metadata) ==
  Restricted(metadata, IF "name" \in DOMAIN metadata THEN {"name"}
                       ELSE {"generateName"})

\* Endpoint types, second revisions, second actions, preview URLs, the sparse
\* checkout directory, mountSources of a plugin: all that a save drops or
\* rewrites is visible here; everything else comes back as it was.
Kept(devfile) ==
  [metadata |-> KeptMetadata(devfile.metadata),
   projects |-> Each(devfile.projects, KeptProject),
   components |-> Each(devfile.components, KeptComponent),
   commands |-> Each(devfile.commands, KeptCommand),
   attributes |-> Without(devfile.attributes, {InfrastructureNamespace})]

=============================================================================
