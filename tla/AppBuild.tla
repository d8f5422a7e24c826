------------------------------ MODULE AppBuild ------------------------------
(***************************************************************************)
(* langquail.AppBuilder (src/app.go): one caller that builds a workflow    *)
(* graph, gives things to an application builder and builds applications,  *)
(* in any order and again.  The caller keeps what it gave: its graph, its  *)
(* skill registry and the builder, and may go on changing them, and it     *)
(* keeps every application it built.                                       *)
(***************************************************************************)
EXTENDS GraphBuild, Skills

CONSTANTS
  Providers,   \* model providers, by name; Empty stands for nil or no name
  Tools,       \* tools, [name, body]; the name may be Empty
  Packages,    \* bound: skills the caller registers itself, [id, resources]
  Paths,       \* bound: the paths the caller names
  PromptDirs,  \* bound: whether the prompt directory named "loads" or is "broken"
  Adjusters,   \* what is given as adjuster: the interfaces it implements
  MaxApps,     \* bound: applications that are built
  MaxGraphCalls,  \* bound: the calls of a caller that only builds its graph
  MaxCalls        \* bound: the calls of a caller that uses the builder too

ASSUME CallsAssumption == MaxApps \in Nat /\ MaxGraphCalls \in Nat /\ MaxCalls \in Nat
ASSUME PathsAssumption == Paths \ {""} \subseteq DOMAIN Disk

VARIABLES
  builder,     \* the AppBuilder
  registries,  \* the skill registries there are, the caller's own first
  apps,        \* the Apps that were built, in order
  calls        \* calls made, for the bound; an identifier left out is one

appVars == <<graphVars, builder, registries, apps, calls>>

(* Builder and App refer to a registry by its place, Nil is no registry.   *)
Nil == 0
Callers == 1

(* New, with a project identifier or an empty one.                         *)
NewBuilder(identified) ==
  [project |-> identified, providers |-> <<>>, promptDir |-> "none", skillDirs |-> <<>>, skills |-> Nil,
   tools |-> <<>>, workflows |-> <<>>, adjuster |-> {"none"}]

AppInit ==
  /\ GraphInit
  /\ \E identified \in BOOLEAN : builder = NewBuilder(identified)
  /\ registries = << <<>> >>
  /\ apps = <<>>
  /\ calls = (IF named THEN 0 ELSE 1) + (IF builder.project THEN 0 ELSE 1)

-----------------------------------------------------------------------------
(* The builder takes everything; Build looks at it.                        *)
Give(field, value) ==
  /\ builder' = [builder EXCEPT ![field] = value]
  /\ UNCHANGED <<graphVars, registries, apps>>

GiveProvider(p) == Give("providers", Append(builder.providers, p))
GivePrompts(dir) == Give("promptDir", dir)
GiveSkillDir(path) == Give("skillDirs", Append(builder.skillDirs, path))
GiveSkillRegistry(r) == Give("skills", r)
GiveTool(t) == Give("tools", Append(builder.tools, t))
GiveWorkflow(w) == Give("workflows", Append(builder.workflows, w))
GiveAdjuster(a) == Give("adjuster", a)

(* skill.Registry.Register, called by the caller on its own registry.      *)
RegisterSkill(skill) ==
  /\ registries' = IF skill.id # "" /\ Distinct(Append(registries[Callers], skill))
                   THEN [registries EXCEPT ![Callers] = Append(@, skill)]
                   ELSE registries
  /\ UNCHANGED <<graphVars, builder, apps>>

-----------------------------------------------------------------------------
(* Build                                                                   *)

(* llm.NewProviderSet of RegisterProvider of each.                         *)
ProvidersGood == \A i, j \in DOMAIN builder.providers :
  /\ builder.providers[i] # Empty
  /\ builder.providers[i] = builder.providers[j] => i = j

(* tool.Registry.Register of each: a second tool of a name is refused.     *)
ToolsNamed == \A i \in DOMAIN builder.tools : builder.tools[i].name # Empty  \* mutant of ToolsGood
ToolsGood == \A i, j \in DOMAIN builder.tools :
  /\ builder.tools[i].name # Empty
  /\ builder.tools[i].name = builder.tools[j].name => i = j

(* A registry maps a name to the tool registered last.                     *)
ToolsRegistered ==
  {builder.tools[i] : i \in {k \in DOMAIN builder.tools :
     \A j \in DOMAIN builder.tools : builder.tools[j].name = builder.tools[k].name => j <= k}}

(* The workflows are the caller's graph, another one, one without an       *)
(* identifier and nil.                                                     *)
Workflows == {"graph", "other", "unnamed", "nil"}
WorkflowsGood == \A i, j \in DOMAIN builder.workflows :
  /\ builder.workflows[i] \notin {"nil", "unnamed"}
  /\ builder.workflows[i] = builder.workflows[j] => i = j
  /\ builder.workflows[i] = "graph" => Valid

(* buildSkillRegistry: a new registry with what both hold now, or none.    *)
SkillsTogether ==
  (IF builder.skills = Callers THEN registries[Callers] ELSE <<>>) \o LoadRoots(builder.skillDirs)
SkillsGood == LoadsRoots(builder.skillDirs) /\ Distinct(SkillsTogether)
SharedRegistry ==  \* mutant of SkillRegistry: nothing to add, so the caller's is used
  IF builder.skillDirs = <<>> THEN builder.skills ELSE Len(registries) + 1
SkillRegistry ==
  IF builder.skills = Nil /\ builder.skillDirs = <<>> THEN Nil ELSE Len(registries) + 1

BuildSucceeds ==
  /\ builder.project
  /\ ProvidersGood /\ builder.promptDir # "broken" /\ SkillsGood /\ ToolsGood
  /\ builder.adjuster # {} /\ WorkflowsGood

NewApp ==
  [providers |-> Elements(builder.providers),
   prompts |-> builder.promptDir # "none",
   skills |-> SkillRegistry,
   tools |-> ToolsRegistered,
   workflows |-> builder.workflows,
   adjusters |-> builder.adjuster \ {"none"}]

BuildKeeping ==  \* mutant of Build: the builder goes on filling the registry it made first
  /\ Len(apps) < MaxApps
  /\ UNCHANGED <<graphVars, builder>>
  /\ IF BuildSucceeds
     THEN /\ apps' = Append(apps, [NewApp EXCEPT !.skills = IF @ = Nil THEN Nil ELSE 2])
          /\ registries' = IF apps = <<>> THEN Append(registries, SkillsTogether)
                           ELSE [registries EXCEPT ![2] = SkillsTogether]
     ELSE UNCHANGED <<apps, registries>>

Build ==
  /\ Len(apps) < MaxApps
  /\ UNCHANGED <<graphVars, builder>>
  /\ IF BuildSucceeds
     THEN /\ apps' = Append(apps, NewApp)
          /\ registries' = Append(registries, SkillsTogether)
     ELSE UNCHANGED <<apps, registries>>

-----------------------------------------------------------------------------
Call ==
  \/ GraphNext /\ UNCHANGED <<builder, registries, apps>>
  \/ \E p \in Providers \cup {Empty} : GiveProvider(p)
  \/ \E dir \in PromptDirs : GivePrompts(dir)
  \/ \E path \in Paths : GiveSkillDir(path)
  \/ \E r \in {Nil, Callers} : GiveSkillRegistry(r)
  \/ \E t \in Tools : GiveTool(t)
  \/ \E w \in Workflows : GiveWorkflow(w)
  \/ \E a \in Adjusters : GiveAdjuster(a)
  \/ \E skill \in Packages : RegisterSkill(skill)
  \/ Build

Apart == builder = NewBuilder(TRUE) /\ registries = << <<>> >> /\ apps = <<>>
AppNext ==
  /\ calls < IF Apart THEN MaxGraphCalls ELSE MaxCalls
  /\ calls' = calls + 1
  /\ Call

AppSpec == AppInit /\ [][AppNext]_appVars

-----------------------------------------------------------------------------
(* Properties                                                              *)

(* The skills of an application, as the registries stand.                  *)
AppSkills(a, r) == IF a.skills = Nil THEN <<>> ELSE r[a.skills]

(* A built application does not change: whatever the caller does with the  *)
(* builder and the skill registry it gave, and through every later Build,  *)
(* one that fails and one that succeeds, every application that was built  *)
(* offers to its runs and its clients what it was built from.  (A workflow *)
(* is the caller's graph itself, and the registry that App.SkillRegistry   *)
(* hands out is the application's own: neither is copied.)                 *)
BuiltAppFrozen ==
  [][\A k \in DOMAIN apps :
       /\ k \in DOMAIN apps' /\ apps'[k] = apps[k]
       /\ AppSkills(apps'[k], registries') = AppSkills(apps[k], registries)]_appVars

(* What a new application offers is all that was given.                    *)
NothingLost(app) ==
  /\ app.tools = Elements(builder.tools) /\ Cardinality(app.tools) = Len(builder.tools)
  /\ Cardinality({t.name : t \in app.tools}) = Cardinality(app.tools)
  /\ Cardinality(app.providers) = Len(builder.providers)
  /\ Cardinality(Elements(app.workflows)) = Len(builder.workflows)
  /\ LET skills == AppSkills(app, registries')
     IN /\ Distinct(skills)
        /\ builder.skills = Callers => Elements(registries[Callers]) \subseteq Elements(skills)
        /\ \A path \in Elements(Roots(builder.skillDirs)) : \A d \in Elements(Found(path)) :
             \E s \in Elements(skills) : s.id = d.package.name
               /\ {e \in d.package.entries : e.type = "file"} \subseteq s.resources
        /\ \A s \in Elements(skills) :
             \/ \A e \in s.resources : e.type = "link" => e.to = "file" /\ e.place # "outside"
             \/ builder.skills = Callers /\ s \in Elements(registries[Callers])

(* No provider, tool, workflow or skill that was added to the builder is   *)
(* dropped or replaced by another of the same name, and a skill exposes    *)
(* every regular file of its package and nothing outside of it, but for    *)
(* what a skill of the caller's own registry says of itself: what cannot   *)
(* be so refuses the application.  (Of the prompt directory, the skill     *)
(* registry and the adjuster the builder keeps one: given again, the last  *)
(* replaces the one before without a word.)                                *)
BuildComplete == [][Len(apps') > Len(apps) => NothingLost(apps'[Len(apps')])]_appVars
=============================================================================
