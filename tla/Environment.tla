----------------------------- MODULE Environment -----------------------------
(***************************************************************************)
(* The MAP_* variables of the developer's shells: scripts/                 *)
(* use-environment.ps1, which loads them from the Terraform outputs of a   *)
(* profile, and the two programs that are configured by them,              *)
(* ClientConfig.from_env of map_client and ProxyConfig.from_env of         *)
(* map_proxy.                                                              *)
(*                                                                         *)
(* Every shell has variables of its own, but the selected workspace is one *)
(* for all of them (infra/.terraform), and the script runs terraform three *)
(* times: to learn it, to switch it, and to read the outputs of whatever   *)
(* workspace is selected then.                                             *)
(*                                                                         *)
(* A value is known by where it comes from: the workspace whose output it  *)
(* is, or the developer's hand, in a form the programs accept ("typed") or *)
(* refuse ("wrong"): an http URL, "common", a port 70000, MAP_MODELS=",".  *)
(***************************************************************************)
EXTENDS FiniteSets

CONSTANTS
  Shells,
  Inherited,    \* the variables a shell may be opened with
  FlagSets,     \* the flags the proxy may be started with
  OutputSets,   \* the outputs a terraform run may leave in a workspace
  None

Profiles == {"public", "private"}
Workspaces == {"default", "private"}
WorkspaceOf(p) == IF p = "public" THEN "default" ELSE p

Outputs == {"endpoint", "model", "tenant", "audience"}

Value == Workspaces \cup {"unset", "typed", "wrong",
                          "/.default"}    \* MAP_SCOPE without an audience

Variable == {"endpoint", "model", "tenant", "scope",    \* set by the script
             "models", "port", "timeout"}               \* set by hand only

Flag == {"endpoint", "tenant", "scope", "model", "port"}

ASSUME EnvironmentAssumption ==
  /\ Inherited \subseteq [Variable -> {"unset", "typed", "wrong"}]
  /\ FlagSets \subseteq [Flag -> {"unset", "typed", "wrong"}]
  /\ OutputSets \subseteq SUBSET Outputs
  /\ None \notin Profiles

VARIABLES
  exists,       \* the workspaces there are
  selected,     \* the one terraform works on
  outputs,      \* outputs[w]: the outputs workspace w has
  env,          \* env[s]: the MAP_* variables of shell s
  pc,           \* pc[s]: the terraform call of the script s is at
  asked,        \* asked[s]: the profile the script runs for
  disturbed,    \* the shells under whose script something else selected a
                \* workspace since the script learned or selected its own
  unlearned,    \* the shells whose script did not learn the workspace and
                \* selected none
  loaded,       \* loaded[s]: the profile the script last loaded, "any" if it
                \* was disturbed or unlearned when it read the outputs
  running       \* running[s]: the configuration of the program s runs

terraformVars == <<exists, selected, outputs>>
scriptVars == <<pc, asked, disturbed, unlearned, loaded>>
vars == <<terraformVars, env, scriptVars, running>>

Config == [program: {"cli", "proxy"}, endpoint: Value, tenant: Value,
           scope: Value, model: Value, flags: SUBSET Flag]

TypeOK ==
  /\ exists \subseteq Workspaces /\ selected \in exists
  /\ outputs \in [Workspaces -> SUBSET Outputs]
  /\ env \in [Shells -> [Variable -> Value]]
  /\ pc \in [Shells -> {"prompt", "show", "select", "output"}]
  /\ asked \in [Shells -> Profiles \cup {None}]
  /\ disturbed \subseteq Shells /\ unlearned \subseteq Shells
  /\ loaded \in [Shells -> Profiles \cup {"any", None}]
  /\ running \in [Shells -> Config \cup {None}]

Init ==
  /\ exists \in {{"default"}, Workspaces} /\ selected \in exists
  /\ outputs \in [Workspaces -> OutputSets]
  /\ "private" \notin exists => outputs["private"] = {}
  /\ env \in [Shells -> Inherited]
  /\ pc = [s \in Shells |-> "prompt"]
  /\ asked = [s \in Shells |-> None]
  /\ disturbed = {} /\ unlearned = {}
  /\ loaded = [s \in Shells |-> None]
  /\ running = [s \in Shells |-> None]

-----------------------------------------------------------------------------
(* use-environment.ps1, dot-sourced at the prompt of s. *)

Idle(s) == pc[s] = "prompt" /\ running[s] = None

(* Selecting w matters to those who know the workspace and have yet to     *)
(* read its outputs.                                                       *)
SelectFor(S, w) ==
  /\ selected' = w
  /\ disturbed' =
       (disturbed \ S) \cup {s \in Shells \ S : pc[s] = "output" /\ s \notin unlearned}

Use(s, p) ==
  /\ Idle(s)
  /\ asked' = [asked EXCEPT ![s] = p]
  /\ pc' = [pc EXCEPT ![s] = "show"]
  /\ UNCHANGED <<terraformVars, env, disturbed, unlearned, loaded, running>>

(* Mutant of Show: the workspace is taken as it is. *)
ShowOnly(s) ==
  /\ pc[s] = "show"
  /\ pc' = [pc EXCEPT ![s] = "output"]
  /\ UNCHANGED <<terraformVars, env, asked, disturbed, unlearned, loaded, running>>

(* terraform workspace show. If that prints nothing the script selects no  *)
(* workspace and goes on to read the outputs of the selected one, the      *)
(* right one or not.                                                       *)
Show(s) ==
  /\ pc[s] = "show"
  /\ \/ /\ selected = WorkspaceOf(asked[s])
        /\ pc' = [pc EXCEPT ![s] = "output"]
        /\ UNCHANGED unlearned
     \/ /\ selected # WorkspaceOf(asked[s])
        /\ pc' = [pc EXCEPT ![s] = "select"]
        /\ UNCHANGED unlearned
     \/ /\ pc' = [pc EXCEPT ![s] = "output"]
        /\ unlearned' = unlearned \cup {s}
  /\ UNCHANGED <<terraformVars, env, asked, disturbed, loaded, running>>

(* terraform workspace select. *)
Select(s) ==
  /\ pc[s] = "select"
  /\ WorkspaceOf(asked[s]) \in exists
  /\ SelectFor({s}, WorkspaceOf(asked[s]))
  /\ pc' = [pc EXCEPT ![s] = "output"]
  /\ UNCHANGED <<exists, outputs, env, asked, unlearned, loaded, running>>

Return(s) ==
  /\ pc' = [pc EXCEPT ![s] = "prompt"]
  /\ asked' = [asked EXCEPT ![s] = None]
  /\ disturbed' = disturbed \ {s} /\ unlearned' = unlearned \ {s}

(* It throws: terraform is not initialized, or select or output failed.    *)
Throw(s) ==
  /\ pc[s] # "prompt"
  /\ Return(s)
  /\ UNCHANGED <<terraformVars, env, loaded, running>>

Output(o) == IF o \in outputs[selected] THEN selected ELSE "unset"

(* Mutant of Loaded: an output there is not leaves its variable alone. *)
LoadedIfThere(e) ==
  [v \in Variable |->
     IF (IF v = "scope" THEN "audience" ELSE v) \in outputs[selected]
     THEN selected ELSE e[v]]
(* The four assignments: $null, which unsets, for an output there is not. *)
Loaded(e) ==
  [e EXCEPT !["endpoint"] = Output("endpoint"), !["model"] = Output("model"),
            !["tenant"] = Output("tenant"),
            !["scope"] = IF "audience" \in outputs[selected] THEN selected ELSE "/.default"]

(* terraform output -json. A workspace without outputs has {} to print. *)
Load(s) ==
  /\ pc[s] = "output"
  /\ env' = [env EXCEPT ![s] = Loaded(@)]
  /\ loaded' = [loaded EXCEPT ![s] =
                  IF s \in disturbed \cup unlearned THEN "any" ELSE asked[s]]
  /\ Return(s)
  /\ UNCHANGED <<terraformVars, running>>

-----------------------------------------------------------------------------
(* Terraform run by others on the same checkout: a workspace is created if *)
(* need be and selected, and a deployment, whole, cut off or destroyed,    *)
(* leaves it with these outputs.                                           *)
Terraform(w) ==
  /\ exists' = exists \cup {w}
  /\ SelectFor({}, w)
  /\ \E left \in OutputSets : outputs' = [outputs EXCEPT ![w] = left]
  /\ UNCHANGED <<env, pc, asked, unlearned, loaded, running>>

-----------------------------------------------------------------------------
(* The two from_env. *)

Usable(v) == v \notin {"unset", "wrong"}

(* ClientConfig.from_env; MAP_SCOPE may be missing. *)
ClientAccepts(e) ==
  /\ Usable(e["endpoint"]) /\ Usable(e["tenant"])
  /\ e["model"] # "unset"
  /\ e["timeout"] # "wrong"

RunClient(s) ==
  /\ Idle(s) /\ ClientAccepts(env[s])
  /\ running' = [running EXCEPT ![s] =
       [program |-> "cli", endpoint |-> env[s]["endpoint"], tenant |-> env[s]["tenant"],
        scope |-> env[s]["scope"], model |-> env[s]["model"], flags |-> {}]]
  /\ UNCHANGED <<terraformVars, env, scriptVars>>

(* ProxyConfig.from_env: a flag wins over its variable. *)
Setting(f, e, v) == IF f[v] # "unset" THEN f[v] ELSE e[v]

(* Mutant of Models: MAP_MODEL is not read. *)
ModelsVariableOnly(f, e) ==
  IF f["model"] # "unset" THEN f["model"]
  ELSE IF e["models"] = "wrong" THEN "unset" ELSE e["models"]

(* --model, else MAP_MODELS, else MAP_MODEL; a MAP_MODELS that names none  *)
(* hides MAP_MODEL.                                                        *)
Models(f, e) ==
  IF f["model"] # "unset" THEN f["model"]
  ELSE IF e["models"] = "unset" THEN e["model"]
  ELSE IF e["models"] = "wrong" THEN "unset"
  ELSE e["models"]

ProxyAccepts(f, e) ==
  /\ Usable(Setting(f, e, "endpoint")) /\ Usable(Setting(f, e, "tenant"))
  /\ Setting(f, e, "scope") # "unset"
  /\ Models(f, e) # "unset"
  /\ Setting(f, e, "port") # "wrong"
  /\ e["timeout"] # "wrong"

RunProxy(s, f) ==
  /\ Idle(s) /\ ProxyAccepts(f, env[s])
  /\ running' = [running EXCEPT ![s] =
       [program |-> "proxy", endpoint |-> Setting(f, env[s], "endpoint"),
        tenant |-> Setting(f, env[s], "tenant"), scope |-> Setting(f, env[s], "scope"),
        model |-> Models(f, env[s]), flags |-> {v \in Flag : f[v] # "unset"}]]
  /\ UNCHANGED <<terraformVars, env, scriptVars>>

(* The program ends; one that is refused its configuration never ran. *)
Stop(s) ==
  /\ running[s] # None
  /\ running' = [running EXCEPT ![s] = None]
  /\ UNCHANGED <<terraformVars, env, scriptVars>>

Next ==
  \/ \E s \in Shells :
       \/ \E p \in Profiles : Use(s, p)
       \/ Show(s) \/ Select(s) \/ Throw(s) \/ Load(s)
       \/ RunClient(s) \/ Stop(s)
       \/ \E f \in FlagSets : RunProxy(s, f)
  \/ \E w \in Workspaces : Terraform(w)

Spec == Init /\ [][Next]_vars

-----------------------------------------------------------------------------
(* In a shell that has been loaded once, no program ever runs with the     *)
(* gateway of one deployment and the tenant, scope or model of another or  *)
(* of the developer's own, unless a flag or MAP_MODELS says so: not after  *)
(* switching back and forth, a script that throws, or a deployment without *)
(* all its outputs. MAP_SCOPE may lack the audience.                       *)
OneDeployment ==
  \A s \in Shells :
    loaded[s] # None /\ running[s] # None /\ "endpoint" \notin running[s].flags =>
      LET c == running[s]
          Own(v) == c[v] = c.endpoint \/ v \in c.flags
      IN  /\ c.endpoint \in Workspaces
          /\ Own("tenant")
          /\ Own("scope") \/ c.scope = "/.default"
          /\ Own("model") \/ (c.program = "proxy" /\ env[s]["models"] # "unset")

(* A program run in a shell loaded for a profile talks to that profile's   *)
(* gateway, with two exceptions: something else selected a workspace while *)
(* the script ran, or terraform workspace show printed nothing. In the     *)
(* second the script reads whatever workspace is selected, with nobody     *)
(* else at work, although its header says that it "selects the right one   *)
(* first - reading outputs without doing that silently returns the other   *)
(* environment's endpoint".                                                *)
AskedFor ==
  \A s \in Shells :
    /\ loaded[s] \in Profiles
    /\ running[s] # None /\ "endpoint" \notin running[s].flags
    => running[s].endpoint = WorkspaceOf(loaded[s])

(* "a developer who has already run scripts/use-environment.ps1 needs no   *)
(* extra setup" (ProxyConfig.from_env): in a loaded shell without settings *)
(* of the proxy's own, the proxy starts exactly if the command line does,  *)
(* whatever the deployment lacks.                                          *)
NoFlags == [v \in Flag |-> "unset"]

NoExtraSetup ==
  \A s \in Shells :
    loaded[s] # None /\ env[s]["models"] = "unset" /\ env[s]["port"] # "wrong" =>
      (ClientAccepts(env[s]) <=> ProxyAccepts(NoFlags, env[s]))

-----------------------------------------------------------------------------
(* The inductive invariant: a script past its selection knows the selected *)
(* workspace, is disturbed or did not learn it; the variables of a loaded  *)
(* shell are those of one workspace; and a program runs with what its      *)
(* shell holds.                                                            *)
ScriptInv(s) ==
  pc[s] = "output" /\ s \notin disturbed \cup unlearned =>
    selected = WorkspaceOf(asked[s])

LoadedFrom(e, w) ==
  /\ e["endpoint"] \in {w, "unset"} /\ e["tenant"] \in {w, "unset"}
  /\ e["model"] \in {w, "unset"} /\ e["scope"] \in {w, "/.default"}

ShellInv(s) ==
  loaded[s] # None =>
    \E w \in Workspaces :
      /\ LoadedFrom(env[s], w)
      /\ loaded[s] \in Profiles => w = WorkspaceOf(loaded[s])

RunningInv(s) ==
  running[s] # None =>
    /\ pc[s] = "prompt"
    /\ \A v \in {"endpoint", "tenant", "scope"} \ running[s].flags :
         running[s][v] = env[s][v]
    /\ Usable(running[s].endpoint) /\ Usable(running[s].tenant)
    /\ running[s].model # "unset"
    /\ "model" \notin running[s].flags =>
         \/ running[s].model = env[s]["model"]
         \/ running[s].program = "proxy" /\ env[s]["models"] # "unset"

EnvironmentInv == \A s \in Shells : ScriptInv(s) /\ ShellInv(s) /\ RunningInv(s)
=============================================================================
