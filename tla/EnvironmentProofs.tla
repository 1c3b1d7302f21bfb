------------------------- MODULE EnvironmentProofs -------------------------
(***************************************************************************)
(* Proofs about Environment, for any number of shells on one checkout,     *)
(* whatever they are opened with, whatever flags the proxy is given, and   *)
(* whatever outputs terraform leaves.                                      *)
(***************************************************************************)
EXTENDS Environment, TLAPS

(* The variables of a shell stay variables with values when loaded. *)
LEMMA LoadedTyped ==
  ASSUME NEW e \in [Variable -> Value], selected \in Workspaces
  PROVE  Loaded(e) \in [Variable -> Value]
BY DEF Loaded, Output, Variable, Value, Workspaces

(* What the loaded variables hold is of the workspace they were read from. *)
LEMMA LoadedIsLoaded ==
  ASSUME NEW e \in [Variable -> Value]
  PROVE  LoadedFrom(Loaded(e), selected)
BY DEF Loaded, LoadedFrom, Output, Variable

(* A flag and a variable of the same name have values, and so has a choice. *)
LEMMA SettingTyped ==
  ASSUME NEW f \in FlagSets, NEW e \in [Variable -> Value]
  PROVE  /\ \A v \in {"endpoint", "tenant", "scope"} : Setting(f, e, v) \in Value
         /\ Models(f, e) \in Value
<1>1. f \in [Flag -> Value]
  BY EnvironmentAssumption DEF Flag, Value
<1> QED
  BY <1>1 DEF Setting, Models, Flag, Variable, Value

(* No step leaves the types. *)
LEMMA TypeInductive ==
  TypeOK /\ [Next]_vars => TypeOK'
<1> SUFFICES ASSUME TypeOK, [Next]_vars
             PROVE  TypeOK'
  OBVIOUS
<1> USE DEF TypeOK
<1>1. CASE UNCHANGED vars
  BY <1>1 DEF vars, terraformVars, scriptVars
<1>2. ASSUME NEW s \in Shells, NEW p \in Profiles, Use(s, p)
      PROVE  TypeOK'
  BY <1>2 DEF Use, terraformVars
<1>3. ASSUME NEW s \in Shells, Show(s)
      PROVE  TypeOK'
  BY <1>3 DEF Show, terraformVars
<1>4. ASSUME NEW s \in Shells, Select(s)
      PROVE  TypeOK'
  BY <1>4 DEF Select, SelectFor
<1>5. ASSUME NEW s \in Shells, Throw(s)
      PROVE  TypeOK'
  BY <1>5 DEF Throw, Return, terraformVars
<1>6. ASSUME NEW s \in Shells, Load(s)
      PROVE  TypeOK'
  <2>1. Loaded(env[s]) \in [Variable -> Value]
    BY LoadedTyped
  <2>2. env' \in [Shells -> [Variable -> Value]]
    BY <1>6, <2>1 DEF Load
  <2>3. loaded' \in [Shells -> Profiles \cup {"any", None}]
    BY <1>6 DEF Load
  <2> QED
    BY <1>6, <2>2, <2>3 DEF Load, Return, terraformVars
<1>7. ASSUME NEW s \in Shells, RunClient(s)
      PROVE  TypeOK'
  <2>1. running' \in [Shells -> Config \cup {None}]
    BY <1>7 DEF RunClient, Config, Variable
  <2> QED
    BY <1>7, <2>1 DEF RunClient, terraformVars, scriptVars
<1>8. ASSUME NEW s \in Shells, NEW f \in FlagSets, RunProxy(s, f)
      PROVE  TypeOK'
  <2>1. running' \in [Shells -> Config \cup {None}]
    <3>1. {v \in Flag : f[v] # "unset"} \in SUBSET Flag
      OBVIOUS
    <3> QED
      BY <1>8, <3>1, SettingTyped DEF RunProxy, Config
  <2> QED
    BY <1>8, <2>1 DEF RunProxy, terraformVars, scriptVars
<1>9. ASSUME NEW s \in Shells, Stop(s)
      PROVE  TypeOK'
  BY <1>9 DEF Stop, terraformVars, scriptVars
<1>10. ASSUME NEW w \in Workspaces, Terraform(w)
       PROVE  TypeOK'
  BY <1>10, EnvironmentAssumption DEF Terraform, SelectFor
<1> QED
  BY <1>1, <1>2, <1>3, <1>4, <1>5, <1>6, <1>7, <1>8, <1>9, <1>10 DEF Next

(* The variables of shells, scripts and programs keep their types, for any *)
(* shells, inherited settings, flags and outputs.                          *)
THEOREM TypeCorrect == Spec => []TypeOK
<1>1. Init => TypeOK
  BY EnvironmentAssumption DEF Init, TypeOK, Value, Workspaces
<1> QED
  BY <1>1, TypeInductive, PTL DEF Spec

-----------------------------------------------------------------------------
(* Whoever selects a workspace disturbs every script that knows its own    *)
(* and has yet to read.                                                    *)
LEMMA SelectionDisturbs ==
  ASSUME NEW S \in SUBSET Shells, NEW w, SelectFor(S, w),
         NEW t \in Shells \ (S \cup unlearned), pc[t] = "output"
  PROVE  t \in disturbed'
BY DEF SelectFor

(* A script on its way to the outputs knows the workspace it reads. *)
LEMMA ScriptInductive ==
  TypeOK /\ EnvironmentInv /\ [Next]_vars => \A t \in Shells : ScriptInv(t)'
<1> SUFFICES ASSUME TypeOK, EnvironmentInv, [Next]_vars, NEW t \in Shells
             PROVE  ScriptInv(t)'
  OBVIOUS
<1>0. ScriptInv(t)
  BY DEF EnvironmentInv
<1> USE DEF TypeOK, ScriptInv
<1>1. CASE UNCHANGED vars
  BY <1>0, <1>1 DEF vars, terraformVars, scriptVars
<1>2. ASSUME NEW s \in Shells, NEW p \in Profiles, Use(s, p)
      PROVE  ScriptInv(t)'
  BY <1>0, <1>2 DEF Use, terraformVars
<1>3. ASSUME NEW s \in Shells, Show(s)
      PROVE  ScriptInv(t)'
  BY <1>0, <1>3 DEF Show, terraformVars
<1>4. ASSUME NEW s \in Shells, Select(s)
      PROVE  ScriptInv(t)'
  BY <1>0, <1>4 DEF Select, SelectFor
<1>5. ASSUME NEW s \in Shells, Throw(s) \/ Load(s)
      PROVE  ScriptInv(t)'
  BY <1>0, <1>5 DEF Throw, Load, Return, terraformVars
<1>6. ASSUME NEW s \in Shells,
             RunClient(s) \/ Stop(s) \/ \E f \in FlagSets : RunProxy(s, f)
      PROVE  ScriptInv(t)'
  BY <1>0, <1>6 DEF RunClient, RunProxy, Stop, terraformVars, scriptVars
<1>7. ASSUME NEW w \in Workspaces, Terraform(w)
      PROVE  ScriptInv(t)'
  BY <1>0, <1>7 DEF Terraform, SelectFor
<1> QED
  BY <1>1, <1>2, <1>3, <1>4, <1>5, <1>6, <1>7 DEF Next

(* Only Load changes what a shell holds, and it replaces all of it. *)
LEMMA ShellInductive ==
  TypeOK /\ EnvironmentInv /\ [Next]_vars => \A t \in Shells : ShellInv(t)'
<1> SUFFICES ASSUME TypeOK, EnvironmentInv, [Next]_vars, NEW t \in Shells
             PROVE  ShellInv(t)'
  OBVIOUS
<1>0. ScriptInv(t) /\ ShellInv(t)
  BY DEF EnvironmentInv
<1>1. CASE UNCHANGED <<env, loaded>>
  BY <1>0, <1>1 DEF ShellInv, LoadedFrom
<1>2. ASSUME NEW s \in Shells, Load(s)
      PROVE  ShellInv(t)'
  <2>1. CASE t # s
    <3>1. env'[t] = env[t] /\ loaded'[t] = loaded[t]
      BY <1>2, <2>1 DEF Load, TypeOK
    <3> QED
      BY <1>0, <3>1 DEF ShellInv, LoadedFrom
  <2>2. CASE t = s
    <3>1. env'[t] = Loaded(env[t]) /\ env[t] \in [Variable -> Value]
      BY <1>2, <2>2 DEF Load, TypeOK
    <3>2. selected \in Workspaces /\ LoadedFrom(env'[t], selected)
      BY <3>1, LoadedIsLoaded DEF TypeOK
    <3>3. loaded'[t] = IF t \in disturbed \cup unlearned THEN "any" ELSE asked[t]
      BY <1>2, <2>2 DEF Load, TypeOK
    <3>4. loaded'[t] \in Profiles => selected = WorkspaceOf(loaded'[t])
      BY <1>0, <1>2, <2>2, <3>3 DEF Load, ScriptInv, Profiles
    <3> QED
      BY <3>2, <3>4 DEF ShellInv, LoadedFrom
  <2> QED
    BY <2>1, <2>2
<1>3. CASE \E s \in Shells : Load(s)
  BY <1>2, <1>3
<1>4. CASE ~ \E s \in Shells : Load(s)
  <2>1. UNCHANGED <<env, loaded>>
    BY <1>4 DEF Next, Use, Show, Select, Throw, RunClient, RunProxy, Stop, Terraform, vars,
                terraformVars, scriptVars
  <2> QED
    BY <1>1, <2>1
<1> QED
  BY <1>3, <1>4

-----------------------------------------------------------------------------
(* A program starts with what its shell holds, flags and MAP_MODELS apart. *)
LEMMA ClientConfigured ==
  ASSUME TypeOK, NEW s \in Shells, RunClient(s)
  PROVE  RunningInv(s)'
<1>1. running'[s] = [program |-> "cli", endpoint |-> env[s]["endpoint"],
                     tenant |-> env[s]["tenant"], scope |-> env[s]["scope"],
                     model |-> env[s]["model"], flags |-> {}]
  BY DEF RunClient, TypeOK
<1>2. env' = env /\ pc' = pc /\ pc[s] = "prompt" /\ ClientAccepts(env[s])
  BY DEF RunClient, Idle, scriptVars
<1> QED
  BY <1>1, <1>2 DEF RunningInv, ClientAccepts, Usable

LEMMA ProxyConfigured ==
  ASSUME TypeOK, NEW s \in Shells, NEW f \in FlagSets, RunProxy(s, f)
  PROVE  RunningInv(s)'
<1> DEFINE flags == {v \in Flag : f[v] # "unset"}
<1>1. running'[s] =
        [program |-> "proxy", endpoint |-> Setting(f, env[s], "endpoint"),
         tenant |-> Setting(f, env[s], "tenant"), scope |-> Setting(f, env[s], "scope"),
         model |-> Models(f, env[s]), flags |-> flags]
  BY DEF RunProxy, TypeOK
<1>2. env' = env /\ pc' = pc /\ pc[s] = "prompt" /\ ProxyAccepts(f, env[s])
  BY DEF RunProxy, Idle, scriptVars
<1>3. \A v \in {"endpoint", "tenant", "scope"} \ flags : Setting(f, env[s], v) = env[s][v]
  BY DEF Setting, Flag
<1>4. "model" \notin flags =>
        Models(f, env[s]) = env[s]["model"] \/ env[s]["models"] # "unset"
  BY DEF Models, Flag
<1>5. \A v \in {"endpoint", "tenant", "scope"} \ flags : running'[s][v] = env[s][v]
  BY <1>1, <1>3
<1> HIDE DEF flags
<1>6. /\ Usable(running'[s].endpoint) /\ Usable(running'[s].tenant)
      /\ running'[s].model # "unset" /\ running'[s].flags = flags
      /\ "model" \notin flags =>
           \/ running'[s].model = env[s]["model"]
           \/ running'[s].program = "proxy" /\ env[s]["models"] # "unset"
  BY <1>1, <1>2, <1>4 DEF ProxyAccepts
<1> QED
  BY <1>2, <1>5, <1>6 DEF RunningInv, Usable

(* While a program runs its shell is not at the prompt: nothing loads it.  *)
LEMMA RunningInductive ==
  TypeOK /\ EnvironmentInv /\ [Next]_vars => \A t \in Shells : RunningInv(t)'
<1> SUFFICES ASSUME TypeOK, EnvironmentInv, [Next]_vars, NEW t \in Shells
             PROVE  RunningInv(t)'
  OBVIOUS
<1>0. RunningInv(t)
  BY DEF EnvironmentInv
<1>1. ASSUME UNCHANGED <<env[t], pc[t], running[t]>>
      PROVE  RunningInv(t)'
  BY <1>0, <1>1 DEF RunningInv, Usable
<1>2. ASSUME NEW s \in Shells, (\E p \in Profiles : Use(s, p)) \/ Show(s) \/ Select(s)
                                 \/ Throw(s) \/ Load(s)
      PROVE  RunningInv(t)'
  <2>1. CASE t # s
    BY <1>1, <1>2, <2>1 DEF Use, Show, Select, Throw, Load, Return, TypeOK
  <2>2. CASE t = s
    <3>1. running[t] = None
      BY <1>0, <1>2, <2>2 DEF Use, Idle, Show, Select, Throw, Load, RunningInv
    <3>2. running' = running
      BY <1>2 DEF Use, Show, Select, Throw, Load
    <3> QED
      BY <3>1, <3>2 DEF RunningInv
  <2> QED
    BY <2>1, <2>2
<1>3. ASSUME NEW s \in Shells, RunClient(s)
      PROVE  RunningInv(t)'
  <2>1. CASE t # s
    BY <1>1, <1>3, <2>1 DEF RunClient, TypeOK, scriptVars
  <2> QED
    BY <1>3, <2>1, ClientConfigured
<1>4. ASSUME NEW s \in Shells, NEW f \in FlagSets, RunProxy(s, f)
      PROVE  RunningInv(t)'
  <2>1. CASE t # s
    BY <1>1, <1>4, <2>1 DEF RunProxy, TypeOK, scriptVars
  <2> QED
    BY <1>4, <2>1, ProxyConfigured
<1>5. ASSUME NEW s \in Shells, Stop(s)
      PROVE  RunningInv(t)'
  <2>1. CASE t # s
    BY <1>1, <1>5, <2>1 DEF Stop, TypeOK, scriptVars
  <2>2. CASE t = s
    BY <1>5, <2>2 DEF Stop, TypeOK, RunningInv
  <2> QED
    BY <2>1, <2>2
<1>6. CASE (\E w \in Workspaces : Terraform(w)) \/ UNCHANGED vars
  BY <1>1, <1>6 DEF Terraform, vars, scriptVars
<1> QED
  BY <1>2, <1>3, <1>4, <1>5, <1>6 DEF Next

(* The inductive invariant: a script about to read knows its workspace, is *)
(* disturbed or did not learn it; a loaded shell holds the outputs of one  *)
(* workspace; and a program runs with what its shell holds.                *)
THEOREM EnvironmentCorrect == Spec => [](TypeOK /\ EnvironmentInv)
<1>1. Init => EnvironmentInv
  BY DEF Init, EnvironmentInv, ScriptInv, ShellInv, RunningInv
<1>2. TypeOK /\ EnvironmentInv /\ [Next]_vars => EnvironmentInv'
  BY ScriptInductive, ShellInductive, RunningInductive DEF EnvironmentInv
<1> QED
  BY <1>1, <1>2, TypeCorrect, PTL DEF Spec

-----------------------------------------------------------------------------
(* A program that takes its gateway from a loaded shell takes it from the  *)
(* workspace the shell was loaded from.                                    *)
LEMMA GatewayIsLoaded ==
  ASSUME EnvironmentInv, NEW s \in Shells, running[s] # None,
         "endpoint" \notin running[s].flags,
         NEW w \in Workspaces, LoadedFrom(env[s], w)
  PROVE  running[s].endpoint = w
<1>1. running[s]["endpoint"] = env[s]["endpoint"] /\ Usable(running[s].endpoint)
  BY DEF EnvironmentInv, RunningInv
<1> QED
  BY <1>1 DEF LoadedFrom, Usable

(* What a program in a loaded shell is configured with is of one           *)
(* deployment, unless a flag or MAP_MODELS says otherwise.                 *)
THEOREM NoMixture == Spec => []OneDeployment
<1>1. ASSUME EnvironmentInv
      PROVE  OneDeployment
  <2> SUFFICES ASSUME NEW s \in Shells, loaded[s] # None, running[s] # None,
                      "endpoint" \notin running[s].flags
               PROVE  /\ running[s].endpoint \in Workspaces
                      /\ running[s]["tenant"] = running[s].endpoint
                           \/ "tenant" \in running[s].flags
                      /\ \/ running[s]["scope"] = running[s].endpoint
                           \/ "scope" \in running[s].flags
                         \/ running[s].scope = "/.default"
                      /\ \/ running[s]["model"] = running[s].endpoint
                           \/ "model" \in running[s].flags
                         \/ running[s].program = "proxy" /\ env[s]["models"] # "unset"
    BY DEF OneDeployment
  <2>1. PICK w \in Workspaces : LoadedFrom(env[s], w)
    BY <1>1 DEF EnvironmentInv, ShellInv
  <2>2. running[s].endpoint = w
    BY <1>1, <2>1, GatewayIsLoaded
  <2>3. RunningInv(s)
    BY <1>1 DEF EnvironmentInv
  <2>4. "tenant" \in running[s].flags \/ running[s]["tenant"] = w
    BY <2>1, <2>3 DEF RunningInv, LoadedFrom, Usable
  <2>5. "scope" \in running[s].flags \/ running[s]["scope"] \in {w, "/.default"}
    BY <2>1, <2>3 DEF RunningInv, LoadedFrom
  <2>6. \/ "model" \in running[s].flags
        \/ running[s].model = w
        \/ running[s].program = "proxy" /\ env[s]["models"] # "unset"
    BY <2>1, <2>3 DEF RunningInv, LoadedFrom
  <2> QED
    BY <2>2, <2>4, <2>5, <2>6
<1> QED
  BY <1>1, EnvironmentCorrect, PTL

(* A program in a shell loaded for a profile talks to that profile's       *)
(* gateway, if nothing else selected a workspace meanwhile and terraform   *)
(* workspace show told the script which one was selected.                  *)
THEOREM AsAsked == Spec => []AskedFor
<1>1. ASSUME EnvironmentInv
      PROVE  AskedFor
  <2> SUFFICES ASSUME NEW s \in Shells, loaded[s] \in Profiles, loaded[s] # None,
                      running[s] # None, "endpoint" \notin running[s].flags
               PROVE  running[s].endpoint = WorkspaceOf(loaded[s])
    BY EnvironmentAssumption DEF AskedFor
  <2>1. PICK w \in Workspaces : LoadedFrom(env[s], w) /\ w = WorkspaceOf(loaded[s])
    BY <1>1 DEF EnvironmentInv, ShellInv
  <2> QED
    BY <1>1, <2>1, GatewayIsLoaded
<1> QED
  BY <1>1, EnvironmentCorrect, PTL

(* In a loaded shell without settings of the proxy's own, the proxy starts *)
(* exactly if the command line does.                                       *)
THEOREM NothingExtra == Spec => []NoExtraSetup
<1>1. ASSUME EnvironmentInv
      PROVE  NoExtraSetup
  <2> SUFFICES ASSUME NEW s \in Shells, loaded[s] # None, env[s]["models"] = "unset",
                      env[s]["port"] # "wrong"
               PROVE  ClientAccepts(env[s]) <=> ProxyAccepts(NoFlags, env[s])
    BY DEF NoExtraSetup
  <2>1. PICK w \in Workspaces : LoadedFrom(env[s], w)
    BY <1>1 DEF EnvironmentInv, ShellInv
  <2>2. \A v \in Flag : Setting(NoFlags, env[s], v) = env[s][v]
    BY DEF Setting, NoFlags
  <2>3. Models(NoFlags, env[s]) = env[s]["model"]
    BY DEF Models, NoFlags, Flag
  <2>4. env[s]["scope"] # "unset"
    BY <2>1 DEF LoadedFrom, Workspaces
  <2> QED
    BY <2>2, <2>3, <2>4 DEF ClientAccepts, ProxyAccepts, Flag
<1> QED
  BY <1>1, EnvironmentCorrect, PTL
=============================================================================
