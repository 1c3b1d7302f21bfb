---------------------------- MODULE ProxyStartup ----------------------------
(***************************************************************************)
(* Starting the local proxy: map_proxy/__main__.py with load_or_create_key *)
(* and write_private_file of tokens.py and write_vscode_config of          *)
(* ide_config.py.                                                          *)
(*                                                                         *)
(* Three files outlive the process: the key file, the IDE's model          *)
(* configuration and its backup. The code takes no lock on them, and a     *)
(* write truncates the file before it fills it, so an action is one access *)
(* to one file. The process may die at any of them (Ctrl-C, an OSError),   *)
(* other copies of the proxy may be starting or serving, and the developer *)
(* edits the configuration whenever he likes.                              *)
(*                                                                         *)
(* A key is the run that generated it: a run generates at most one. A      *)
(* provider entry of the configuration that is not the proxy's own is its  *)
(* name: the blank model stubs a write drops from such entries are below   *)
(* this level.                                                             *)
(***************************************************************************)
EXTENDS Naturals, FiniteSets

CONSTANTS
  Procs,        \* runs of python -m map_proxy
  Providers,    \* the other providers a developer may have configured
  Ports,        \* loopback ports a run may be told to listen on
  MaxAlive,     \* bound: runs at the same time
  MaxSaves,     \* bound: times the developer saves the configuration
  None          \* no key, no port

ASSUME StartupAssumption == MaxAlive \in Nat /\ MaxSaves \in Nat /\ None \notin Procs

Key == Procs \cup {None}

(* What a configuration file can be. "empty" is what truncation leaves,    *)
(* "broken" does not parse, "object" is JSON but not a list.               *)
File == [kind: {"absent", "empty", "broken", "object", "list"},
         others: SUBSET Providers, ours: Key]

NoFile == [kind |-> "absent", others |-> {}, ours |-> None]
EmptyFile == [kind |-> "empty", others |-> {}, ours |-> None]

VARIABLES
  keyFile,      \* the key in the key file; None: no file, or a blank one
  config,       \* chatLanguageModels.json
  backup,       \* chatLanguageModels.json.map-backup
  pc,           \* pc[p]: the next file access of p
  rotate,       \* rotate[p]: --rotate-key
  port,         \* port[p]: --port, MAP_PROXY_PORT or the default
  key,          \* key[p]: the key p got
  seen,         \* seen[p]: the other providers p found, when it read config
  copy,         \* copy[p]: the text p is about to back up
  written       \* written[p]: p wrote the IDE configuration

(* History, for the properties only. *)
VARIABLES
  saves,        \* times the developer has saved it
  mine,         \* the other providers as the developer last saved them
  original,     \* config when the proxy was about to change it first
  raced,        \* a start began while another one was not through
  cut,          \* a start died on the way from the backup to the new config
  overtaken     \* the developer saved while a start was on that way

files == <<keyFile, config, backup>>
locals == <<rotate, port, key, seen, copy, written>>
history == <<saves, mine, original, raced, cut, overtaken>>
vars == <<files, pc, locals, history>>

Starting == {"key", "open_key", "write_key", "config", "backup", "copy",
             "open_backup", "write_backup", "open_config", "write_config", "bind"}

Ends == {"ready", "serving", "ended"}

(* From the check for a backup to the write of the merged configuration.   *)
Rewriting == {"backup", "copy", "open_backup", "write_backup",
              "open_config", "write_config"}

TypeOK ==
  /\ keyFile \in Key
  /\ config \in File
  /\ backup \in File
  /\ pc \in [Procs -> Starting \cup Ends]
  /\ rotate \in [Procs -> BOOLEAN]
  /\ port \in [Procs -> Ports \cup {None}]
  /\ key \in [Procs -> Key]
  /\ \A p \in Procs : pc[p] \notin {"ready", "key", "ended"} => key[p] # None
  /\ seen \in [Procs -> SUBSET Providers]
  /\ copy \in [Procs -> File]
  /\ written \in [Procs -> BOOLEAN]
  /\ saves \in 0 .. MaxSaves
  /\ mine \in SUBSET Providers
  /\ original \in File
  /\ raced \in BOOLEAN
  /\ cut \in BOOLEAN
  /\ overtaken \in BOOLEAN

Init ==
  /\ keyFile = None
  /\ backup = NoFile
  /\ \/ config = NoFile
     \/ \E k \in {"list", "broken"}, S \in SUBSET Providers :
          config = [kind |-> k, others |-> S, ours |-> None]
  /\ mine = config.others
  /\ original = NoFile
  /\ pc = [p \in Procs |-> "ready"]
  /\ rotate = [p \in Procs |-> FALSE]
  /\ port = [p \in Procs |-> None]
  /\ key = [p \in Procs |-> None]
  /\ seen = [p \in Procs |-> {}]
  /\ copy = [p \in Procs |-> NoFile]
  /\ written = [p \in Procs |-> FALSE]
  /\ saves = 0
  /\ raced = FALSE /\ cut = FALSE /\ overtaken = FALSE

-----------------------------------------------------------------------------
GoTo(p, step) == pc' = [pc EXCEPT ![p] = step]

(* main, up to load_or_create_key. *)
Start(p) ==
  /\ pc[p] = "ready"
  /\ Cardinality({q \in Procs : pc[q] \notin {"ready", "ended"}}) < MaxAlive
  /\ GoTo(p, "key")
  /\ \E r \in BOOLEAN : rotate' = [rotate EXCEPT ![p] = r]
  /\ \E n \in Ports : port' = [port EXCEPT ![p] = n]
  /\ raced' = (raced \/ \E q \in Procs : pc[q] \in Starting)
  /\ UNCHANGED <<files, key, seen, copy, written, saves, mine, original, cut, overtaken>>

-----------------------------------------------------------------------------
(* load_or_create_key: a key that is there is reused unless it is rotated, *)
(* otherwise a new one is generated and the file opened, which truncates.  *)
ReuseKey(p) ==
  /\ pc[p] = "key"
  /\ keyFile # None /\ ~rotate[p]
  /\ key' = [key EXCEPT ![p] = keyFile]
  /\ GoTo(p, "config")
  /\ UNCHANGED <<files, rotate, port, seen, copy, written, history>>

(* Mutant of NewKey: a key per session. *)
NewKeyEverySession(p) ==
  /\ pc[p] = "key"
  /\ key' = [key EXCEPT ![p] = p]
  /\ GoTo(p, "open_key")
  /\ UNCHANGED <<files, rotate, port, seen, copy, written, history>>

NewKey(p) ==
  /\ pc[p] = "key"
  /\ keyFile = None \/ rotate[p]
  /\ key' = [key EXCEPT ![p] = p]
  /\ GoTo(p, "open_key")
  /\ UNCHANGED <<files, rotate, port, seen, copy, written, history>>

OpenKey(p) ==
  /\ pc[p] = "open_key"
  /\ keyFile' = None
  /\ GoTo(p, "write_key")
  /\ UNCHANGED <<config, backup, locals, history>>

WriteKey(p) ==
  /\ pc[p] = "write_key"
  /\ keyFile' = key[p]
  /\ GoTo(p, "config")
  /\ UNCHANGED <<config, backup, locals, history>>

-----------------------------------------------------------------------------
(* write_vscode_config, unless --no-ide-config is given or VS Code is not   *)
(* installed. A file that does not parse is left alone, a JSON value that  *)
(* is not a list counts as no providers.                                   *)
SkipConfig(p) ==
  /\ pc[p] = "config"
  /\ GoTo(p, "bind")
  /\ UNCHANGED <<files, locals, history>>

(* Mutant of ReadConfig: a file that does not parse holds no providers. *)
ReadBrokenAsNone(p) ==
  /\ pc[p] = "config"
  /\ seen' = [seen EXCEPT ![p] = IF config.kind = "broken" THEN {} ELSE config.others]
  /\ GoTo(p, IF config.kind = "absent" THEN "open_config" ELSE "backup")
  /\ UNCHANGED <<files, rotate, port, key, copy, written, history>>

ReadConfig(p) ==
  /\ pc[p] = "config"
  /\ config.kind \in {"absent", "object", "list"}
  /\ seen' = [seen EXCEPT ![p] = config.others]
  /\ GoTo(p, IF config.kind = "absent" THEN "open_config" ELSE "backup")
  /\ UNCHANGED <<files, rotate, port, key, copy, written, history>>

(* Mutant of CheckBackup: every start makes a new backup. *)
CheckNothing(p) ==
  /\ pc[p] = "backup"
  /\ GoTo(p, "copy")
  /\ UNCHANGED <<files, locals, history>>

CheckBackup(p) ==
  /\ pc[p] = "backup"
  /\ GoTo(p, IF backup.kind = "absent" THEN "copy" ELSE "open_config")
  /\ UNCHANGED <<files, locals, history>>

(* The text that is backed up is read again. *)
CopyConfig(p) ==
  /\ pc[p] = "copy"
  /\ copy' = [copy EXCEPT ![p] = config]
  /\ GoTo(p, "open_backup")
  /\ UNCHANGED <<files, rotate, port, key, seen, written, history>>

OpenBackup(p) ==
  /\ pc[p] = "open_backup"
  /\ backup' = EmptyFile
  /\ GoTo(p, "write_backup")
  /\ UNCHANGED <<keyFile, config, locals, history>>

WriteBackup(p) ==
  /\ pc[p] = "write_backup"
  /\ backup' = copy[p]
  /\ GoTo(p, "open_config")
  /\ UNCHANGED <<keyFile, config, locals, history>>

OpenConfig(p) ==
  /\ pc[p] = "open_config"
  /\ config' = EmptyFile
  /\ original' = IF original = NoFile THEN config ELSE original
  /\ GoTo(p, "write_config")
  /\ UNCHANGED <<keyFile, backup, locals, saves, mine, raced, cut, overtaken>>

(* Mutant of WriteConfig: an entry that was there keeps its key. *)
WriteConfigOldEntry(p) ==
  /\ pc[p] = "write_config"
  /\ config' = [kind |-> "list", others |-> seen[p],
                ours |-> IF copy[p].ours = None THEN key[p] ELSE copy[p].ours]
  /\ written' = [written EXCEPT ![p] = TRUE]
  /\ GoTo(p, "bind")
  /\ UNCHANGED <<keyFile, backup, rotate, port, key, seen, copy, history>>

(* The text is written from the start of the file. If somebody filled it   *)
(* since it was truncated, the tail of a longer text stays behind it, and  *)
(* the whole does not parse.                                               *)
WriteConfig(p) ==
  /\ pc[p] = "write_config"
  /\ \E k \in IF config = EmptyFile THEN {"list"} ELSE {"list", "broken"} :
       config' = [kind |-> k, others |-> seen[p], ours |-> key[p]]
  /\ written' = [written EXCEPT ![p] = TRUE]
  /\ GoTo(p, "bind")
  /\ UNCHANGED <<keyFile, backup, rotate, port, key, seen, copy, history>>

-----------------------------------------------------------------------------
(* run: the port is bound last. One that is taken ends the run (Stop). *)
Bind(p) ==
  /\ pc[p] = "bind"
  /\ \A q \in Procs : pc[q] = "serving" => port[q] # port[p]
  /\ GoTo(p, "serving")
  /\ UNCHANGED <<files, locals, history>>

(* The process ends and its locals with it: Ctrl-C while serving, a port   *)
(* that is taken, or death at any file access.                             *)
Stop(p) ==
  /\ pc[p] \notin {"ready", "ended"}
  /\ GoTo(p, "ended")
  /\ rotate' = [rotate EXCEPT ![p] = FALSE]
  /\ port' = [port EXCEPT ![p] = None]
  /\ key' = [key EXCEPT ![p] = None]
  /\ seen' = [seen EXCEPT ![p] = {}]
  /\ copy' = [copy EXCEPT ![p] = NoFile]
  /\ written' = [written EXCEPT ![p] = FALSE]
  /\ cut' = (cut \/ pc[p] \in Rewriting)
  /\ UNCHANGED <<files, saves, mine, original, raced, overtaken>>

(* The developer saves the configuration, in the IDE or by hand: another   *)
(* set of providers, with or without the proxy's entry, or a slip.         *)
DeveloperSaves ==
  /\ saves < MaxSaves
  /\ saves' = saves + 1
  /\ \/ \E S \in SUBSET Providers, o \in {None, config.ours} :
          config' = [kind |-> "list", others |-> S, ours |-> o]
     \/ config' = [kind |-> "object", others |-> {}, ours |-> None]
     \/ config.kind = "list" /\ config' = [config EXCEPT !.kind = "broken"]
  /\ mine' = config'.others
  /\ overtaken' = (overtaken \/ \E p \in Procs : pc[p] \in Rewriting)
  /\ UNCHANGED <<keyFile, backup, pc, locals, original, raced, cut>>

Step(p) ==
  \/ Start(p)
  \/ ReuseKey(p)
  \/ NewKey(p)
  \/ OpenKey(p)
  \/ WriteKey(p)
  \/ SkipConfig(p)
  \/ ReadConfig(p)
  \/ CheckBackup(p)
  \/ CopyConfig(p)
  \/ OpenBackup(p)
  \/ WriteBackup(p)
  \/ OpenConfig(p)
  \/ WriteConfig(p)
  \/ Bind(p)
  \/ Stop(p)

Next == DeveloperSaves \/ \E p \in Procs : Step(p)

Spec == Init /\ [][Next]_vars

-----------------------------------------------------------------------------
(* "Existing providers are preserved" (ide_config.py): also when several   *)
(* proxies start at once, a start loses a provider only by dying between   *)
(* truncating the file and filling it, or by overwriting what the          *)
(* developer saved since it read the file. While the file is empty, a      *)
(* start is about to fill it. It is about the entries, not about whether   *)
(* the file parses: see WriteConfig.                                       *)
ProvidersKept ==
  ~cut /\ ~overtaken =>
    \/ config.others = mine
    \/ config = EmptyFile /\ \E p \in Procs : pc[p] = "write_config"

(* The backup is the configuration as the developer had it before the      *)
(* first change, and no later start replaces it: unless starts raced, or   *)
(* one died or was overtaken on the way.                                   *)
BackupIsOriginal ==
  ~raced /\ ~cut /\ ~overtaken /\ original # NoFile => backup = original

(* The key the IDE sends is the one the proxy that configured it expects,  *)
(* whatever happened before it started: deaths at any access, rotations    *)
(* half done, files left empty; and proxies on several ports agree. Only   *)
(* starts that race, or a later rotation the serving proxy does not know   *)
(* of, break it.                                                           *)
KeyAgreement ==
  \A p \in Procs :
    /\ ~raced
    /\ pc[p] = "serving" /\ written[p] /\ keyFile = key[p]
    /\ config.ours # None
    => config.ours = key[p]

(* The local key is persistent: it is given up for another one only by a   *)
(* start that was told to rotate it, or by starts that race. That is what  *)
(* load_or_create_key intends; docs/local-proxy.md:156-164 describes the   *)
(* opposite, a key per process start that is in memory only and dies with  *)
(* the process, which is the mutant NewKeyEverySession.                    *)
KeyPersists ==
  [][keyFile # None /\ keyFile' # keyFile =>
       raced \/ \E p \in Procs : pc[p] = "open_key" /\ rotate[p]]_vars

-----------------------------------------------------------------------------
(* The inductive invariant behind these properties. A key is in no other   *)
(* place before its run has written it to the key file.                    *)
FreshKeys ==
  /\ \A p \in Procs : pc[p] \in {"open_key", "write_key"} => key[p] = p
  /\ \A p \in Procs : pc[p] \in {"ready", "key", "open_key", "write_key"} =>
       /\ keyFile # p
       /\ \A q \in Procs \ {p} : key[q] # p

OneServes ==
  \A p, q \in Procs :
    pc[p] = "serving" /\ pc[q] = "serving" /\ port[p] = port[q] => p = q

WrittenAtTheEnd == \A p \in Procs : written[p] => pc[p] \in {"bind", "serving"}

(* Without a race, the key file holds the key of the one that starts.      *)
KeyInv ==
  ~raced =>
    /\ \A p, q \in Procs : pc[p] \in Starting /\ pc[q] \in Starting => p = q
    /\ \A p \in Procs :
         /\ pc[p] \in Rewriting \cup {"config", "bind"} => keyFile = key[p]
         /\ pc[p] = "open_key" /\ ~rotate[p] => keyFile = None
         /\ pc[p] = "write_key" => keyFile = None
         /\ /\ pc[p] \in {"bind", "serving"} /\ written[p]
            /\ keyFile = key[p] /\ config.ours # None
            => config.ours = key[p]

(* Whoever is about to merge has seen what the developer saved last.       *)
MergeInv ==
  ~cut /\ ~overtaken =>
    /\ \A p \in Procs : pc[p] \in Rewriting => seen[p] = mine
    /\ \/ config.others = mine
       \/ config = EmptyFile /\ \E p \in Procs : pc[p] = "write_config"

AbsentIsNoFile ==
  /\ config.kind = "absent" => config = NoFile
  /\ original.kind = "absent" => original = NoFile

(* As long as the proxy has changed nothing, there is no backup, but for    *)
(* the one being made, which holds what the configuration still is.        *)
BackupInv ==
  ~raced /\ ~cut /\ ~overtaken =>
    /\ original # NoFile => backup = original
    /\ original = NoFile /\ backup.kind # "absent" =>
         \E p \in Procs : pc[p] \in {"write_backup", "open_config"}
    /\ \A p \in Procs :
         /\ pc[p] \in {"backup", "copy", "open_backup", "write_backup"} => config # NoFile
         /\ pc[p] \in {"copy", "open_backup", "write_backup"} => original = NoFile
         /\ pc[p] \in {"open_backup", "write_backup"} => copy[p] = config
         /\ pc[p] = "open_config" /\ original = NoFile =>
              IF config = NoFile THEN backup.kind = "absent" ELSE backup = config

StartupInv == /\ FreshKeys /\ OneServes /\ WrittenAtTheEnd
              /\ KeyInv /\ MergeInv /\ AbsentIsNoFile /\ BackupInv
=============================================================================
