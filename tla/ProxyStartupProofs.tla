------------------------- MODULE ProxyStartupProofs -------------------------
(***************************************************************************)
(* Proofs about ProxyStartup, for any number of runs, started in any order *)
(* and dying anywhere, and for any providers and edits of the developer.   *)
(***************************************************************************)
EXTENDS ProxyStartup, TLAPS

USE StartupAssumption DEF Key

(* No step leaves the types. *)
LEMMA TypeInductive ==
  TypeOK /\ [Next]_vars => TypeOK'
<1> SUFFICES ASSUME TypeOK, [Next]_vars
             PROVE  TypeOK'
  OBVIOUS
<1> USE DEF TypeOK, File, NoFile, EmptyFile, Starting, Ends
<1>1. CASE UNCHANGED vars
  BY <1>1 DEF vars, files, locals, history
<1>2. CASE DeveloperSaves
  BY <1>2 DEF DeveloperSaves, locals
<1>3. ASSUME NEW p \in Procs, Step(p)
      PROVE  TypeOK'
  <2>1. CASE Start(p)
    BY <2>1 DEF Start, GoTo, files, locals, history
  <2>2. CASE ReuseKey(p)
    BY <2>2 DEF ReuseKey, GoTo, files, locals, history
  <2>3. CASE NewKey(p)
    BY <2>3 DEF NewKey, GoTo, files, locals, history
  <2>4. CASE OpenKey(p)
    BY <2>4 DEF OpenKey, GoTo, files, locals, history
  <2>5. CASE WriteKey(p)
    BY <2>5 DEF WriteKey, GoTo, files, locals, history
  <2>6. CASE SkipConfig(p)
    BY <2>6 DEF SkipConfig, GoTo, files, locals, history
  <2>7. CASE ReadConfig(p)
    BY <2>7 DEF ReadConfig, GoTo, files, locals, history
  <2>8. CASE CheckBackup(p)
    BY <2>8 DEF CheckBackup, GoTo, files, locals, history
  <2>9. CASE CopyConfig(p)
    BY <2>9 DEF CopyConfig, GoTo, files, locals, history
  <2>10. CASE OpenBackup(p)
    BY <2>10 DEF OpenBackup, GoTo, files, locals, history
  <2>11. CASE WriteBackup(p)
    BY <2>11 DEF WriteBackup, GoTo, files, locals, history
  <2>12. CASE OpenConfig(p)
    BY <2>12 DEF OpenConfig, GoTo, files, locals, history
  <2>13. CASE WriteConfig(p)
    BY <2>13 DEF WriteConfig, GoTo, files, locals, history
  <2>14. CASE Bind(p)
    BY <2>14 DEF Bind, GoTo, files, locals, history
  <2>15. CASE Stop(p)
    BY <2>15 DEF Stop, GoTo, files, locals, history
  <2> QED
    BY <1>3, <2>1, <2>2, <2>3, <2>4, <2>5, <2>6, <2>7, <2>8, <2>9, <2>10, <2>11, <2>12, <2>13, <2>14, <2>15 DEF Step
<1> QED
  BY <1>1, <1>2, <1>3 DEF Next

(* A key leaks nowhere before its run has written it to the key file. *)
LEMMA FreshInductive ==
  TypeOK /\ FreshKeys /\ [Next]_vars => FreshKeys'
<1> SUFFICES ASSUME TypeOK, FreshKeys, [Next]_vars
             PROVE  FreshKeys'
  OBVIOUS
<1> USE DEF TypeOK, FreshKeys
<1>1. CASE UNCHANGED vars
  BY <1>1 DEF vars, files, locals, history
<1>2. CASE DeveloperSaves
  BY <1>2 DEF DeveloperSaves, locals
<1>3. ASSUME NEW p \in Procs, Step(p)
      PROVE  FreshKeys'
  <2>1. CASE Start(p)
    BY <2>1 DEF Start, GoTo, files, locals, history
  <2>2. CASE ReuseKey(p)
    BY <2>2 DEF ReuseKey, GoTo, files, locals, history
  <2>3. CASE NewKey(p)
    BY <2>3 DEF NewKey, GoTo, files, locals, history
  <2>4. CASE OpenKey(p)
    BY <2>4 DEF OpenKey, GoTo, files, locals, history
  <2>5. CASE WriteKey(p)
    BY <2>5 DEF WriteKey, GoTo, files, locals, history
  <2>6. CASE SkipConfig(p)
    BY <2>6 DEF SkipConfig, GoTo, files, locals, history
  <2>7. CASE ReadConfig(p)
    BY <2>7 DEF ReadConfig, GoTo, files, locals, history
  <2>8. CASE CheckBackup(p)
    BY <2>8 DEF CheckBackup, GoTo, files, locals, history
  <2>9. CASE CopyConfig(p)
    BY <2>9 DEF CopyConfig, GoTo, files, locals, history
  <2>10. CASE OpenBackup(p)
    BY <2>10 DEF OpenBackup, GoTo, files, locals, history
  <2>11. CASE WriteBackup(p)
    BY <2>11 DEF WriteBackup, GoTo, files, locals, history
  <2>12. CASE OpenConfig(p)
    BY <2>12 DEF OpenConfig, GoTo, files, locals, history
  <2>13. CASE WriteConfig(p)
    BY <2>13 DEF WriteConfig, GoTo, files, locals, history
  <2>14. CASE Bind(p)
    BY <2>14 DEF Bind, GoTo, files, locals, history
  <2>15. CASE Stop(p)
    BY <2>15 DEF Stop, GoTo, files, locals, history
  <2> QED
    BY <1>3, <2>1, <2>2, <2>3, <2>4, <2>5, <2>6, <2>7, <2>8, <2>9, <2>10, <2>11, <2>12, <2>13, <2>14, <2>15 DEF Step
<1> QED
  BY <1>1, <1>2, <1>3 DEF Next

(* One run at a time holds a port, and only a run that is through with the *)
(* configuration has written it.                                           *)
LEMMA PhaseInductive ==
  TypeOK /\ OneServes /\ WrittenAtTheEnd /\ [Next]_vars =>
    OneServes' /\ WrittenAtTheEnd'
<1> SUFFICES ASSUME TypeOK, OneServes, WrittenAtTheEnd, [Next]_vars
             PROVE  OneServes' /\ WrittenAtTheEnd'
  OBVIOUS
<1> USE DEF TypeOK, OneServes, WrittenAtTheEnd
<1>1. CASE UNCHANGED vars
  BY <1>1 DEF vars, files, locals, history
<1>2. CASE DeveloperSaves
  BY <1>2 DEF DeveloperSaves, locals
<1>3. ASSUME NEW p \in Procs, Step(p)
      PROVE  OneServes' /\ WrittenAtTheEnd'
  <2>1. CASE Start(p)
    BY <2>1 DEF Start, GoTo, files, locals, history
  <2>2. CASE ReuseKey(p)
    BY <2>2 DEF ReuseKey, GoTo, files, locals, history
  <2>3. CASE NewKey(p)
    BY <2>3 DEF NewKey, GoTo, files, locals, history
  <2>4. CASE OpenKey(p)
    BY <2>4 DEF OpenKey, GoTo, files, locals, history
  <2>5. CASE WriteKey(p)
    BY <2>5 DEF WriteKey, GoTo, files, locals, history
  <2>6. CASE SkipConfig(p)
    BY <2>6 DEF SkipConfig, GoTo, files, locals, history
  <2>7. CASE ReadConfig(p)
    BY <2>7 DEF ReadConfig, GoTo, files, locals, history
  <2>8. CASE CheckBackup(p)
    BY <2>8 DEF CheckBackup, GoTo, files, locals, history
  <2>9. CASE CopyConfig(p)
    BY <2>9 DEF CopyConfig, GoTo, files, locals, history
  <2>10. CASE OpenBackup(p)
    BY <2>10 DEF OpenBackup, GoTo, files, locals, history
  <2>11. CASE WriteBackup(p)
    BY <2>11 DEF WriteBackup, GoTo, files, locals, history
  <2>12. CASE OpenConfig(p)
    BY <2>12 DEF OpenConfig, GoTo, files, locals, history
  <2>13. CASE WriteConfig(p)
    BY <2>13 DEF WriteConfig, GoTo, files, locals, history
  <2>14. CASE Bind(p)
    BY <2>14 DEF Bind, GoTo, files, locals, history
  <2>15. CASE Stop(p)
    BY <2>15 DEF Stop, GoTo, files, locals, history
  <2> QED
    BY <1>3, <2>1, <2>2, <2>3, <2>4, <2>5, <2>6, <2>7, <2>8, <2>9, <2>10, <2>11, <2>12, <2>13, <2>14, <2>15 DEF Step
<1> QED
  BY <1>1, <1>2, <1>3 DEF Next

(* Without a race, key file, configuration and the run agree. *)
LEMMA KeyInductive ==
  TypeOK /\ FreshKeys /\ WrittenAtTheEnd /\ KeyInv /\ [Next]_vars => KeyInv'
<1> SUFFICES ASSUME TypeOK, FreshKeys, WrittenAtTheEnd, KeyInv, [Next]_vars
             PROVE  KeyInv'
  OBVIOUS
<1> USE DEF TypeOK, FreshKeys, WrittenAtTheEnd, KeyInv, Starting, Rewriting, EmptyFile
<1>1. CASE UNCHANGED vars
  BY <1>1 DEF vars, files, locals, history
<1>2. CASE DeveloperSaves
  <2>1. config'.ours \in {None, config.ours}
    BY <1>2 DEF DeveloperSaves, File
  <2>2. UNCHANGED <<keyFile, pc, key, rotate, written, raced>>
    BY <1>2 DEF DeveloperSaves, locals
  <2> QED
    BY <2>1, <2>2
<1>3. ASSUME NEW p \in Procs, Step(p)
      PROVE  KeyInv'
  <2>1. CASE Start(p)
    <3> SUFFICES ASSUME ~raced' PROVE KeyInv'
      OBVIOUS
    <3>1. ~raced /\ \A q \in Procs : pc[q] \notin Starting
      BY <2>1 DEF Start
    <3>2. pc' = [pc EXCEPT ![p] = "key"] /\ UNCHANGED <<keyFile, config, key, written>>
      BY <2>1 DEF Start, GoTo, files
    <3>3. \A q \in Procs : q # p => rotate'[q] = rotate[q]
      BY <2>1 DEF Start
    <3> QED
      BY <3>1, <3>2, <3>3
  <2>2. CASE ReuseKey(p)
    BY <2>2 DEF ReuseKey, GoTo, files, locals, history
  <2>3. CASE NewKey(p)
    BY <2>3 DEF NewKey, GoTo, files, locals, history
  <2>4. CASE OpenKey(p)
    BY <2>4 DEF OpenKey, GoTo, files, locals, history
  <2>5. CASE WriteKey(p)
    BY <2>5 DEF WriteKey, GoTo, files, locals, history
  <2>6. CASE SkipConfig(p)
    BY <2>6 DEF SkipConfig, GoTo, files, locals, history
  <2>7. CASE ReadConfig(p)
    BY <2>7 DEF ReadConfig, GoTo, files, locals, history
  <2>8. CASE CheckBackup(p)
    BY <2>8 DEF CheckBackup, GoTo, files, locals, history
  <2>9. CASE CopyConfig(p)
    BY <2>9 DEF CopyConfig, GoTo, files, locals, history
  <2>10. CASE OpenBackup(p)
    BY <2>10 DEF OpenBackup, GoTo, files, locals, history
  <2>11. CASE WriteBackup(p)
    BY <2>11 DEF WriteBackup, GoTo, files, locals, history
  <2>12. CASE OpenConfig(p)
    BY <2>12 DEF OpenConfig, GoTo, files, locals, history
  <2>13. CASE WriteConfig(p)
    BY <2>13 DEF WriteConfig, GoTo, files, locals, history
  <2>14. CASE Bind(p)
    BY <2>14 DEF Bind, GoTo, files, locals, history
  <2>15. CASE Stop(p)
    BY <2>15 DEF Stop, GoTo, files, locals, history
  <2> QED
    BY <1>3, <2>1, <2>2, <2>3, <2>4, <2>5, <2>6, <2>7, <2>8, <2>9, <2>10, <2>11, <2>12, <2>13, <2>14, <2>15 DEF Step
<1> QED
  BY <1>1, <1>2, <1>3 DEF Next

(* What a run merges is what the developer saved last. *)
LEMMA MergeInductive ==
  TypeOK /\ AbsentIsNoFile /\ MergeInv /\ [Next]_vars => MergeInv'
<1> SUFFICES ASSUME TypeOK, AbsentIsNoFile, MergeInv, [Next]_vars
             PROVE  MergeInv'
  OBVIOUS
<1> USE DEF TypeOK, AbsentIsNoFile, MergeInv, Rewriting, EmptyFile, NoFile, File
<1>1. CASE UNCHANGED vars
  BY <1>1 DEF vars, files, locals, history
<1>2. CASE DeveloperSaves
  BY <1>2 DEF DeveloperSaves, locals
<1>3. ASSUME NEW p \in Procs, Step(p)
      PROVE  MergeInv'
  <2>1. CASE Start(p)
    BY <2>1 DEF Start, GoTo, files, locals, history
  <2>2. CASE ReuseKey(p)
    BY <2>2 DEF ReuseKey, GoTo, files, locals, history
  <2>3. CASE NewKey(p)
    BY <2>3 DEF NewKey, GoTo, files, locals, history
  <2>4. CASE OpenKey(p)
    BY <2>4 DEF OpenKey, GoTo, files, locals, history
  <2>5. CASE WriteKey(p)
    BY <2>5 DEF WriteKey, GoTo, files, locals, history
  <2>6. CASE SkipConfig(p)
    BY <2>6 DEF SkipConfig, GoTo, files, locals, history
  <2>7. CASE ReadConfig(p)
    BY <2>7 DEF ReadConfig, GoTo, files, locals, history
  <2>8. CASE CheckBackup(p)
    BY <2>8 DEF CheckBackup, GoTo, files, locals, history
  <2>9. CASE CopyConfig(p)
    BY <2>9 DEF CopyConfig, GoTo, files, locals, history
  <2>10. CASE OpenBackup(p)
    BY <2>10 DEF OpenBackup, GoTo, files, locals, history
  <2>11. CASE WriteBackup(p)
    BY <2>11 DEF WriteBackup, GoTo, files, locals, history
  <2>12. CASE OpenConfig(p)
    BY <2>12 DEF OpenConfig, GoTo, files, locals, history
  <2>13. CASE WriteConfig(p)
    BY <2>13 DEF WriteConfig, GoTo, files, locals, history
  <2>14. CASE Bind(p)
    BY <2>14 DEF Bind, GoTo, files, locals, history
  <2>15. CASE Stop(p)
    BY <2>15 DEF Stop, GoTo, files, locals, history
  <2> QED
    BY <1>3, <2>1, <2>2, <2>3, <2>4, <2>5, <2>6, <2>7, <2>8, <2>9, <2>10, <2>11, <2>12, <2>13, <2>14, <2>15 DEF Step
<1> QED
  BY <1>1, <1>2, <1>3 DEF Next

(* An absent file has no content. *)
LEMMA AbsentInductive ==
  TypeOK /\ AbsentIsNoFile /\ [Next]_vars => AbsentIsNoFile'
<1> SUFFICES ASSUME TypeOK, AbsentIsNoFile, [Next]_vars
             PROVE  AbsentIsNoFile'
  OBVIOUS
<1> USE DEF TypeOK, AbsentIsNoFile, EmptyFile, NoFile, File
<1>1. CASE UNCHANGED vars
  BY <1>1 DEF vars, files, locals, history
<1>2. CASE DeveloperSaves
  BY <1>2 DEF DeveloperSaves, locals
<1>3. ASSUME NEW p \in Procs, Step(p)
      PROVE  AbsentIsNoFile'
  <2>1. CASE Start(p)
    BY <2>1 DEF Start, GoTo, files, locals, history
  <2>2. CASE ReuseKey(p)
    BY <2>2 DEF ReuseKey, GoTo, files, locals, history
  <2>3. CASE NewKey(p)
    BY <2>3 DEF NewKey, GoTo, files, locals, history
  <2>4. CASE OpenKey(p)
    BY <2>4 DEF OpenKey, GoTo, files, locals, history
  <2>5. CASE WriteKey(p)
    BY <2>5 DEF WriteKey, GoTo, files, locals, history
  <2>6. CASE SkipConfig(p)
    BY <2>6 DEF SkipConfig, GoTo, files, locals, history
  <2>7. CASE ReadConfig(p)
    BY <2>7 DEF ReadConfig, GoTo, files, locals, history
  <2>8. CASE CheckBackup(p)
    BY <2>8 DEF CheckBackup, GoTo, files, locals, history
  <2>9. CASE CopyConfig(p)
    BY <2>9 DEF CopyConfig, GoTo, files, locals, history
  <2>10. CASE OpenBackup(p)
    BY <2>10 DEF OpenBackup, GoTo, files, locals, history
  <2>11. CASE WriteBackup(p)
    BY <2>11 DEF WriteBackup, GoTo, files, locals, history
  <2>12. CASE OpenConfig(p)
    BY <2>12 DEF OpenConfig, GoTo, files, locals, history
  <2>13. CASE WriteConfig(p)
    BY <2>13 DEF WriteConfig, GoTo, files, locals, history
  <2>14. CASE Bind(p)
    BY <2>14 DEF Bind, GoTo, files, locals, history
  <2>15. CASE Stop(p)
    BY <2>15 DEF Stop, GoTo, files, locals, history
  <2> QED
    BY <1>3, <2>1, <2>2, <2>3, <2>4, <2>5, <2>6, <2>7, <2>8, <2>9, <2>10, <2>11, <2>12, <2>13, <2>14, <2>15 DEF Step
<1> QED
  BY <1>1, <1>2, <1>3 DEF Next

(* The backup is made before the first change and not again. *)
LEMMA BackupInductive ==
  TypeOK /\ AbsentIsNoFile /\ KeyInv /\ BackupInv /\ [Next]_vars => BackupInv'
<1> SUFFICES ASSUME TypeOK, AbsentIsNoFile, KeyInv, BackupInv, [Next]_vars
             PROVE  BackupInv'
  OBVIOUS
<1> USE DEF TypeOK, AbsentIsNoFile, BackupInv, Rewriting, Starting, EmptyFile, NoFile, File
<1>1. CASE UNCHANGED vars
  BY <1>1 DEF vars, files, locals, history, KeyInv
<1>2. CASE DeveloperSaves
  BY <1>2 DEF DeveloperSaves, locals, KeyInv
<1>3. ASSUME NEW p \in Procs, Step(p)
      PROVE  BackupInv'
  <2>1. CASE Start(p)
    BY <2>1 DEF Start, GoTo, files, locals, history, KeyInv
  <2>2. CASE ReuseKey(p)
    BY <2>2 DEF ReuseKey, GoTo, files, locals, history, KeyInv
  <2>3. CASE NewKey(p)
    BY <2>3 DEF NewKey, GoTo, files, locals, history, KeyInv
  <2>4. CASE OpenKey(p)
    BY <2>4 DEF OpenKey, GoTo, files, locals, history, KeyInv
  <2>5. CASE WriteKey(p)
    BY <2>5 DEF WriteKey, GoTo, files, locals, history, KeyInv
  <2>6. CASE SkipConfig(p)
    BY <2>6 DEF SkipConfig, GoTo, files, locals, history, KeyInv
  <2>7. CASE ReadConfig(p)
    BY <2>7 DEF ReadConfig, GoTo, files, locals, history, KeyInv
  <2>8. CASE CheckBackup(p)
    BY <2>8 DEF CheckBackup, GoTo, files, locals, history, KeyInv
  <2>9. CASE CopyConfig(p)
    BY <2>9 DEF CopyConfig, GoTo, files, locals, history, KeyInv
  <2>10. CASE OpenBackup(p)
    BY <2>10 DEF OpenBackup, GoTo, files, locals, history, KeyInv
  <2>11. CASE WriteBackup(p)
    BY <2>11 DEF WriteBackup, GoTo, files, locals, history, KeyInv
  <2>12. CASE OpenConfig(p)
    <3> SUFFICES ASSUME ~raced, ~cut, ~overtaken PROVE BackupInv'
      BY <2>12 DEF OpenConfig
    <3>1. pc[p] = "open_config" /\ pc' = [pc EXCEPT ![p] = "write_config"]
      BY <2>12 DEF OpenConfig, GoTo
    <3>2. \A q \in Procs \ {p} : pc[q] \notin Starting
      BY <3>1 DEF KeyInv
    <3>3. /\ UNCHANGED <<backup, copy, raced, cut, overtaken>>
          /\ original' = IF original = NoFile THEN config ELSE original
      BY <2>12 DEF OpenConfig, locals
    <3>4. original # NoFile => original' # NoFile /\ backup' = original'
      BY <3>3
    <3>5. original = NoFile /\ config # NoFile => original' # NoFile /\ backup' = original'
      BY <3>1, <3>3
    <3>6. original = NoFile /\ config = NoFile =>
            original' = NoFile /\ backup'.kind = "absent"
      BY <3>1, <3>3
    <3>7. \A q \in Procs : pc'[q] \notin {"backup", "copy", "open_backup",
                                           "write_backup", "open_config"}
      BY <3>1, <3>2
    <3> QED
      BY <3>4, <3>5, <3>6, <3>7
  <2>13. CASE WriteConfig(p)
    BY <2>13 DEF WriteConfig, GoTo, files, locals, history, KeyInv
  <2>14. CASE Bind(p)
    BY <2>14 DEF Bind, GoTo, files, locals, history, KeyInv
  <2>15. CASE Stop(p)
    BY <2>15 DEF Stop, GoTo, files, locals, history, KeyInv
  <2> QED
    BY <1>3, <2>1, <2>2, <2>3, <2>4, <2>5, <2>6, <2>7, <2>8, <2>9, <2>10, <2>11, <2>12, <2>13, <2>14, <2>15 DEF Step
<1> QED
  BY <1>1, <1>2, <1>3 DEF Next

-----------------------------------------------------------------------------
(* Every variable keeps its type, and a run past the key step has a key    *)
(* (main, load_or_create_key).                                             *)
THEOREM TypeCorrect == Spec => []TypeOK
<1>1. Init => TypeOK
  <2> SUFFICES ASSUME Init PROVE TypeOK
    OBVIOUS
  <2>1. NoFile \in File
    BY DEF NoFile, File
  <2>2. config \in File /\ mine \in SUBSET Providers
    <3>1. CASE config = NoFile
      BY <3>1, <2>1 DEF Init, NoFile
    <3>2. CASE config # NoFile
      <4>1. PICK k \in {"list", "broken"}, S \in SUBSET Providers :
              config = [kind |-> k, others |-> S, ours |-> None]
        BY <3>2 DEF Init
      <4>2. mine = S
        BY <4>1 DEF Init
      <4> QED
        BY <4>1, <4>2 DEF File
    <3> QED
      BY <3>1, <3>2
  <2>3. saves \in 0 .. MaxSaves
    BY DEF Init
  <2> QED
    BY <2>1, <2>2, <2>3 DEF Init, TypeOK, Starting, Ends
<1> QED
  BY <1>1, TypeInductive, PTL DEF Spec

(* The invariant of all starts: what the key file, the configuration and   *)
(* its backup hold relative to the runs under way (main).                  *)
THEOREM StartupCorrect == Spec => []StartupInv
<1>1. Init => StartupInv
  <2> SUFFICES ASSUME Init PROVE StartupInv
    OBVIOUS
  <2>1. FreshKeys /\ OneServes /\ WrittenAtTheEnd /\ KeyInv
    BY DEF Init, FreshKeys, OneServes, WrittenAtTheEnd, KeyInv, Starting, Rewriting
  <2>2. AbsentIsNoFile /\ MergeInv /\ BackupInv
    BY DEF Init, AbsentIsNoFile, MergeInv, BackupInv, NoFile, Rewriting
  <2> QED
    BY <2>1, <2>2 DEF StartupInv
<1>2. TypeOK /\ StartupInv /\ [Next]_vars => StartupInv'
  BY FreshInductive, PhaseInductive, KeyInductive, MergeInductive, AbsentInductive,
     BackupInductive DEF StartupInv
<1> QED
  BY <1>1, <1>2, TypeCorrect, PTL DEF Spec

(* "Existing providers are preserved" (write_vscode_config): no start, and *)
(* no two that race, lose a provider otherwise than by dying or by being   *)
(* overtaken between reading the file and filling it again.                *)
THEOREM ProvidersSurvive == Spec => []ProvidersKept
<1>1. StartupInv => ProvidersKept
  BY DEF StartupInv, MergeInv, ProvidersKept
<1> QED
  BY <1>1, StartupCorrect, PTL

(* The backup holds the configuration before the first change              *)
(* (write_vscode_config) as long as starts neither race, die nor are       *)
(* overtaken on the way.                                                   *)
THEOREM BackupSurvives == Spec => []BackupIsOriginal
<1>1. StartupInv => BackupIsOriginal
  BY DEF StartupInv, BackupInv, BackupIsOriginal
<1> QED
  BY <1>1, StartupCorrect, PTL

(* The IDE and the proxy that configured it have the same key (main):      *)
(* deaths at any access and half-done rotations are healed by the next     *)
(* start. Excepted are starts that raced, and a serving proxy whose key    *)
(* is no longer the key file's, rotated since.                             *)
THEOREM SameKey == Spec => []KeyAgreement
<1>1. StartupInv => KeyAgreement
  BY DEF StartupInv, KeyInv, KeyAgreement
<1> QED
  BY <1>1, StartupCorrect, PTL

(* The key file gives up its key only by a rotation or in a race           *)
(* (load_or_create_key).                                                   *)
THEOREM KeyIsPersistent == Spec => KeyPersists
<1>1. TypeOK /\ StartupInv /\ [Next]_vars =>
        [keyFile # None /\ keyFile' # keyFile =>
           raced \/ \E p \in Procs : pc[p] = "open_key" /\ rotate[p]]_vars
  <2> SUFFICES ASSUME TypeOK, StartupInv, Next, ~raced, keyFile # None, keyFile' # keyFile
               PROVE  \E p \in Procs : pc[p] = "open_key" /\ rotate[p]
    BY DEF vars, files
  <2>1. PICK p \in Procs : OpenKey(p) \/ WriteKey(p)
    BY DEF Next, DeveloperSaves, Step, Start, ReuseKey, NewKey, SkipConfig, ReadConfig,
           CheckBackup, CopyConfig, OpenBackup, WriteBackup, OpenConfig, WriteConfig,
           Bind, Stop, files, locals
  <2>2. pc[p] # "write_key"
    BY DEF StartupInv, KeyInv
  <2>3. pc[p] = "open_key"
    BY <2>1, <2>2 DEF OpenKey, WriteKey
  <2>4. rotate[p]
    BY <2>3 DEF StartupInv, KeyInv, TypeOK
  <2> QED
    BY <2>3, <2>4
<1> QED
  BY <1>1, TypeCorrect, StartupCorrect, PTL DEF Spec, KeyPersists
=============================================================================
