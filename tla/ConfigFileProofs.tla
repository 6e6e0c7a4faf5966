-------------------------- MODULE ConfigFileProofs --------------------------
(***************************************************************************)
(* Theorems about ConfigFile, for any number of edits, power cuts and       *)
(* failing writes, unlinks, renames and opens.  Three of them need reads    *)
(* that do not fail.                                                        *)
(***************************************************************************)
EXTENDS MCFrontPanel, TLAPS

NoReadFaults == "read" \notin Faults

C == files["canonical"]
B == files["backup"]
T == files["tmp"]

(* Only the temporary file can be torn, and only next to a good canonical   *)
(* file: it is written in place only when it was already valid, and then    *)
(* recovery has put a configuration under the canonical name.               *)
TornOK == C # Mixed /\ B # Mixed /\ (T = Mixed => C \in Config)

(* Whatever the memory holds when a save runs is at least as new as what    *)
(* the card holds (invalid contents are negative).                          *)
MemoryNewest ==
    /\ ram \in Config /\ ram <= edits /\ Loadable(files) <= edits
    /\ pc = "idle" \/ (pc # "off" /\ caller = "save") => Loadable(files) <= ram
    /\ pc \notin {"off", "idle"} /\ caller = "load" => ram = 0

(* What each point of recoverConfigFile has established ...                 *)
RecoverKnows ==
    /\ pc = "cleanTmp" => C \in Config
    /\ pc = "tryBackup" => ~Valid(C)
    /\ pc = "restoreBackup" => C = Absent /\ B \in Config
    /\ pc = "tryTmp" => ~Valid(C) /\ ~Valid(B)
    /\ pc = "restoreTmp" => C = Absent /\ ~Valid(B) /\ T \in Config
    /\ pc = "recovered" /\ active = "canonical" =>
         C \in Config \/ (~Valid(C) /\ ~Valid(B) /\ ~Valid(T))
    /\ pc = "recovered" /\ active = "backup" => ~Valid(C) /\ B \in Config
    /\ pc = "recovered" /\ active = "tmp" => ~Valid(C) /\ ~Valid(B) /\ T \in Config

(* ... and each point of saveConfig after it.                               *)
SaveKnows ==
    /\ pc \in {"dropTmp", "open", "write"} =>
         /\ caller = "save"
         /\ IF hadValid THEN C \in Config ELSE ~Valid(C) /\ ~Valid(B) /\ ~Valid(T)
    /\ pc \in {"dropBackup", "rotate"} => C \in Config /\ hadValid
    /\ pc = "rotate" => B = Absent
    /\ pc = "replace" => ~hadValid /\ ~Valid(C) /\ ~Valid(B)
    /\ pc = "promote" => C = Absent /\ IF hadValid THEN B \in Config ELSE ~Valid(B)
    /\ pc = "rollback" => C = Absent /\ B \in Config
    /\ pc \in {"dropBackup", "rotate", "replace", "promote", "rollback"} =>
         T = ram /\ caller = "save"
    /\ pc = "dropOld" => C = ram /\ caller = "save"

CardInv == TypeOK /\ TornOK /\ MemoryNewest /\ RecoverKnows /\ SaveKnows

Ascends == Loadable(files) \in Config =>
             Loadable(files') \in Config /\ Loadable(files') >= Loadable(files)

USE FaultsAssumption, BoundsAssumption

LEMMA CardTypeInit == Init => TypeOK
<1> SUFFICES ASSUME Init PROVE TypeOK
  OBVIOUS
<1>1. files \in [Name -> Content]
  BY DEF Init, Name, Content
<1>2. ram \in Config \cup {Mixed} /\ edits \in 0 .. MaxEdits /\ faults \in 0 .. MaxFaults
      /\ mark \in 0 .. faults
  BY DEF Init, Config
<1>3. QED
  BY <1>1, <1>2 DEF Init, TypeOK, Name

LEMMA CardInit == Init => CardInv
<1> SUFFICES ASSUME Init PROVE CardInv
  OBVIOUS
<1>1. files \in [Name -> Content] /\ ~Valid(C) /\ ~Valid(B) /\ ~Valid(T)
  BY DEF Init, Name, Content, Config, Absent, Bad, Mixed, Valid, C, B, T
<1>2. Loadable(files) = Absent
  BY <1>1 DEF Loadable, C, B, T
<1>3. TypeOK
  BY CardTypeInit
<1>4. QED
  BY <1>1, <1>2, <1>3 DEF Init, CardInv, TornOK, MemoryNewest, RecoverKnows, SaveKnows,
     Valid, Absent, Config

(* What a call leaves of the three files. *)
Files == [Name -> Content]

LEMMA PutFacts ==
  ASSUME files \in Files, NEW n \in Name, NEW c \in Content, Put(n, c)
  PROVE  files' \in Files /\ files'[n] = c /\ \A m \in Name \ {n} : files'[m] = files[m]
  BY DEF Put, Files

LEMMA UnlinkFacts ==
  ASSUME files \in Files, NEW n \in Name, NEW ok \in BOOLEAN, Unlink(n, ok)
  PROVE  /\ files' \in Files
         /\ IF ok THEN files[n] # Absent /\ files'[n] = Absent ELSE files'[n] = files[n]
         /\ \A m \in Name \ {n} : files'[m] = files[m]
         /\ faults' = faults \/ Fault("unlink")
<1>1. CASE files[n] # Absent /\ ok /\ Fine /\ Put(n, Absent)
  BY <1>1, PutFacts, Absent \in Content DEF Fine, Content
<1>2. CASE files[n] = Absent /\ ~ok /\ Fine /\ UNCHANGED files
  BY <1>2 DEF Fine
<1>3. CASE files[n] # Absent /\ ~ok /\ Fault("unlink") /\ UNCHANGED files
  BY <1>3
<1>4. QED
  BY <1>1, <1>2, <1>3 DEF Unlink

LEMMA UnlinkOkFacts ==
  ASSUME files \in Files, NEW n \in Name, Unlink(n, TRUE)
  PROVE  /\ files' \in Files /\ files'[n] = Absent
         /\ \A m \in Name \ {n} : files'[m] = files[m]
         /\ faults' = faults
  BY PutFacts, Absent \in Content DEF Unlink, Fine, Content

LEMMA RenameFacts ==
  ASSUME files \in Files, NEW f \in Name, NEW t \in Name, f # t, NEW ok \in BOOLEAN,
         Rename(f, t, ok)
  PROVE  /\ files' \in Files
         /\ IF ok THEN /\ files[f] # Absent /\ files[t] = Absent
                       /\ files'[t] = files[f] /\ files'[f] = Absent
                  ELSE files' = files
         /\ \A m \in Name \ {f, t} : files'[m] = files[m]
         /\ faults' = faults \/ Fault("rename")
  BY DEF Rename, Files, Fine, Content

(* One step: the invariant survives and what there is to load only gets     *)
(* newer.                                                                   *)
LEMMA CardStep == NoReadFaults /\ CardInv /\ [Next]_vars => CardInv' /\ Ascends
<1> SUFFICES ASSUME NoReadFaults, CardInv, [Next]_vars PROVE CardInv' /\ Ascends
  OBVIOUS
<1>f. files \in Files /\ files["canonical"] \in Content /\ files["backup"] \in Content
      /\ files["tmp"] \in Content
  BY DEF CardInv, TypeOK, Files, Name
<1>n. "canonical" \in Name /\ "backup" \in Name /\ "tmp" \in Name
  BY DEF Name
<1>u. ASSUME Unlink("canonical", TRUE)
      PROVE  /\ files'["canonical"] = Absent /\ files'["backup"] = files["backup"]
             /\ files'["tmp"] = files["tmp"] /\ files' \in Files /\ faults' = faults
  <2>1. \A m \in Name \ {"canonical"} : files'[m] = files[m]
    BY <1>u, <1>f, <1>n, UnlinkOkFacts
  <2>2. QED
    BY <1>u, <1>f, <1>n, <2>1, UnlinkOkFacts DEF Name
<1> USE DEF CardInv, NoReadFaults, Loadable, C, B, T, Valid, Config, Content, Absent, Bad,
        Mixed, Fine, Fault, MayFail, NotRemoved, Misread, Exists, Return, Torn, rest, keep,
        Files
<1>1. CASE Boot BY <1>1
  DEF Boot, TypeOK, TornOK, MemoryNewest, RecoverKnows, SaveKnows, Ascends
<1>2. CASE Edit BY <1>2
  DEF Edit, TypeOK, TornOK, MemoryNewest, RecoverKnows, SaveKnows, Ascends
<1>3. CASE CallSave BY <1>3
  DEF CallSave, TypeOK, TornOK, MemoryNewest, RecoverKnows, SaveKnows, Ascends
<1>4. CASE Crash BY <1>4, <1>f, <1>n, PutFacts
  DEF Crash, TypeOK, TornOK, MemoryNewest, RecoverKnows, SaveKnows, Ascends
<1>5. CASE RecoverCanonical
  <2> USE DEF RecoverCanonical, TypeOK, TornOK, MemoryNewest, RecoverKnows, SaveKnows, Ascends
  <2>1. TypeOK' BY <1>5, <1>f, <1>n, UnlinkFacts
  <2>2. TornOK' BY <1>5, <1>f, <1>n, UnlinkFacts
  <2>3. MemoryNewest' BY <1>5, <1>f, <1>n, UnlinkFacts
  <2>4. RecoverKnows' BY <1>5, <1>f, <1>n, UnlinkFacts
  <2>5. SaveKnows' BY <1>5, <1>f, <1>n, UnlinkFacts
  <2>6. Ascends BY <1>5, <1>f, <1>n, UnlinkFacts
  <2> HIDE DEF RecoverCanonical, TypeOK, TornOK, MemoryNewest, RecoverKnows, SaveKnows, Ascends
  <2>7. QED BY <2>1, <2>2, <2>3, <2>4, <2>5, <2>6
<1>6. CASE CleanTmp
  <2> USE DEF CleanTmp, TypeOK, TornOK, MemoryNewest, RecoverKnows, SaveKnows, Ascends
  <2>1. TypeOK' BY <1>6, <1>f, <1>n, UnlinkFacts
  <2>2. TornOK' BY <1>6, <1>f, <1>n, UnlinkFacts
  <2>3. MemoryNewest' BY <1>6, <1>f, <1>n, UnlinkFacts
  <2>4. RecoverKnows' BY <1>6, <1>f, <1>n, UnlinkFacts
  <2>5. SaveKnows' BY <1>6, <1>f, <1>n, UnlinkFacts
  <2>6. Ascends BY <1>6, <1>f, <1>n, UnlinkFacts
  <2> HIDE DEF CleanTmp, TypeOK, TornOK, MemoryNewest, RecoverKnows, SaveKnows, Ascends
  <2>7. QED BY <2>1, <2>2, <2>3, <2>4, <2>5, <2>6
<1>7. CASE SkipCanonical
  <2> USE DEF SkipCanonical, TypeOK, TornOK, MemoryNewest, RecoverKnows, SaveKnows, Ascends
  <2>1. TypeOK' BY <1>7
  <2>2. TornOK' BY <1>7
  <2>3. MemoryNewest' BY <1>7
  <2>4. RecoverKnows' BY <1>7
  <2>5. SaveKnows' BY <1>7
  <2>6. Ascends BY <1>7
  <2> HIDE DEF SkipCanonical, TypeOK, TornOK, MemoryNewest, RecoverKnows, SaveKnows, Ascends
  <2>7. QED BY <2>1, <2>2, <2>3, <2>4, <2>5, <2>6
<1>8. CASE RecoverBackup
  <2>a. pc = "tryBackup" /\ Valid(B) /\ UNCHANGED rest
    BY <1>8 DEF RecoverBackup
  <2>b. \/ pc' = "restoreBackup" /\ UNCHANGED active /\ faults' = faults /\ C' = Absent
        \/ pc' = "recovered" /\ active' = "backup" /\ faults' = faults + 1 /\ faults < MaxFaults /\ C' = C
    BY <1>8, <1>u DEF RecoverBackup
  <2>c. files' \in Files /\ B' = B /\ T' = T
    BY <1>8, <1>u, <1>f DEF RecoverBackup
  <2> USE DEF TypeOK, TornOK, MemoryNewest, RecoverKnows, SaveKnows, Ascends
  <2>1. TypeOK' BY <1>f, <1>n, <2>a, <2>b, <2>c
  <2>2. TornOK' BY <1>f, <1>n, <2>a, <2>b, <2>c
  <2>3. MemoryNewest' BY <1>f, <1>n, <2>a, <2>b, <2>c
  <2>4. RecoverKnows' BY <1>f, <1>n, <2>a, <2>b, <2>c
  <2>5. SaveKnows' BY <1>f, <1>n, <2>a, <2>b, <2>c
  <2>6. Ascends BY <1>f, <1>n, <2>a, <2>b, <2>c
  <2> HIDE DEF TypeOK, TornOK, MemoryNewest, RecoverKnows, SaveKnows, Ascends
  <2>7. QED BY <2>1, <2>2, <2>3, <2>4, <2>5, <2>6
<1>9. CASE RestoreBackup
  <2> USE DEF RestoreBackup, TypeOK, TornOK, MemoryNewest, RecoverKnows, SaveKnows, Ascends
  <2>1. TypeOK' BY <1>9, <1>f, <1>n, RenameFacts
  <2>2. TornOK' BY <1>9, <1>f, <1>n, RenameFacts
  <2>3. MemoryNewest' BY <1>9, <1>f, <1>n, RenameFacts
  <2>4. RecoverKnows' BY <1>9, <1>f, <1>n, RenameFacts
  <2>5. SaveKnows' BY <1>9, <1>f, <1>n, RenameFacts
  <2>6. Ascends BY <1>9, <1>f, <1>n, RenameFacts
  <2> HIDE DEF RestoreBackup, TypeOK, TornOK, MemoryNewest, RecoverKnows, SaveKnows, Ascends
  <2>7. QED BY <2>1, <2>2, <2>3, <2>4, <2>5, <2>6
<1>10. CASE SkipBackup
  <2> USE DEF SkipBackup, TypeOK, TornOK, MemoryNewest, RecoverKnows, SaveKnows, Ascends
  <2>1. TypeOK' BY <1>10
  <2>2. TornOK' BY <1>10
  <2>3. MemoryNewest' BY <1>10
  <2>4. RecoverKnows' BY <1>10
  <2>5. SaveKnows' BY <1>10
  <2>6. Ascends BY <1>10
  <2> HIDE DEF SkipBackup, TypeOK, TornOK, MemoryNewest, RecoverKnows, SaveKnows, Ascends
  <2>7. QED BY <2>1, <2>2, <2>3, <2>4, <2>5, <2>6
<1>11. CASE RecoverTmp
  <2>a. pc = "tryTmp" /\ Valid(T) /\ UNCHANGED rest
    BY <1>11 DEF RecoverTmp
  <2>b. \/ pc' = "restoreTmp" /\ UNCHANGED active /\ faults' = faults /\ C' = Absent
        \/ pc' = "recovered" /\ active' = "tmp" /\ faults' = faults + 1 /\ faults < MaxFaults /\ C' = C
    BY <1>11, <1>u DEF RecoverTmp
  <2>c. files' \in Files /\ B' = B /\ T' = T
    BY <1>11, <1>u, <1>f DEF RecoverTmp
  <2> USE DEF TypeOK, TornOK, MemoryNewest, RecoverKnows, SaveKnows, Ascends
  <2>1. TypeOK' BY <1>f, <1>n, <2>a, <2>b, <2>c
  <2>2. TornOK' BY <1>f, <1>n, <2>a, <2>b, <2>c
  <2>3. MemoryNewest' BY <1>f, <1>n, <2>a, <2>b, <2>c
  <2>4. RecoverKnows' BY <1>f, <1>n, <2>a, <2>b, <2>c
  <2>5. SaveKnows' BY <1>f, <1>n, <2>a, <2>b, <2>c
  <2>6. Ascends BY <1>f, <1>n, <2>a, <2>b, <2>c
  <2> HIDE DEF TypeOK, TornOK, MemoryNewest, RecoverKnows, SaveKnows, Ascends
  <2>7. QED BY <2>1, <2>2, <2>3, <2>4, <2>5, <2>6
<1>12. CASE RestoreTmp
  <2> USE DEF RestoreTmp, TypeOK, TornOK, MemoryNewest, RecoverKnows, SaveKnows, Ascends
  <2>1. TypeOK' BY <1>12, <1>f, <1>n, RenameFacts
  <2>2. TornOK' BY <1>12, <1>f, <1>n, RenameFacts
  <2>3. MemoryNewest' BY <1>12, <1>f, <1>n, RenameFacts
  <2>4. RecoverKnows' BY <1>12, <1>f, <1>n, RenameFacts
  <2>5. SaveKnows' BY <1>12, <1>f, <1>n, RenameFacts
  <2>6. Ascends BY <1>12, <1>f, <1>n, RenameFacts
  <2> HIDE DEF RestoreTmp, TypeOK, TornOK, MemoryNewest, RecoverKnows, SaveKnows, Ascends
  <2>7. QED BY <2>1, <2>2, <2>3, <2>4, <2>5, <2>6
<1>13. CASE RecoverNone
  <2> USE DEF RecoverNone, TypeOK, TornOK, MemoryNewest, RecoverKnows, SaveKnows, Ascends
  <2>1. TypeOK' BY <1>13, <1>n
  <2>2. TornOK' BY <1>13, <1>n
  <2>3. MemoryNewest' BY <1>13, <1>n
  <2>4. RecoverKnows' BY <1>13, <1>n
  <2>5. SaveKnows' BY <1>13, <1>n
  <2>6. Ascends BY <1>13, <1>n
  <2> HIDE DEF RecoverNone, TypeOK, TornOK, MemoryNewest, RecoverKnows, SaveKnows, Ascends
  <2>7. QED BY <2>1, <2>2, <2>3, <2>4, <2>5, <2>6
<1>14. CASE LoadConfig
  <2>k. active \in {"canonical", "backup", "tmp"}
    BY DEF TypeOK, Name
  <2>m. IF Valid(files[active]) THEN files[active] = Loadable(files) ELSE Loadable(files) = Absent
    BY <1>14, <1>f, <2>k DEF LoadConfig, TornOK, RecoverKnows
  <2>v. ram' = ram \/ (ram' = Loadable(files) /\ Valid(ram'))
    BY <1>14, <2>m DEF LoadConfig
  <2>w. Loadable(files) # Mixed
    BY <1>f DEF TornOK
  <2> USE DEF LoadConfig, TypeOK, TornOK, MemoryNewest, RecoverKnows, SaveKnows, Ascends
  <2>1. TypeOK' BY <1>14, <1>f, <2>k, <2>m, <2>v, <2>w
  <2>2. TornOK' BY <1>14, <1>f, <2>k, <2>m, <2>v, <2>w
  <2>3. MemoryNewest' BY <1>14, <1>f, <2>k, <2>m, <2>v, <2>w
  <2>4. RecoverKnows' BY <1>14, <1>f, <2>k, <2>m, <2>v, <2>w
  <2>5. SaveKnows' BY <1>14, <1>f, <2>k, <2>m, <2>v, <2>w
  <2>6. Ascends BY <1>14, <1>f, <2>k, <2>m, <2>v, <2>w
  <2> HIDE DEF LoadConfig, TypeOK, TornOK, MemoryNewest, RecoverKnows, SaveKnows, Ascends
  <2>7. QED BY <2>1, <2>2, <2>3, <2>4, <2>5, <2>6
<1>15. CASE GiveUp
  <2> USE DEF GiveUp, TypeOK, TornOK, MemoryNewest, RecoverKnows, SaveKnows, Ascends
  <2>1. TypeOK' BY <1>15
  <2>2. TornOK' BY <1>15
  <2>3. MemoryNewest' BY <1>15
  <2>4. RecoverKnows' BY <1>15
  <2>5. SaveKnows' BY <1>15
  <2>6. Ascends BY <1>15
  <2> HIDE DEF GiveUp, TypeOK, TornOK, MemoryNewest, RecoverKnows, SaveKnows, Ascends
  <2>7. QED BY <2>1, <2>2, <2>3, <2>4, <2>5, <2>6
<1>16. CASE BeginSave
  <2> USE DEF BeginSave, TypeOK, TornOK, MemoryNewest, RecoverKnows, SaveKnows, Ascends
  <2>1. TypeOK' BY <1>16
  <2>2. TornOK' BY <1>16
  <2>3. MemoryNewest' BY <1>16
  <2>4. RecoverKnows' BY <1>16
  <2>5. SaveKnows' BY <1>16
  <2>6. Ascends BY <1>16
  <2> HIDE DEF BeginSave, TypeOK, TornOK, MemoryNewest, RecoverKnows, SaveKnows, Ascends
  <2>7. QED BY <2>1, <2>2, <2>3, <2>4, <2>5, <2>6
<1>17. CASE DropTmp
  <2> USE DEF DropTmp, TypeOK, TornOK, MemoryNewest, RecoverKnows, SaveKnows, Ascends
  <2>1. TypeOK' BY <1>17, <1>f, <1>n, UnlinkFacts
  <2>2. TornOK' BY <1>17, <1>f, <1>n, UnlinkFacts
  <2>3. MemoryNewest' BY <1>17, <1>f, <1>n, UnlinkFacts
  <2>4. RecoverKnows' BY <1>17, <1>f, <1>n, UnlinkFacts
  <2>5. SaveKnows' BY <1>17, <1>f, <1>n, UnlinkFacts
  <2>6. Ascends BY <1>17, <1>f, <1>n, UnlinkFacts
  <2> HIDE DEF DropTmp, TypeOK, TornOK, MemoryNewest, RecoverKnows, SaveKnows, Ascends
  <2>7. QED BY <2>1, <2>2, <2>3, <2>4, <2>5, <2>6
<1>18. CASE OpenTmp
  <2> USE DEF OpenTmp, TypeOK, TornOK, MemoryNewest, RecoverKnows, SaveKnows, Ascends
  <2>1. TypeOK' BY <1>18, <1>f, <1>n, PutFacts
  <2>2. TornOK' BY <1>18, <1>f, <1>n, PutFacts
  <2>3. MemoryNewest' BY <1>18, <1>f, <1>n, PutFacts
  <2>4. RecoverKnows' BY <1>18, <1>f, <1>n, PutFacts
  <2>5. SaveKnows' BY <1>18, <1>f, <1>n, PutFacts
  <2>6. Ascends BY <1>18, <1>f, <1>n, PutFacts
  <2> HIDE DEF OpenTmp, TypeOK, TornOK, MemoryNewest, RecoverKnows, SaveKnows, Ascends
  <2>7. QED BY <2>1, <2>2, <2>3, <2>4, <2>5, <2>6
<1>19. CASE WriteTmp
  <2> USE DEF WriteTmp, TypeOK, TornOK, MemoryNewest, RecoverKnows, SaveKnows, Ascends
  <2>1. TypeOK' BY <1>19, <1>f, <1>n, PutFacts
  <2>2. TornOK' BY <1>19, <1>f, <1>n, PutFacts
  <2>3. MemoryNewest' BY <1>19, <1>f, <1>n, PutFacts
  <2>4. RecoverKnows' BY <1>19, <1>f, <1>n, PutFacts
  <2>5. SaveKnows' BY <1>19, <1>f, <1>n, PutFacts
  <2>6. Ascends BY <1>19, <1>f, <1>n, PutFacts
  <2> HIDE DEF WriteTmp, TypeOK, TornOK, MemoryNewest, RecoverKnows, SaveKnows, Ascends
  <2>7. QED BY <2>1, <2>2, <2>3, <2>4, <2>5, <2>6
<1>20. CASE DropBackup
  <2> USE DEF DropBackup, TypeOK, TornOK, MemoryNewest, RecoverKnows, SaveKnows, Ascends
  <2>1. TypeOK' BY <1>20, <1>f, <1>n, UnlinkFacts
  <2>2. TornOK' BY <1>20, <1>f, <1>n, UnlinkFacts
  <2>3. MemoryNewest' BY <1>20, <1>f, <1>n, UnlinkFacts
  <2>4. RecoverKnows' BY <1>20, <1>f, <1>n, UnlinkFacts
  <2>5. SaveKnows' BY <1>20, <1>f, <1>n, UnlinkFacts
  <2>6. Ascends BY <1>20, <1>f, <1>n, UnlinkFacts
  <2> HIDE DEF DropBackup, TypeOK, TornOK, MemoryNewest, RecoverKnows, SaveKnows, Ascends
  <2>7. QED BY <2>1, <2>2, <2>3, <2>4, <2>5, <2>6
<1>21. CASE Rotate
  <2> USE DEF Rotate, TypeOK, TornOK, MemoryNewest, RecoverKnows, SaveKnows, Ascends
  <2>1. TypeOK' BY <1>21, <1>f, <1>n, RenameFacts
  <2>2. TornOK' BY <1>21, <1>f, <1>n, RenameFacts
  <2>3. MemoryNewest' BY <1>21, <1>f, <1>n, RenameFacts
  <2>4. RecoverKnows' BY <1>21, <1>f, <1>n, RenameFacts
  <2>5. SaveKnows' BY <1>21, <1>f, <1>n, RenameFacts
  <2>6. Ascends BY <1>21, <1>f, <1>n, RenameFacts
  <2> HIDE DEF Rotate, TypeOK, TornOK, MemoryNewest, RecoverKnows, SaveKnows, Ascends
  <2>7. QED BY <2>1, <2>2, <2>3, <2>4, <2>5, <2>6
<1>22. CASE Replace
  <2>a. pc = "replace" /\ UNCHANGED <<hadValid, keep>>
    BY <1>22 DEF Replace
  <2>b. \/ pc' = "promote" /\ UNCHANGED active /\ faults' = faults /\ C' = Absent
        \/ pc' = "idle" /\ UNCHANGED active /\ faults' = faults + 1 /\ faults < MaxFaults /\ C' = C
    BY <1>22, <1>u DEF Replace
  <2>c. files' \in Files /\ B' = B /\ T' = T
    BY <1>22, <1>u, <1>f DEF Replace
  <2> USE DEF TypeOK, TornOK, MemoryNewest, RecoverKnows, SaveKnows, Ascends
  <2>1. TypeOK' BY <1>f, <1>n, <2>a, <2>b, <2>c
  <2>2. TornOK' BY <1>f, <1>n, <2>a, <2>b, <2>c
  <2>3. MemoryNewest' BY <1>f, <1>n, <2>a, <2>b, <2>c
  <2>4. RecoverKnows' BY <1>f, <1>n, <2>a, <2>b, <2>c
  <2>5. SaveKnows' BY <1>f, <1>n, <2>a, <2>b, <2>c
  <2>6. Ascends BY <1>f, <1>n, <2>a, <2>b, <2>c
  <2> HIDE DEF TypeOK, TornOK, MemoryNewest, RecoverKnows, SaveKnows, Ascends
  <2>7. QED BY <2>1, <2>2, <2>3, <2>4, <2>5, <2>6
<1>23. CASE Promote
  <2> USE DEF Promote, TypeOK, TornOK, MemoryNewest, RecoverKnows, SaveKnows, Ascends
  <2>1. TypeOK' BY <1>23, <1>f, <1>n, RenameFacts
  <2>2. TornOK' BY <1>23, <1>f, <1>n, RenameFacts
  <2>3. MemoryNewest' BY <1>23, <1>f, <1>n, RenameFacts
  <2>4. RecoverKnows' BY <1>23, <1>f, <1>n, RenameFacts
  <2>5. SaveKnows' BY <1>23, <1>f, <1>n, RenameFacts
  <2>6. Ascends BY <1>23, <1>f, <1>n, RenameFacts
  <2> HIDE DEF Promote, TypeOK, TornOK, MemoryNewest, RecoverKnows, SaveKnows, Ascends
  <2>7. QED BY <2>1, <2>2, <2>3, <2>4, <2>5, <2>6
<1>24. CASE Rollback BY <1>24, <1>f, <1>n, RenameFacts
  DEF Rollback, TypeOK, TornOK, MemoryNewest, RecoverKnows, SaveKnows, Ascends
<1>25. CASE DropOld
  <2> USE DEF DropOld, TypeOK, TornOK, MemoryNewest, RecoverKnows, SaveKnows, Ascends
  <2>1. TypeOK' BY <1>25, <1>f, <1>n, UnlinkFacts
  <2>2. TornOK' BY <1>25, <1>f, <1>n, UnlinkFacts
  <2>3. MemoryNewest' BY <1>25, <1>f, <1>n, UnlinkFacts
  <2>4. RecoverKnows' BY <1>25, <1>f, <1>n, UnlinkFacts
  <2>5. SaveKnows' BY <1>25, <1>f, <1>n, UnlinkFacts
  <2>6. Ascends BY <1>25, <1>f, <1>n, UnlinkFacts
  <2> HIDE DEF DropOld, TypeOK, TornOK, MemoryNewest, RecoverKnows, SaveKnows, Ascends
  <2>7. QED BY <2>1, <2>2, <2>3, <2>4, <2>5, <2>6
<1>26. CASE UNCHANGED vars BY <1>26 DEF vars, TypeOK, TornOK, MemoryNewest, RecoverKnows, SaveKnows, Ascends
<1>27. QED
  BY <1>1, <1>2, <1>3, <1>4, <1>5, <1>6, <1>7, <1>8, <1>9, <1>10, <1>11, <1>12, <1>13,
     <1>14, <1>15, <1>16, <1>17, <1>18, <1>19, <1>20, <1>21, <1>22, <1>23, <1>24, <1>25,
     <1>26 DEF Next, Recover, SaveConfig

(* What recoverConfigFile returned is what there is to load. *)
LEMMA LoadStep ==
  NoReadFaults /\ CardInv /\ LoadConfig /\ Loadable(files) # Absent => ram' = Loadable(files)
<1> SUFFICES ASSUME NoReadFaults, CardInv, LoadConfig, Loadable(files) # Absent
             PROVE  ram' = Loadable(files)
  OBVIOUS
<1>1. active \in {"canonical", "backup", "tmp"} /\ files \in [Name -> Content]
  BY DEF CardInv, TypeOK, Name
<1>2. IF Valid(files[active]) THEN files[active] = Loadable(files) ELSE Loadable(files) = Absent
  BY <1>1 DEF CardInv, RecoverKnows, TornOK, LoadConfig, Loadable, Valid, C, B, T, Config,
     Mixed
<1>3. QED
  BY <1>2 DEF LoadConfig, Misread, Fault, MayFail, NoReadFaults

LEMMA CardInvariant == NoReadFaults => (Spec => []CardInv)
<1> SUFFICES ASSUME NoReadFaults PROVE Spec => []CardInv
  OBVIOUS
<1>1. CardInv /\ [Next]_vars => CardInv'
  BY CardStep
<1>2. QED
  BY <1>1, CardInit, PTL DEF Spec

(* A half-written file that passes isValidConfigFile is never what a load   *)
(* takes, for any number of edits, faults and power cuts: saveConfig writes *)
(* over a valid temporary file only beside a valid canonical one.           *)
THEOREM CardNeverTorn == NoReadFaults => (Spec => []NeverTorn)
<1>1. CardInv => NeverTorn
  BY DEF CardInv, TypeOK, TornOK, NeverTorn, Loadable, Valid, C, B, T, Name, Content,
     Config, Absent, Bad, Mixed
<1>2. QED
  BY <1>1, CardInvariant, PTL

(* Once there is a configuration to load there always is one, and never an  *)
(* older one, wherever the power is cut and whichever calls fail.           *)
THEOREM CardNeverBackwards == NoReadFaults => (Spec => NeverBackwards)
<1> SUFFICES ASSUME NoReadFaults PROVE Spec => NeverBackwards
  OBVIOUS
<1>1. CardInv /\ [Next]_vars =>
        [Loadable(files) \in Config =>
           Loadable(files') \in Config /\ Loadable(files') >= Loadable(files)]_vars
  BY CardStep DEF Ascends
<1>2. QED
  BY <1>1, CardInvariant, PTL DEF Spec, NeverBackwards

(* A load that finds a configuration on the card ends with it in memory.    *)
THEOREM CardLoads == NoReadFaults => (Spec => LoadsWhatIsThere)
<1> SUFFICES ASSUME NoReadFaults PROVE Spec => LoadsWhatIsThere
  OBVIOUS
<1>1. CardInv /\ [Next]_vars =>
        [LoadConfig /\ Loadable(files) # Absent => ram' = Loadable(files)]_vars
  BY LoadStep
<1>2. QED
  BY <1>1, CardInvariant, PTL DEF Spec, LoadsWhatIsThere

-----------------------------------------------------------------------------
(* The types, whatever may go wrong. *)
LEMMA CardTypeStep == TypeOK /\ [Next]_vars => TypeOK'
<1> SUFFICES ASSUME TypeOK, [Next]_vars PROVE TypeOK'
  OBVIOUS
<1>f. files \in Files /\ files["canonical"] \in Content /\ files["backup"] \in Content
      /\ files["tmp"] \in Content
  BY DEF TypeOK, Files, Name
<1>n. "canonical" \in Name /\ "backup" \in Name /\ "tmp" \in Name
  BY DEF Name
<1>u. ASSUME Unlink("canonical", TRUE) PROVE files' \in Files /\ faults' = faults
  BY <1>u, <1>f, <1>n, UnlinkOkFacts
<1>t. \A c \in Content : Torn(c) \in Content
  BY DEF Torn, Content
<1>c. Config \subseteq Content /\ Absent \in Content /\ Bad \in Content /\ Mixed \in Content
  BY DEF Content
<1> USE DEF TypeOK, Fine, Fault, MayFail, NotRemoved, Misread, Return, rest, keep, Files
<1>1. CASE Boot
  BY <1>1, <1>f, <1>n DEF Boot, Config
<1>2. CASE Edit
  BY <1>2, <1>f, <1>n DEF Edit, Config
<1>3. CASE CallSave
  BY <1>3, <1>f, <1>n DEF CallSave
<1>4. CASE Crash
  BY <1>4, <1>f, <1>n, PutFacts, <1>t, <1>c DEF Crash
<1>5. CASE RecoverCanonical
  BY <1>5, <1>f, <1>n, UnlinkFacts DEF RecoverCanonical
<1>6. CASE CleanTmp
  BY <1>6, <1>f, <1>n, UnlinkFacts DEF CleanTmp
<1>7. CASE SkipCanonical
  BY <1>7, <1>f, <1>n DEF SkipCanonical
<1>8. CASE RecoverBackup
  <2>1. files' \in Files
    BY <1>8, <1>f, <1>u DEF RecoverBackup
  <2>2. faults' = faults \/ (faults < MaxFaults /\ faults' = faults + 1)
    BY <1>8, <1>u DEF RecoverBackup
  <2>3. pc' \in {"restoreBackup", "recovered"} /\ active' \in Name
    BY <1>8, <1>n DEF RecoverBackup
  <2>4. UNCHANGED rest
    BY <1>8 DEF RecoverBackup
  <2>5. QED
    BY <2>1, <2>2, <2>3, <2>4
<1>9. CASE RestoreBackup
  BY <1>9, <1>f, <1>n, RenameFacts DEF RestoreBackup
<1>10. CASE SkipBackup
  BY <1>10, <1>f, <1>n DEF SkipBackup
<1>11. CASE RecoverTmp
  <2>1. files' \in Files
    BY <1>11, <1>f, <1>u DEF RecoverTmp
  <2>2. faults' = faults \/ (faults < MaxFaults /\ faults' = faults + 1)
    BY <1>11, <1>u DEF RecoverTmp
  <2>3. pc' \in {"restoreTmp", "recovered"} /\ active' \in Name
    BY <1>11, <1>n DEF RecoverTmp
  <2>4. UNCHANGED rest
    BY <1>11 DEF RecoverTmp
  <2>5. QED
    BY <2>1, <2>2, <2>3, <2>4
<1>12. CASE RestoreTmp
  BY <1>12, <1>f, <1>n, RenameFacts DEF RestoreTmp
<1>13. CASE RecoverNone
  BY <1>13, <1>f, <1>n DEF RecoverNone
<1>14. CASE LoadConfig
  BY <1>14, <1>f, <1>n DEF LoadConfig, Valid
<1>15. CASE GiveUp
  BY <1>15, <1>f, <1>n DEF GiveUp
<1>16. CASE BeginSave
  <2>1. hadValid' \in BOOLEAN
    BY <1>16 DEF BeginSave, Valid
  <2>2. QED
    BY <1>16, <1>n, <2>1 DEF BeginSave
<1>17. CASE DropTmp
  BY <1>17, <1>f, <1>n, UnlinkFacts DEF DropTmp
<1>18. CASE OpenTmp
  BY <1>18, <1>f, <1>n, PutFacts, <1>t, <1>c DEF OpenTmp
<1>19. CASE WriteTmp
  BY <1>19, <1>f, <1>n, PutFacts, <1>t, <1>c DEF WriteTmp
<1>20. CASE DropBackup
  BY <1>20, <1>f, <1>n, UnlinkFacts DEF DropBackup
<1>21. CASE Rotate
  BY <1>21, <1>f, <1>n, RenameFacts DEF Rotate
<1>22. CASE Replace
  <2>1. files' \in Files
    BY <1>22, <1>f, <1>u DEF Replace
  <2>2. faults' = faults \/ (faults < MaxFaults /\ faults' = faults + 1)
    BY <1>22, <1>u DEF Replace
  <2>3. pc' \in {"promote", "idle"}
    BY <1>22, <1>n DEF Replace
  <2>4. UNCHANGED <<hadValid, keep>>
    BY <1>22 DEF Replace
  <2>5. QED
    BY <2>1, <2>2, <2>3, <2>4
<1>23. CASE Promote
  BY <1>23, <1>f, <1>n, RenameFacts DEF Promote
<1>24. CASE Rollback
  BY <1>24, <1>f, <1>n, RenameFacts DEF Rollback
<1>25. CASE DropOld
  BY <1>25, <1>f, <1>n, UnlinkFacts DEF DropOld
<1>26. CASE UNCHANGED vars
  BY <1>26 DEF vars
<1>27. QED
  BY <1>1, <1>2, <1>3, <1>4, <1>5, <1>6, <1>7, <1>8, <1>9, <1>10, <1>11, <1>12, <1>13,
     <1>14, <1>15, <1>16, <1>17, <1>18, <1>19, <1>20, <1>21, <1>22, <1>23, <1>24, <1>25,
     <1>26 DEF Next, Recover, SaveConfig

(* Whatever may go wrong, reads included: the three files hold what a file  *)
(* can hold, and the program is at one of its points.                       *)
THEOREM CardTypes == Spec => []TypeOK
<1> QED
  BY CardTypeInit, CardTypeStep, PTL DEF Spec

-----------------------------------------------------------------------------
(* What a save that met no fault so far has established, whatever earlier    *)
(* ones left on the card.                                                    *)
CleanKnows ==
    /\ pc = "cleanTmp" => Valid(C) /\ B = Absent
    /\ pc = "tryBackup" => ~Valid(C)
    /\ pc = "restoreBackup" => C = Absent /\ Valid(B)
    /\ pc = "tryTmp" => ~Valid(C) /\ ~Valid(B)
    /\ pc = "restoreTmp" => C = Absent /\ Valid(T)
    /\ pc = "recovered" => active = "canonical"
    /\ pc \in {"dropTmp", "open", "write"} => hadValid = Valid(C)
    /\ pc \in {"dropBackup", "rotate"} => Valid(C)
    /\ pc = "rotate" => B = Absent
    /\ pc = "promote" => C = Absent
    /\ pc \in {"dropBackup", "rotate", "replace", "promote"} => T = ram
    /\ pc # "rollback"
    /\ pc = "dropOld" => C = ram /\ T = Absent
CleanInv == TypeOK /\ (caller = "save" /\ faults = mark => CleanKnows)
Committed == files' = [n \in Name |-> IF n = "canonical" THEN ram ELSE Absent]

(* Without a fault, an unlinked file is gone and a possible rename happens. *)
LEMMA UnlinkClean ==
  ASSUME files \in Files, faults \in Nat, NEW n \in Name, NEW ok \in BOOLEAN, Unlink(n, ok), faults' = faults
  PROVE  files'[n] = Absent /\ \A m \in Name \ {n} : files'[m] = files[m]
<1>1. \A m \in Name \ {n} : files'[m] = files[m]
  BY UnlinkFacts
<1>2. CASE ok
  BY <1>2, UnlinkFacts
<1>3. CASE ~ok
  BY <1>3 DEF Unlink, Fault
<1>4. QED
  BY <1>1, <1>2, <1>3

LEMMA RenameClean ==
  ASSUME files \in Files, faults \in Nat, NEW f \in Name, NEW t \in Name, f # t, NEW ok \in BOOLEAN,
         Rename(f, t, ok), faults' = faults, files[f] # Absent, files[t] = Absent
  PROVE  /\ ok /\ files'[t] = files[f] /\ files'[f] = Absent
         /\ \A m \in Name \ {f, t} : files'[m] = files[m]
<1>1. ok
  BY DEF Rename, Fault
<1>2. QED
  BY <1>1, RenameFacts

LEMMA CleanStep ==
  CleanInv /\ [Next]_vars =>
    /\ CleanInv'
    /\ [caller = "save" /\ pc # "idle" /\ pc' = "idle" /\ faults' = mark => Committed]_vars
<1> SUFFICES ASSUME CleanInv, Next, faults' = mark', caller' = "save"
             PROVE  CleanKnows' /\ (caller = "save" /\ pc # "idle" /\ pc' = "idle" => Committed)
  <2>1. CASE UNCHANGED vars
    BY <2>1, CardTypeStep DEF vars, CleanInv, CleanKnows, C, B, T
  <2>2. CASE Next
    <3>1. CleanInv => TypeOK'
      BY <2>2, CardTypeStep DEF CleanInv
    <3>2. caller = "save" /\ pc # "idle" /\ pc' = "idle" => mark' = mark /\ caller' = caller
      BY <2>2 DEF Next, Boot, Edit, CallSave, Crash, Recover, RecoverCanonical, CleanTmp,
         SkipCanonical, RecoverBackup, RestoreBackup, SkipBackup, RecoverTmp, RestoreTmp,
         RecoverNone, LoadConfig, SaveConfig, GiveUp, BeginSave, DropTmp, OpenTmp, WriteTmp,
         DropBackup, Rotate, Replace, Promote, Rollback, DropOld, rest, keep
    <3>3. QED
      BY <2>2, <3>1, <3>2 DEF CleanInv
  <2>3. QED
    BY <2>1, <2>2
<1>f. files \in Files /\ files["canonical"] \in Content /\ files["backup"] \in Content
      /\ files["tmp"] \in Content
  BY DEF CleanInv, TypeOK, Files, Name
<1>n. "canonical" \in Name /\ "backup" \in Name /\ "tmp" \in Name
      /\ \A n \in Name : n \in {"canonical", "backup", "tmp"}
  BY DEF Name
<1>m. mark \in 0 .. faults /\ faults \in Nat /\ ram \in Config \cup {Mixed}
  BY DEF CleanInv, TypeOK
<1>v. Valid(ram) /\ ram # Absent /\ ~Valid(Absent) /\ Absent \in Content
  <2>1. Valid(ram) /\ Absent \in Content
    BY <1>m DEF Valid, Content
  <2>2. ~Valid(Absent)
    BY DEF Valid, Config, Absent, Mixed
  <2>3. QED
    BY <2>1, <2>2
<1>k. ASSUME mark' = mark, caller' = caller, faults' = faults \/ faults' = faults + 1
      PROVE  CleanKnows /\ faults' = faults /\ ~(faults' = faults + 1)
  BY <1>k, <1>m DEF CleanInv
<1>u. ASSUME Unlink("canonical", TRUE)
      PROVE  /\ files'["canonical"] = Absent /\ files'["backup"] = files["backup"]
             /\ files'["tmp"] = files["tmp"] /\ faults' = faults
  BY <1>u, <1>f, <1>n, UnlinkOkFacts
<1> USE DEF C, B, T, Fine, Fault, MayFail, NotRemoved, Misread, Exists, Return, rest, keep
<1>1. CASE Boot
  BY <1>1 DEF Boot, CleanKnows
<1>2. CASE Edit
  <2>1. faults' = faults \/ faults' = faults + 1
    BY <1>2 DEF Edit
  <2>2. CleanKnows /\ faults' = faults /\ ~(faults' = faults + 1)
    BY <1>2, <1>k, <2>1 DEF Edit
  <2>3. QED
    BY <1>2, <1>f, <1>m, <1>n, <1>v, <2>2 DEF Edit, CleanKnows
<1>3. CASE CallSave
  BY <1>3 DEF CallSave, CleanKnows
<1>4. CASE Crash
  <2>1. faults' = faults \/ faults' = faults + 1
    BY <1>4 DEF Crash
  <2>2. CleanKnows /\ faults' = faults /\ ~(faults' = faults + 1)
    BY <1>4, <1>k, <2>1 DEF Crash
  <2>3. QED
    BY <1>4, <1>f, <1>m, <1>n, <1>v, <2>2 DEF Crash, CleanKnows
<1>5. CASE RecoverCanonical
  <2>1. PICK ok \in BOOLEAN : Unlink("backup", ok)
    BY <1>5 DEF RecoverCanonical
  <2>2. faults' = faults \/ faults' = faults + 1
    BY <1>f, <1>n, <2>1, UnlinkFacts
  <2>3. CleanKnows /\ faults' = faults
    BY <1>5, <1>k, <2>2 DEF RecoverCanonical
  <2>4. files'["backup"] = Absent /\ \A m \in Name \ {"backup"} : files'[m] = files[m]
    BY <1>f, <1>m, <1>n, <2>1, <2>3, UnlinkClean
  <2>5. QED
    BY <1>5, <1>n, <1>v, <2>3, <2>4 DEF RecoverCanonical, CleanKnows
<1>6. CASE CleanTmp
  <2>1. PICK ok \in BOOLEAN : Unlink("tmp", ok)
    BY <1>6 DEF CleanTmp
  <2>2. faults' = faults \/ faults' = faults + 1
    BY <1>f, <1>n, <2>1, UnlinkFacts
  <2>3. CleanKnows /\ faults' = faults
    BY <1>6, <1>k, <2>2 DEF CleanTmp
  <2>4. files'["tmp"] = Absent /\ \A m \in Name \ {"tmp"} : files'[m] = files[m]
    BY <1>f, <1>m, <1>n, <2>1, <2>3, UnlinkClean
  <2>5. QED
    BY <1>6, <1>n, <1>v, <2>3, <2>4 DEF CleanTmp, CleanKnows
<1>7. CASE SkipCanonical
  <2>1. faults' = faults \/ faults' = faults + 1
    BY <1>7 DEF SkipCanonical
  <2>2. CleanKnows /\ faults' = faults /\ ~(faults' = faults + 1)
    BY <1>7, <1>k, <2>1 DEF SkipCanonical
  <2>3. QED
    BY <1>7, <1>f, <1>m, <1>n, <1>v, <2>2 DEF SkipCanonical, CleanKnows
<1>8. CASE RecoverBackup
  <2>1. faults' = faults \/ faults' = faults + 1
    BY <1>8, <1>u DEF RecoverBackup
  <2>2. CleanKnows /\ faults' = faults /\ ~(faults' = faults + 1)
    BY <1>8, <1>k, <2>1 DEF RecoverBackup
  <2>3. QED
    BY <1>8, <1>f, <1>m, <1>n, <1>v, <2>2, <1>u DEF RecoverBackup, CleanKnows
<1>9. CASE RestoreBackup
  <2>1. PICK ok \in BOOLEAN : Rename("backup", "canonical", ok) /\ (ok => pc' = "cleanTmp")
    BY <1>9 DEF RestoreBackup
  <2>2. faults' = faults \/ faults' = faults + 1
    BY <1>f, <1>n, <2>1, RenameFacts
  <2>3. CleanKnows /\ faults' = faults
    BY <1>9, <1>k, <2>2 DEF RestoreBackup
  <2>4. files["backup"] # Absent /\ files["canonical"] = Absent
    BY <1>9, <1>v, <2>3 DEF RestoreBackup, CleanKnows
  <2>5. /\ ok /\ files'["canonical"] = files["backup"] /\ files'["backup"] = Absent
        /\ \A m \in Name \ {"backup", "canonical"} : files'[m] = files[m]
    BY <1>f, <1>m, <1>n, <2>1, <2>3, <2>4, RenameClean
  <2>6. QED
    BY <1>9, <1>n, <1>v, <2>1, <2>3, <2>4, <2>5 DEF RestoreBackup, CleanKnows
<1>10. CASE SkipBackup
  <2>1. faults' = faults \/ faults' = faults + 1
    BY <1>10 DEF SkipBackup
  <2>2. CleanKnows /\ faults' = faults /\ ~(faults' = faults + 1)
    BY <1>10, <1>k, <2>1 DEF SkipBackup
  <2>3. QED
    BY <1>10, <1>f, <1>m, <1>n, <1>v, <2>2 DEF SkipBackup, CleanKnows
<1>11. CASE RecoverTmp
  <2>1. faults' = faults \/ faults' = faults + 1
    BY <1>11, <1>u DEF RecoverTmp
  <2>2. CleanKnows /\ faults' = faults /\ ~(faults' = faults + 1)
    BY <1>11, <1>k, <2>1 DEF RecoverTmp
  <2>3. QED
    BY <1>11, <1>f, <1>m, <1>n, <1>v, <2>2, <1>u DEF RecoverTmp, CleanKnows
<1>12. CASE RestoreTmp
  <2>1. PICK ok \in BOOLEAN : Rename("tmp", "canonical", ok) /\ (ok => pc' = "recovered" /\ active' = "canonical")
    BY <1>12 DEF RestoreTmp
  <2>2. faults' = faults \/ faults' = faults + 1
    BY <1>f, <1>n, <2>1, RenameFacts
  <2>3. CleanKnows /\ faults' = faults
    BY <1>12, <1>k, <2>2 DEF RestoreTmp
  <2>4. files["tmp"] # Absent /\ files["canonical"] = Absent
    BY <1>12, <1>v, <2>3 DEF RestoreTmp, CleanKnows
  <2>5. /\ ok /\ files'["canonical"] = files["tmp"] /\ files'["tmp"] = Absent
        /\ \A m \in Name \ {"tmp", "canonical"} : files'[m] = files[m]
    BY <1>f, <1>m, <1>n, <2>1, <2>3, <2>4, RenameClean
  <2>6. QED
    BY <1>12, <1>n, <1>v, <2>1, <2>3, <2>4, <2>5 DEF RestoreTmp, CleanKnows
<1>13. CASE RecoverNone
  <2>1. faults' = faults \/ faults' = faults + 1
    BY <1>13 DEF RecoverNone
  <2>2. CleanKnows /\ faults' = faults /\ ~(faults' = faults + 1)
    BY <1>13, <1>k, <2>1 DEF RecoverNone
  <2>3. QED
    BY <1>13, <1>f, <1>m, <1>n, <1>v, <2>2 DEF RecoverNone, CleanKnows
<1>14. CASE LoadConfig
  <2>1. faults' = faults \/ faults' = faults + 1
    BY <1>14 DEF LoadConfig
  <2>2. CleanKnows /\ faults' = faults /\ ~(faults' = faults + 1)
    BY <1>14, <1>k, <2>1 DEF LoadConfig
  <2>3. QED
    BY <1>14, <1>f, <1>m, <1>n, <1>v, <2>2 DEF LoadConfig, CleanKnows
<1>15. CASE GiveUp
  <2>1. faults' = faults \/ faults' = faults + 1
    BY <1>15 DEF GiveUp
  <2>2. CleanKnows /\ faults' = faults /\ ~(faults' = faults + 1)
    BY <1>15, <1>k, <2>1 DEF GiveUp
  <2>3. QED
    BY <1>15, <1>f, <1>m, <1>n, <1>v, <2>2 DEF GiveUp, CleanKnows
<1>16. CASE BeginSave
  <2>1. faults' = faults \/ faults' = faults + 1
    BY <1>16 DEF BeginSave
  <2>2. CleanKnows /\ faults' = faults /\ ~(faults' = faults + 1)
    BY <1>16, <1>k, <2>1 DEF BeginSave
  <2>3. QED
    BY <1>16, <1>f, <1>m, <1>n, <1>v, <2>2 DEF BeginSave, CleanKnows
<1>17. CASE DropTmp
  <2>1. PICK ok \in BOOLEAN : Unlink("tmp", ok)
    BY <1>17 DEF DropTmp
  <2>2. faults' = faults \/ faults' = faults + 1
    BY <1>f, <1>n, <2>1, UnlinkFacts
  <2>3. CleanKnows /\ faults' = faults
    BY <1>17, <1>k, <2>2 DEF DropTmp
  <2>4. files'["tmp"] = Absent /\ \A m \in Name \ {"tmp"} : files'[m] = files[m]
    BY <1>f, <1>m, <1>n, <2>1, <2>3, UnlinkClean
  <2>5. QED
    BY <1>17, <1>n, <1>v, <2>3, <2>4 DEF DropTmp, CleanKnows
<1>18. CASE OpenTmp
  <2>1. faults' = faults \/ faults' = faults + 1
    BY <1>18 DEF OpenTmp
  <2>2. CleanKnows /\ faults' = faults /\ ~(faults' = faults + 1)
    BY <1>18, <1>k, <2>1 DEF OpenTmp
  <2>3. pc = "open" /\ pc' = "write" /\ UNCHANGED <<ram, hadValid>>
        /\ (UNCHANGED files \/ Put("tmp", Bad))
    BY <1>18, <2>2 DEF OpenTmp
  <2>4. files'["canonical"] = files["canonical"]
    BY <1>f, <1>n, <2>3, PutFacts DEF Content
  <2>5. QED
    BY <2>2, <2>3, <2>4 DEF CleanKnows, Valid
<1>19. CASE WriteTmp
  <2>1. faults' = faults \/ faults' = faults + 1
    BY <1>19 DEF WriteTmp
  <2>2. CleanKnows /\ faults' = faults /\ ~(faults' = faults + 1)
    BY <1>19, <1>k, <2>1 DEF WriteTmp
  <2>3. /\ pc = "write" /\ pc' = IF hadValid THEN "dropBackup" ELSE "replace"
        /\ UNCHANGED <<ram, hadValid>> /\ Put("tmp", ram)
    BY <1>19, <2>2 DEF WriteTmp
  <2>4. ram \in Content
    BY <1>m DEF Content
  <2>5. files'["tmp"] = ram /\ files'["canonical"] = files["canonical"]
    BY <1>f, <1>n, <2>3, <2>4, PutFacts
  <2>6. hadValid = Valid(files["canonical"])
    BY <2>2, <2>3 DEF CleanKnows
  <2>7. QED
    BY <2>3, <2>5, <2>6 DEF CleanKnows
<1>20. CASE DropBackup
  <2>1. PICK ok \in BOOLEAN : Unlink("backup", ok)
    BY <1>20 DEF DropBackup
  <2>2. faults' = faults \/ faults' = faults + 1
    BY <1>f, <1>n, <2>1, UnlinkFacts
  <2>3. CleanKnows /\ faults' = faults
    BY <1>20, <1>k, <2>2 DEF DropBackup
  <2>4. files'["backup"] = Absent /\ \A m \in Name \ {"backup"} : files'[m] = files[m]
    BY <1>f, <1>m, <1>n, <2>1, <2>3, UnlinkClean
  <2>5. QED
    BY <1>20, <1>n, <1>v, <2>3, <2>4 DEF DropBackup, CleanKnows
<1>21. CASE Rotate
  <2>1. PICK ok \in BOOLEAN : Rename("canonical", "backup", ok) /\ (ok => pc' = "promote")
    BY <1>21 DEF Rotate
  <2>2. faults' = faults \/ faults' = faults + 1
    BY <1>f, <1>n, <2>1, RenameFacts
  <2>3. CleanKnows /\ faults' = faults
    BY <1>21, <1>k, <2>2 DEF Rotate
  <2>4. files["canonical"] # Absent /\ files["backup"] = Absent
    BY <1>21, <1>v, <2>3 DEF Rotate, CleanKnows
  <2>5. /\ ok /\ files'["backup"] = files["canonical"] /\ files'["canonical"] = Absent
        /\ \A m \in Name \ {"canonical", "backup"} : files'[m] = files[m]
    BY <1>f, <1>m, <1>n, <2>1, <2>3, <2>4, RenameClean
  <2>6. QED
    BY <1>21, <1>n, <1>v, <2>1, <2>3, <2>4, <2>5 DEF Rotate, CleanKnows
<1>22. CASE Replace
  <2>1. faults' = faults \/ faults' = faults + 1
    BY <1>22, <1>u DEF Replace
  <2>2. CleanKnows /\ faults' = faults /\ ~(faults' = faults + 1)
    BY <1>22, <1>k, <2>1 DEF Replace
  <2>3. QED
    BY <1>22, <1>f, <1>m, <1>n, <1>v, <2>2, <1>u DEF Replace, CleanKnows
<1>23. CASE Promote
  <2>1. PICK ok \in BOOLEAN : Rename("tmp", "canonical", ok) /\ (ok => pc' = "dropOld")
    BY <1>23 DEF Promote
  <2>2. faults' = faults \/ faults' = faults + 1
    BY <1>f, <1>n, <2>1, RenameFacts
  <2>3. CleanKnows /\ faults' = faults
    BY <1>23, <1>k, <2>2 DEF Promote
  <2>4. files["tmp"] # Absent /\ files["canonical"] = Absent
    BY <1>23, <1>v, <2>3 DEF Promote, CleanKnows
  <2>5. /\ ok /\ files'["canonical"] = files["tmp"] /\ files'["tmp"] = Absent
        /\ \A m \in Name \ {"tmp", "canonical"} : files'[m] = files[m]
    BY <1>f, <1>m, <1>n, <2>1, <2>3, <2>4, RenameClean
  <2>6. QED
    BY <1>23, <1>n, <1>v, <2>1, <2>3, <2>4, <2>5 DEF Promote, CleanKnows
<1>24. CASE Rollback
  <2>1. PICK ok \in BOOLEAN : Rename("backup", "canonical", ok)
    BY <1>24 DEF Rollback
  <2>2. faults' = faults \/ faults' = faults + 1
    BY <1>f, <1>n, <2>1, RenameFacts
  <2>3. QED
    BY <1>24, <1>k, <2>2 DEF Rollback, CleanKnows
<1>25. CASE DropOld
  <2>1. PICK ok \in BOOLEAN : Unlink("backup", ok)
    BY <1>25 DEF DropOld
  <2>2. faults' = faults \/ faults' = faults + 1
    BY <1>f, <1>n, <2>1, UnlinkFacts
  <2>3. CleanKnows /\ faults' = faults
    BY <1>25, <1>k, <2>2 DEF DropOld
  <2>4. files'["backup"] = Absent /\ \A m \in Name \ {"backup"} : files'[m] = files[m]
    BY <1>f, <1>m, <1>n, <2>1, <2>3, UnlinkClean
  <2>5. QED
    <3>1. files'["canonical"] = ram /\ files'["backup"] = Absent /\ files'["tmp"] = Absent
      BY <1>25, <1>n, <2>3, <2>4 DEF DropOld, CleanKnows
    <3>2. files' \in [Name -> Content]
      BY <1>f, <1>n, <2>1, UnlinkFacts DEF Files
    <3>3. Committed
      BY <1>n, <3>1, <3>2 DEF Committed
    <3>4. QED
      BY <1>25, <3>3 DEF DropOld, CleanKnows
<1>26. QED
  BY <1>1, <1>2, <1>3, <1>4, <1>5, <1>6, <1>7, <1>8, <1>9, <1>10, <1>11, <1>12, <1>13,
     <1>14, <1>15, <1>16, <1>17, <1>18, <1>19, <1>20, <1>21, <1>22, <1>23, <1>24, <1>25
     DEF Next, Recover, SaveConfig

(* Nothing an earlier fault left behind blocks a save: one during which     *)
(* nothing fails ends with the memory in the canonical file, alone.  For    *)
(* every kind of earlier fault, misread files included, and wherever the    *)
(* power was cut before.                                                    *)
THEOREM CardCleanSaveCommits == Spec => CleanSaveCommits
<1>1. Init => CleanInv
  BY CardTypeInit DEF Init, CleanInv
<1>2. CleanInv /\ [Next]_vars => CleanInv'
  BY CleanStep
<1>3. CleanInv /\ [Next]_vars =>
        [caller = "save" /\ pc # "idle" /\ pc' = "idle" /\ faults' = mark =>
           files' = [n \in Name |-> IF n = "canonical" THEN ram ELSE Absent]]_vars
  BY CleanStep DEF Committed
<1>4. QED
  BY <1>1, <1>2, <1>3, PTL DEF Spec, CleanSaveCommits

-----------------------------------------------------------------------------
(* The encoders and the display of the front panel are instances of         *)
(* Encoders and Tft, so what FrontPanelProofs proves for every number of    *)
(* buttons and parts holds of them.                                         *)
PanelProofs == INSTANCE FrontPanelProofs
    WITH Parts <- 2, Capacity <- 4, RepaintRoom <- 2, MaxAsks <- 3, MaxFails <- 2,
         pc <- mainPc,
         Buttons <- {0, 1, 2}, PushButtons <- {2}, ClickTime <- 1, LongTime <- 3,
         PushChanges <- FALSE

(* Two instances with the same parameters take the same steps.              *)
LEMMA SameDisplaySteps == Display!Next => PanelProofs!Next
<1>1. \A p, w : Display!Draw(p, w) = PanelProofs!Draw(p, w)
  BY Zenon DEF Display!Draw, PanelProofs!Draw
<1>2. \A p : Display!Fill(p) = PanelProofs!Fill(p)
  BY Zenon DEF Display!Fill, PanelProofs!Fill
<1>3. \A p : Display!Shape(p) = PanelProofs!Shape(p)
  BY Zenon DEF Display!Shape, PanelProofs!Shape
<1>4. /\ Display!NOP = PanelProofs!NOP /\ Display!Pause = PanelProofs!Pause
      /\ Display!Restart = PanelProofs!Restart /\ Display!IDLE = PanelProofs!IDLE
      /\ Display!Part = PanelProofs!Part /\ Display!FullRepaint = PanelProofs!FullRepaint
      /\ Display!NOISE = PanelProofs!NOISE
  BY Zenon DEF Display!NOP, PanelProofs!NOP, Display!Pause, PanelProofs!Pause,
    Display!Restart, PanelProofs!Restart, Display!IDLE, PanelProofs!IDLE,
    Display!Part, PanelProofs!Part, Display!FullRepaint, PanelProofs!FullRepaint,
    Display!NOISE, PanelProofs!NOISE
<1>5. \A a : Display!Insert(a) <=> PanelProofs!Insert(a)
  BY Zenon DEF Display!Insert, PanelProofs!Insert
<1>6. /\ Display!AtLoop <=> PanelProofs!AtLoop
      /\ Display!HasRoom <=> PanelProofs!HasRoom
      /\ Display!MayUseBus <=> PanelProofs!MayUseBus
  BY Zenon DEF Display!AtLoop, PanelProofs!AtLoop, Display!HasRoom, PanelProofs!HasRoom,
    Display!MayUseBus, PanelProofs!MayUseBus
<1>7. \A a, w : Display!Drawn(a, w) <=> PanelProofs!Drawn(a, w)
  BY <1>2, <1>3, <1>4, Zenon DEF Display!Drawn, PanelProofs!Drawn
<1>8. \A f : Display!NextDirty(f) = PanelProofs!NextDirty(f)
  BY Zenon DEF Display!NextDirty, PanelProofs!NextDirty
<1> USE DEF Display!mainVars, PanelProofs!mainVars, Display!busVars, PanelProofs!busVars,
            Display!gateVars, PanelProofs!gateVars, Display!drawVars, PanelProofs!drawVars
<1>9. Display!PollGood => PanelProofs!PollGood
  BY <1>6, Zenon DEF Display!PollGood, PanelProofs!PollGood
<1>10. Display!PollBad => PanelProofs!PollBad
  BY <1>6, Zenon DEF Display!PollBad, PanelProofs!PollBad
<1>11. Display!PushToTft => PanelProofs!PushToTft
  BY <1>6, <1>8, Zenon DEF Display!PushToTft, PanelProofs!PushToTft
<1>12. Display!DrawStep => PanelProofs!DrawStep
  BY <1>4, <1>7, Zenon DEF Display!DrawStep, PanelProofs!DrawStep
<1>13. Display!PushToTftFinished => PanelProofs!PushToTftFinished
  BY <1>4, Zenon DEF Display!PushToTftFinished, PanelProofs!PushToTftFinished
<1>14. Display!AskShape => PanelProofs!AskShape
  BY <1>6, Zenon DEF Display!AskShape, PanelProofs!AskShape
<1>15. Display!NewTimbre => PanelProofs!NewTimbre
  BY <1>4, <1>6, Zenon DEF Display!NewTimbre, PanelProofs!NewTimbre
<1>16. Display!CountShape => PanelProofs!CountShape
  BY Zenon DEF Display!CountShape, PanelProofs!CountShape
<1>17. Display!InsertShape => PanelProofs!InsertShape
  BY <1>3, <1>5, Zenon DEF Display!InsertShape, PanelProofs!InsertShape
<1>18. Display!RepaintStep => PanelProofs!RepaintStep
  BY <1>1, <1>2, <1>4, <1>5, <1>6, Zenon DEF Display!RepaintStep, PanelProofs!RepaintStep
<1>19. Display!ResetTakesBus => PanelProofs!ResetTakesBus
  BY <1>6, Zenon DEF Display!ResetTakesBus, PanelProofs!ResetTakesBus
<1>20. Display!ResetWaits => PanelProofs!ResetWaits
  BY Zenon DEF Display!ResetWaits, PanelProofs!ResetWaits
<1>21. Display!ResetAborts => PanelProofs!ResetAborts
  BY <1>4, Zenon DEF Display!ResetAborts, PanelProofs!ResetAborts
<1>22. Display!ResetFlushes => PanelProofs!ResetFlushes
  BY Zenon DEF Display!ResetFlushes, PanelProofs!ResetFlushes
<1>23. Display!ILI9341_Init => PanelProofs!ILI9341_Init
  BY <1>4, Zenon DEF Display!ILI9341_Init, PanelProofs!ILI9341_Init
<1>24. Display!ResetReleasesBus => PanelProofs!ResetReleasesBus
  BY Zenon DEF Display!ResetReleasesBus, PanelProofs!ResetReleasesBus
<1>25. Display!ResetForgets => PanelProofs!ResetForgets
  BY <1>4, Zenon DEF Display!ResetForgets, PanelProofs!ResetForgets
<1>26. \A p : Display!AskDrawing(p) => PanelProofs!AskDrawing(p)
  BY <1>1, <1>5, <1>6, Zenon DEF Display!AskDrawing, PanelProofs!AskDrawing
<1>27. QED
  BY <1>4, <1>9, <1>10, <1>11, <1>12, <1>13, <1>14, <1>15, <1>16, <1>17, <1>18,
     <1>19, <1>20, <1>21, <1>22, <1>23, <1>24, <1>25, <1>26, Zenon
  DEF Display!Next, PanelProofs!Next, Display!Tic, PanelProofs!Tic, Display!Request,
      PanelProofs!Request, Display!Continue, PanelProofs!Continue, Display!Reset,
      PanelProofs!Reset

(* A behaviour of the panel is one of Tft, its fairness apart.              *)
LEMMA DisplayBehaves ==
  PanelSpec => PanelProofs!Init /\ [][PanelProofs!Next]_PanelProofs!vars
<1>1. Display!Init => PanelProofs!Init
  BY Zenon DEF Display!Init, PanelProofs!Init, Display!NOP, PanelProofs!NOP, Display!IDLE,
      PanelProofs!IDLE, Display!Part, PanelProofs!Part
<1>2. [PanelNext]_panelVars => [PanelProofs!Next]_PanelProofs!vars
  <2>1. UNCHANGED displayVars => UNCHANGED PanelProofs!vars
    BY DEF displayVars, PanelProofs!vars, PanelProofs!mainVars, PanelProofs!busVars,
      PanelProofs!gateVars, PanelProofs!drawVars
  <2>2. QED
    BY <2>1, SameDisplaySteps DEF PanelNext, panelVars
<1>3. QED
  BY <1>1, <1>2, PTL DEF PanelSpec, PanelInit

(* No transfer of the tic runs while the main loop initialises the panel    *)
(* over the same bus: the property the front panel's run checks             *)
(* (TftDisplay.cpp:272, "no two masters on SPI1").                          *)
THEOREM PanelBusHasOneMaster == PanelSpec => []BusHasOneMaster
<1>1. PanelProofs!BusInv => BusHasOneMaster
  BY DEF PanelProofs!BusInv, PanelProofs!BusFree, BusHasOneMaster,
    Display!BusHasOneMaster, PanelProofs!IDLE, Display!IDLE
<1>2. QED
  BY <1>1, DisplayBehaves, PanelProofs!BusInvAlways, PTL

LEMMA SameButtonSteps == Buttons_!Next => PanelProofs!Enc!Next
<1>1. /\ Buttons_!NOBODY = PanelProofs!Enc!NOBODY /\ Buttons_!Scanned = PanelProofs!Enc!Scanned
      /\ Buttons_!TurnTime = PanelProofs!Enc!TurnTime
  BY Zenon DEF Buttons_!NOBODY, PanelProofs!Enc!NOBODY, Buttons_!Scanned, PanelProofs!Enc!Scanned,
    Buttons_!TurnTime, PanelProofs!Enc!TurnTime
<1>2. \A S : Buttons_!Min(S) = PanelProofs!Enc!Min(S) /\ Buttons_!Max(S) = PanelProofs!Enc!Max(S)
  BY Zenon DEF Buttons_!Min, PanelProofs!Enc!Min, Buttons_!Max, PanelProofs!Enc!Max
<1>3. \A t : Buttons_!Accepted(t) <=> PanelProofs!Enc!Accepted(t)
  BY Zenon DEF Buttons_!Accepted, PanelProofs!Enc!Accepted
<1>4. \A t : Buttons_!Turned(t) = PanelProofs!Enc!Turned(t)
  BY <1>1, <1>3, Zenon DEF Buttons_!Turned, PanelProofs!Enc!Turned
<1>5. \A t : Buttons_!TurnEncoder(t) <=> PanelProofs!Enc!TurnEncoder(t)
  BY <1>1, <1>2, <1>3, Zenon DEF Buttons_!TurnEncoder, PanelProofs!Enc!TurnEncoder
<1>6. \A t : Buttons_!Panel(t) = PanelProofs!Enc!Panel(t)
  BY <1>3, <1>4, Zenon DEF Buttons_!Panel, PanelProofs!Enc!Panel
<1>7. \A s, k : Buttons_!JustPressed(s, k) = PanelProofs!Enc!JustPressed(s, k)
  BY <1>1, Zenon DEF Buttons_!JustPressed, PanelProofs!Enc!JustPressed
<1>8. \A s, k : Buttons_!StillPressed(s, k) = PanelProofs!Enc!StillPressed(s, k)
  BY Zenon DEF Buttons_!StillPressed, PanelProofs!Enc!StillPressed
<1>9. \A s, k : Buttons_!JustReleased(s, k) = PanelProofs!Enc!JustReleased(s, k)
  BY <1>1, Zenon DEF Buttons_!JustReleased, PanelProofs!Enc!JustReleased
<1>10. \A s, k, d : Buttons_!ScanButton(s, k, d) = PanelProofs!Enc!ScanButton(s, k, d)
  BY <1>2, <1>7, <1>8, <1>9, Zenon DEF Buttons_!ScanButton, PanelProofs!Enc!ScanButton
<1>11. \A t, p : Buttons_!Scan(t, p) = PanelProofs!Enc!Scan(t, p)
  BY <1>1, <1>2, <1>6, <1>10, Zenon DEF Buttons_!Scan, PanelProofs!Enc!Scan
<1>12. \A s, k : Buttons_!Causes(s, k) = PanelProofs!Enc!Causes(s, k)
  BY Zenon DEF Buttons_!Causes, PanelProofs!Enc!Causes
<1>13. Buttons_!CheckStatus => PanelProofs!Enc!CheckStatus
  <2> DEFINE caused(k, p, now) ==
               IF k \in p /\ ~buttonPreviousState_[k] THEN now
               ELSE IF buttonPreviousState_[k] THEN history[k] \cup now ELSE {}
             before(t, p) == [k \in {0, 1, 2} |-> caused(k, p, Buttons_!Causes(Buttons_!Scan(t, p), k))]
             after(t, p) == [k \in {0, 1, 2} |->
                               caused(k, p, PanelProofs!Enc!Causes(PanelProofs!Enc!Scan(t, p), k))]
             leaves(s, p, scanned, told) ==
               /\ buttonTimer_' = s.timer /\ buttonUsedFromSomethingElse_' = s.used
               /\ firstButtonDown_' = s.first
               /\ buttonPreviousState_' =
                    [k \in {0, 1, 2} |-> IF k \in scanned THEN k \in p ELSE buttonPreviousState_[k]]
               /\ gestures' = s.gestures /\ history' = told
               /\ UNCHANGED encoderPush
  <2>1. ASSUME NEW t, NEW p
        PROVE  before(t, p) = after(t, p)
    <3>1. \A k : Buttons_!Causes(Buttons_!Scan(t, p), k)
                   = PanelProofs!Enc!Causes(PanelProofs!Enc!Scan(t, p), k)
      BY <1>11, <1>12, Zenon
    <3>2. QED
      BY <3>1, Zenon
  <2>2. SUFFICES ASSUME NEW t \in {-1, 0, 1}, NEW p \in SUBSET Buttons_!Scanned, Buttons_!TurnEncoder(t),
                        leaves(Buttons_!Scan(t, p), p, Buttons_!Scanned, before(t, p))
                 PROVE  PanelProofs!Enc!CheckStatus
    BY Zenon DEF Buttons_!CheckStatus
  <2>3. PanelProofs!Enc!TurnEncoder(t) /\ p \in SUBSET PanelProofs!Enc!Scanned
    BY <1>1, <1>5, <2>2, Zenon
  <2>4. leaves(PanelProofs!Enc!Scan(t, p), p, PanelProofs!Enc!Scanned, after(t, p))
    <3> HIDE DEF leaves, before, after
    <3>1. QED
      BY <1>1, <1>11, <2>1, <2>2, Zenon
  <2>5. QED
    BY <2>3, <2>4, Zenon DEF PanelProofs!Enc!CheckStatus
<1>14. Buttons_!SetEncoderPush => PanelProofs!Enc!SetEncoderPush
  BY Zenon DEF Buttons_!SetEncoderPush, PanelProofs!Enc!SetEncoderPush, Buttons_!buttonVars,
    PanelProofs!Enc!buttonVars, Buttons_!encoderVars, PanelProofs!Enc!encoderVars
<1>15. QED
  BY <1>13, <1>14, Zenon DEF Buttons_!Next, PanelProofs!Enc!Next

LEMMA ButtonsBehave == PanelSpec => PanelProofs!Enc!Spec
<1>1. Buttons_!Init => PanelProofs!Enc!Init
  BY Zenon DEF Buttons_!Init, PanelProofs!Enc!Init, Buttons_!NOBODY, PanelProofs!Enc!NOBODY
<1>2. [PanelNext]_panelVars => [PanelProofs!Enc!Next]_PanelProofs!Enc!vars
  <2>1. UNCHANGED encoderVars => UNCHANGED PanelProofs!Enc!vars
    BY DEF encoderVars, PanelProofs!Enc!vars, PanelProofs!Enc!buttonVars, PanelProofs!Enc!encoderVars
  <2>2. QED
    BY <2>1, SameButtonSteps DEF PanelNext, panelVars
<1>3. QED
  BY <1>1, <1>2, PTL DEF PanelSpec, PanelInit, PanelProofs!Enc!Spec

(* What a step of the buttons has to be for OneGesturePerPress.             *)
OneGesture ==
    /\ \A k \in {0, 1, 2} :
         /\ "clicked" \in history'[k] => history'[k] = {"clicked"}
         /\ "long" \in history[k] => [kind |-> "long", button |-> k] \notin gestures'
         /\ buttonPreviousState_[k] /\ ~buttonPreviousState_'[k] /\ buttonTimer_[k] > 1
              => history'[k] # {}
    /\ firstButtonDown_' # Buttons_!NOBODY => buttonPreviousState_'[firstButtonDown_']

(* A press of a button of the front panel is one gesture, whatever else is  *)
(* pressed, held, turned or released meanwhile: the property that its run   *)
(* checks (Encoders::checkStatus).                                          *)
THEOREM PanelOneGesturePerPress == PanelSpec => OneGesturePerPress
<1>1. PanelProofs!PanelOK
  <2>1. 2 \in Nat /\ {0, 1, 2} \subseteq 0 .. 2 /\ {0, 1, 2} # {} /\ 1 \in Nat /\ 3 \in Nat /\ 1 <= 3
    OBVIOUS
  <2>2. QED
    BY <2>1 DEF PanelProofs!PanelOK
<1>2. PanelSpec => [][PanelProofs!OneGesture]_PanelProofs!Enc!vars
  BY <1>1, ButtonsBehave, PanelProofs!OneGestureAlways
<1>3. [PanelProofs!OneGesture]_PanelProofs!Enc!vars => [OneGesture]_Buttons_!vars
  BY DEF PanelProofs!OneGesture, PanelProofs!Enc!NOBODY, OneGesture, Buttons_!NOBODY,
    PanelProofs!Enc!vars, PanelProofs!Enc!buttonVars, PanelProofs!Enc!encoderVars,
    Buttons_!vars, Buttons_!buttonVars, Buttons_!encoderVars
<1>4. [][OneGesture]_Buttons_!vars => OneGesturePerPress
  BY PTL DEF OneGesture, OneGesturePerPress, Buttons_!OneGesturePerPress
<1>5. QED
  BY <1>2, <1>3, <1>4, PTL
=============================================================================
