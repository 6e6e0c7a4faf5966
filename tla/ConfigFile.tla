----------------------------- MODULE ConfigFile -----------------------------
(***************************************************************************)
(* MidiController/MidiControllerFile.cpp: how the MIDI controller's         *)
(* configuration is saved to and loaded from the SD card through three      *)
(* files, so that a power cut or a failing card call at any point leaves a  *)
(* configuration to load.                                                   *)
(*                                                                          *)
(* One step makes one FatFs call that changes the card, together with the   *)
(* read-only calls before it: nobody else writes these files, so a cut      *)
(* among the reads leaves the card as a cut before them does.               *)
(***************************************************************************)
EXTENDS Integers

CONSTANTS Faults,      \* what may go wrong: a subset of Kinds
          MaxEdits,    \* bound: configurations the user makes
          MaxFaults    \* bound: things that go wrong

Kinds == {"crash", "open", "write", "unlink", "rename", "read"}

ASSUME FaultsAssumption == Faults \subseteq Kinds
ASSUME BoundsAssumption == MaxEdits \in Nat /\ MaxFaults \in Nat

(* MIDI_CONTROLLER_STATE_NAME, MidiCtl1.bak and MidiCtl1.tmp. *)
Name == {"canonical", "backup", "tmp"}

(* A file holds one of the numbered configurations, has the wrong size or   *)
(* version (Bad), or has the right ones over a mixture of two saves       *)
(* (Mixed), which the code cannot tell from a configuration.              *)
(* Negative numbers keep the three apart from the configurations.           *)
Config == 0 .. MaxEdits
Absent == -3
Bad == -2
Mixed == -1
Content == Config \cup {Absent, Bad, Mixed}
Valid(c) == c \in Config \/ c = Mixed

VARIABLES files,     \* the card
          ram,       \* the configuration in memory; 0 is the default one
          edits,     \* configurations made so far
          pc,        \* where loadConfig or saveConfig is; "off", "idle"
          caller,    \* which of the two runs
          active,    \* what recoverConfigFile returned
          hadValid,  \* saveConfig's hadValidConfig
          faults,    \* faults so far
          mark       \* faults when the running call began

vars == <<files, ram, edits, pc, caller, active, hadValid, faults, mark>>

(* A new card, or one whose canonical file is foreign or was left truncated *)
(* by a firmware that wrote it in place.                                    *)
Init ==
    /\ \E c \in {Absent, Bad} :
         files = [canonical |-> c, backup |-> Absent, tmp |-> Absent]
    /\ ram = 0 /\ edits = 0 /\ pc = "off" /\ caller = "load"
    /\ active = "canonical" /\ hadValid = FALSE /\ faults = 0 /\ mark = 0

-----------------------------------------------------------------------------
(* The FatFs calls.  A call of some kind may fail within the fault budget;  *)
(* a failed call leaves the card as it was.                                 *)
MayFail(kind) == kind \in Faults /\ faults < MaxFaults
Fine == faults' = faults
Fault(kind) == MayFail(kind) /\ faults' = faults + 1

Put(n, c) == files' = [files EXCEPT ![n] = c]

(* f_unlink: TRUE for FR_OK.  Of an absent file it fails with FR_NO_FILE.   *)
Unlink(n, ok) ==
    \/ files[n] # Absent /\ ok /\ Fine /\ Put(n, Absent)
    \/ files[n] = Absent /\ ~ok /\ Fine /\ UNCHANGED files
    \/ files[n] # Absent /\ ~ok /\ Fault("unlink") /\ UNCHANGED files

(* f_rename refuses a destination that exists.                              *)
Rename(from, to, ok) ==
    LET possible == files[from] # Absent /\ files[to] = Absent
    IN  \/ /\ possible /\ ok /\ Fine
           /\ files' = [files EXCEPT ![to] = files[from], ![from] = Absent]
        \/ ~possible /\ ~ok /\ Fine /\ UNCHANGED files
        \/ possible /\ ~ok /\ Fault("rename") /\ UNCHANGED files

(* checkSize(n) # -1. *)
Exists(n) == files[n] # Absent

-----------------------------------------------------------------------------
(* Power comes: the controller starts from defaults and loads. *)
Boot ==
    /\ pc = "off"
    /\ ram' = 0 /\ pc' = "recover" /\ caller' = "load" /\ mark' = faults
    /\ UNCHANGED <<files, edits, active, hadValid, faults>>

(* The user changes the configuration in memory. *)
Edit ==
    /\ pc = "idle" /\ edits < MaxEdits
    /\ edits' = edits + 1 /\ ram' = edits + 1
    /\ UNCHANGED <<files, pc, caller, active, hadValid, faults, mark>>

(* saveConfig serialises the memory and first calls recoverConfigFile. *)
CallSave ==
    /\ pc = "idle"
    /\ pc' = "recover" /\ caller' = "save" /\ mark' = faults
    /\ UNCHANGED <<files, ram, edits, active, hadValid, faults>>

(* Power is cut.  A file being written is left as it was or half written:   *)
(* over a valid file of the same size that looks valid.                     *)
Torn(c) == IF Valid(c) THEN Mixed ELSE Bad
Crash ==
    /\ pc # "off" /\ Fault("crash")
    /\ pc' = "off"
    /\ \/ UNCHANGED files
       \/ pc = "write" /\ Put("tmp", Torn(files["tmp"]))
    /\ UNCHANGED <<ram, edits, caller, active, hadValid, mark>>

-----------------------------------------------------------------------------
(* recoverConfigFile: return n. *)
Return(n) == pc' = "recovered" /\ active' = n
rest == <<ram, edits, caller, hadValid, mark>>

(* A read error: checkSize or load fails on a file that is there.  The code *)
(* takes it for an absent or invalid file and goes on as if it were.        *)
Misread(n) == Valid(files[n]) /\ Fault("read")

(* A file in the way stays: f_unlink fails, or checkSize misreads it as     *)
(* absent and the rename that follows refuses to replace it.                *)
NotRemoved == (Fault("unlink") \/ Fault("read")) /\ UNCHANGED files

(* The canonical file is valid: drop the artifacts, the backup first. *)
RecoverCanonical ==
    /\ pc = "recover" /\ Valid(files["canonical"])
    /\ \E ok \in BOOLEAN : Unlink("backup", ok)
    /\ pc' = "cleanTmp" /\ UNCHANGED <<active, rest>>

CleanTmp ==
    /\ pc = "cleanTmp"
    /\ \E ok \in BOOLEAN : Unlink("tmp", ok)
    /\ Return("canonical") /\ UNCHANGED rest

PreferBackup ==
    /\ pc = "recover" /\ Fine
    /\ pc' = "tryBackup" /\ UNCHANGED <<files, active, rest>>

(* The canonical file is invalid, or misread: look at the next one. *)
SkipCanonical ==
    /\ pc = "recover"
    /\ \/ ~Valid(files["canonical"]) /\ Fine
       \/ Misread("canonical")
    /\ pc' = "tryBackup" /\ UNCHANGED <<files, active, rest>>

(* The backup is valid: remove what is at the canonical name, or return the *)
(* backup itself when that fails.                                           *)
RecoverBackup ==
    /\ pc = "tryBackup" /\ Valid(files["backup"])
    /\ \/ ~Exists("canonical") /\ Fine /\ UNCHANGED <<files, active>> /\ pc' = "restoreBackup"
       \/ Exists("canonical") /\ Unlink("canonical", TRUE) /\ UNCHANGED active
             /\ pc' = "restoreBackup"
       \/ Exists("canonical") /\ NotRemoved /\ Return("backup")
    /\ UNCHANGED rest

RestoreBackup ==
    /\ pc = "restoreBackup"
    /\ \E ok \in BOOLEAN :
         /\ Rename("backup", "canonical", ok)
         /\ IF ok THEN pc' = "cleanTmp" /\ UNCHANGED active
                  ELSE Return("backup")
    /\ UNCHANGED rest

SkipBackup ==
    /\ pc = "tryBackup"
    /\ \/ ~Valid(files["backup"]) /\ Fine
       \/ Misread("backup")
    /\ pc' = "tryTmp" /\ UNCHANGED <<files, active, rest>>

(* Only the temporary file is valid: promote it, or return it in place. *)
RecoverTmp ==
    /\ pc = "tryTmp" /\ Valid(files["tmp"])
    /\ \/ ~Exists("canonical") /\ Fine /\ UNCHANGED <<files, active>> /\ pc' = "restoreTmp"
       \/ Exists("canonical") /\ Unlink("canonical", TRUE) /\ UNCHANGED active
             /\ pc' = "restoreTmp"
       \/ Exists("canonical") /\ NotRemoved /\ Return("tmp")
    /\ UNCHANGED rest

RestoreTmp ==
    /\ pc = "restoreTmp"
    /\ \E ok \in BOOLEAN :
         Rename("tmp", "canonical", ok) /\ Return(IF ok THEN "canonical" ELSE "tmp")
    /\ UNCHANGED rest

RecoverNone ==
    /\ pc = "tryTmp"
    /\ \/ ~Valid(files["tmp"]) /\ Fine
       \/ Misread("tmp")
    /\ Return("canonical") /\ UNCHANGED <<files, rest>>

Recover == RecoverCanonical \/ CleanTmp \/ SkipCanonical \/ RecoverBackup
           \/ RestoreBackup \/ SkipBackup \/ RecoverTmp \/ RestoreTmp \/ RecoverNone

-----------------------------------------------------------------------------
LoadCanonicalOnly ==
    /\ pc = "recovered" /\ caller = "load"
    /\ \/ Valid(files["canonical"]) /\ ram' = files["canonical"]
       \/ ~Valid(files["canonical"]) /\ UNCHANGED ram
    /\ Fine /\ pc' = "idle" /\ UNCHANGED <<files, edits, caller, active, hadValid, mark>>

LoadUnchecked ==
    /\ pc = "recovered" /\ caller = "load"
    /\ Exists(active) /\ ram' = files[active] /\ Fine
    /\ pc' = "idle" /\ UNCHANGED <<files, edits, caller, active, hadValid, mark>>

(* loadConfig: an absent, misread or invalid file leaves the memory alone.  *)
LoadConfig ==
    /\ pc = "recovered" /\ caller = "load"
    /\ \/ Valid(files[active]) /\ ram' = files[active] /\ Fine
       \/ ~Valid(files[active]) /\ UNCHANGED ram /\ Fine
       \/ Misread(active) /\ UNCHANGED ram
    /\ pc' = "idle" /\ UNCHANGED <<files, edits, caller, active, hadValid, mark>>

keep == <<ram, edits, caller, active, mark>>

(* saveConfig: give up when the recovered file could not be moved to the    *)
(* canonical name; else note whether there is a configuration to keep ...   *)
GiveUp ==
    /\ pc = "recovered" /\ caller = "save" /\ active # "canonical"
    /\ pc' = "idle" /\ UNCHANGED <<files, hadValid, faults, keep>>

BeginSave ==
    /\ pc = "recovered" /\ caller = "save" /\ active = "canonical"
    /\ \/ hadValid' = Valid(files["canonical"]) /\ Fine
       \/ hadValid' = FALSE /\ Misread("canonical")
    /\ pc' = "dropTmp" /\ UNCHANGED <<files, keep>>

(* ... and drop the temporary file. *)
DropTmp ==
    /\ pc = "dropTmp"
    /\ \E ok \in BOOLEAN : Unlink("tmp", ok)
    /\ pc' = "open" /\ UNCHANGED <<hadValid, keep>>

(* save(): f_open(FA_OPEN_ALWAYS) creates the file or keeps its content. *)
OpenTmp ==
    /\ pc = "open"
    /\ \/ /\ Fine /\ pc' = "write"
          /\ IF Exists("tmp") THEN UNCHANGED files ELSE Put("tmp", Bad)
       \/ Fault("open") /\ pc' = "idle" /\ UNCHANGED files
    /\ UNCHANGED <<hadValid, keep>>

WriteUnverified ==
    /\ pc = "write"
    /\ pc' = IF hadValid THEN "dropBackup" ELSE "replace"
    /\ \/ Fine /\ Put("tmp", ram)
       \/ Fault("write") /\ Put("tmp", Torn(files["tmp"]))
    /\ UNCHANGED <<hadValid, keep>>

(* save(): f_write and f_close, and the check of what was written.          *)
WriteTmp ==
    /\ pc = "write"
    /\ \/ Fine /\ Put("tmp", ram) /\ pc' = IF hadValid THEN "dropBackup" ELSE "replace"
       \/ Fault("write") /\ Put("tmp", Torn(files["tmp"])) /\ pc' = "idle"
       \/ Fault("read") /\ Put("tmp", ram) /\ pc' = "idle"
    /\ UNCHANGED <<hadValid, keep>>

(* The canonical name must be free for the promotion: its valid file        *)
(* becomes the backup, once the old backup is gone ...                      *)
DropBackup ==
    /\ pc = "dropBackup"
    /\ \E ok \in BOOLEAN : Unlink("backup", ok)
    /\ pc' = IF files'["backup"] # Absent THEN "idle" ELSE "rotate"
    /\ UNCHANGED <<hadValid, keep>>

Rotate ==
    /\ pc = "rotate"
    /\ \E ok \in BOOLEAN :
         Rename("canonical", "backup", ok) /\ pc' = IF ok THEN "promote" ELSE "idle"
    /\ UNCHANGED <<hadValid, keep>>

ReplaceInPlace ==
    /\ pc = "replace"
    /\ Fine /\ UNCHANGED files /\ pc' = "promote"
    /\ UNCHANGED <<hadValid, keep>>

(* ... an invalid one is removed. *)
Replace ==
    /\ pc = "replace"
    /\ \/ ~Exists("canonical") /\ Fine /\ UNCHANGED files /\ pc' = "promote"
       \/ Exists("canonical") /\ Unlink("canonical", TRUE) /\ pc' = "promote"
       \/ Exists("canonical") /\ NotRemoved /\ pc' = "idle"
    /\ UNCHANGED <<hadValid, keep>>

Promote ==
    /\ pc = "promote"
    /\ \E ok \in BOOLEAN :
         /\ Rename("tmp", "canonical", ok)
         /\ pc' = IF ok THEN "dropOld" ELSE IF hadValid THEN "rollback" ELSE "idle"
    /\ UNCHANGED <<hadValid, keep>>

Rollback ==
    /\ pc = "rollback"
    /\ \E ok \in BOOLEAN : Rename("backup", "canonical", ok)
    /\ pc' = "idle" /\ UNCHANGED <<hadValid, keep>>

DropOld ==
    /\ pc = "dropOld"
    /\ \E ok \in BOOLEAN : Unlink("backup", ok)
    /\ pc' = "idle" /\ UNCHANGED <<hadValid, keep>>

SaveConfig == GiveUp \/ BeginSave \/ DropTmp \/ OpenTmp \/ WriteTmp
              \/ DropBackup \/ Rotate \/ Replace \/ Promote \/ Rollback \/ DropOld

Next == Boot \/ Edit \/ CallSave \/ Crash \/ Recover \/ LoadConfig \/ SaveConfig

Spec == Init /\ [][Next]_vars

-----------------------------------------------------------------------------
TypeOK ==
    /\ files \in [Name -> Content]
    /\ ram \in Config \cup {Mixed} /\ edits \in 0 .. MaxEdits
    /\ pc \in {"off", "idle", "recover", "cleanTmp", "tryBackup", "restoreBackup",
               "tryTmp", "restoreTmp", "recovered", "dropTmp", "open", "write",
               "dropBackup", "rotate", "replace", "promote", "rollback", "dropOld"}
    /\ caller \in {"load", "save"} /\ active \in Name /\ hadValid \in BOOLEAN
    /\ faults \in 0 .. MaxFaults /\ mark \in 0 .. faults

(* What a load would find on the card: the canonical file, else the backup, *)
(* else the temporary file.                                                 *)
Loadable(f) ==
    IF Valid(f["canonical"]) THEN f["canonical"]
    ELSE IF Valid(f["backup"]) THEN f["backup"]
    ELSE IF Valid(f["tmp"]) THEN f["tmp"]
    ELSE Absent

(* Once the card holds a configuration, it always does, and never an older  *)
(* one: whatever fails and wherever the power is cut, each step leaves the  *)
(* same configuration to load or a newer one (comments at                   *)
(* MidiControllerFile.cpp:66-68, 75-77, 90-92, 245-247, 262-263).           *)
NeverBackwards ==
    [][Loadable(files) \in Config =>
         Loadable(files') \in Config /\ Loadable(files') >= Loadable(files)]_vars

(* A half-written file that passes isValidConfigFile is never what a load   *)
(* would take, although the check reads the size and the version only.      *)
NeverTorn == Loadable(files) # Mixed

(* A load that finds a configuration on the card ends with it in memory,    *)
(* whichever of the three files holds it and whatever recovery failed to do.*)
LoadsWhatIsThere ==
    [][LoadConfig /\ Loadable(files) # Absent => ram' = Loadable(files)]_vars

(* Nothing an earlier fault left behind blocks a save: one during which     *)
(* nothing fails ends with the memory in the canonical file, alone.         *)
CleanSaveCommits ==
    [][caller = "save" /\ pc # "idle" /\ pc' = "idle" /\ faults' = mark =>
         files' = [n \in Name |-> IF n = "canonical" THEN ram ELSE Absent]]_vars

(* "Neither should replace a valid canonical file"                          *)
(* (MidiControllerFile.cpp:66-68): recovery keeps a valid canonical file.   *)
CanonicalKept ==
    [][Recover /\ Valid(files["canonical"]) => files'["canonical"] = files["canonical"]]_vars
=============================================================================
