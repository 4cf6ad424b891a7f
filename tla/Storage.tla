------------------------------- MODULE Storage -------------------------------
(***************************************************************************)
(* storage.Repository: settings.json and state.json, each with a .bak, as  *)
(* AtomicModelFile writes, loads and recovers them.  The steps of one      *)
(* operation run without an await, but each file-system call can fail, the *)
(* process can be killed between two of them, and the machine can lose     *)
(* power: then a rename that no fsync of the directory has followed may or *)
(* may not survive.                                                        *)
(*                                                                         *)
(* A file's content is the number of the update that wrote it and the      *)
(* schema it is written in; data 0 is what the installation started with.  *)
(***************************************************************************)
EXTENDS Naturals

CONSTANTS Missing, Corrupt,  \* a path without a file, and a file that does not decode
          Limit              \* bounds: how many events of each kind may happen

Files == {"settings", "state"}
Parts == {"primary", "backup"}
Content == [data : Nat, schema : {1, 2}]
Slot == Content \cup {Missing, Corrupt}
Disk == [Files -> [Parts -> Slot]]
Kinds == {"update",   \* asked for by the bot
          "fault",    \* a file-system call that fails
          "kill",     \* a kill or a power loss
          "damage"}   \* a file that decays, or cannot be read when it is loaded

ASSUME SlotAssumption == Missing \notin Content /\ Corrupt \notin Content /\ Missing # Corrupt
ASSUME LimitAssumption == Limit \in [Kinds -> Nat]

VARIABLES proc,     \* the process: what initialize or a write is doing, and _value
          disk,     \* what the file system shows
          synced,   \* what a power loss cannot take away
          count,    \* events so far
          told      \* what the callers of mutate may rely on

vars == <<proc, disk, synced, count, told>>

Calls == {"none", "load", "create", "move", "recover", "restore", "upgrade", "read",
          "backup", "write"}
Process == [mode    : {"down", "booting", "running", "diagnostic"},
            stage   : 1..4,              \* of initialize
            create  : BOOLEAN,           \* initialize's allow_create
            at      : Calls,             \* the call that comes next
            renamed : BOOLEAN,           \* its rename is done, its fsync is not
            file    : Files,             \* that it works on
            value   : [Files -> Content \cup {Missing}],   \* _value
            pending : Content,           \* what is being written
            current : Content]           \* what has been read to become the backup

\* The last update whose caller was told of success, the last but one, and
\* whether there has been any.
Promises == [acked : [Files -> Nat], before : [Files -> Nat], inUse : BOOLEAN]

TypeOK ==
    /\ proc \in Process
    /\ disk \in Disk /\ synced \in Disk
    /\ count \in [Kinds -> Nat]
    /\ told \in Promises

Factory == [data |-> 0, schema |-> 2]
Down == [mode |-> "down", stage |-> 1, create |-> FALSE, at |-> "none", renamed |-> FALSE,
         file |-> "settings", value |-> [f \in Files |-> Missing], pending |-> Factory,
         current |-> Factory]
\* A fresh directory, or what an earlier release, with schema 1, has left.
Fresh(f) == [p \in Parts |-> Missing]
Old(f) == [p \in Parts |-> IF p = "primary" THEN [data |-> 0, schema |-> 1] ELSE Missing]

Init ==
    /\ proc = Down
    /\ disk \in {[f \in Files |-> Fresh(f)], [f \in Files |-> Old(f)]} /\ synced = disk
    /\ count = [k \in Kinds |-> 0]
    /\ told = [acked |-> [f \in Files |-> 0], before |-> [f \in Files |-> 0],
               inUse |-> disk # [f \in Files |-> Fresh(f)]]

Happens(kind) == count[kind] < Limit[kind] /\ count' = [count EXCEPT ![kind] = @ + 1]
Exists(f) == disk[f]["primary"] # Missing
Valid(slot) == slot \in Content
Primary == disk[proc.file]["primary"]
Backup == disk[proc.file]["backup"]

-----------------------------------------------------------------------------
(* Booting: Repository.initialize. *)

Stages == << [call |-> "load", file |-> "settings"], [call |-> "load", file |-> "state"],
             [call |-> "upgrade", file |-> "settings"], [call |-> "upgrade", file |-> "state"] >>

\* The present stage of initialize is over; files just created need no upgrade.
Proceed(p) ==
    IF p.stage = 4 \/ (p.stage = 2 /\ p.create)
    THEN [p EXCEPT !.mode = "running", !.at = "none"]
    ELSE [p EXCEPT !.stage = @ + 1, !.at = Stages[p.stage + 1].call,
                   !.file = Stages[p.stage + 1].file]

EnterDiagnostic == proc' = [Down EXCEPT !.mode = "diagnostic"]

\* Mutant of BootRefused: a boot takes a lone file for a fresh installation.
BootNeverRefused == FALSE

BootRefused == Exists("settings") # Exists("state")

Boot ==
    /\ proc.mode = "down"
    /\ \/ BootRefused /\ EnterDiagnostic
       \/ /\ ~BootRefused
          /\ proc' = [Down EXCEPT !.mode = "booting", !.at = "load",
                                  !.create = ~Exists("settings")]
    /\ UNCHANGED <<disk, synced, count, told>>

\* Mutant of Decoded: the migration also runs on a document of this schema.
DecodedAgain(content) == [content EXCEPT !.schema = @ + 1]

\* A schema 1 document is migrated in memory.
Decoded(content) == [content EXCEPT !.schema = 2]

AtMost(m, n) == IF m <= n THEN m ELSE n

\* A valid value is loaded; what damage has cost is no longer relied on.
Loaded(content) ==
    LET f == proc.file n == content.data
    IN  /\ proc' = Proceed([proc EXCEPT !.value[f] = Decoded(content), !.renamed = FALSE])
        /\ told' = [told EXCEPT !.acked[f] = AtMost(@, n), !.before[f] = AtMost(@, n)]

LoadMissing ==
    /\ proc.at = "load" /\ ~Exists(proc.file)
    /\ \/ proc.create /\ proc' = [proc EXCEPT !.at = "create", !.pending = Factory]
       \/ ~proc.create /\ EnterDiagnostic
    /\ UNCHANGED <<disk, synced, count, told>>

LoadValid ==
    /\ proc.at = "load" /\ Valid(Primary)
    /\ Loaded(Primary)
    /\ UNCHANGED <<disk, synced, count>>

\* The primary does not decode, or reading it fails: both count as corrupt.
LoadCorrupt ==
    /\ proc.at = "load" /\ Exists(proc.file)
    /\ \/ Primary = Corrupt /\ UNCHANGED count
       \/ Valid(Primary) /\ Happens("damage")
    /\ proc' = [proc EXCEPT !.at = "move"]
    /\ UNCHANGED <<disk, synced, told>>

\* _recover_corrupt, once the primary has been moved aside.
Recover ==
    /\ proc.at = "recover"
    /\ \/ /\ Valid(Backup) /\ UNCHANGED count
          /\ proc' = [proc EXCEPT !.at = "restore", !.pending = Backup]
       \/ ~Valid(Backup) /\ EnterDiagnostic /\ UNCHANGED count
       \/ Valid(Backup) /\ EnterDiagnostic /\ Happens("damage")
    /\ UNCHANGED <<disk, synced, told>>

\* A loaded file is written again when its schema on disk is an older one.
Upgrade ==
    /\ proc.at = "upgrade" /\ Valid(Primary)
    /\ proc' = IF Primary.schema = 2 THEN Proceed(proc)
               ELSE [proc EXCEPT !.at = "read", !.pending = proc.value[proc.file]]
    /\ UNCHANGED <<disk, synced, count, told>>

-----------------------------------------------------------------------------
(* Writing: AtomicModelFile.mutate, and replace for an upgrade. *)

Mutate(f) ==
    /\ proc.mode = "running" /\ proc.at = "none"
    /\ Happens("update")
    /\ proc' = [proc EXCEPT !.file = f, !.at = "read",
                            !.pending = [data |-> count["update"] + 1, schema |-> 2]]
    /\ UNCHANGED <<disk, synced, told>>

\* Mutant of ReadCurrent: the bytes go to the backup without being decoded.
ReadUnchecked == Exists(proc.file)

\* The file on disk must decode before it may become the backup.
ReadCurrent == Valid(Primary)

Read ==
    /\ proc.at = "read" /\ ReadCurrent
    /\ proc' = [proc EXCEPT !.at = "backup", !.current = Primary]
    /\ UNCHANGED <<disk, synced, count, told>>

\* os.replace puts complete, synced bytes in the place of a file, or moves the
\* corrupt primary to a name of its own.
Put(part, slot) == disk' = [disk EXCEPT ![proc.file][part] = slot]

Rename ==
    /\ ~proc.renamed
    /\ \/ proc.at \in {"create", "restore", "write"} /\ Put("primary", proc.pending)
       \/ proc.at = "move" /\ Put("primary", Missing)
       \/ proc.at = "backup" /\ Put("backup", proc.current)
    /\ proc' = [proc EXCEPT !.renamed = TRUE]
    /\ UNCHANGED <<synced, count, told>>

\* The write is durable: the copy in memory follows, and the caller is told.
Written ==
    LET f == proc.file
        done == [proc EXCEPT !.value[f] = proc.pending, !.renamed = FALSE, !.at = "none"]
    IN  \/ /\ proc.mode = "running" /\ proc' = done
           /\ told' = [acked |-> [told.acked EXCEPT ![f] = proc.pending.data],
                       before |-> [told.before EXCEPT ![f] = told.acked[f]], inUse |-> TRUE]
        \/ proc.mode = "booting" /\ proc' = Proceed(done) /\ UNCHANGED told

\* Mutant of SyncDirectory: the directory is not synced.
SyncNothing == UNCHANGED synced

\* _fsync_directory covers every rename in the data directory.
SyncDirectory == synced' = disk

Sync ==
    /\ proc.renamed /\ SyncDirectory
    /\ \/ proc.at \in {"create", "restore"} /\ Loaded(proc.pending)
       \/ proc.at = "write" /\ Written
       \/ /\ proc.at \in {"move", "backup"} /\ UNCHANGED told
          /\ proc' = [proc EXCEPT !.renamed = FALSE,
                                  !.at = IF @ = "move" THEN "recover" ELSE "write"]
    /\ UNCHANGED <<disk, count>>

-----------------------------------------------------------------------------
(* What goes wrong. *)

\* An exception: during an update it goes to the caller; during a boot it
\* ends the process, which is started again.
Raise == proc' = IF proc.mode = "running" THEN [proc EXCEPT !.at = "none", !.renamed = FALSE]
                 ELSE Down

\* A rename fails, or the fsync after it.
CallFails ==
    /\ proc.at \in {"create", "move", "restore", "backup", "write"}
    /\ Happens("fault") /\ Raise
    /\ UNCHANGED <<disk, synced, told>>

\* The file to read before a write is corrupt or gone.
ReadFails ==
    /\ proc.at \in {"read", "upgrade"} /\ ~Valid(Primary)
    /\ Raise
    /\ UNCHANGED <<disk, synced, count, told>>

Kill ==
    /\ proc.mode # "down" /\ Happens("kill")
    /\ proc' = Down
    /\ UNCHANGED <<disk, synced, told>>

PowerLoss ==
    /\ Happens("kill")
    /\ proc' = Down
    /\ \E kept \in SUBSET (Files \X Parts) :
        disk' = [f \in Files |-> [p \in Parts |->
                    IF <<f, p>> \in kept THEN disk[f][p] ELSE synced[f][p]]]
    /\ synced' = disk'
    /\ UNCHANGED told

\* A file decays, or somebody edits it into something that does not decode.
Decay(f, p) ==
    /\ Happens("damage")
    /\ Valid(disk[f][p])
    /\ disk' = [disk EXCEPT ![f][p] = Corrupt]
    /\ synced' = [synced EXCEPT ![f][p] = IF @ = disk[f][p] THEN Corrupt ELSE @]
    /\ UNCHANGED <<proc, told>>

Next ==
    \/ Boot \/ LoadMissing \/ LoadValid \/ LoadCorrupt \/ Recover \/ Upgrade
    \/ \E f \in Files : Mutate(f)
    \/ Read \/ Rename \/ Sync \/ CallFails \/ ReadFails \/ Kill \/ PowerLoss
    \/ \E f \in Files, p \in Parts : Decay(f, p)

Spec == Init /\ [][Next]_vars

-----------------------------------------------------------------------------

\* An installation in use is not started afresh: one damaged file and any kills
\* and failures later it still has a primary, and no boot creates files
\* (README.md:107).  What the recovered files say is not part of it: the backup
\* of a claim just made has no owner yet.
NeverReset ==
    told.inUse /\ count["damage"] <= 1 =>
        proc.at # "create" /\ \E f \in Files : Exists(f)

\* One damaged file costs no data for good: a file that has got its backup
\* keeps a valid copy on disk at every instant.
SurvivesOneDamage ==
    told.inUse /\ count["damage"] <= 1 =>
        \A f \in Files : disk[f]["backup"] # Missing => \E p \in Parts : Valid(disk[f][p])

\* An update whose caller was told of success is there after a restart, a
\* power loss included; a damaged file costs the last update and no other.
AckedSurvives ==
    [][ \A f \in Files : /\ proc.value[f] = Missing /\ proc'.value[f] # Missing
                         /\ count["damage"] <= 1
          => proc'.value[f].data >=
                IF count["damage"] = 0 THEN told.acked[f] ELSE told.before[f]
      ]_vars

\* docs/installation.md:71: a valid backup automatically restores a corrupt
\* primary, so the closed diagnostic mode is for files that have none.
BackupRestores ==
    proc.mode = "diagnostic" /\ told.inUse =>
        \E f \in Files : \A p \in Parts : ~Valid(disk[f][p])
=============================================================================
