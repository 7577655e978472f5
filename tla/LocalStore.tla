------------------------------ MODULE LocalStore ------------------------------
(***************************************************************************)
(* The database under the Firestore client's cache and queue of writes: a  *)
(* log per memtable, tables made of full memtables by a background thread, *)
(* and a manifest that names the tables and the first log still needed.    *)
(* The process may end at any point and the power may fail at any point;   *)
(* the next start recovers from whatever files there are.                  *)
(*                                                                         *)
(* The client has one thread that writes, so no writes are grouped.  A     *)
(* write stands for its batch: a record that is torn fails its checksum    *)
(* and is dropped as a whole.  A write that fails ends the process (the    *)
(* client asserts that it succeeds).  Files that are created, renamed and  *)
(* deleted are so in this order also after a power failure.  Compactions   *)
(* of tables into tables are left out.                                     *)
(***************************************************************************)
EXTENDS Naturals, Functions, FiniteSetsExt

CONSTANTS
  MaxWrite,   \* bound: sequence numbers
  MaxFile,    \* bound: file numbers
  MaxCrash    \* bound: ends of the process, of the power and of the database

BoundsAssumption == MaxWrite \in Nat /\ MaxFile \in Nat /\ MaxCrash \in Nat

VARIABLES
  created,    \* the file CURRENT is there
  logs,       \* per log file, its records and those of them on the medium
  tables,     \* per table file, its records
  manifest,   \* what a reader of the manifest finds
  durable,    \* what is on the medium of it
  phase,      \* of the database: see Phase
  versions,   \* VersionSet: log_number_, next_file_number_, last_sequence_, tables
  logfile,    \* logfile_number_
  mem, imm,   \* the memtables; imm is {} for none
  left,       \* logs still to be recovered
  added,      \* tables the version edit adds
  writing,    \* the sequence number of the write under way, or 0
  background, \* of the background thread: see Background
  bgError,    \* bg_error_ is set
  promised,   \* history: writes acknowledged after a sync
  crashes

disk == <<created, logs, tables, manifest, durable>>
memory == <<versions, logfile, mem, imm, left, added, writing>>
history == <<promised, crashes>>
vars == <<disk, phase, memory, background, bgError, history>>

Write == 1..MaxWrite
File == 0..MaxFile
Version == [log : File, next : Nat, last : Nat, tables : SUBSET File]
Log == [written : SUBSET Write, synced : SUBSET Write]
Phase == {"closed", "recovering", "logCreated", "installed", "open", "closing"}
Background == {"idle", "scheduled", "built", "logged", "installed"}

(* Every variable keeps its type; the only invariant that says no more.    *)
TypeOK ==
  /\ created \in BOOLEAN
  /\ DOMAIN logs \subseteq File /\ \A n \in DOMAIN logs : logs[n] \in Log
  /\ DOMAIN tables \subseteq File /\ \A n \in DOMAIN tables : tables[n] \in SUBSET Write
  /\ manifest \in Version /\ durable \in Version /\ versions \in Version
  /\ phase \in Phase /\ background \in Background /\ bgError \in BOOLEAN
  /\ logfile \in File
  /\ mem \subseteq Write /\ imm \subseteq Write /\ promised \subseteq Write
  /\ left \subseteq DOMAIN logs /\ added \subseteq DOMAIN tables
  /\ writing \in 0..MaxWrite
  /\ crashes \in 0..MaxCrash

(* A manifest without a single record: it cannot be read.                  *)
Blank == [log |-> 0, next |-> 0, last |-> 0, tables |-> {}]

Init ==
  /\ created = FALSE /\ logs = <<>> /\ tables = <<>>
  /\ manifest = Blank /\ durable = Blank
  /\ phase = "closed" /\ versions = Blank /\ logfile = 0
  /\ mem = {} /\ imm = {} /\ left = {} /\ added = {} /\ writing = 0
  /\ background = "idle" /\ bgError = FALSE
  /\ promised = {} /\ crashes = 0

-----------------------------------------------------------------------------
With(files, n, contents) ==
  [m \in DOMAIN files \cup {n} |-> IF m = n THEN contents ELSE files[m]]

EmptyLog == [written |-> {}, synced |-> {}]

Larger(a, b) == IF a < b THEN b ELSE a

(* MarkFileNumberUsed.                                                     *)
Beyond(next, n) == Larger(next, n + 1)

-----------------------------------------------------------------------------
(* NewDB: the manifest is written and not synced; CURRENT names it.        *)
NewDB ==
  /\ phase = "closed" /\ ~created
  /\ created' = TRUE
  /\ manifest' = [Blank EXCEPT !.next = 2]
  /\ UNCHANGED <<logs, tables, durable, phase, memory, background, bgError, history>>

LogsToRecover == {n \in DOMAIN logs : n >= manifest.log}

(* VersionSet::Recover, and Recover up to its loop over the logs.          *)
Recover ==
  /\ phase = "closed" /\ created
  /\ manifest.next > 0 /\ manifest.tables \subseteq DOMAIN tables
  /\ manifest.next < MaxFile
  /\ versions' = [manifest EXCEPT !.next = @ + 1]
  /\ left' = LogsToRecover
  /\ phase' = "recovering"
  /\ UNCHANGED <<disk, logfile, mem, imm, added, writing, background, bgError, history>>

(* Mutation: the sequence number stays the manifest's.                     *)
NoLater(last, records) == last

(* max_sequence.                                                           *)
LastOf(last, records) == Max({last} \cup records)

(* RecoverLogFile: the records of the oldest log left become a table.      *)
RecoverLogFile(n) ==
  /\ phase = "recovering" /\ n \in left /\ \A m \in left : n <= m
  /\ versions.next <= MaxFile
  /\ IF logs[n].written = {}
     THEN /\ versions' = [versions EXCEPT !.next = Beyond(@, n)]
          /\ UNCHANGED <<tables, added>>
     ELSE /\ tables' = With(tables, versions.next, logs[n].written)
          /\ added' = added \cup {versions.next}
          /\ versions' = [versions EXCEPT !.next = Beyond(@ + 1, n),
                                          !.last = LastOf(@, logs[n].written)]
  /\ left' = left \ {n}
  /\ UNCHANGED <<created, logs, manifest, durable, phase, logfile, mem, imm, writing,
                 background, bgError, history>>

(* Open, with all logs recovered: a new log and an empty memtable.         *)
CreateLog ==
  /\ phase = "recovering" /\ left = {}
  /\ versions.next <= MaxFile
  /\ logs' = With(logs, versions.next, EmptyLog)
  /\ logfile' = versions.next
  /\ versions' = [versions EXCEPT !.next = @ + 1]
  /\ phase' = "logCreated"
  /\ UNCHANGED <<created, tables, manifest, durable, mem, imm, left, added, writing,
                 background, bgError, history>>

(* What LogAndApply makes of the version edit: its log is the current one. *)
Edited == [versions EXCEPT !.log = logfile, !.tables = @ \cup added]

(* The new manifest is synced before CURRENT names it.                     *)
SetCurrent(edit) == manifest' = edit /\ durable' = edit

(* Open's LogAndApply, with a new manifest.                                *)
SaveManifest ==
  /\ phase = "logCreated"
  /\ SetCurrent(Edited)
  /\ versions' = Edited
  /\ added' = {}
  /\ phase' = "installed"
  /\ UNCHANGED <<created, logs, tables, logfile, mem, imm, left, writing,
                 background, bgError, history>>

(* Mutation: the current log counts as obsolete.                           *)
DeleteOldFiles ==
  /\ logs' = Restrict(logs, {n \in DOMAIN logs : n > versions.log})
  /\ tables' = Restrict(tables, DOMAIN tables \cap versions.tables)

DeleteObsoleteFiles ==
  /\ logs' = Restrict(logs, {n \in DOMAIN logs : n >= versions.log})
  /\ tables' = Restrict(tables, DOMAIN tables \cap versions.tables)

FinishOpen ==
  /\ phase = "installed"
  /\ DeleteObsoleteFiles
  /\ phase' = "open"
  /\ UNCHANGED <<created, manifest, durable, memory, background, bgError, history>>

-----------------------------------------------------------------------------
MayWrite == phase = "open" /\ writing = 0 /\ ~bgError /\ background # "installed"

(* A full memtable, whatever full is, and none before it being flushed.    *)
RoomForOld == mem # {} /\ imm = {}

(* Mutation: the background thread is not told.                            *)
ScheduleNothing == UNCHANGED background

MaybeScheduleCompaction ==
  background' = IF background = "idle" THEN "scheduled" ELSE background

(* MakeRoomForWrite with the memtable full: a new log and memtable, and    *)
(* the old one is left to the background thread.                           *)
SwitchMemTable ==
  /\ MayWrite /\ RoomForOld
  /\ versions.next < MaxFile
  /\ logs' = With(logs, versions.next, EmptyLog)
  /\ logfile' = versions.next
  /\ versions' = [versions EXCEPT !.next = @ + 1]
  /\ imm' = mem /\ mem' = {}
  /\ MaybeScheduleCompaction
  /\ UNCHANGED <<created, tables, manifest, durable, phase, left, added, writing,
                 bgError, history>>

(* Write, up to AddRecord, which runs without the lock.                    *)
AddRecord ==
  /\ MayWrite /\ versions.last < MaxWrite
  /\ writing' = versions.last + 1
  /\ logs' = [logs EXCEPT ![logfile].written = @ \cup {versions.last + 1}]
  /\ UNCHANGED <<created, tables, manifest, durable, phase, versions, logfile, mem, imm,
                 left, added, background, bgError, history>>

(* Mutation: the log is not synced.                                        *)
NotSynced(log, sync) == log

Synced(log, sync) == IF sync THEN [log EXCEPT !.synced = log.written] ELSE log

(* Write, from AddRecord on: perhaps a sync; the memtable, the sequence    *)
(* number, and the caller has it done.                                     *)
FinishWrite(sync) ==
  /\ writing # 0
  /\ logs' = [logs EXCEPT ![logfile] = Synced(@, sync)]
  /\ mem' = mem \cup {writing}
  /\ versions' = [versions EXCEPT !.last = writing]
  /\ writing' = 0
  /\ promised' = IF sync THEN promised \cup {writing} ELSE promised
  /\ UNCHANGED <<created, tables, manifest, durable, phase, logfile, imm, left, added,
                 background, bgError, crashes>>
-----------------------------------------------------------------------------
(* CompactMemTable, up to BuildTable: the memtable becomes a synced table. *)
BuildTable ==
  /\ background = "scheduled" /\ phase = "open" /\ ~bgError
  /\ versions.next <= MaxFile
  /\ tables' = With(tables, versions.next, imm)
  /\ added' = {versions.next}
  /\ versions' = [versions EXCEPT !.next = @ + 1]
  /\ background' = "built"
  /\ UNCHANGED <<created, logs, manifest, durable, phase, logfile, mem, imm, left,
                 writing, bgError, history>>

(* BackgroundCall finds the database closing.                              *)
SkipCompaction ==
  /\ background = "scheduled" /\ phase = "closing"
  /\ background' = "idle"
  /\ UNCHANGED <<disk, phase, memory, bgError, history>>

(* LogAndApply: the edit is added to the manifest, without the lock.       *)
LogEdit ==
  /\ background = "built" /\ phase = "open"
  /\ manifest' = Edited
  /\ background' = "logged"
  /\ UNCHANGED <<created, logs, tables, durable, phase, memory, bgError, history>>

(* The table or the manifest cannot be written or synced, or the database  *)
(* is closing: the memtable and its log stay, and nothing is written from  *)
(* now on.                                                                 *)
CompactionFails ==
  /\ background \in {"scheduled", "built", "logged"} /\ ~bgError
  /\ background = "scheduled" => phase = "open"
  /\ bgError' = TRUE
  /\ added' = {}
  /\ background' = "idle"
  /\ UNCHANGED <<disk, phase, versions, logfile, mem, imm, left, writing, history>>

(* LogAndApply, from the sync of the manifest on: the version is the new   *)
(* one, and the old memtable is let go of.                                 *)
InstallEdit ==
  /\ background = "logged"
  /\ durable' = manifest
  /\ versions' = Edited
  /\ imm' = {} /\ added' = {}
  /\ background' = "installed"
  /\ UNCHANGED <<created, logs, tables, manifest, phase, logfile, mem, left, writing,
                 bgError, history>>

FinishCompaction ==
  /\ background = "installed"
  /\ DeleteObsoleteFiles
  /\ background' = "idle"
  /\ UNCHANGED <<created, manifest, durable, phase, memory, bgError, history>>

-----------------------------------------------------------------------------
(* The memory of the process is gone.                                      *)
Forget ==
  /\ phase' = "closed"
  /\ versions' = Blank /\ logfile' = 0
  /\ mem' = {} /\ imm' = {} /\ left' = {} /\ added' = {} /\ writing' = 0
  /\ background' = "idle" /\ bgError' = FALSE

Count == crashes < MaxCrash /\ crashes' = crashes + 1

(* ~DBImpl waits for the background thread.  No memtable is flushed.       *)
Close ==
  /\ phase = "open" /\ writing = 0
  /\ Count
  /\ phase' = "closing"
  /\ UNCHANGED <<disk, memory, background, bgError, promised>>

Closed ==
  /\ phase = "closing" /\ background = "idle"
  /\ Forget
  /\ UNCHANGED <<disk, history>>

(* The process ends, perhaps in the middle of adding a record to the log.  *)
ProcessEnds ==
  /\ phase # "closed"
  /\ Count
  /\ logs' \in {logs, [n \in DOMAIN logs |->
                         [logs[n] EXCEPT !.written = @ \ {writing}]]}
  /\ Forget
  /\ UNCHANGED <<created, tables, manifest, durable, promised>>

(* What a power failure leaves of a log: what was synced, and of the rest  *)
(* all up to some record.                                                  *)
Cut(log, w) == {v \in log.written : v \in log.synced \/ v <= w}

(* The power fails: of what was not synced, some has reached the medium.   *)
PowerFails ==
  /\ Count
  /\ \E cut \in [DOMAIN logs -> 0..MaxWrite] :
       logs' = [n \in DOMAIN logs |-> [written |-> Cut(logs[n], cut[n]),
                                       synced |-> Cut(logs[n], cut[n])]]
  /\ manifest' \in {manifest, durable} /\ durable' = manifest'
  /\ created' \in {created, created /\ durable # Blank}
  /\ Forget
  /\ UNCHANGED <<tables, promised>>

Next ==
  \/ NewDB \/ Recover \/ CreateLog \/ SaveManifest \/ FinishOpen
  \/ \E n \in left : RecoverLogFile(n)
  \/ SwitchMemTable \/ AddRecord
  \/ \E sync \in BOOLEAN : FinishWrite(sync)
  \/ BuildTable \/ SkipCompaction \/ LogEdit \/ CompactionFails \/ InstallEdit
  \/ FinishCompaction
  \/ Close \/ Closed \/ ProcessEnds \/ PowerFails

Spec == Init /\ [][Next]_vars

(* The background thread runs.                                             *)
Fairness ==
  WF_vars(BuildTable \/ SkipCompaction \/ LogEdit \/ InstallEdit \/ FinishCompaction)

FairSpec == Spec /\ Fairness

-----------------------------------------------------------------------------
Running == phase \in {"open", "closing"}

InTables(m) == UNION {tables[t] : t \in m.tables}
InLogs(m) == UNION {logs[n].written : n \in {k \in DOMAIN logs : k >= m.log}}
SyncedInLogs(m) == UNION {logs[n].synced : n \in {k \in DOMAIN logs : k >= m.log}}

(* What Get finds, and what the next start would recover.                  *)
Readable == mem \cup imm \cup InTables(versions)
Recoverable == InTables(manifest) \cup InLogs(manifest)

(* "If it is just the process that crashes (i.e., the machine does not     *)
(* reboot), no writes will be lost even if sync==false" (leveldb/options.h) *)
(* wherever the background thread is, with a memtable switched, a table    *)
(* built or logged and not installed, or after a failed compaction.        *)
NothingLost == Running => Recoverable \ {writing} = Readable

(* What is safe once a manifest is the one to be read; a blank one keeps   *)
(* the database from opening.                                              *)
Safe(m) == IF m = Blank THEN {} ELSE InTables(m) \cup SyncedInLogs(m)

(* Whenever the power fails, also in the middle of a recovery, and         *)
(* whichever manifest is found: all tables it names are there, and each    *)
(* write acknowledged after a sync is in them or on the medium in a log    *)
(* that will be recovered.  A database that cannot be opened any more has  *)
(* promised nothing.                                                       *)
SyncedSurvive ==
  \A m \in {manifest, durable} :
    /\ m.tables \subseteq DOMAIN tables
    /\ promised \subseteq Safe(m)

(* A full memtable is flushed, and room made for the writer that waits for *)
(* it, unless the background thread fails or the database is closed.       *)
RoomIsMade == imm # {} ~> imm = {} \/ bgError \/ phase = "closing"

Outside == INSTANCE Store WITH
  contents <- IF Running THEN Readable ELSE Recoverable

(* Starting, switching memtables, flushing and deleting files change no    *)
(* contents; writes are newer than all before them, also after a recovery. *)
ImplementsStore == Outside!Spec
=============================================================================
