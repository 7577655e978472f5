--------------------------- MODULE LocalStoreProofs ---------------------------
(***************************************************************************)
(* The local database for any number of writes, files and crashes: nothing *)
(* that was acknowledged is lost when the process ends, nothing that was   *)
(* synced is lost when the power fails, and what a reader finds keeps the  *)
(* promise of Store.                                                       *)
(***************************************************************************)
EXTENDS LocalStore, TLAPS, FiniteSetTheorems

-----------------------------------------------------------------------------
(* A write is in one of the tables, in a log that is not older than low,   *)
(* and on the medium in such a log.                                        *)
Tabled(ts, tab, v) == \E t \in ts : v \in tab[t]
Logged(low, log, v) == \E n \in DOMAIN log : n >= low /\ v \in log[n].written
SyncedIn(low, log, v) == \E n \in DOMAIN log : n >= low /\ v \in log[n].synced

(* A manifest from which version is recovered for any write.               *)
Recovers(m, v) == Tabled(m.tables, tables, v) \/ Logged(m.log, logs, v)

(* The manifest of a database that has never been opened.                  *)
New(m) == m.log = 0 /\ m.last = 0 /\ m.next <= 2 /\ m.tables = {}

-----------------------------------------------------------------------------
(* Of either manifest: its tables are there and have numbers it knows, its *)
(* log has one too, and no table holds a write newer than its last.        *)
Sound(m) ==
  /\ m.tables \subseteq DOMAIN tables
  /\ \A t \in m.tables : t < m.next
  /\ m # Blank => m.log < m.next
  /\ \A v \in Write : Tabled(m.tables, tables, v) => v <= m.last

(* Each promised write is in a table or a synced record; a manifest that   *)
(* cannot be read has promised nothing.                                    *)
Keeps(m) ==
  \A v \in promised :
    m # Blank /\ (Tabled(m.tables, tables, v) \/ SyncedIn(m.log, logs, v))

(* The two manifests a power failure may choose from recover the same.     *)
DiskInv ==
  /\ \A n \in DOMAIN logs : n >= manifest.log \/ n >= durable.log =>
                              logs[n].synced \subseteq logs[n].written
  /\ Sound(manifest) /\ Sound(durable)
  /\ Keeps(manifest) /\ Keeps(durable)
  /\ durable.next <= manifest.next
  /\ \A v \in Write : Recovers(durable, v) <=> Recovers(manifest, v)
  /\ durable = Blank => New(manifest)
  /\ ~created => New(manifest) /\ New(durable) /\ promised = {}

(* Without a running process there is no memory.                           *)
NoMemory ==
  /\ mem = {} /\ imm = {} /\ writing = 0
  /\ background = "idle" /\ ~bgError

ClosedInv == NoMemory /\ left = {} /\ added = {}

(* Starting: the tables added so far hold what the recovered logs held.    *)
StartInv ==
  /\ created /\ NoMemory
  /\ manifest # Blank
  /\ versions.tables = manifest.tables /\ versions.log = manifest.log
  /\ manifest.next < versions.next /\ manifest.last <= versions.last
  /\ \A t \in added : manifest.next <= t /\ t < versions.next
  /\ left \subseteq LogsToRecover
  /\ \A n \in LogsToRecover \ left : n < versions.next
  /\ \A v \in Write : Tabled(added, tables, v) <=>
                      \E n \in LogsToRecover \ left : v \in logs[n].written
  /\ \A v \in Write : Tabled(added, tables, v) => v <= versions.last

(* Its new log is the newest file.                                         *)
LogInv ==
  /\ logfile \in DOMAIN logs
  /\ \A n \in DOMAIN logs : n <= logfile
  /\ logfile < versions.next /\ versions.log <= logfile

NewLogInv == left = {} /\ logs[logfile] = EmptyLog

(* The manifest names the installed tables, or also one of the memtable    *)
(* that is being flushed, whose log it does not name any more.             *)
Current == manifest.log = versions.log /\ manifest.tables = versions.tables

TableOfImm(t) == t \in DOMAIN tables /\ t < versions.next /\ tables[t] = imm

Flushed(t) ==
  /\ TableOfImm(t)
  /\ manifest.log = logfile /\ manifest.tables = versions.tables \cup {t}

(* Running: the current log holds the memtable and the write under way,    *)
(* the others that are still needed hold the memtable being flushed.       *)
RunInv ==
  /\ created /\ manifest # Blank /\ durable # Blank /\ left = {}
  /\ manifest.next <= versions.next /\ manifest.last <= versions.last
  /\ durable.log = versions.log /\ durable.tables = versions.tables
  /\ Current \/ \E t \in File : Flushed(t)
  /\ Current \/ background = "logged" \/ bgError
  /\ bgError => background = "idle"
  /\ background \in {"scheduled", "built", "logged"} => imm # {}
  /\ background \in {"built", "logged"} => \E t \in File : added = {t} /\ TableOfImm(t)
  /\ background = "logged" => \E t \in File : added = {t} /\ Flushed(t)
  /\ background \in {"idle", "scheduled", "installed"} => added = {}
  /\ logs[logfile].written = mem \cup {v \in Write : v = writing}
  /\ logs[logfile].synced \subseteq mem
  /\ \A v \in Write : v \in imm <=> \E n \in DOMAIN logs :
                        n >= versions.log /\ n # logfile /\ v \in logs[n].written
  /\ \A v \in mem \cup imm : v <= versions.last
  /\ writing \in {0, versions.last + 1}

Steady ==
  /\ phase = "installed" => NoMemory
  /\ phase = "closing" => writing = 0

StoreInv ==
  /\ TypeOK
  /\ DiskInv
  /\ phase = "closed" => ClosedInv
  /\ phase \in {"recovering", "logCreated"} => StartInv
  /\ phase \in {"logCreated", "installed", "open", "closing"} => LogInv
  /\ phase = "logCreated" => NewLogInv
  /\ phase \in {"installed", "open", "closing"} => RunInv
  /\ Steady

-----------------------------------------------------------------------------
(* A new table changes nothing of the others.                              *)
LEMMA TabledWith ==
  ASSUME NEW ts, NEW tab, ts \subseteq DOMAIN tab, NEW t, t \notin ts, NEW c, NEW v
  PROVE  /\ Tabled(ts, With(tab, t, c), v) <=> Tabled(ts, tab, v)
         /\ Tabled(ts \cup {t}, With(tab, t, c), v) <=> Tabled(ts, tab, v) \/ v \in c
<1>1. \A n \in ts : n \in DOMAIN With(tab, t, c) /\ With(tab, t, c)[n] = tab[n]
  BY DEF With
<1>2. With(tab, t, c)[t] = c
  BY DEF With
<1> QED BY <1>1, <1>2 DEF Tabled

(* A new log has no records.                                               *)
LEMMA LoggedWith ==
  ASSUME NEW log, NEW n, n \notin DOMAIN log, NEW low, NEW v
  PROVE  /\ Logged(low, With(log, n, EmptyLog), v) <=> Logged(low, log, v)
         /\ SyncedIn(low, With(log, n, EmptyLog), v) <=> SyncedIn(low, log, v)
<1> DEFINE new == With(log, n, EmptyLog)
<1>1. DOMAIN new = DOMAIN log \cup {n}
  BY DEF With
<1>2. \A k \in DOMAIN log : new[k] = log[k]
  BY DEF With
<1>3. new[n].written = {} /\ new[n].synced = {}
  BY DEF With, EmptyLog
<1> HIDE DEF new
<1>4. Logged(low, new, v) <=> Logged(low, log, v)
  BY <1>1, <1>2, <1>3 DEF Logged
<1>5. SyncedIn(low, new, v) <=> SyncedIn(low, log, v)
  BY <1>1, <1>2, <1>3 DEF SyncedIn
<1> QED BY <1>4, <1>5 DEF new

(* Deleting files a manifest does not need changes nothing of it.          *)
LEMMA TabledRestrict ==
  ASSUME NEW ts, NEW tab, ts \subseteq DOMAIN tab, NEW v
  PROVE  Tabled(ts, Restrict(tab, DOMAIN tab \cap ts), v) <=> Tabled(ts, tab, v)
BY DEF Tabled, Restrict

(* Deleting older logs does not either.                                    *)
LEMMA LoggedRestrict ==
  ASSUME NEW log, NEW low, NEW v
  PROVE  LET kept == Restrict(log, {n \in DOMAIN log : n >= low})
         IN  /\ Logged(low, kept, v) <=> Logged(low, log, v)
             /\ SyncedIn(low, kept, v) <=> SyncedIn(low, log, v)
<1> DEFINE kept == Restrict(log, {n \in DOMAIN log : n >= low})
<1>1. DOMAIN kept = {n \in DOMAIN log : n >= low} /\ \A n \in DOMAIN kept : kept[n] = log[n]
  BY DEF Restrict
<1> HIDE DEF kept
<1>2. Logged(low, kept, v) <=> Logged(low, log, v)
  BY <1>1 DEF Logged
<1>3. SyncedIn(low, kept, v) <=> SyncedIn(low, log, v)
  BY <1>1 DEF SyncedIn
<1> QED BY <1>2, <1>3 DEF kept

(* The largest of a number and a set of writes.                            *)
LEMMA LargestExists ==
  ASSUME BoundsAssumption, NEW last \in Nat, NEW records \in SUBSET Write
  PROVE  \E x \in {last} \cup records : \A y \in {last} \cup records : x >= y
<1> DEFINE S == {last} \cup records
           top == last + MaxWrite
           Upper == {n \in 0 .. top : \A y \in S : n >= y}
<1> SUFFICES ASSUME \A x \in S : \E y \in S : ~(x >= y) PROVE FALSE
  OBVIOUS
<1>1. top \in Nat /\ top \in Upper /\ Upper \in SUBSET (0 .. top)
  BY DEF BoundsAssumption, Write
<1>2. \A n \in Upper : n - 1 \in Upper
  <2> SUFFICES ASSUME NEW n \in Upper PROVE n - 1 \in Upper
    OBVIOUS
  <2>1. \A y \in S : y \in Nat /\ n >= y /\ n # y
    BY DEF BoundsAssumption, Write
  <2>2. n \in 0 .. top /\ n >= last /\ n # last /\ \A y \in S : n - 1 >= y
    BY <2>1
  <2> QED BY <1>1, <2>2
<1> DEFINE f == [n \in Upper |-> n - 1]
<1>3. f \in [Upper -> Upper \ {top}]
  BY <1>1, <1>2
<1>4. IsFiniteSet(Upper)
  <2> HIDE DEF Upper
  <2>1. IsFiniteSet(0 .. top)
    BY <1>1, FS_Interval
  <2> QED BY <1>1, <2>1, FS_Subset
<1>5. IsFiniteSet(Upper \ {top}) /\ Cardinality(Upper \ {top}) < Cardinality(Upper)
  <2> HIDE DEF Upper
  <2>1. Cardinality(Upper) \in Nat
    BY <1>4, FS_CardinalityType
  <2>2. /\ IsFiniteSet(Upper \ {top})
        /\ Cardinality(Upper \ {top}) = IF top \in Upper THEN Cardinality(Upper) - 1
                                                      ELSE Cardinality(Upper)
    BY <1>4, FS_RemoveElement
  <2> QED BY <1>1, <2>1, <2>2
<1>6. PICK x \in Upper, y \in Upper : x # y /\ f[x] = f[y]
  <2> HIDE DEF Upper, f
  <2> QED BY <1>3, <1>4, <1>5, FS_PigeonHole
<1> QED BY <1>1, <1>6

(* max_sequence is as new as the records of the log and the manifest.      *)
LEMMA LastOfIsLargest ==
  ASSUME BoundsAssumption, NEW last \in Nat, NEW records \in SUBSET Write
  PROVE  /\ LastOf(last, records) \in Nat /\ last <= LastOf(last, records)
         /\ \A v \in records : v <= LastOf(last, records)
<1>1. PICK x \in {last} \cup records : \A y \in {last} \cup records : x >= y
  BY LargestExists
<1>2. LastOf(last, records) \in {last} \cup records
      /\ \A y \in {last} \cup records : LastOf(last, records) >= y
  BY <1>1 DEF LastOf, Max
<1>3. {last} \cup records \subseteq Nat
  BY DEF Write, BoundsAssumption
<1> QED BY <1>2, <1>3

-----------------------------------------------------------------------------
(* What a manifest recovers depends on the files alone.                    *)
LEMMA DiskSame ==
  ASSUME DiskInv, UNCHANGED <<disk, promised>>
  PROVE  DiskInv'
BY DEF DiskInv, Sound, Keeps, New, Recovers, disk

(* A table under a number no manifest has is not yet part of the database. *)
LEMMA DiskNewTable ==
  ASSUME TypeOK, DiskInv, NEW t \in Nat, manifest.next <= t, NEW c,
         tables' = With(tables, t, c), UNCHANGED <<created, logs, manifest, durable, promised>>
  PROVE  DiskInv'
<1>1. ASSUME NEW m \in {manifest, durable}
      PROVE  /\ m.tables \subseteq DOMAIN tables /\ t \notin m.tables
             /\ \A v : Tabled(m.tables, tables', v) <=> Tabled(m.tables, tables, v)
  <2>1. Sound(m) /\ m \in Version
    BY DEF DiskInv, TypeOK
  <2>2. m.next \in Nat /\ m.next <= t /\ m.tables \subseteq Nat
    BY <2>1 DEF DiskInv, TypeOK, Version, File
  <2>3. t \notin m.tables
    BY <2>1, <2>2 DEF Sound
  <2> QED BY <2>1, <2>3, TabledWith DEF Sound
<1>2. DOMAIN tables \subseteq DOMAIN tables'
  BY DEF With
<1> QED BY <1>1, <1>2 DEF DiskInv, Sound, Keeps, New, Recovers

(* An empty log adds nothing to what is recovered.                         *)
LEMMA DiskNewLog ==
  ASSUME DiskInv, NEW n, n \notin DOMAIN logs, logs' = With(logs, n, EmptyLog),
         UNCHANGED <<created, tables, manifest, durable, promised>>
  PROVE  DiskInv'
<1>1. \A low, v : /\ Logged(low, logs', v) <=> Logged(low, logs, v)
                  /\ SyncedIn(low, logs', v) <=> SyncedIn(low, logs, v)
  BY LoggedWith
<1>2. \A k \in DOMAIN logs' : k >= manifest.log \/ k >= durable.log =>
                                 logs'[k].synced \subseteq logs'[k].written
  BY DEF With, EmptyLog, DiskInv
<1> QED BY <1>1, <1>2 DEF DiskInv, Sound, Keeps, New, Recovers

(* Files that the manifest of the running version does not need.           *)
LEMMA DiskDelete ==
  ASSUME DiskInv, DeleteObsoleteFiles, Current,
         durable.log = versions.log, durable.tables = versions.tables,
         UNCHANGED <<created, manifest, durable, promised>>
  PROVE  DiskInv'
<1> DEFINE ts == versions.tables
           low == versions.log
<1>1. manifest.tables = ts /\ durable.tables = ts /\ manifest.log = low /\ durable.log = low
  BY DEF Current
<1>2. ts \subseteq DOMAIN tables
  BY <1>1 DEF DiskInv, Sound
<1>3. \A v : Tabled(ts, tables', v) <=> Tabled(ts, tables, v)
  BY <1>2, TabledRestrict DEF DeleteObsoleteFiles
<1>4. \A v : /\ Logged(low, logs', v) <=> Logged(low, logs, v)
             /\ SyncedIn(low, logs', v) <=> SyncedIn(low, logs, v)
  BY LoggedRestrict DEF DeleteObsoleteFiles
<1>5. /\ ts \subseteq DOMAIN tables'
      /\ \A k \in DOMAIN logs' : k >= low => logs'[k].synced \subseteq logs'[k].written
  BY <1>2 DEF DeleteObsoleteFiles, Restrict, DiskInv
<1> HIDE DEF ts, low
<1> QED BY <1>1, <1>3, <1>4, <1>5 DEF DiskInv, Sound, Keeps, New, Recovers

-----------------------------------------------------------------------------
(* Numbers and files have the types the arithmetic below needs.            *)
LEMMA Types ==
  ASSUME BoundsAssumption, TypeOK
  PROVE  /\ MaxWrite \in Nat /\ MaxFile \in Nat /\ Write \subseteq Nat /\ File \subseteq Nat
         /\ DOMAIN logs \subseteq Nat /\ DOMAIN tables \subseteq Nat
         /\ versions.next \in Nat /\ versions.last \in Nat /\ versions.log \in Nat
         /\ manifest.next \in Nat /\ manifest.last \in Nat /\ manifest.log \in Nat
         /\ durable.next \in Nat /\ durable.last \in Nat /\ durable.log \in Nat
         /\ logfile \in Nat /\ writing \in Nat
BY DEF BoundsAssumption, TypeOK, Version, File, Write

(* A file number that is still to be given out.                            *)
LEMMA NewFile ==
  ASSUME BoundsAssumption, TypeOK, versions.next <= MaxFile
  PROVE  versions.next \in File /\ [versions EXCEPT !.next = @ + 1] \in Version
BY DEF BoundsAssumption, TypeOK, Version, File

(* The first manifest.                                                     *)
LEMMA NewDBStep ==
  ASSUME BoundsAssumption, StoreInv, NewDB
  PROVE  StoreInv'
<1>1. /\ phase = "closed" /\ phase' = "closed" /\ ~created /\ created'
      /\ manifest' = [Blank EXCEPT !.next = 2]
      /\ UNCHANGED <<logs, tables, durable, memory, background, bgError, history>>
  BY DEF NewDB
<1>2. manifest'.log = 0 /\ manifest'.next = 2 /\ manifest'.last = 0 /\ manifest'.tables = {}
  BY <1>1 DEF Blank
<1>3. /\ New(manifest) /\ New(durable) /\ promised = {} /\ durable.next <= manifest.next
  BY <1>1 DEF StoreInv, DiskInv
<1>4. TypeOK'
  BY <1>1 DEF StoreInv, TypeOK, Version, File, Blank, memory, history, BoundsAssumption
<1>5. New(durable) /\ New(manifest)'
  BY <1>2, <1>3 DEF New
<1>6. DiskInv'
  <2>1. \A tab, v : ~Tabled({}, tab, v)
    BY DEF Tabled
  <2>2. \A v : Recovers(durable, v)' <=> Recovers(manifest, v)'
    BY <1>1, <1>2, <1>5 DEF New, Recovers
  <2>3. DiskInv
    BY DEF StoreInv
  <2> QED BY <1>1, <1>2, <1>3, <1>5, <2>1, <2>2, <2>3 DEF DiskInv, Sound, Keeps, New, history
<1>7. ClosedInv'
  BY <1>1 DEF StoreInv, ClosedInv, NoMemory, memory
<1> QED BY <1>1, <1>4, <1>6, <1>7 DEF StoreInv, Steady

(* A start reads the manifest and finds the logs it needs.                 *)
LEMMA RecoverStep ==
  ASSUME BoundsAssumption, StoreInv, Recover
  PROVE  StoreInv'
<1> USE DEF StoreInv
<1>1. /\ ClosedInv /\ DiskInv /\ TypeOK /\ created /\ manifest # Blank
      /\ phase' = "recovering" /\ left' = LogsToRecover
      /\ versions' = [manifest EXCEPT !.next = @ + 1]
      /\ UNCHANGED <<disk, logfile, mem, imm, added, writing, background, bgError, history>>
  BY DEF Recover, Blank
<1>2. TypeOK'
  BY <1>1 DEF TypeOK, Version, File, Phase, disk, history, LogsToRecover
<1>3. DiskInv'
  BY <1>1, DiskSame DEF history
<1>4. StartInv'
  <2>1. added' = {} /\ NoMemory' /\ LogsToRecover' = left'
    BY <1>1 DEF ClosedInv, NoMemory, LogsToRecover, disk
  <2>2. /\ versions'.tables = manifest'.tables /\ versions'.log = manifest'.log
        /\ manifest'.next < versions'.next /\ manifest'.last <= versions'.last
    BY <1>1, Types DEF disk, TypeOK, Version
  <2>3. created' /\ manifest' # Blank'
    BY <1>1 DEF disk, Blank
  <2> QED BY <2>1, <2>2, <2>3 DEF StartInv, Tabled
<1> QED BY <1>1, <1>2, <1>3, <1>4 DEF Steady

(* The table of a recovered log is as good as the log.                     *)
LEMMA RecoverLogFileStep ==
  ASSUME BoundsAssumption, StoreInv, NEW n \in left, RecoverLogFile(n)
  PROVE  StoreInv'
<1> DEFINE t == versions.next
           records == logs[n].written
<1>1. /\ StartInv /\ DiskInv /\ TypeOK
      /\ phase = "recovering" /\ phase' = "recovering" /\ left' = left \ {n} /\ t <= MaxFile
      /\ UNCHANGED <<created, logs, manifest, durable, logfile, mem, imm, writing,
                     background, bgError, history>>
  BY DEF StoreInv, RecoverLogFile
<1>2. /\ n \in Nat /\ n \in DOMAIN logs /\ records \in SUBSET Write /\ t \in File /\ t \in Nat
      /\ Beyond(t, n) \in Nat /\ t <= Beyond(t, n) /\ n < Beyond(t, n)
      /\ Beyond(t + 1, n) \in Nat /\ t < Beyond(t + 1, n) /\ n < Beyond(t + 1, n)
  BY <1>1, Types DEF TypeOK, Log, File, Beyond, Larger
<1>3. LogsToRecover' = LogsToRecover /\ n \in LogsToRecover
      /\ LogsToRecover' \ left' = (LogsToRecover \ left) \cup {n}
  BY <1>1 DEF LogsToRecover, StartInv
<1>4. \A v \in Write : (\E k \in LogsToRecover' \ left' : v \in logs'[k].written) <=>
                      Tabled(added, tables, v) \/ v \in records
  <2> HIDE DEF LogsToRecover
  <2> QED BY <1>1, <1>3 DEF StartInv
<1>5. NoMemory' /\ left' \subseteq LogsToRecover'
  BY <1>1, <1>3 DEF StartInv, NoMemory
<1>6. CASE records = {}
  <2>1. versions' = [versions EXCEPT !.next = Beyond(t, n)] /\ UNCHANGED <<tables, added>>
    BY <1>6 DEF RecoverLogFile
  <2>2. TypeOK'
    BY <1>1, <1>2, <2>1 DEF TypeOK, Version, history
  <2>3. DiskInv'
    BY <1>1, <2>1, DiskSame DEF disk, history
  <2>4. versions'.next = Beyond(t, n) /\ versions'.tables = versions.tables
        /\ versions'.log = versions.log /\ versions'.last = versions.last
    BY <1>1, <2>1 DEF TypeOK, Version
  <2>5. StartInv'
    <3>1. \A k \in LogsToRecover' \ left' : k < versions'.next
      BY <1>1, <1>2, <1>3, <2>4, Types DEF StartInv, LogsToRecover
    <3>2. \A k \in added' : manifest'.next <= k /\ k < versions'.next
      BY <1>1, <1>2, <2>1, <2>4, Types DEF StartInv, TypeOK
    <3>3. \A v \in Write : Tabled(added, tables, v)' <=> Tabled(added, tables, v)
      BY <2>1 DEF Tabled
    <3>4. manifest'.next < versions'.next
      BY <1>1, <1>2, <2>4, Types DEF StartInv
    <3> QED BY <1>1, <1>4, <1>5, <1>6, <2>4, <3>1, <3>2, <3>3, <3>4 DEF StartInv, Blank
  <2> QED BY <1>1, <2>2, <2>3, <2>5 DEF StoreInv, Steady
<1>7. CASE records # {}
  <2> DEFINE last == LastOf(versions.last, records)
  <2>1. /\ tables' = With(tables, t, records)
        /\ added' = added \cup {t}
        /\ versions' = [versions EXCEPT !.next = Beyond(t + 1, n), !.last = last]
    BY <1>7 DEF RecoverLogFile
  <2>2. last \in Nat /\ versions.last <= last /\ \A v \in records : v <= last
    BY <1>1, <1>2, Types, LastOfIsLargest
  <2> HIDE DEF last
  <2>3. versions'.next = Beyond(t + 1, n) /\ versions'.tables = versions.tables
        /\ versions'.log = versions.log /\ versions'.last = last /\ versions' \in Version
    BY <1>1, <1>2, <2>1, <2>2 DEF TypeOK, Version
  <2>4. TypeOK'
    <3>1. DOMAIN tables' = DOMAIN tables \cup {t} /\ added' \subseteq DOMAIN tables'
          /\ \A k \in DOMAIN tables' : tables'[k] \in SUBSET Write
      BY <1>1, <1>2, <2>1 DEF With, TypeOK
    <3> QED BY <1>1, <1>2, <2>3, <3>1 DEF TypeOK, history
  <2>5. DiskInv'
    <3>1. manifest.next <= t
      BY <1>1, <1>2, Types DEF StartInv
    <3> QED BY <1>1, <1>2, <2>1, <3>1, DiskNewTable DEF history
  <2>6. StartInv'
    <3>1. \A k \in LogsToRecover' \ left' : k < versions'.next
      BY <1>1, <1>2, <1>3, <2>3, Types DEF StartInv, LogsToRecover
    <3>2. \A k \in added' : manifest'.next <= k /\ k < versions'.next
      BY <1>1, <1>2, <2>1, <2>3, Types DEF StartInv, TypeOK
    <3>3. added \subseteq DOMAIN tables /\ t \notin added
      BY <1>1, <1>2 DEF TypeOK, StartInv
    <3>4. \A v \in Write : Tabled(added, tables, v)' <=>
                          Tabled(added, tables, v) \/ v \in records
      BY <2>1, <3>3, TabledWith
    <3>5. \A v \in Write : Tabled(added, tables, v)' => v <= versions'.last
      BY <1>1, <2>2, <2>3, <3>4, Types DEF StartInv
    <3>6. manifest'.next < versions'.next /\ manifest'.last <= versions'.last
      BY <1>1, <1>2, <2>2, <2>3, Types DEF StartInv
    <3> QED BY <1>1, <1>4, <1>5, <2>3, <3>1, <3>2, <3>4, <3>5, <3>6 DEF StartInv, Blank
  <2> QED BY <1>1, <2>4, <2>5, <2>6 DEF StoreInv, Steady
<1> QED BY <1>6, <1>7

(* The new log has a number no file of the disk has.                       *)
LEMMA CreateLogStep ==
  ASSUME BoundsAssumption, StoreInv, CreateLog
  PROVE  StoreInv'
<1> DEFINE n == versions.next
<1>1. /\ StartInv /\ DiskInv /\ TypeOK /\ left = {} /\ n <= MaxFile
      /\ phase' = "logCreated" /\ logfile' = n /\ logs' = With(logs, n, EmptyLog)
      /\ versions' = [versions EXCEPT !.next = @ + 1]
      /\ UNCHANGED <<created, tables, manifest, durable, mem, imm, left, added, writing,
                     background, bgError, history>>
  BY DEF StoreInv, CreateLog
<1>2. n \in File /\ n \in Nat /\ versions' \in Version /\ versions'.next = n + 1
      /\ versions'.tables = versions.tables /\ versions'.log = versions.log
      /\ versions'.last = versions.last
  BY <1>1, NewFile, Types DEF TypeOK, Version
<1>3. manifest.log < manifest.next /\ manifest.next < n /\ manifest.log < n
  BY <1>1, <1>2, Types DEF StartInv, DiskInv, Sound
<1>4. \A k \in DOMAIN logs : k < n
  BY <1>1, <1>2, <1>3, Types DEF StartInv, LogsToRecover
<1> HIDE DEF n
<1>5. DOMAIN logs' = DOMAIN logs \cup {n} /\ logs'[n] = EmptyLog
      /\ \A k \in DOMAIN logs : logs'[k] = logs[k]
  BY <1>1, <1>2, <1>4, Types DEF With
<1>6. TypeOK'
  <2>1. EmptyLog \in Log
    BY DEF EmptyLog, Log
  <2> QED BY <1>1, <1>2, <1>5, <2>1 DEF TypeOK, Phase, history
<1>7. DiskInv'
  BY <1>1, <1>2, <1>4, DiskNewLog DEF history
<1>8. StartInv'
  <2>1. LogsToRecover' = LogsToRecover \cup {n}
    BY <1>1, <1>2, <1>3, <1>5, Types DEF LogsToRecover
  <2>2. \A v \in Write : (\E k \in LogsToRecover' \ left' : v \in logs'[k].written) <=>
                        \E k \in LogsToRecover \ left : v \in logs[k].written
    BY <1>1, <1>5, <2>1 DEF EmptyLog, LogsToRecover
  <2>3. \A k \in LogsToRecover' \ left' : k < versions'.next
    BY <1>1, <1>2, <1>4, <2>1, Types DEF LogsToRecover
  <2>4. \A t \in added' : manifest'.next <= t /\ t < versions'.next
    BY <1>1, <1>2, Types DEF StartInv, TypeOK, n
  <2>5. \A v \in Write : Tabled(added, tables, v)' <=> Tabled(added, tables, v)
    BY <1>1 DEF Tabled
  <2>6. NoMemory' /\ manifest' # Blank' /\ created' /\ left' \subseteq LogsToRecover'
    BY <1>1 DEF StartInv, NoMemory, Blank
  <2>7. manifest'.next < versions'.next /\ manifest'.last <= versions'.last
    BY <1>1, <1>2, <1>3, Types DEF StartInv
  <2> HIDE DEF LogsToRecover
  <2> QED BY <1>1, <1>2, <2>2, <2>3, <2>4, <2>5, <2>6, <2>7 DEF StartInv
<1>9. LogInv' /\ NewLogInv'
  BY <1>1, <1>2, <1>3, <1>4, <1>5, Types DEF LogInv, NewLogInv, StartInv, EmptyLog
<1> QED BY <1>1, <1>6, <1>7, <1>8, <1>9 DEF StoreInv, Steady

(* The manifest that names the tables of the recovered logs needs the logs *)
(* no more.                                                                *)
LEMMA SaveManifestStep ==
  ASSUME BoundsAssumption, StoreInv, SaveManifest
  PROVE  StoreInv'
<1>1. /\ StartInv /\ LogInv /\ NewLogInv /\ DiskInv /\ TypeOK
      /\ phase' = "installed" /\ manifest' = Edited /\ durable' = Edited
      /\ versions' = Edited /\ added' = {}
      /\ UNCHANGED <<created, logs, tables, logfile, mem, imm, left, writing,
                     background, bgError, history>>
  BY DEF StoreInv, SaveManifest, SetCurrent
<1>2. /\ Edited.log = logfile /\ Edited.next = versions.next /\ Edited.last = versions.last
      /\ Edited.tables = manifest.tables \cup added /\ Edited \in Version
  <2>1. added \subseteq File
    BY <1>1 DEF TypeOK
  <2> QED BY <1>1, <2>1 DEF Edited, TypeOK, Version, StartInv
<1>3. Edited # Blank /\ created
  BY <1>1, <1>2, Types DEF StartInv, Blank
<1>4. \A v : Tabled(Edited.tables, tables, v) <=>
             Tabled(manifest.tables, tables, v) \/ Tabled(added, tables, v)
  BY <1>2 DEF Tabled
<1>5. \A v \in Write : Tabled(added, tables, v) <=> Logged(manifest.log, logs, v)
  BY <1>1 DEF StartInv, NewLogInv, LogsToRecover, Logged
<1>6. \A v \in Write : SyncedIn(manifest.log, logs, v) => Logged(manifest.log, logs, v)
  BY <1>1 DEF DiskInv, SyncedIn, Logged
<1>7. TypeOK'
  BY <1>1, <1>2 DEF TypeOK, Phase, history
<1>8. DiskInv'
  <2>1. Sound(manifest)'
    <3>1. manifest'.tables \subseteq DOMAIN tables'
      BY <1>1, <1>2 DEF DiskInv, Sound, TypeOK
    <3>2. \A t \in manifest'.tables : t < manifest'.next
      BY <1>1, <1>2, Types DEF DiskInv, Sound, TypeOK, StartInv
    <3>3. manifest'.log < manifest'.next
      BY <1>1, <1>2 DEF LogInv
    <3>4. \A v \in Write : Tabled(manifest'.tables, tables', v) => v <= manifest'.last
      BY <1>1, <1>2, <1>4, Types DEF DiskInv, Sound, StartInv
    <3> QED BY <3>1, <3>2, <3>3, <3>4 DEF Sound
  <2>2. Keeps(manifest)'
    BY <1>1, <1>3, <1>4, <1>5, <1>6 DEF DiskInv, Keeps, TypeOK, history, Blank
  <2>3. \A k \in DOMAIN logs' : k >= manifest'.log => logs'[k].synced \subseteq logs'[k].written
    BY <1>1, <1>2, Types DEF LogInv, NewLogInv, EmptyLog
  <2>4. durable' = manifest' /\ manifest' # Blank' /\ created' /\ durable'.next <= manifest'.next
    BY <1>1, <1>2, <1>3, Types DEF Blank
  <2> QED BY <2>1, <2>2, <2>3, <2>4 DEF DiskInv, Recovers, Sound, Keeps
<1>9. RunInv'
  <2>1. Current'
    BY <1>1 DEF Current
  <2>2. /\ manifest' # Blank' /\ durable' # Blank' /\ created' /\ left' = {}
        /\ manifest'.next <= versions'.next /\ manifest'.last <= versions'.last
        /\ durable'.log = versions'.log /\ durable'.tables = versions'.tables
    BY <1>1, <1>2, <1>3, Types DEF NewLogInv, Blank
  <2>3. /\ mem' = {} /\ imm' = {} /\ writing' = 0 /\ background' = "idle" /\ ~bgError' /\ added' = {}
    BY <1>1 DEF StartInv, NoMemory
  <2>4. /\ logs'[logfile'].written = {} /\ logs'[logfile'].synced = {}
        /\ {v \in Write : v = 0} = {}
    BY <1>1 DEF NewLogInv, EmptyLog, Write
  <2>5. \A k \in DOMAIN logs' : k >= versions'.log => k = logfile'
    BY <1>1, <1>2, Types DEF LogInv
  <2> QED BY <2>1, <2>2, <2>3, <2>4, <2>5 DEF RunInv
<1>10. LogInv' /\ NoMemory'
  BY <1>1, <1>2, Types DEF LogInv, StartInv, NoMemory
<1> QED BY <1>1, <1>7, <1>8, <1>9, <1>10 DEF StoreInv, Steady

(* Deleting the files the installed version does not need.                 *)
LEMMA DeleteStep ==
  ASSUME BoundsAssumption, TypeOK, DiskInv, LogInv, RunInv, ~bgError,
         background \in {"idle", "installed"}, background' = "idle", phase' \in Phase,
         DeleteObsoleteFiles, UNCHANGED <<created, manifest, durable, memory, bgError, history>>
  PROVE  TypeOK' /\ DiskInv' /\ LogInv' /\ RunInv'
<1>1. /\ left = {} /\ added = {} /\ Current /\ durable.log = versions.log
      /\ durable.tables = versions.tables
  BY DEF RunInv
<1>2. DOMAIN logs' = {n \in DOMAIN logs : n >= versions.log}
      /\ \A n \in DOMAIN logs' : logs'[n] = logs[n]
  BY DEF DeleteObsoleteFiles, Restrict
<1>3. DOMAIN tables' \subseteq DOMAIN tables /\ \A n \in DOMAIN tables' : tables'[n] = tables[n]
  BY DEF DeleteObsoleteFiles, Restrict
<1>4. DiskInv'
  BY <1>1, DiskDelete DEF history
<1>5. TypeOK'
  BY <1>1, <1>2, <1>3 DEF TypeOK, memory, history, Background
<1>6. LogInv'
  BY <1>2, Types DEF LogInv, memory
<1>7. RunInv'
  <2>1. Current'
    BY <1>1 DEF Current, memory
  <2>2. logs'[logfile'] = logs[logfile]
    BY <1>2, <1>6 DEF LogInv, memory
  <2>3. \A v \in Write :
          (\E n \in DOMAIN logs' : n >= versions'.log /\ n # logfile' /\ v \in logs'[n].written)
          <=> (\E n \in DOMAIN logs : n >= versions.log /\ n # logfile /\ v \in logs[n].written)
    BY <1>2 DEF memory
  <2> QED BY <1>1, <2>1, <2>2, <2>3 DEF RunInv, memory, Blank
<1> QED BY <1>4, <1>5, <1>6, <1>7

(* The database is open.                                                   *)
LEMMA FinishOpenStep ==
  ASSUME BoundsAssumption, StoreInv, FinishOpen
  PROVE  StoreInv'
<1>1. /\ TypeOK /\ DiskInv /\ LogInv /\ RunInv /\ NoMemory /\ phase' = "open" /\ phase' \in Phase
      /\ DeleteObsoleteFiles
      /\ UNCHANGED <<created, manifest, durable, memory, background, bgError, history>>
  BY DEF StoreInv, FinishOpen, Steady, Phase
<1>2. background \in {"idle", "installed"} /\ ~bgError /\ background' = "idle"
  BY <1>1 DEF NoMemory
<1>3. TypeOK' /\ DiskInv' /\ LogInv' /\ RunInv'
  BY <1>1, <1>2, DeleteStep
<1> QED BY <1>1, <1>3 DEF StoreInv, Steady

(* The background thread deletes what its table made obsolete.             *)
LEMMA FinishCompactionStep ==
  ASSUME BoundsAssumption, StoreInv, FinishCompaction
  PROVE  StoreInv'
<1>1. /\ TypeOK /\ DiskInv /\ phase \in {"open", "closing"} /\ LogInv /\ RunInv
      /\ background = "installed" /\ background' = "idle" /\ DeleteObsoleteFiles
      /\ UNCHANGED <<created, manifest, durable, phase, memory, bgError, history>>
  <2>1. background = "installed" /\ TypeOK
    BY DEF FinishCompaction, StoreInv
  <2>2. phase \in {"open", "closing"}
    BY <2>1 DEF StoreInv, TypeOK, Phase, ClosedInv, StartInv, Steady, NoMemory
  <2> QED BY <2>1, <2>2 DEF FinishCompaction, StoreInv
<1>2. ~bgError /\ phase' \in Phase
  BY <1>1 DEF RunInv, Phase
<1>3. TypeOK' /\ DiskInv' /\ LogInv' /\ RunInv'
  BY <1>1, <1>2, DeleteStep
<1> QED BY <1>1, <1>3 DEF StoreInv, Steady, memory

-----------------------------------------------------------------------------
(* The memtable that is full is that of all but the new log.               *)
LEMMA SwitchMemTableStep ==
  ASSUME BoundsAssumption, StoreInv, SwitchMemTable
  PROVE  StoreInv'
<1> DEFINE n == versions.next
<1>1. /\ TypeOK /\ DiskInv /\ LogInv /\ RunInv /\ phase = "open" /\ phase' = "open"
      /\ writing = 0 /\ ~bgError /\ imm = {} /\ mem # {} /\ n <= MaxFile
      /\ logs' = With(logs, n, EmptyLog) /\ logfile' = n
      /\ versions' = [versions EXCEPT !.next = @ + 1]
      /\ imm' = mem /\ mem' = {}
      /\ background' = IF background = "idle" THEN "scheduled" ELSE background
      /\ background # "installed"
      /\ UNCHANGED <<created, tables, manifest, durable, left, added, writing, bgError, history>>
  <2>1. n < MaxFile /\ TypeOK
    BY DEF StoreInv, SwitchMemTable
  <2>2. n <= MaxFile
    BY <2>1, Types
  <2> QED BY <2>2 DEF StoreInv, SwitchMemTable, MayWrite, RoomForOld, MaybeScheduleCompaction
<1>2. background = "idle" /\ Current /\ background' = "scheduled" /\ added = {}
  BY <1>1 DEF RunInv, TypeOK, Background
<1>3. /\ n \in File /\ n \in Nat /\ versions' \in Version /\ versions'.next = n + 1
      /\ versions'.tables = versions.tables /\ versions'.log = versions.log
      /\ versions'.last = versions.last
  BY <1>1, NewFile, Types DEF TypeOK, Version
<1> HIDE DEF n
<1>4. \A k \in DOMAIN logs : k < n
  BY <1>1, <1>3, Types DEF LogInv, n
<1>5. /\ DOMAIN logs' = DOMAIN logs \cup {n} /\ logs'[n] = EmptyLog /\ n \notin DOMAIN logs
      /\ \A k \in DOMAIN logs : logs'[k] = logs[k]
  BY <1>1, <1>3, <1>4, Types DEF With
<1>6. TypeOK'
  <2>1. EmptyLog \in Log
    BY DEF EmptyLog, Log
  <2> QED BY <1>1, <1>2, <1>3, <1>5, <2>1 DEF TypeOK, Background, history
<1>7. DiskInv'
  BY <1>1, <1>5, DiskNewLog DEF history
<1>8. LogInv'
  BY <1>1, <1>3, <1>4, <1>5, Types DEF LogInv, n
<1>9. RunInv'
  <2>1. Current'
    BY <1>1, <1>2, <1>3 DEF Current
  <2>2. /\ manifest'.next <= versions'.next /\ manifest'.last <= versions'.last
        /\ durable'.log = versions'.log /\ durable'.tables = versions'.tables
    BY <1>1, <1>3, Types DEF RunInv, n
  <2>3. /\ logs'[logfile'].written = {} /\ logs'[logfile'].synced = {}
        /\ {v \in Write : v = writing'} = {}
    BY <1>1, <1>5 DEF EmptyLog, Write
  <2>4. \A v \in Write : v \in imm' <=> \E k \in DOMAIN logs' :
                        k >= versions'.log /\ k # logfile' /\ v \in logs'[k].written
    <3>1. TAKE v \in Write
    <3>2. logfile \in DOMAIN logs /\ logfile >= versions.log /\ 0 \notin Write
      BY <1>1, Types DEF LogInv, Write
    <3>3. logs[logfile].written = mem /\ mem \subseteq Write
      BY <1>1, <3>2 DEF RunInv, TypeOK
    <3>4. \A k \in DOMAIN logs : k >= versions.log /\ k # logfile => v \notin logs[k].written
      BY <1>1, <3>1 DEF RunInv
    <3> QED BY <1>1, <1>3, <1>5, <3>2, <3>3, <3>4
  <2>5. \A v \in mem' \cup imm' : v <= versions'.last
    BY <1>1, <1>3 DEF RunInv
  <2>6. imm' # {} /\ writing' \in {0, versions'.last + 1}
    BY <1>1
  <2> QED BY <1>1, <1>2, <2>1, <2>2, <2>3, <2>4, <2>5, <2>6 DEF RunInv, Blank
<1> QED BY <1>1, <1>6, <1>7, <1>8, <1>9 DEF StoreInv, Steady

(* Both manifests need the log the record is added to.                     *)
LEMMA CurrentLogNeeded ==
  ASSUME BoundsAssumption, TypeOK, LogInv, RunInv
  PROVE  manifest.log <= logfile /\ durable.log <= logfile /\ logfile \in DOMAIN logs
BY Types DEF LogInv, RunInv, Current, Flushed

(* The record of the write under way.                                      *)
LEMMA AddRecordStep ==
  ASSUME BoundsAssumption, StoreInv, AddRecord
  PROVE  StoreInv'
<1> DEFINE w == versions.last + 1
<1>1. /\ TypeOK /\ DiskInv /\ LogInv /\ RunInv /\ phase = "open" /\ phase' = "open"
      /\ writing = 0 /\ writing' = w /\ versions.last < MaxWrite
      /\ logs' = [logs EXCEPT ![logfile].written = @ \cup {w}]
      /\ UNCHANGED <<created, tables, manifest, durable, versions, logfile, mem, imm,
                     left, added, background, bgError, history>>
  BY DEF StoreInv, AddRecord, MayWrite
<1>2. w \in Write /\ w \in Nat /\ 0 \notin Write
  BY <1>1, Types DEF Write
<1>3. logfile \in DOMAIN logs /\ logs[logfile] \in Log
  BY <1>1 DEF LogInv, TypeOK
<1> HIDE DEF w
<1>4. /\ DOMAIN logs' = DOMAIN logs
      /\ \A k \in DOMAIN logs : k # logfile => logs'[k] = logs[k]
      /\ logs'[logfile] = [logs[logfile] EXCEPT !.written = @ \cup {w}]
  BY <1>1, <1>3
<1>5. /\ logs'[logfile] \in Log
      /\ logs'[logfile].written = logs[logfile].written \cup {w}
      /\ logs'[logfile].synced = logs[logfile].synced
  BY <1>2, <1>3, <1>4 DEF Log
<1>6. TypeOK'
  BY <1>1, <1>2, <1>4, <1>5 DEF TypeOK, Write, history
<1>7. DiskInv'
  <2>1. manifest.log <= logfile /\ durable.log <= logfile
    BY <1>1, CurrentLogNeeded
  <2>2. \A low, v : SyncedIn(low, logs', v) <=> SyncedIn(low, logs, v)
    BY <1>4, <1>5 DEF SyncedIn
  <2>3. \A low \in Nat : \A v : low <= logfile =>
          (Logged(low, logs', v) <=> Logged(low, logs, v) \/ v = w)
    <3> SUFFICES ASSUME NEW low \in Nat, NEW v, low <= logfile
                 PROVE  Logged(low, logs', v) <=> Logged(low, logs, v) \/ v = w
      OBVIOUS
    <3>1. logfile >= low
      BY <1>1, Types
    <3> QED BY <1>3, <1>4, <1>5, <3>1 DEF Logged
  <2>4. \A v : /\ Logged(manifest.log, logs', v) <=> Logged(manifest.log, logs, v) \/ v = w
               /\ Logged(durable.log, logs', v) <=> Logged(durable.log, logs, v) \/ v = w
    BY <1>1, <2>1, <2>3, Types
  <2>5. \A v \in Write : Recovers(durable, v)' <=> Recovers(manifest, v)'
    BY <1>1, <2>4 DEF DiskInv, Recovers
  <2>6. \A k \in DOMAIN logs' : k >= manifest.log \/ k >= durable.log =>
                               logs'[k].synced \subseteq logs'[k].written
    BY <1>1, <1>4, <1>5 DEF DiskInv
  <2> QED BY <1>1, <2>2, <2>5, <2>6 DEF DiskInv, Sound, Keeps, New, history
<1>8. LogInv'
  BY <1>1, <1>4 DEF LogInv
<1>9. RunInv'
  <2>1. logs'[logfile'].written = mem' \cup {v \in Write : v = writing'}
    <3>1. logs[logfile].written = mem
      BY <1>1, <1>2 DEF RunInv
    <3> QED BY <1>1, <1>2, <1>5, <3>1
  <2>2. (\E t \in File : Flushed(t))' <=> \E t \in File : Flushed(t)
    BY <1>1 DEF Flushed, TableOfImm, File
  <2>3. (\E t \in File : added = {t} /\ TableOfImm(t))' <=> \E t \in File : added = {t} /\ TableOfImm(t)
    BY <1>1 DEF TableOfImm, File
  <2>4. (\E t \in File : added = {t} /\ Flushed(t))' <=> \E t \in File : added = {t} /\ Flushed(t)
    BY <1>1 DEF Flushed, TableOfImm, File
  <2>5. \A v \in Write :
          (\E n \in DOMAIN logs' : n >= versions'.log /\ n # logfile' /\ v \in logs'[n].written)
          <=> (\E n \in DOMAIN logs : n >= versions.log /\ n # logfile /\ v \in logs[n].written)
    BY <1>1, <1>4
  <2>6. Current' <=> Current
    BY <1>1 DEF Current
  <2>7. /\ logs'[logfile'].synced \subseteq mem'
        /\ writing' \in {0, versions'.last + 1}
    BY <1>1, <1>5 DEF RunInv, w
  <2> QED BY <1>1, <2>1, <2>2, <2>3, <2>4, <2>5, <2>6, <2>7 DEF RunInv, Blank
<1> QED BY <1>1, <1>6, <1>7, <1>8, <1>9 DEF StoreInv, Steady

(* A synced write is on the medium in a log both manifests need.           *)
LEMMA FinishWriteStep ==
  ASSUME BoundsAssumption, StoreInv, NEW sync \in BOOLEAN, FinishWrite(sync)
  PROVE  StoreInv'
<1>1. writing # 0 /\ TypeOK
  BY DEF FinishWrite, StoreInv
<1>2. phase = "open"
  BY <1>1 DEF StoreInv, TypeOK, Phase, ClosedInv, StartInv, Steady, NoMemory
<1>3. /\ DiskInv /\ LogInv /\ RunInv /\ phase' = "open"
      /\ logs' = [logs EXCEPT ![logfile] = Synced(@, sync)]
      /\ mem' = mem \cup {writing} /\ writing' = 0
      /\ versions' = [versions EXCEPT !.last = writing]
      /\ promised' = IF sync THEN promised \cup {writing} ELSE promised
      /\ UNCHANGED <<created, tables, manifest, durable, logfile, imm, left, added,
                     background, bgError, crashes>>
  BY <1>2 DEF StoreInv, FinishWrite
<1>4. /\ writing \in Write /\ writing \in Nat /\ writing = versions.last + 1 /\ 0 \notin Write
  BY <1>1, <1>3, Types DEF TypeOK, Write, RunInv
<1>5. logfile \in DOMAIN logs /\ logs[logfile] \in Log
  BY <1>1, <1>3 DEF LogInv, TypeOK
<1>6. /\ DOMAIN logs' = DOMAIN logs
      /\ \A k \in DOMAIN logs : k # logfile => logs'[k] = logs[k]
      /\ logs'[logfile] = Synced(logs[logfile], sync)
  BY <1>3, <1>5
<1>7. logs[logfile].written = mem \cup {writing} /\ logs[logfile].synced \subseteq mem
  BY <1>3, <1>4 DEF RunInv
<1>8. /\ logs'[logfile] \in Log
      /\ logs'[logfile].written = logs[logfile].written
      /\ logs[logfile].synced \subseteq logs'[logfile].synced
      /\ logs'[logfile].synced \subseteq logs'[logfile].written
      /\ sync => writing \in logs'[logfile].synced
  BY <1>5, <1>6, <1>7 DEF Log, Synced
<1>9. /\ versions' \in Version /\ versions'.last = writing /\ versions'.log = versions.log
      /\ versions'.next = versions.next /\ versions'.tables = versions.tables
  BY <1>1, <1>3, <1>4 DEF TypeOK, Version
<1>10. TypeOK'
  <2>1. mem' \subseteq Write /\ promised' \subseteq Write /\ writing' \in 0 .. MaxWrite
    BY <1>1, <1>3, <1>4, Types DEF TypeOK
  <2> QED BY <1>1, <1>2, <1>3, <1>6, <1>8, <1>9, <2>1 DEF TypeOK
<1>11. DiskInv'
  <2>1. logfile >= manifest.log /\ logfile >= durable.log
    BY <1>1, <1>3, CurrentLogNeeded, Types
  <2>2. \A low, v : SyncedIn(low, logs, v) => SyncedIn(low, logs', v)
    BY <1>6, <1>8 DEF SyncedIn
  <2>3. sync => SyncedIn(manifest.log, logs', writing) /\ SyncedIn(durable.log, logs', writing)
    BY <1>5, <1>6, <1>8, <2>1 DEF SyncedIn
  <2>4. \A low, v : Logged(low, logs', v) <=> Logged(low, logs, v)
    BY <1>6, <1>8 DEF Logged
  <2>5. \A k \in DOMAIN logs' : k >= manifest.log \/ k >= durable.log =>
                               logs'[k].synced \subseteq logs'[k].written
    BY <1>3, <1>6, <1>8 DEF DiskInv
  <2>6. Keeps(manifest)' /\ Keeps(durable)'
    BY <1>3, <2>2, <2>3 DEF DiskInv, RunInv, Keeps, Blank
  <2> QED BY <1>3, <2>4, <2>5, <2>6 DEF DiskInv, RunInv, Sound, Recovers, New
<1>12. LogInv'
  BY <1>3, <1>6, <1>9 DEF LogInv
<1>13. RunInv'
  <2>1. logs'[logfile'].written = mem' \cup {v \in Write : v = writing'}
    BY <1>3, <1>4, <1>7, <1>8
  <2>2. (\E t \in File : Flushed(t))' <=> \E t \in File : Flushed(t)
    BY <1>3, <1>9 DEF Flushed, TableOfImm, File
  <2>3. (\E t \in File : added = {t} /\ TableOfImm(t))' <=> \E t \in File : added = {t} /\ TableOfImm(t)
    BY <1>3, <1>9 DEF TableOfImm, File
  <2>4. (\E t \in File : added = {t} /\ Flushed(t))' <=> \E t \in File : added = {t} /\ Flushed(t)
    BY <1>3, <1>9 DEF Flushed, TableOfImm, File
  <2>5. \A v \in Write :
          (\E n \in DOMAIN logs' : n >= versions'.log /\ n # logfile' /\ v \in logs'[n].written)
          <=> (\E n \in DOMAIN logs : n >= versions.log /\ n # logfile /\ v \in logs[n].written)
    BY <1>3, <1>6, <1>9
  <2>6. Current' <=> Current
    BY <1>3, <1>9 DEF Current
  <2>7. \A v \in mem' \cup imm' : v <= versions'.last
    <3>1. \A v \in mem \cup imm : v <= versions.last /\ v \in Nat
      BY <1>1, <1>3, Types DEF RunInv, TypeOK
    <3> QED BY <1>1, <1>3, <1>4, <1>9, <3>1, Types
  <2>8. manifest'.next <= versions'.next /\ manifest'.last <= versions'.last
    BY <1>1, <1>3, <1>4, <1>9, Types DEF RunInv
  <2>9. logs'[logfile'].synced \subseteq mem'
    BY <1>3, <1>7, <1>8
  <2> QED BY <1>3, <1>9, <2>1, <2>2, <2>3, <2>4, <2>5, <2>6, <2>7, <2>8, <2>9 DEF RunInv, Blank
<1> QED BY <1>2, <1>3, <1>10, <1>11, <1>12, <1>13 DEF StoreInv, Steady

-----------------------------------------------------------------------------
(* Only a running database has work in the background.                     *)
LEMMA BackgroundRuns ==
  ASSUME StoreInv, background # "idle"
  PROVE  phase \in {"open", "closing"} /\ TypeOK /\ DiskInv /\ LogInv /\ RunInv
<1>1. phase \in {"open", "closing"}
  BY DEF StoreInv, TypeOK, Phase, ClosedInv, StartInv, Steady, NoMemory
<1> QED BY <1>1 DEF StoreInv

(* The background thread is done, with or without success.                 *)
LEMMA RunSame ==
  ASSUME RunInv, background' = "idle", added' = {}, Current \/ bgError',
         UNCHANGED <<disk, versions, logfile, mem, imm, left, writing>>
  PROVE  RunInv'
<1>1. (\E t \in File : Flushed(t))' <=> \E t \in File : Flushed(t)
  BY DEF Flushed, TableOfImm, File, disk
<1>2. Current' <=> Current
  BY DEF Current, disk
<1>3. \A v \in Write :
        (\E n \in DOMAIN logs' : n >= versions'.log /\ n # logfile' /\ v \in logs'[n].written)
        <=> (\E n \in DOMAIN logs : n >= versions.log /\ n # logfile /\ v \in logs[n].written)
  BY DEF disk
<1> QED BY <1>1, <1>2, <1>3 DEF RunInv, Blank, disk

(* The new table is not yet named by a manifest.                           *)
LEMMA BuildTableStep ==
  ASSUME BoundsAssumption, StoreInv, BuildTable
  PROVE  StoreInv'
<1> DEFINE t == versions.next
<1>1. background = "scheduled" /\ phase = "open"
  BY DEF BuildTable
<1>2. /\ TypeOK /\ DiskInv /\ LogInv /\ RunInv
      /\ ~bgError /\ t <= MaxFile /\ tables' = With(tables, t, imm) /\ added' = {t}
      /\ versions' = [versions EXCEPT !.next = @ + 1] /\ background' = "built" /\ phase' = "open"
      /\ UNCHANGED <<created, logs, manifest, durable, logfile, mem, imm, left,
                     writing, bgError, history>>
  BY <1>1, BackgroundRuns DEF BuildTable
<1>3. /\ t \in File /\ t \in Nat /\ versions' \in Version /\ versions'.next = t + 1
      /\ versions'.tables = versions.tables /\ versions'.log = versions.log
      /\ versions'.last = versions.last
  BY <1>2, NewFile, Types DEF TypeOK, Version
<1>4. Current /\ imm # {} /\ manifest.next <= t
  BY <1>1, <1>2 DEF RunInv
<1> HIDE DEF t
<1>5. DOMAIN tables' = DOMAIN tables \cup {t} /\ tables'[t] = imm
      /\ \A k \in DOMAIN tables' : k # t => tables'[k] = tables[k]
  BY <1>2 DEF With
<1>6. TypeOK'
  BY <1>2, <1>3, <1>5 DEF TypeOK, Background, Phase, history
<1>7. DiskInv'
  BY <1>2, <1>3, <1>4, DiskNewTable DEF history
<1>8. LogInv'
  BY <1>2, <1>3, Types DEF LogInv, t
<1>9. RunInv'
  <2>1. Current'
    BY <1>2, <1>3, <1>4 DEF Current
  <2>2. (\E k \in File : added = {k} /\ TableOfImm(k))'
    BY <1>2, <1>3, <1>5 DEF TableOfImm, File
  <2>3. \A v \in Write :
          (\E n \in DOMAIN logs' : n >= versions'.log /\ n # logfile' /\ v \in logs'[n].written)
          <=> (\E n \in DOMAIN logs : n >= versions.log /\ n # logfile /\ v \in logs[n].written)
    BY <1>2, <1>3
  <2>4. manifest'.next <= versions'.next
    BY <1>2, <1>3, <1>4, Types
  <2> QED BY <1>2, <1>3, <1>4, <2>1, <2>2, <2>3, <2>4 DEF RunInv, Blank
<1> QED BY <1>2, <1>6, <1>7, <1>8, <1>9 DEF StoreInv, Steady

(* A flush that is never begun.                                            *)
LEMMA SkipCompactionStep ==
  ASSUME BoundsAssumption, StoreInv, SkipCompaction
  PROVE  StoreInv'
<1>1. background = "scheduled" /\ background' = "idle" /\ phase = "closing"
      /\ UNCHANGED <<disk, phase, memory, bgError, history>>
  BY DEF SkipCompaction
<1>2. TypeOK /\ DiskInv /\ LogInv /\ RunInv
  BY <1>1, BackgroundRuns
<1>3. Current /\ ~bgError /\ imm # {} /\ added = {}
  BY <1>1, <1>2 DEF RunInv
<1>4. RunInv'
  BY <1>1, <1>2, <1>3, RunSame DEF memory
<1>5. DiskInv'
  BY <1>1, <1>2, DiskSame DEF history
<1>6. TypeOK' /\ LogInv'
  BY <1>1, <1>2 DEF TypeOK, LogInv, Background, disk, memory, history
<1> QED BY <1>1, <1>4, <1>5, <1>6 DEF StoreInv, Steady, memory

(* A failed flush leaves the memtable and its log.                         *)
LEMMA CompactionFailsStep ==
  ASSUME BoundsAssumption, StoreInv, CompactionFails
  PROVE  StoreInv'
<1>1. background \in {"scheduled", "built", "logged"} /\ ~bgError /\ bgError' /\ added' = {}
      /\ background' = "idle"
      /\ UNCHANGED <<disk, phase, versions, logfile, mem, imm, left, writing, history>>
  BY DEF CompactionFails
<1>2. TypeOK /\ DiskInv /\ LogInv /\ RunInv /\ phase \in {"open", "closing"}
  BY <1>1, BackgroundRuns
<1>3. bgError' = TRUE
  BY DEF CompactionFails
<1>4. imm # {}
  BY <1>1, <1>2 DEF RunInv
<1>5. RunInv'
  BY <1>1, <1>2, <1>4, RunSame
<1>6. DiskInv'
  BY <1>1, <1>2, DiskSame DEF history
<1>7. TypeOK' /\ LogInv'
  BY <1>1, <1>2, <1>3 DEF TypeOK, LogInv, Background, disk, history
<1>8. Steady'
  BY <1>1, <1>2 DEF StoreInv, Steady
<1> QED BY <1>1, <1>2, <1>5, <1>6, <1>7, <1>8 DEF StoreInv

(* What the version edit says while a table is being added.                *)
LEMMA EditedIs ==
  ASSUME BoundsAssumption, TypeOK
  PROVE  /\ Edited.log = logfile /\ Edited.next = versions.next /\ Edited.last = versions.last
         /\ Edited.tables = versions.tables \cup added /\ Edited \in Version
<1>1. added \subseteq File
  BY DEF TypeOK
<1> QED BY <1>1 DEF Edited, TypeOK, Version

(* The edit recovers from the table what the old log held.                 *)
LEMMA LogEditStep ==
  ASSUME BoundsAssumption, StoreInv, LogEdit
  PROVE  StoreInv'
<1>1. background = "built" /\ phase = "open" /\ background' = "logged" /\ manifest' = Edited
      /\ UNCHANGED <<created, logs, tables, durable, phase, memory, bgError, history>>
  BY DEF LogEdit
<1>2. TypeOK /\ DiskInv /\ LogInv /\ RunInv
  BY <1>1, BackgroundRuns
<1>3. PICK t \in File : added = {t} /\ TableOfImm(t)
  BY <1>1, <1>2 DEF RunInv
<1>4. Current /\ ~bgError /\ imm # {} /\ created
  BY <1>1, <1>2 DEF RunInv
<1>5. /\ manifest'.log = logfile /\ manifest'.next = versions.next
      /\ manifest'.last = versions.last /\ manifest'.tables = versions.tables \cup {t}
      /\ manifest' \in Version
  BY <1>1, <1>2, <1>3, EditedIs
<1>6. manifest.tables = versions.tables /\ durable.tables = versions.tables
      /\ manifest.log = versions.log /\ durable.log = versions.log
  BY <1>2, <1>4 DEF Current, RunInv
<1>7. manifest' # Blank
  BY <1>5 DEF Blank
<1>8. \A v : Tabled(manifest'.tables, tables, v) <=> Tabled(versions.tables, tables, v) \/ v \in imm
  BY <1>3, <1>5 DEF Tabled, TableOfImm
<1>9. \A v \in Write : Logged(versions.log, logs, v) <=> Logged(logfile, logs, v) \/ v \in imm
  <2>1. \A n \in DOMAIN logs : n >= logfile <=> n = logfile
    BY <1>2, Types DEF LogInv
  <2>2. logfile \in DOMAIN logs /\ logfile >= versions.log
    BY <1>2, Types DEF LogInv
  <2>3. \A v \in Write : v \in imm <=> \E n \in DOMAIN logs :
                        n >= versions.log /\ n # logfile /\ v \in logs[n].written
    BY <1>2 DEF RunInv
  <2> QED BY <2>1, <2>2, <2>3 DEF Logged
<1>10. \A v \in Write : SyncedIn(versions.log, logs, v) => SyncedIn(logfile, logs, v) \/ v \in imm
  <2>1. \A n \in DOMAIN logs : n >= versions.log => logs[n].synced \subseteq logs[n].written
    BY <1>2, <1>6 DEF DiskInv
  <2>2. \A v \in Write : v \in imm <=> \E n \in DOMAIN logs :
                        n >= versions.log /\ n # logfile /\ v \in logs[n].written
    BY <1>2 DEF RunInv
  <2>3. logfile \in DOMAIN logs /\ logfile >= logfile
    BY <1>2, Types DEF LogInv
  <2> QED BY <2>1, <2>2, <2>3 DEF SyncedIn
<1>11. DiskInv'
  <2>1. Sound(manifest)'
    <3>1. manifest'.tables \subseteq DOMAIN tables' /\ \A u \in manifest'.tables : u < manifest'.next
      BY <1>1, <1>2, <1>3, <1>5, <1>6, Types DEF DiskInv, RunInv, Sound, TableOfImm, TypeOK
    <3>2. manifest'.log < manifest'.next
      BY <1>2, <1>5 DEF LogInv
    <3>3. \A v \in Write : Tabled(manifest'.tables, tables', v) => v <= manifest'.last
      BY <1>1, <1>2, <1>5, <1>6, <1>8, Types DEF DiskInv, RunInv, Sound
    <3> QED BY <3>1, <3>2, <3>3 DEF Sound
  <2>2. Keeps(manifest)'
    <3>1. \A v \in promised : v \in Write
      BY <1>2 DEF TypeOK
    <3>2. \A v \in promised : Tabled(versions.tables, tables, v) \/ SyncedIn(versions.log, logs, v)
      BY <1>2, <1>6 DEF DiskInv, Keeps
    <3> QED BY <1>1, <1>5, <1>7, <1>8, <1>10, <3>1, <3>2 DEF Keeps, history, Blank
  <2>3. \A v \in Write : Recovers(durable, v)' <=> Recovers(manifest, v)'
    BY <1>1, <1>5, <1>6, <1>8, <1>9 DEF Recovers
  <2>4. \A n \in DOMAIN logs' : n >= manifest'.log \/ n >= durable'.log =>
                               logs'[n].synced \subseteq logs'[n].written
    BY <1>1, <1>2, <1>5, <1>6, Types DEF DiskInv, LogInv
  <2>5. durable'.next <= manifest'.next
    BY <1>1, <1>2, <1>5, Types DEF DiskInv, RunInv
  <2>6. Sound(durable)' /\ Keeps(durable)' /\ durable' # Blank'
    BY <1>1, <1>2 DEF DiskInv, RunInv, Sound, Keeps, history, Blank
  <2> QED BY <1>1, <1>4, <2>1, <2>2, <2>3, <2>4, <2>5, <2>6 DEF DiskInv
<1>12. TypeOK' /\ LogInv'
  BY <1>1, <1>2, <1>5 DEF TypeOK, LogInv, Background, memory, history
<1>13. RunInv'
  <2>1. (added = {t} /\ Flushed(t))' /\ TableOfImm(t)'
    BY <1>1, <1>3, <1>5 DEF Flushed, TableOfImm, memory
  <2>2. manifest'.next <= versions'.next /\ manifest'.last <= versions'.last
    BY <1>1, <1>2, <1>5, Types DEF memory
  <2>3. (\E u \in File : Flushed(u))' /\ (\E u \in File : added = {u} /\ TableOfImm(u))'
        /\ (\E u \in File : added = {u} /\ Flushed(u))'
    BY <2>1 DEF File
  <2> QED BY <1>1, <1>2, <1>4, <1>7, <2>2, <2>3 DEF RunInv, memory, Blank
<1> QED BY <1>1, <1>11, <1>12, <1>13 DEF StoreInv, Steady, memory

(* The synced edit is the version.                                         *)
LEMMA InstallEditStep ==
  ASSUME BoundsAssumption, StoreInv, InstallEdit
  PROVE  StoreInv'
<1>1. /\ background = "logged" /\ background' = "installed" /\ durable' = manifest
      /\ versions' = Edited /\ imm' = {} /\ added' = {}
      /\ UNCHANGED <<created, logs, tables, manifest, phase, logfile, mem, left, writing,
                     bgError, history>>
  BY DEF InstallEdit
<1>2. TypeOK /\ DiskInv /\ LogInv /\ RunInv /\ phase \in {"open", "closing"}
  BY <1>1, BackgroundRuns
<1>3. PICK t \in File : added = {t} /\ Flushed(t)
  BY <1>1, <1>2 DEF RunInv
<1>4. /\ versions'.log = logfile /\ versions'.next = versions.next
      /\ versions'.last = versions.last /\ versions'.tables = versions.tables \cup {t}
      /\ versions' \in Version
  BY <1>1, <1>2, <1>3, EditedIs
<1>5. manifest.log = logfile /\ manifest.tables = versions.tables \cup {t}
  BY <1>3 DEF Flushed
<1>6. DiskInv'
  BY <1>1, <1>2, Types DEF DiskInv, RunInv, Sound, Keeps, Recovers, New, history, Blank
<1>7. TypeOK'
  BY <1>1, <1>2, <1>4 DEF TypeOK, Background, history
<1>8. LogInv'
  BY <1>1, <1>2, <1>4, Types DEF LogInv
<1>9. RunInv'
  <2>1. Current' /\ durable'.log = versions'.log /\ durable'.tables = versions'.tables
    BY <1>1, <1>4, <1>5 DEF Current
  <2>2. \A n \in DOMAIN logs' : n >= versions'.log => n = logfile'
    BY <1>1, <1>2, <1>4, Types DEF LogInv
  <2>3. ~bgError
    BY <1>1, <1>2 DEF RunInv
  <2> QED BY <1>1, <1>2, <1>4, <2>1, <2>2, <2>3 DEF RunInv, Blank
<1>10. Steady'
  BY <1>1, <1>2 DEF StoreInv, Steady
<1> QED BY <1>1, <1>2, <1>6, <1>7, <1>8, <1>9, <1>10 DEF StoreInv

-----------------------------------------------------------------------------
(* The database is asked to close with no write under way.                 *)
LEMMA CloseStep ==
  ASSUME BoundsAssumption, StoreInv, Close
  PROVE  StoreInv'
<1>1. /\ phase = "open" /\ writing = 0 /\ phase' = "closing"
      /\ crashes < MaxCrash /\ crashes' = crashes + 1
      /\ UNCHANGED <<disk, memory, background, bgError, promised>>
  BY DEF Close, Count
<1>2. TypeOK /\ DiskInv /\ LogInv /\ RunInv
  BY <1>1 DEF StoreInv
<1>3. crashes' \in 0 .. MaxCrash
  BY <1>1, <1>2 DEF TypeOK, BoundsAssumption
<1>4. TypeOK' /\ LogInv'
  BY <1>1, <1>2, <1>3 DEF TypeOK, LogInv, Phase, disk, memory
<1>5. DiskInv'
  BY <1>1, <1>2, DiskSame
<1>6. RunInv'
  BY <1>1, <1>2 DEF RunInv, Current, Flushed, TableOfImm, File, Blank, disk, memory
<1> QED BY <1>1, <1>4, <1>5, <1>6 DEF StoreInv, Steady, memory

(* What is left without a process.                                         *)
LEMMA Forgotten ==
  ASSUME BoundsAssumption, Forget
  PROVE  /\ ClosedInv' /\ phase' = "closed" /\ Steady'
         /\ phase' \in Phase /\ versions' \in Version /\ logfile' \in File
         /\ background' \in Background
<1>1. Blank \in Version /\ 0 \in File
  <2>1. 0 \in File
    BY DEF File, BoundsAssumption
  <2> QED BY <2>1 DEF Blank, Version
<1>2. phase' = "closed" /\ versions' = Blank /\ logfile' = 0 /\ background' = "idle"
  BY DEF Forget
<1>3. ClosedInv' /\ Steady'
  BY DEF Forget, ClosedInv, NoMemory, Steady
<1> QED BY <1>1, <1>2, <1>3 DEF Phase, Background

(* The database is closed.                                                 *)
LEMMA ClosedStep ==
  ASSUME BoundsAssumption, StoreInv, Closed
  PROVE  StoreInv'
<1>1. TypeOK /\ DiskInv /\ Forget /\ UNCHANGED <<disk, history>>
  BY DEF Closed, StoreInv
<1>2. DiskInv'
  BY <1>1, DiskSame DEF history
<1>3. TypeOK'
  <2>1. bgError' = FALSE /\ 0 \in 0 .. MaxWrite
    BY <1>1 DEF Forget, BoundsAssumption
  <2> QED BY <1>1, <2>1, Forgotten DEF TypeOK, ClosedInv, NoMemory, disk, history
<1> QED BY <1>1, <1>2, <1>3, Forgotten DEF StoreInv

(* The write under way is not yet on the medium, and in no table.          *)
LEMMA UnderWayIsNew ==
  ASSUME BoundsAssumption, StoreInv, writing # 0
  PROVE  /\ writing \in Write /\ RunInv /\ LogInv /\ phase = "open"
         /\ ~Tabled(manifest.tables, tables, writing) /\ ~Tabled(durable.tables, tables, writing)
         /\ \A n \in DOMAIN logs : n >= manifest.log \/ n >= durable.log => writing \notin logs[n].synced
<1>1. TypeOK /\ DiskInv
  BY DEF StoreInv
<1>2. phase = "open"
  BY <1>1 DEF StoreInv, TypeOK, Phase, ClosedInv, StartInv, Steady, NoMemory
<1>3. RunInv /\ LogInv
  BY <1>2 DEF StoreInv
<1>4. writing \in Write /\ writing = versions.last + 1 /\ ~(writing <= versions.last)
  BY <1>1, <1>3, Types DEF TypeOK, RunInv, Write
<1>5. ~Tabled(manifest.tables, tables, writing)
  BY <1>1, <1>3, <1>4, Types DEF DiskInv, Sound, RunInv
<1>6. durable.tables \subseteq manifest.tables
  BY <1>3 DEF RunInv, Current, Flushed
<1>7. ~Tabled(durable.tables, tables, writing)
  BY <1>5, <1>6 DEF Tabled
<1>8. ASSUME NEW n \in DOMAIN logs, n >= manifest.log \/ n >= durable.log
      PROVE  writing \notin logs[n].synced
  <2>1. n >= versions.log
    BY <1>1, <1>3, <1>8, Types DEF RunInv, LogInv, Current, Flushed
  <2>2. logs[n].synced \subseteq logs[n].written
    BY <1>1, <1>8 DEF DiskInv
  <2>3. logs[logfile].synced \subseteq mem /\ writing \notin mem \cup imm
    BY <1>3, <1>4 DEF RunInv
  <2>4. n # logfile => (writing \in logs[n].written => writing \in imm)
    BY <1>3, <1>4, <2>1 DEF RunInv
  <2> QED BY <2>2, <2>3, <2>4
<1> QED BY <1>2, <1>3, <1>4, <1>5, <1>7, <1>8

(* What the end of the process leaves of the logs.                         *)
LEMMA TornLogs ==
  ASSUME BoundsAssumption, TypeOK,
         logs' \in {logs, [n \in DOMAIN logs |-> [logs[n] EXCEPT !.written = @ \ {writing}]]}
  PROVE  /\ DOMAIN logs' = DOMAIN logs
         /\ \A n \in DOMAIN logs : logs'[n] \in Log /\ logs'[n].synced = logs[n].synced
         /\ \/ \A n \in DOMAIN logs : logs'[n].written = logs[n].written
            \/ \A n \in DOMAIN logs : logs'[n].written = logs[n].written \ {writing}
<1>1. \A n \in DOMAIN logs : logs[n] \in Log
  BY DEF TypeOK
<1>2. CASE logs' = logs
  BY <1>1, <1>2
<1>3. CASE logs' = [n \in DOMAIN logs |-> [logs[n] EXCEPT !.written = @ \ {writing}]]
  <2>1. DOMAIN logs' = DOMAIN logs
        /\ \A n \in DOMAIN logs : logs'[n] = [logs[n] EXCEPT !.written = @ \ {writing}]
    BY <1>3
  <2>2. \A n \in DOMAIN logs : /\ logs'[n] \in Log /\ logs'[n].synced = logs[n].synced
                              /\ logs'[n].written = logs[n].written \ {writing}
    BY <1>1, <2>1 DEF Log
  <2> QED BY <2>1, <2>2
<1> QED BY <1>2, <1>3

(* Of the records, only that of the write under way can be torn.           *)
LEMMA ProcessEndsStep ==
  ASSUME BoundsAssumption, StoreInv, ProcessEnds
  PROVE  StoreInv'
<1>1. /\ TypeOK /\ DiskInv /\ Forget /\ crashes < MaxCrash /\ crashes' = crashes + 1
      /\ logs' \in {logs, [n \in DOMAIN logs |-> [logs[n] EXCEPT !.written = @ \ {writing}]]}
      /\ UNCHANGED <<created, tables, manifest, durable, promised>>
  BY DEF ProcessEnds, Count, StoreInv
<1>2. /\ DOMAIN logs' = DOMAIN logs
      /\ \A n \in DOMAIN logs : logs'[n] \in Log /\ logs'[n].synced = logs[n].synced
      /\ \/ \A n \in DOMAIN logs : logs'[n].written = logs[n].written
         \/ \A n \in DOMAIN logs : logs'[n].written = logs[n].written \ {writing}
  BY <1>1, TornLogs
<1>3. TypeOK'
  <2>1. crashes' \in 0 .. MaxCrash /\ bgError' = FALSE
    BY <1>1 DEF TypeOK, BoundsAssumption, Forget
  <2>2. 0 \in 0 .. MaxWrite
    BY DEF BoundsAssumption
  <2> QED BY <1>1, <1>2, <2>1, <2>2, Forgotten DEF TypeOK, ClosedInv, NoMemory
<1>4. DiskInv'
  <2>1. \A low, v : SyncedIn(low, logs', v) <=> SyncedIn(low, logs, v)
    BY <1>2 DEF SyncedIn
  <2>2. \A n \in DOMAIN logs' : n >= manifest.log \/ n >= durable.log =>
                               logs'[n].synced \subseteq logs'[n].written
    <3> SUFFICES ASSUME NEW n \in DOMAIN logs, n >= manifest.log \/ n >= durable.log
                 PROVE  logs[n].synced \subseteq logs'[n].written
      BY <1>2
    <3>1. logs[n].synced \subseteq logs[n].written /\ logs[n].synced \subseteq Write
      BY <1>1 DEF DiskInv, TypeOK, Log
    <3>2. writing \notin logs[n].synced
      BY <3>1, UnderWayIsNew DEF Write
    <3> QED BY <1>2, <3>1, <3>2
  <2>3. \A v \in Write : Recovers(durable, v)' <=> Recovers(manifest, v)'
    <3>1. TAKE v \in Write
    <3>2. CASE \A n \in DOMAIN logs : v \in logs'[n].written <=> v \in logs[n].written
      <4>1. \A low : Logged(low, logs', v) <=> Logged(low, logs, v)
        BY <1>2, <3>2 DEF Logged
      <4> QED BY <1>1, <3>1, <4>1 DEF DiskInv, Recovers
    <3>3. CASE v = writing /\ \A n \in DOMAIN logs : v \notin logs'[n].written
      <4>1. \A low : ~Logged(low, logs', v)
        BY <1>2, <3>3 DEF Logged
      <4>2. ~Tabled(manifest.tables, tables, v) /\ ~Tabled(durable.tables, tables, v)
        BY <3>1, <3>3, UnderWayIsNew DEF Write
      <4> QED BY <1>1, <4>1, <4>2 DEF Recovers
    <3> QED BY <1>2, <3>2, <3>3
  <2> QED BY <1>1, <2>1, <2>2, <2>3 DEF DiskInv, Sound, Keeps, New
<1> QED BY <1>1, <1>3, <1>4, Forgotten DEF StoreInv

(* What was synced is on the medium whatever else the power failure takes. *)
LEMMA PowerFailsStep ==
  ASSUME BoundsAssumption, StoreInv, PowerFails
  PROVE  StoreInv'
<1>1. PICK cut \in [DOMAIN logs -> 0 .. MaxWrite] :
        logs' = [n \in DOMAIN logs |-> [written |-> Cut(logs[n], cut[n]),
                                        synced |-> Cut(logs[n], cut[n])]]
  BY DEF PowerFails
<1>2. /\ TypeOK /\ DiskInv /\ Forget /\ crashes < MaxCrash /\ crashes' = crashes + 1
      /\ manifest' \in {manifest, durable} /\ durable' = manifest'
      /\ created' \in {created, created /\ durable # Blank}
      /\ UNCHANGED <<tables, promised>>
  BY DEF PowerFails, Count, StoreInv
<1>3. /\ DOMAIN logs' = DOMAIN logs
      /\ \A n \in DOMAIN logs : logs'[n].written = Cut(logs[n], cut[n])
                              /\ logs'[n].synced = Cut(logs[n], cut[n])
  BY <1>1
<1>4. \A n \in DOMAIN logs : logs'[n] \in Log
  BY <1>1, <1>2 DEF TypeOK, Log, Cut
<1>5. TypeOK'
  <2>1. crashes' \in 0 .. MaxCrash /\ bgError' = FALSE /\ 0 \in 0 .. MaxWrite
    BY <1>2 DEF TypeOK, BoundsAssumption, Forget
  <2>2. created' \in BOOLEAN /\ manifest' \in Version /\ durable' \in Version
    BY <1>2 DEF TypeOK
  <2> QED BY <1>2, <1>3, <1>4, <2>1, <2>2, Forgotten DEF TypeOK, ClosedInv, NoMemory
<1>6. DiskInv'
  <2>1. ASSUME NEW m \in {manifest, durable}, NEW v, SyncedIn(m.log, logs, v)
        PROVE  SyncedIn(m.log, logs', v)
    <3>1. PICK n \in DOMAIN logs : n >= m.log /\ v \in logs[n].synced
      BY <2>1 DEF SyncedIn
    <3>2. v \in logs[n].written
      BY <1>2, <3>1 DEF DiskInv
    <3> QED BY <1>3, <3>1, <3>2 DEF SyncedIn, Cut
  <2>2. Sound(manifest)' /\ Sound(durable)'
    BY <1>2 DEF DiskInv, Sound, Blank
  <2>3. Keeps(manifest)' /\ Keeps(durable)'
    BY <1>2, <2>1 DEF DiskInv, Keeps, Blank
  <2>4. \A n \in DOMAIN logs' : logs'[n].synced \subseteq logs'[n].written
    BY <1>3
  <2>5. manifest' = Blank => New(manifest')
    BY DEF New, Blank
  <2>6. New(Blank)
    BY DEF New, Blank
  <2>7. ~created' => New(manifest') /\ promised = {}
    BY <1>2, <2>6 DEF DiskInv, Keeps
  <2>8. manifest'.next <= manifest'.next
    BY <1>5, BoundsAssumption DEF TypeOK, Version
  <2> QED BY <1>2, <2>2, <2>3, <2>4, <2>5, <2>7, <2>8 DEF DiskInv, Recovers, New, Blank
<1> QED BY <1>2, <1>5, <1>6, Forgotten DEF StoreInv

-----------------------------------------------------------------------------
(* There is no database yet.                                               *)
LEMMA StoreInit ==
  ASSUME BoundsAssumption, Init
  PROVE  StoreInv
<1>1. /\ DOMAIN logs = {} /\ DOMAIN tables = {} /\ manifest = Blank /\ durable = Blank
      /\ versions = Blank /\ phase = "closed" /\ promised = {} /\ ~created
  BY DEF Init
<1>2. Blank \in Version /\ 0 \in File /\ 0 \in 0 .. MaxWrite /\ 0 \in 0 .. MaxCrash
  <2>1. 0 \in File /\ 0 \in 0 .. MaxWrite /\ 0 \in 0 .. MaxCrash
    BY DEF File, BoundsAssumption
  <2> QED BY <2>1 DEF Blank, Version
<1>3. TypeOK
  BY <1>1, <1>2 DEF Init, TypeOK, Phase, Background
<1>4. Sound(manifest) /\ Sound(durable)
  BY <1>1 DEF Sound, Blank, Tabled
<1>5. New(manifest) /\ New(durable) /\ durable.next <= manifest.next
  BY <1>1 DEF New, Blank
<1>6. DiskInv
  BY <1>1, <1>4, <1>5 DEF DiskInv, Keeps, Recovers
<1>7. ClosedInv
  BY DEF Init, ClosedInv, NoMemory
<1> QED BY <1>1, <1>3, <1>6, <1>7 DEF StoreInv, Steady

(* Nothing the database does breaks the invariant.                         *)
LEMMA StoreNext ==
  ASSUME BoundsAssumption, StoreInv, [Next]_vars
  PROVE  StoreInv'
<1>1. CASE UNCHANGED vars
  <2>1. DiskInv'
    BY <1>1, DiskSame DEF vars, history, StoreInv
  <2>2. TypeOK'
    BY <1>1 DEF StoreInv, TypeOK, vars, disk, memory, history
  <2>3. /\ ClosedInv' = ClosedInv /\ StartInv' = StartInv /\ LogInv' = LogInv
        /\ NewLogInv' = NewLogInv /\ RunInv' = RunInv /\ Steady' = Steady
    BY <1>1 DEF vars, disk, memory, history, ClosedInv, StartInv, LogInv, NewLogInv, RunInv,
                Steady, NoMemory, LogsToRecover, Tabled, Current, Flushed, TableOfImm, Blank, File
  <2> QED BY <1>1, <2>1, <2>2, <2>3 DEF StoreInv, vars
<1>2. CASE NewDB \/ Recover \/ CreateLog \/ SaveManifest \/ FinishOpen
  BY <1>2, NewDBStep, RecoverStep, CreateLogStep, SaveManifestStep, FinishOpenStep
<1>3. CASE \E n \in left : RecoverLogFile(n)
  BY <1>3, RecoverLogFileStep
<1>4. CASE SwitchMemTable \/ AddRecord
  BY <1>4, SwitchMemTableStep, AddRecordStep
<1>5. CASE \E sync \in BOOLEAN : FinishWrite(sync)
  BY <1>5, FinishWriteStep
<1>6. CASE BuildTable \/ SkipCompaction \/ LogEdit \/ CompactionFails
  BY <1>6, BuildTableStep, SkipCompactionStep, LogEditStep, CompactionFailsStep
<1>7. CASE InstallEdit \/ FinishCompaction
  BY <1>7, InstallEditStep, FinishCompactionStep
<1>8. CASE Close \/ Closed \/ ProcessEnds \/ PowerFails
  BY <1>8, CloseStep, ClosedStep, ProcessEndsStep, PowerFailsStep
<1> QED BY <1>1, <1>2, <1>3, <1>4, <1>5, <1>6, <1>7, <1>8 DEF Next

(* The invariant of the database, in every reachable state.                *)
THEOREM StoreAlways ==
  ASSUME BoundsAssumption
  PROVE  Spec => []StoreInv
<1>1. Init => StoreInv
  BY StoreInit
<1>2. StoreInv /\ [Next]_vars => StoreInv'
  BY StoreNext
<1> QED BY <1>1, <1>2, PTL DEF Spec

(* Types, for any number of writes, files and crashes.                     *)
THEOREM StoreTypes ==
  ASSUME BoundsAssumption
  PROVE  Spec => []TypeOK
<1>1. StoreInv => TypeOK
  BY DEF StoreInv
<1> QED BY <1>1, StoreAlways, PTL

-----------------------------------------------------------------------------
(* While the database runs, the next start would find what a reader finds, *)
(* and perhaps the write under way, which is newer than all of it.         *)
LEMMA RunningHolds ==
  ASSUME BoundsAssumption, TypeOK, DiskInv, LogInv, RunInv
  PROVE  /\ \A v \in Readable : v \in Write /\ v <= versions.last
         /\ Recoverable = Readable \cup {v \in Write : v = writing}
         /\ writing # 0 => writing \in Write /\ writing = versions.last + 1
<1>1. versions.tables \subseteq manifest.tables /\ manifest.tables \subseteq DOMAIN tables
  BY DEF RunInv, Current, Flushed, DiskInv, Sound
<1>2. \A t \in manifest.tables : tables[t] \subseteq Write
  BY <1>1 DEF TypeOK
<1>3. \A v \in InTables(versions) : v \in Write /\ Tabled(manifest.tables, tables, v)
  BY <1>1, <1>2 DEF InTables, Tabled
<1>4. \A v \in Readable : v \in Write /\ v <= versions.last
  <2>1. \A v \in mem \cup imm : v \in Write /\ v <= versions.last
    BY DEF RunInv, TypeOK
  <2>2. \A v \in InTables(versions) : v <= versions.last
    BY <1>3, Types DEF DiskInv, Sound, RunInv
  <2> QED BY <1>3, <2>1, <2>2 DEF Readable
<1>5. logfile \in DOMAIN logs /\ versions.log <= logfile /\ \A n \in DOMAIN logs : n >= logfile <=> n = logfile
  BY Types DEF LogInv
<1>6. InLogs(versions) = imm \cup logs[logfile].written
  <2>1. \A n \in DOMAIN logs : logs[n].written \subseteq Write
    BY DEF TypeOK, Log
  <2>2. imm \subseteq Write /\ logfile >= versions.log
    BY <1>5, Types DEF TypeOK
  <2>3. \A v \in Write : v \in imm <=> \E n \in DOMAIN logs :
                        n >= versions.log /\ n # logfile /\ v \in logs[n].written
    BY DEF RunInv
  <2>4. \A v : v \in InLogs(versions) <=> \E n \in DOMAIN logs : n >= versions.log /\ v \in logs[n].written
    BY DEF InLogs
  <2> QED BY <1>5, <2>1, <2>2, <2>3, <2>4
<1>7. logs[logfile].written = mem \cup {v \in Write : v = writing}
  BY DEF RunInv
<1>8. Recoverable = InTables(versions) \cup imm \cup logs[logfile].written
  <2>1. CASE Current
    BY <1>6, <2>1 DEF Current, Recoverable, InTables, InLogs
  <2>2. CASE \E t \in File : Flushed(t)
    <3>1. PICK t \in File : Flushed(t)
      BY <2>2
    <3>2. manifest.log = logfile /\ manifest.tables = versions.tables \cup {t} /\ tables[t] = imm
      BY <3>1 DEF Flushed, TableOfImm
    <3>3. InTables(manifest) = InTables(versions) \cup imm
      BY <3>2 DEF InTables
    <3>4. InLogs(manifest) = logs[logfile].written
      BY <1>5, <3>2 DEF InLogs
    <3> QED BY <3>3, <3>4 DEF Recoverable
  <2> QED BY <2>1, <2>2 DEF RunInv
<1>9. Recoverable = Readable \cup {v \in Write : v = writing}
  BY <1>7, <1>8 DEF Readable
<1>10. writing # 0 => writing \in Write /\ writing = versions.last + 1
  BY Types DEF RunInv, TypeOK, Write
<1> QED BY <1>4, <1>9, <1>10

(* If only the process ends, no write is lost, synced or not.              *)
THEOREM NothingIsLost ==
  ASSUME BoundsAssumption
  PROVE  Spec => []NothingLost
<1>1. ASSUME StoreInv, Running
      PROVE  Recoverable \ {writing} = Readable
  <2>1. TypeOK /\ DiskInv /\ LogInv /\ RunInv
    BY <1>1 DEF StoreInv, Running
  <2>2. \A v \in Readable : v # writing
    <3>1. \A v \in Readable : v \in Nat /\ v >= 1 /\ v <= versions.last
      BY <2>1, RunningHolds, Types DEF Write
    <3> QED BY <2>1, <3>1, RunningHolds, Types
  <2>3. Recoverable = Readable \cup {v \in Write : v = writing}
    BY <2>1, RunningHolds
  <2> QED BY <2>2, <2>3
<1>2. StoreInv => NothingLost
  BY <1>1 DEF NothingLost
<1> QED BY <1>2, StoreAlways, PTL

(* If the power fails, no synced write is lost, whichever manifest is      *)
(* found.                                                                  *)
THEOREM SyncedWritesSurvive ==
  ASSUME BoundsAssumption
  PROVE  Spec => []SyncedSurvive
<1>1. ASSUME StoreInv, NEW m \in {manifest, durable}
      PROVE  m.tables \subseteq DOMAIN tables /\ promised \subseteq Safe(m)
  <2>1. Sound(m) /\ Keeps(m)
    BY <1>1 DEF StoreInv, DiskInv
  <2>2. ASSUME NEW v \in promised, Tabled(m.tables, tables, v) \/ SyncedIn(m.log, logs, v)
        PROVE  v \in InTables(m) \cup SyncedInLogs(m)
    BY <2>2 DEF Tabled, SyncedIn, InTables, SyncedInLogs
  <2> QED BY <2>1, <2>2 DEF Sound, Keeps, Safe
<1>2. StoreInv => SyncedSurvive
  BY <1>1 DEF SyncedSurvive
<1> QED BY <1>2, StoreAlways, PTL

-----------------------------------------------------------------------------
(* What a reader finds, now or after the next start.                       *)
Contents == IF Running THEN Readable ELSE Recoverable

(* No start changes the contents.                                          *)
LEMMA StartStutters ==
  ASSUME BoundsAssumption, StoreInv,
         NewDB \/ Recover \/ (\E n \in left : RecoverLogFile(n)) \/ CreateLog \/ SaveManifest
  PROVE  Contents' = Contents /\ promised' = promised
<1>1. TypeOK /\ DiskInv
  BY DEF StoreInv
<1>2. ~Running /\ ~Running' /\ promised' = promised
  BY DEF NewDB, Recover, RecoverLogFile, CreateLog, SaveManifest, Running, history
<1>3. Contents = Recoverable /\ Contents' = Recoverable'
  BY <1>2 DEF Contents
<1>4. CASE NewDB
  <2>1. /\ manifest.tables = {} /\ manifest.log = 0 /\ manifest'.tables = {} /\ manifest'.log = 0
        /\ logs' = logs /\ tables' = tables
    BY <1>1, <1>4 DEF NewDB, DiskInv, New, Blank
  <2> QED BY <1>2, <1>3, <2>1 DEF Recoverable, InTables, InLogs
<1>5. CASE Recover
  BY <1>2, <1>3, <1>5 DEF Recover, disk, Recoverable, InTables, InLogs
<1>6. CASE \E n \in left : RecoverLogFile(n)
  <2>1. PICK n \in left : RecoverLogFile(n)
    BY <1>6
  <2>2. manifest.tables \subseteq DOMAIN tables /\ versions.next \notin manifest.tables
    <3>1. phase = "recovering"
      BY <2>1 DEF RecoverLogFile
    <3>2. manifest.next < versions.next
      BY <3>1 DEF StoreInv, StartInv
    <3> QED BY <1>1, <3>2, Types DEF DiskInv, Sound, TypeOK
  <2>3. \A t \in manifest.tables : tables'[t] = tables[t]
    BY <2>1, <2>2 DEF RecoverLogFile, With
  <2>4. manifest' = manifest /\ logs' = logs
    BY <2>1 DEF RecoverLogFile
  <2>5. InTables(manifest)' = InTables(manifest)
    BY <2>2, <2>3, <2>4 DEF InTables
  <2> QED BY <1>2, <1>3, <2>4, <2>5 DEF Recoverable, InLogs
<1>7. CASE CreateLog
  <2>1. logs' = With(logs, versions.next, EmptyLog) /\ tables' = tables /\ manifest' = manifest
    BY <1>7 DEF CreateLog
  <2>2. versions.next \notin DOMAIN logs
    <3>1. phase = "recovering" /\ left = {}
      BY <1>7 DEF CreateLog
    <3>2. StartInv
      BY <3>1 DEF StoreInv
    <3>3. manifest.log < versions.next
      BY <1>1, <3>2, Types DEF DiskInv, Sound, StartInv
    <3> QED BY <1>1, <3>1, <3>2, <3>3, Types DEF StartInv, LogsToRecover
  <2>3. \A v : Logged(manifest.log, logs', v) <=> Logged(manifest.log, logs, v)
    BY <2>1, <2>2, LoggedWith
  <2>4. \A v : (v \in InLogs(manifest)) <=> Logged(manifest.log, logs, v)
    BY DEF InLogs, Logged
  <2>5. \A v : (v \in InLogs(manifest)') <=> Logged(manifest.log, logs', v)
    BY <2>1 DEF InLogs, Logged
  <2>6. InLogs(manifest)' = InLogs(manifest)
    BY <2>3, <2>4, <2>5
  <2> QED BY <1>2, <1>3, <2>1, <2>6 DEF Recoverable, InTables
<1>8. CASE SaveManifest
  <2>1. StartInv /\ LogInv /\ NewLogInv /\ manifest' = Edited /\ tables' = tables /\ logs' = logs
    BY <1>8 DEF SaveManifest, SetCurrent, StoreInv
  <2>2. manifest'.tables = manifest.tables \cup added /\ manifest'.log = logfile
    BY <1>1, <2>1, EditedIs DEF StartInv
  <2>3. InLogs(manifest)' = {}
    <3>1. \A n \in DOMAIN logs : n >= logfile => logs[n].written = {}
      BY <1>1, <2>1, Types DEF LogInv, NewLogInv, EmptyLog
    <3> QED BY <2>1, <2>2, <3>1 DEF InLogs
  <2>4. UNION {tables[t] : t \in added} = InLogs(manifest)
    <3>1. \A v \in Write : Tabled(added, tables, v) <=> Logged(manifest.log, logs, v)
      BY <2>1 DEF StartInv, NewLogInv, LogsToRecover, Logged
    <3>2. \A v : (v \in UNION {tables[t] : t \in added}) <=> v \in Write /\ Tabled(added, tables, v)
      BY <1>1 DEF Tabled, TypeOK
    <3>3. \A v : (v \in InLogs(manifest)) <=> v \in Write /\ Logged(manifest.log, logs, v)
      BY <1>1 DEF InLogs, Logged, TypeOK, Log
    <3> QED BY <3>1, <3>2, <3>3
  <2>5. InTables(manifest)' = InTables(manifest) \cup UNION {tables[t] : t \in added}
    BY <2>1, <2>2 DEF InTables
  <2> QED BY <1>2, <1>3, <2>3, <2>4, <2>5 DEF Recoverable
<1> QED BY <1>4, <1>5, <1>6, <1>7, <1>8

(* With no write under way the next start finds just what a reader finds.  *)
LEMMA NoneUnderWay ==
  ASSUME BoundsAssumption, TypeOK, DiskInv, LogInv, RunInv, writing = 0
  PROVE  Recoverable = Readable
<1>1. {v \in Write : v = writing} = {}
  BY DEF Write
<1> QED BY <1>1, RunningHolds

(* Nor does opening, closing, switching memtables or flushing them.        *)
LEMMA RunStutters ==
  ASSUME BoundsAssumption, StoreInv,
         \/ FinishOpen \/ SwitchMemTable \/ AddRecord \/ BuildTable \/ SkipCompaction \/ LogEdit
         \/ CompactionFails \/ InstallEdit \/ FinishCompaction \/ Close \/ Closed
  PROVE  Contents' = Contents /\ promised' = promised
<1>1. /\ TypeOK /\ DiskInv /\ LogInv /\ RunInv /\ phase \in {"installed", "open", "closing"}
  <2>1. phase \in {"installed", "open", "closing"}
    BY BackgroundRuns DEF FinishOpen, SwitchMemTable, AddRecord, BuildTable, SkipCompaction, LogEdit,
       CompactionFails, InstallEdit, FinishCompaction, Close, Closed, MayWrite
  <2> QED BY <2>1 DEF StoreInv
<1>2. promised' = promised
  BY DEF FinishOpen, SwitchMemTable, AddRecord, BuildTable, SkipCompaction, LogEdit,
         CompactionFails, InstallEdit, FinishCompaction, Close, Closed, history
<1>3. versions.tables \subseteq DOMAIN tables
  BY <1>1 DEF RunInv, Current, Flushed, DiskInv, Sound
<1>4. CASE FinishOpen
  <2>1. NoMemory /\ ~Running /\ Running'
    BY <1>4 DEF StoreInv, Steady, FinishOpen, Running
  <2>2. Recoverable = Readable
    BY <1>1, <2>1, NoneUnderWay DEF NoMemory
  <2>3. InTables(versions)' = InTables(versions)
    BY <1>3, <1>4 DEF FinishOpen, DeleteObsoleteFiles, Restrict, InTables, memory
  <2>4. Readable' = Readable
    BY <1>4, <2>3 DEF FinishOpen, memory, Readable
  <2> QED BY <1>2, <2>1, <2>2, <2>4 DEF Contents
<1>5. CASE Closed
  <2>1. phase = "closing" /\ ~Running' /\ tables' = tables /\ logs' = logs /\ manifest' = manifest
    BY <1>5 DEF Closed, Forget, disk, Running
  <2>2. Running /\ writing = 0
    BY <2>1 DEF StoreInv, Steady, Running
  <2>3. Recoverable' = Recoverable
    BY <2>1 DEF Recoverable, InTables, InLogs
  <2> QED BY <1>1, <1>2, <2>1, <2>2, <2>3, NoneUnderWay DEF Contents
<1>6. CASE SwitchMemTable
  <2>1. /\ Running /\ Running' /\ imm = {} /\ imm' = mem /\ mem' = {} /\ tables' = tables
        /\ versions' = [versions EXCEPT !.next = @ + 1]
    BY <1>6 DEF SwitchMemTable, MayWrite, RoomForOld, Running
  <2>2. versions'.tables = versions.tables
    BY <1>1, <2>1 DEF TypeOK, Version
  <2> QED BY <1>2, <2>1, <2>2 DEF Contents, Readable, InTables
<1>7. CASE AddRecord \/ SkipCompaction \/ LogEdit \/ CompactionFails \/ Close
  <2>1. /\ Running /\ Running' /\ imm' = imm /\ mem' = mem /\ tables' = tables
        /\ versions' = versions
    BY <1>7, BackgroundRuns DEF AddRecord, SkipCompaction, LogEdit, CompactionFails, Close,
       MayWrite, Running, disk, memory
  <2> QED BY <1>2, <2>1 DEF Contents, Readable, InTables
<1>8. CASE BuildTable
  <2>1. /\ Running /\ Running' /\ imm' = imm /\ mem' = mem
        /\ tables' = With(tables, versions.next, imm)
        /\ versions' = [versions EXCEPT !.next = @ + 1]
    BY <1>8 DEF BuildTable, Running
  <2>2. versions'.tables = versions.tables
    BY <1>1, <2>1 DEF TypeOK, Version
  <2>3. versions.next \notin versions.tables
    <3>1. \A t \in versions.tables : t < durable.next
      BY <1>1 DEF RunInv, DiskInv, Sound
    <3>2. durable.next <= manifest.next /\ manifest.next <= versions.next
      BY <1>1 DEF RunInv, DiskInv
    <3> QED BY <1>1, <3>1, <3>2, Types DEF TypeOK, Version
  <2>4. \A t \in versions.tables : tables'[t] = tables[t]
    BY <1>3, <2>1, <2>3 DEF With
  <2>5. InTables(versions)' = InTables(versions)
    BY <2>2, <2>4 DEF InTables
  <2> QED BY <1>2, <2>1, <2>5 DEF Contents, Readable
<1>9. CASE InstallEdit
  <2>1. background = "logged"
    BY <1>9 DEF InstallEdit
  <2>2. PICK t \in File : added = {t} /\ Flushed(t)
    BY <1>1, <2>1 DEF RunInv
  <2>3. Running /\ Running' /\ imm' = {} /\ mem' = mem /\ tables' = tables /\ versions' = Edited
    BY <1>9, <2>1, BackgroundRuns DEF InstallEdit, Running
  <2>4. versions'.tables = versions.tables \cup {t} /\ tables[t] = imm
    BY <1>1, <2>2, <2>3, EditedIs DEF Flushed, TableOfImm
  <2>5. InTables(versions)' = InTables(versions) \cup imm
    BY <2>3, <2>4 DEF InTables
  <2> QED BY <1>2, <2>3, <2>5 DEF Contents, Readable
<1>10. CASE FinishCompaction
  <2>1. background = "installed"
    BY <1>10 DEF FinishCompaction
  <2>2. Running /\ Running' /\ imm' = imm /\ mem' = mem /\ versions' = versions
    BY <1>10, <2>1, BackgroundRuns DEF FinishCompaction, Running, memory
  <2>3. InTables(versions)' = InTables(versions)
    BY <1>3, <1>10, <2>2 DEF FinishCompaction, DeleteObsoleteFiles, Restrict, InTables
  <2> QED BY <1>2, <2>2, <2>3 DEF Contents, Readable
<1> QED BY <1>4, <1>5, <1>6, <1>7, <1>8, <1>9, <1>10

(* The next start finds no more than what a reader finds and the write     *)
(* under way, which is newer.                                              *)
LEMMA NextStartFinds ==
  ASSUME BoundsAssumption, StoreInv
  PROVE  \/ writing \notin Write /\ Recoverable = Contents
         \/ /\ writing \in Write /\ Recoverable = Contents \cup {writing}
            /\ \A v \in Contents : v < writing
<1>1. CASE ~Running
  <2>1. writing = 0
    BY <1>1, UnderWayIsNew DEF Running
  <2> QED BY <1>1, <2>1 DEF Contents, Write
<1>2. CASE Running
  <2>1. TypeOK /\ DiskInv /\ LogInv /\ RunInv
    BY <1>2 DEF StoreInv, Running
  <2>2. Contents = Readable
    BY <1>2 DEF Contents
  <2>3. CASE writing = 0
    BY <2>1, <2>2, <2>3, NoneUnderWay DEF Write
  <2>4. CASE writing # 0
    <3>1. writing \in Write /\ writing = versions.last + 1
      BY <2>1, <2>4, RunningHolds
    <3>2. Recoverable = Readable \cup {writing}
      BY <2>1, <3>1, RunningHolds
    <3>3. \A v \in Readable : v < writing
      <4>1. \A v \in Readable : v \in Nat /\ v <= versions.last
        BY <2>1, RunningHolds, Types
      <4> QED BY <2>1, <3>1, <4>1, Types
    <3> QED BY <2>2, <3>1, <3>2, <3>3
  <2> QED BY <2>3, <2>4
<1> QED BY <1>1, <1>2

(* A write is committed.                                                   *)
LEMMA WriteCommits ==
  ASSUME BoundsAssumption, StoreInv, NEW sync \in BOOLEAN, FinishWrite(sync)
  PROVE  /\ writing \in Write /\ \A v \in Contents : v < writing
         /\ Contents' = Contents \cup {writing}
         /\ promised' \in {promised, promised \cup {writing}}
<1>1. writing # 0 /\ mem' = mem \cup {writing} /\ imm' = imm /\ tables' = tables /\ phase' = phase
      /\ versions' = [versions EXCEPT !.last = writing]
      /\ promised' \in {promised, promised \cup {writing}}
  BY DEF FinishWrite
<1>2. phase = "open" /\ RunInv /\ LogInv
  BY <1>1, UnderWayIsNew
<1>3. TypeOK /\ DiskInv
  BY DEF StoreInv
<1>4. Contents = Readable /\ Contents' = Readable'
  BY <1>1, <1>2 DEF Contents, Running
<1>5. versions'.tables = versions.tables
  BY <1>1, <1>3 DEF TypeOK, Version
<1>6. Readable' = Readable \cup {writing}
  BY <1>1, <1>5 DEF Readable, InTables
<1>7. writing \in Write /\ \A v \in Readable : v < writing
  BY <1>1, <1>2, <1>3, RunningHolds, Types
<1> QED BY <1>1, <1>4, <1>6, <1>7

(* The end of the process takes at most the write under way.               *)
LEMMA ProcessEndKeeps ==
  ASSUME BoundsAssumption, StoreInv, ProcessEnds
  PROVE  /\ promised' = promised
         /\ \/ Contents' = Contents
            \/ /\ writing \in Write /\ Contents' = Contents \cup {writing}
               /\ \A v \in Contents : v < writing
<1>1. /\ TypeOK /\ DiskInv /\ Forget /\ promised' = promised
      /\ logs' \in {logs, [n \in DOMAIN logs |-> [logs[n] EXCEPT !.written = @ \ {writing}]]}
      /\ UNCHANGED <<created, tables, manifest, durable, promised>>
  BY DEF ProcessEnds, StoreInv
<1>2. Contents' = Recoverable'
  BY <1>1 DEF Forget, Running, Contents
<1>3. /\ DOMAIN logs' = DOMAIN logs
      /\ \/ \A n \in DOMAIN logs : logs'[n].written = logs[n].written
         \/ \A n \in DOMAIN logs : logs'[n].written = logs[n].written \ {writing}
  BY <1>1, TornLogs
<1>4. CASE \A n \in DOMAIN logs : logs'[n].written = logs[n].written
  <2>1. Recoverable' = Recoverable
    BY <1>1, <1>3, <1>4 DEF Recoverable, InTables, InLogs
  <2> QED BY <1>1, <1>2, <2>1, NextStartFinds
<1>5. CASE writing \notin Write
  <2>1. \A n \in DOMAIN logs : logs[n].written \subseteq Write
    BY <1>1 DEF TypeOK, Log
  <2>2. \A n \in DOMAIN logs : logs'[n].written = logs[n].written
    BY <1>3, <1>5, <2>1
  <2> QED BY <1>4, <2>2
<1>6. CASE /\ writing \in Write
           /\ \A n \in DOMAIN logs : logs'[n].written = logs[n].written \ {writing}
  <2>1. InTables(manifest)' = InTables(manifest)
    BY <1>1 DEF InTables
  <2>2. InLogs(manifest)' = InLogs(manifest) \ {writing}
    BY <1>1, <1>3, <1>6 DEF InLogs
  <2>3. writing \notin InTables(manifest)
    <3>1. ~Tabled(manifest.tables, tables, writing)
      BY <1>6, UnderWayIsNew DEF Write
    <3> QED BY <3>1 DEF InTables, Tabled
  <2>4. Recoverable' = Recoverable \ {writing}
    BY <2>1, <2>2, <2>3 DEF Recoverable
  <2>5. Recoverable = Contents \cup {writing} /\ \A v \in Contents : v < writing
    BY <1>6, NextStartFinds
  <2>6. writing \notin Contents
    BY <1>1, <2>5, Types
  <2> QED BY <1>1, <1>2, <2>4, <2>5, <2>6
<1> QED BY <1>3, <1>4, <1>5, <1>6

(* A power failure takes nothing that was promised, and adds nothing but   *)
(* the write under way.                                                    *)
LEMMA PowerFailureKeeps ==
  ASSUME BoundsAssumption, StoreInv, PowerFails
  PROVE  /\ promised' = promised /\ promised \subseteq Contents'
         /\ \/ Contents' \subseteq Contents
            \/ /\ writing \in Write /\ Contents' \subseteq Contents \cup {writing}
               /\ \A v \in Contents : v < writing
<1>1. PICK cut \in [DOMAIN logs -> 0 .. MaxWrite] :
        logs' = [n \in DOMAIN logs |-> [written |-> Cut(logs[n], cut[n]),
                                        synced |-> Cut(logs[n], cut[n])]]
  BY DEF PowerFails
<1>2. /\ TypeOK /\ DiskInv /\ Forget /\ tables' = tables /\ promised' = promised
      /\ manifest' \in {manifest, durable}
  BY DEF PowerFails, StoreInv
<1>3. Contents' = Recoverable'
  BY <1>2 DEF Forget, Running, Contents
<1>4. /\ DOMAIN logs' = DOMAIN logs
      /\ \A n \in DOMAIN logs : /\ logs'[n].written \subseteq logs[n].written
                              /\ logs'[n].written = logs'[n].synced
                              /\ logs'[n].written \subseteq Write
  BY <1>1, <1>2 DEF Cut, TypeOK, Log
<1>5. StoreInv'
  BY PowerFailsStep
<1>6. \A v \in promised : v \in Recoverable'
  <2>1. \A v \in promised : Tabled(manifest'.tables, tables', v) \/ SyncedIn(manifest'.log, logs', v)
    BY <1>2, <1>5 DEF StoreInv, DiskInv, Keeps
  <2> QED BY <1>4, <2>1 DEF Tabled, SyncedIn, Recoverable, InTables, InLogs
<1>7. Recoverable' \subseteq Recoverable
  <2>1. manifest'.tables \subseteq DOMAIN tables
    BY <1>2 DEF DiskInv, Sound
  <2>2. \A v \in Recoverable' : v \in Write /\ (Tabled(manifest'.tables, tables, v) \/ Logged(manifest'.log, logs, v))
    BY <1>2, <1>4, <2>1 DEF Recoverable, InTables, InLogs, Tabled, Logged, TypeOK
  <2>3. \A v \in Recoverable' : Recovers(manifest, v)
    BY <1>2, <2>2 DEF DiskInv, Recovers
  <2> QED BY <2>3 DEF Recovers, Tabled, Logged, Recoverable, InTables, InLogs
<1> QED BY <1>2, <1>3, <1>6, <1>7, NextStartFinds

(* The database keeps the promise of Store.                                *)
THEOREM StoreImplemented ==
  ASSUME BoundsAssumption
  PROVE  Spec => ImplementsStore
<1>1. Init => Outside!Init
  <2> SUFFICES ASSUME Init PROVE Outside!Init
    OBVIOUS
  <2>1. ~Running /\ promised = {} /\ DOMAIN logs = {} /\ manifest.tables = {}
    BY DEF Init, Running, Blank
  <2>2. Recoverable = {}
    BY <2>1 DEF Recoverable, InTables, InLogs
  <2> QED BY <2>1, <2>2 DEF Outside!Init
<1>2. StoreInv /\ [Next]_vars => [Outside!Next]_(Outside!vars)
  <2> SUFFICES ASSUME StoreInv, [Next]_vars PROVE [Outside!Next]_(Outside!vars)
    OBVIOUS
  <2>1. ASSUME Contents' = Contents, promised' = promised
        PROVE  UNCHANGED Outside!vars
    BY <2>1 DEF Contents, Outside!vars
  <2>2. CASE UNCHANGED vars
    <3>1. Contents' = Contents /\ promised' = promised
      BY <2>2 DEF vars, disk, memory, history, Contents, Running, Readable, Recoverable,
                  InTables, InLogs
    <3> QED BY <2>1, <3>1
  <2>3. CASE NewDB \/ Recover \/ (\E n \in left : RecoverLogFile(n)) \/ CreateLog \/ SaveManifest
    BY <2>1, <2>3, StartStutters
  <2>4. CASE \/ FinishOpen \/ SwitchMemTable \/ AddRecord \/ BuildTable \/ SkipCompaction \/ LogEdit
             \/ CompactionFails \/ InstallEdit \/ FinishCompaction \/ Close \/ Closed
    BY <2>1, <2>4, RunStutters
  <2>5. CASE \E sync \in BOOLEAN : FinishWrite(sync)
    <3>1. /\ writing \in Write /\ \A v \in Contents : v < writing
          /\ Contents' = Contents \cup {writing}
          /\ promised' \in {promised, promised \cup {writing}}
      BY <2>5, WriteCommits
    <3>2. Outside!Commit(writing)
      BY <3>1 DEF Outside!Commit, Outside!Newest, Contents
    <3> QED BY <3>1, <3>2 DEF Outside!Next
  <2>6. CASE ProcessEnds
    <3>1. /\ promised' = promised
          /\ \/ Contents' = Contents \cup {}
             \/ /\ writing \in Write /\ Contents' = Contents \cup {writing}
                /\ \A v \in Contents : v < writing
      BY <2>6, ProcessEndKeeps
    <3>2. Outside!ProcessEnds
      BY <3>1 DEF Outside!ProcessEnds, Outside!UnderWay, Outside!Newest, Contents
    <3> QED BY <3>2 DEF Outside!Next
  <2>7. CASE PowerFails
    <3>1. /\ promised' = promised /\ promised \subseteq Contents'
          /\ \/ Contents' \subseteq Contents \cup {}
             \/ /\ writing \in Write /\ Contents' \subseteq Contents \cup {writing}
                /\ \A v \in Contents : v < writing
      BY <2>7, PowerFailureKeeps
    <3>2. Outside!PowerFails
      BY <3>1 DEF Outside!PowerFails, Outside!UnderWay, Outside!Newest, Contents
    <3> QED BY <3>2 DEF Outside!Next
  <2> QED BY <2>2, <2>3, <2>4, <2>5, <2>6, <2>7 DEF Next
<1> QED BY <1>1, <1>2, StoreAlways, PTL DEF Spec, ImplementsStore, Outside!Spec
=============================================================================
