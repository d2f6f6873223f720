-------------------------- MODULE OperationsProofs --------------------------
(***************************************************************************)
(* Proofs about the operator's tools that keep their state in files: the   *)
(* bootstrap of the host, the isolation probes, the metric-v2 baselines    *)
(* and the experiment runner.  The tools share no state, so each has an    *)
(* inductive invariant of its own.                                         *)
(***************************************************************************)
EXTENDS Bootstrap, Probes, Baselines, Experiment, FiniteSetTheorems, TLAPS

-----------------------------------------------------------------------------
(* The bootstrap of the host. *)

Lines == {NoLine} \cup (Endpoints \X Machines)

MetaRecord ==
    [host : BOOLEAN, ssh : BOOLEAN, probed : BOOLEAN, login : BOOLEAN, accepted : BOOLEAN,
     live : SUBSET ApiKeys, deleted : BOOLEAN, written : BOOLEAN]

DiskRecord ==
    [handoff : BOOLEAN, store : Endpoints \cup {NoStore}, pin : Lines, candidate : Lines,
     meta : MetaRecord]

Rotating == {"unpin", "uncapture", "rotated"}
Installing == {"install", "verify", "verified"}
Scripting == {"execute", "cleanup"}

Steps == {"idle", "migrated", "finalized", "pinned", "probe", "probed", "upload"}
            \cup Rotating \cup Installing \cup Scripting

OpRecord ==
    [pc : Steps, to : {NoStore}, meta : MetaRecord, sample : Machines \cup {NoStore},
     failed : BOOLEAN]

SeenRecord == [password : SUBSET Own, earned : BOOLEAN, torn : BOOLEAN, lost : BOOLEAN]

\* Every variable has its type; only the operator's machines were sent the password.
BootstrapTypes ==
    /\ disk \in DiskRecord
    /\ net \in [at : [Endpoints -> Machines], keyed : SUBSET Machines]
    /\ op \in OpRecord
    /\ remote \in {"absent", "uploaded"}
    /\ seen \in SeenRecord

\* A pin was confirmed, and a command or a candidate has a server to talk to.
Pinned ==
    /\ disk.pin # NoLine => disk.pin[2] \in Own
    /\ op.pc # "idle" \/ disk.candidate # NoLine => disk.store \in Endpoints

\* The ssh flag was earned on the endpoint in the store, unless the last rotation was cut off.
Earned ==
    /\ disk.meta.ssh => \/ seen.earned \/ seen.torn
                        \/ op.pc \in Rotating
    /\ disk.meta.ssh \/ op.pc \in Installing => disk.meta.written
    /\ op.pc = "verified" => seen.earned
    /\ op.pc = "finalized" => /\ op.meta.ssh => seen.earned \/ seen.torn
                              /\ op.meta.written

\* The script of the last run is on the host only between its upload and its clean-up.
Tidy == remote # "absent" => seen.lost \/ op.pc \in Scripting

BootstrapInv == BootstrapTypes /\ Pinned /\ Earned /\ Tidy

\* Nothing has happened yet.
LEMMA BootstrapInitInv == BootstrapInit => BootstrapInv
    <1> SUFFICES ASSUME BootstrapInit PROVE BootstrapInv
        OBVIOUS
    <1>1. NoMeta \in MetaRecord /\ ~NoMeta.ssh
        BY DEF NoMeta, MetaRecord
    <1>2. PICK m \in MetaRecord : m = NoMeta /\ ~m.ssh
        BY <1>1
    <1>3. Quiet \in OpRecord /\ Quiet.pc = "idle"
        BY <1>2 DEF Quiet, OpRecord, Steps
    <1>4. disk = [handoff |-> TRUE, store |-> NoStore, pin |-> NoLine, candidate |-> NoLine,
                  meta |-> m]
        BY <1>2 DEF BootstrapInit
    <1>5. /\ disk \in DiskRecord /\ disk.meta = m /\ disk.pin = NoLine
          /\ disk.candidate = NoLine
        BY <1>4 DEF DiskRecord, Lines
    <1>6. /\ net \in [at : [Endpoints -> Machines], keyed : SUBSET Machines]
          /\ seen \in SeenRecord /\ op = Quiet /\ remote = "absent"
        BY DEF BootstrapInit, SeenRecord
    <1>7. BootstrapTypes
        BY <1>3, <1>5, <1>6 DEF BootstrapTypes
    <1>8. Pinned /\ Earned /\ Tidy
        BY <1>2, <1>3, <1>5, <1>6 DEF Pinned, Earned, Tidy, Rotating, Installing
    <1>9. QED
        BY <1>7, <1>8 DEF BootstrapInv


\* A command that has ended.
LEMMA QuietFacts ==
    /\ Quiet \in OpRecord /\ Quiet.pc = "idle"
    /\ NoMeta \in MetaRecord /\ ~NoMeta.ssh /\ ~NoMeta.written
    <1>1. PICK m : m = NoMeta
        OBVIOUS
    <1>2. m \in MetaRecord /\ ~m.ssh /\ ~m.written
        BY <1>1 DEF NoMeta, MetaRecord
    <1>3. Quiet = [pc |-> "idle", to |-> NoStore, meta |-> m, sample |-> NoStore,
                   failed |-> FALSE]
        BY <1>1 DEF Quiet
    <1>4. QED
        BY <1>1, <1>2, <1>3 DEF OpRecord, Steps

\* The last write of a command, or the only one: its metadata.
LEMMA MetaStep ==
    ASSUME BootstrapInv, NEW m \in MetaRecord, disk' = [disk EXCEPT !.meta = m],
           NEW s \in SeenRecord, seen' = s, s.lost = seen.lost,
           m.ssh => m.written /\ (s.earned \/ s.torn),
           NEW y \in OpRecord, op' = y, y.pc = "idle", op.pc \notin Scripting,
           UNCHANGED <<net, remote>>
    PROVE  BootstrapInv'
    <1>1. PICK r : r = [disk EXCEPT !.meta = m]
        OBVIOUS
    <1>2. /\ r \in DiskRecord /\ r.store = disk.store /\ r.pin = disk.pin
          /\ r.candidate = disk.candidate /\ r.meta = m
        BY <1>1 DEF BootstrapInv, BootstrapTypes, DiskRecord
    <1>3. disk' = r /\ op'.pc = "idle"
        BY <1>1
    <1>4. BootstrapTypes'
        BY <1>2, <1>3 DEF BootstrapInv, BootstrapTypes
    <1>5. Pinned'
        BY <1>2, <1>3 DEF BootstrapInv, Pinned
    <1>6. Earned'
        BY <1>2, <1>3 DEF Earned, Rotating, Installing
    <1>7. Tidy'
        BY <1>3 DEF BootstrapInv, Tidy, Scripting
    <1>8. QED
        BY <1>4, <1>5, <1>6, <1>7 DEF BootstrapInv

\* A step of a command that writes no file.
LEMMA SessionStep ==
    ASSUME BootstrapInv, UNCHANGED disk,
           NEW z \in [at : [Endpoints -> Machines], keyed : SUBSET Machines], net' = z,
           NEW y \in OpRecord, op' = y, y.pc # "finalized",
           y.pc # "idle" => disk.store \in Endpoints,
           y.pc \in Installing => disk.meta.written,
           NEW s \in SeenRecord, seen' = s,
           disk.meta.ssh => s.earned \/ s.torn \/ y.pc \in Rotating,
           y.pc = "verified" => s.earned,
           NEW w \in {"absent", "uploaded"}, remote' = w,
           w # "absent" => s.lost \/ y.pc \in Scripting
    PROVE  BootstrapInv'
    <1>1. BootstrapTypes'
        BY DEF BootstrapInv, BootstrapTypes
    <1>2. Pinned'
        BY DEF BootstrapInv, Pinned
    <1>3. Earned'
        BY DEF BootstrapInv, Earned
    <1>4. Tidy'
        BY DEF Tidy
    <1>5. QED
        BY <1>1, <1>2, <1>3, <1>4 DEF BootstrapInv

\* The server that answers; with strict checking it is one the operator confirmed.
LEMMA ServerFacts ==
    ASSUME BootstrapInv, disk.store \in Endpoints
    PROVE  Server \in Machines /\ (Strict => Server \in Own)
    <1>1. Server \in Machines
        BY DEF BootstrapInv, BootstrapTypes, Server
    <1>2. ASSUME Strict PROVE Server \in Own
        <2>1. PICK a, b : a = disk.store /\ b = Server
            OBVIOUS
        <2>2. disk.pin = <<a, b>>
            BY <1>2, <2>1 DEF Strict
        <2>3. disk.pin # NoLine /\ disk.pin[2] = b
            BY <2>2 DEF NoLine
        <2>4. QED
            BY <2>1, <2>3 DEF BootstrapInv, Pinned
    <1>3. QED
        BY <1>1, <1>2

\* The writes of the metadata.
LEMMA MetadataInv ==
    ASSUME BootstrapInv,
           \/ MigrateMetadata \/ RotateMetadata \/ AcceptCredentials \/ RecordLive
           \/ FinalizeMetadata \/ AcceptMetadata \/ InstallMetadata \/ ProbeMetadata
    PROVE  BootstrapInv'
    <1>1. /\ disk \in DiskRecord /\ disk.meta \in MetaRecord /\ op \in OpRecord
          /\ op.meta \in MetaRecord /\ seen \in SeenRecord
        BY DEF BootstrapInv, BootstrapTypes, DiskRecord, OpRecord
    <1>2. PICK o \in MetaRecord : o = disk.meta
        BY <1>1
    <1>3. o.ssh => o.written /\ (seen.earned \/ seen.torn \/ op.pc \in Rotating)
        BY <1>2 DEF BootstrapInv, Earned
    <1>4. ASSUME \/ MigrateMetadata \/ AcceptCredentials \/ RecordLive \/ FinalizeMetadata
                 \/ AcceptMetadata \/ InstallMetadata \/ ProbeMetadata
          PROVE  UNCHANGED <<net, remote, seen>>
        BY <1>4 DEF MigrateMetadata, AcceptCredentials, RecordLive, FinalizeMetadata,
                    AcceptMetadata, InstallMetadata, ProbeMetadata
    <1>5. CASE MigrateMetadata
        <2>1. PICK m : m = [NoMeta EXCEPT !.written = TRUE]
            OBVIOUS
        <2>2. m \in MetaRecord /\ ~m.ssh
            BY <2>1, QuietFacts DEF MetaRecord
        <2>3. disk' = [disk EXCEPT !.meta = m] /\ op' = Quiet /\ op.pc = "migrated"
            BY <1>5, <2>1 DEF MigrateMetadata, Done
        <2>4. QED
            BY <1>1, <1>4, <1>5, <2>2, <2>3, QuietFacts, MetaStep DEF Scripting
    <1>6. CASE RotateMetadata
        <2>1. PICK m : m = RotatedMeta(op.meta)
            OBVIOUS
        <2>2. m \in MetaRecord /\ ~m.ssh
            BY <1>1, <2>1 DEF MetaRecord, RotatedMeta
        <2>3. /\ disk' = [disk EXCEPT !.meta = m] /\ op' = Quiet /\ op.pc = "rotated"
              /\ UNCHANGED <<net, remote>> /\ seen' = [seen EXCEPT !.torn = FALSE]
            BY <1>6, <2>1 DEF RotateMetadata, Done
        <2>4. PICK s : s = [seen EXCEPT !.torn = FALSE]
            OBVIOUS
        <2>5. s \in SeenRecord /\ s.lost = seen.lost /\ seen' = s
            BY <1>1, <2>3, <2>4 DEF SeenRecord
        <2>6. QED
            BY <2>2, <2>3, <2>5, QuietFacts, MetaStep DEF Scripting
    <1>7. CASE AcceptCredentials
        <2>1. PICK m : m = [o EXCEPT !.accepted = TRUE, !.login = o.ssh, !.live = {}]
            OBVIOUS
        <2>2. m \in MetaRecord /\ m.ssh = o.ssh /\ m.written = o.written
            BY <2>1 DEF MetaRecord
        <2>3. disk' = [disk EXCEPT !.meta = m] /\ op' = op /\ op.pc = "idle"
            BY <1>1, <1>2, <1>7, <2>1 DEF AcceptCredentials, Idle, DiskRecord, MetaRecord
        <2>4. PICK y \in OpRecord : y = op /\ y.pc = "idle"
            BY <1>1, <2>3
        <2>5. QED
            BY <1>1, <1>3, <1>4, <1>7, <2>2, <2>3, <2>4, MetaStep DEF Scripting, Rotating
    <1>8. CASE RecordLive
        <2>1. PICK k \in ApiKeys : disk' = [disk EXCEPT !.meta.live = disk.meta.live \cup {k}]
            BY <1>8 DEF RecordLive
        <2>2. PICK m : m = [o EXCEPT !.live = o.live \cup {k}]
            OBVIOUS
        <2>3. m \in MetaRecord /\ m.ssh = o.ssh /\ m.written = o.written
            BY <2>2 DEF MetaRecord
        <2>4. disk' = [disk EXCEPT !.meta = m] /\ op' = op /\ op.pc = "idle"
            BY <1>1, <1>2, <1>8, <2>1, <2>2 DEF RecordLive, Idle, DiskRecord, MetaRecord
        <2>5. PICK y \in OpRecord : y = op /\ y.pc = "idle"
            BY <1>1, <2>4
        <2>6. QED
            BY <1>1, <1>3, <1>4, <1>8, <2>3, <2>4, <2>5, MetaStep DEF Scripting, Rotating
    <1>9. CASE FinalizeMetadata
        <2>1. PICK q \in MetaRecord : q = op.meta
            BY <1>1
        <2>2. PICK m : m = [q EXCEPT !.deleted = TRUE]
            OBVIOUS
        <2>3. m \in MetaRecord /\ m.ssh = q.ssh /\ m.written = q.written
            BY <2>2 DEF MetaRecord
        <2>4. disk' = [disk EXCEPT !.meta = m] /\ op' = Quiet /\ op.pc = "finalized"
            BY <1>9, <2>1, <2>2 DEF FinalizeMetadata, Done
        <2>5. q.ssh => q.written /\ (seen.earned \/ seen.torn)
            BY <2>1, <2>4 DEF BootstrapInv, Earned
        <2>6. QED
            BY <1>1, <1>4, <1>9, <2>3, <2>4, <2>5, QuietFacts, MetaStep DEF Scripting
    <1>10. CASE AcceptMetadata
        <2>1. PICK m : m = IF o.written THEN [o EXCEPT !.host = TRUE] ELSE o
            OBVIOUS
        <2>2. m \in MetaRecord /\ m.ssh = o.ssh /\ m.written = o.written
            BY <2>1 DEF MetaRecord
        <2>3. disk' = [disk EXCEPT !.meta = m] /\ op' = Quiet /\ op.pc = "pinned"
            BY <1>1, <1>2, <1>10, <2>1 DEF AcceptMetadata, Done, DiskRecord, MetaRecord
        <2>4. QED
            BY <1>1, <1>3, <1>4, <1>10, <2>2, <2>3, QuietFacts, MetaStep DEF Scripting, Rotating
    <1>11. CASE InstallMetadata
        <2>1. PICK m : m = [o EXCEPT !.ssh = TRUE, !.login = TRUE]
            OBVIOUS
        <2>2. m \in MetaRecord /\ m.written = o.written
            BY <2>1 DEF MetaRecord
        <2>3. disk' = [disk EXCEPT !.meta = m] /\ op' = Quiet /\ op.pc = "verified"
            BY <1>1, <1>2, <1>11, <2>1 DEF InstallMetadata, Done, DiskRecord, MetaRecord
        <2>4. o.written /\ seen.earned
            BY <1>2, <2>3 DEF BootstrapInv, Earned, Installing
        <2>5. QED
            BY <1>1, <1>4, <1>11, <2>2, <2>3, <2>4, QuietFacts, MetaStep DEF Scripting
    <1>12. CASE ProbeMetadata
        <2>1. PICK m : m = [o EXCEPT !.probed = TRUE]
            OBVIOUS
        <2>2. m \in MetaRecord /\ m.ssh = o.ssh /\ m.written = o.written
            BY <2>1 DEF MetaRecord
        <2>3. disk' = [disk EXCEPT !.meta = m] /\ op' = Quiet /\ op.pc = "probed"
            BY <1>1, <1>2, <1>12, <2>1 DEF ProbeMetadata, Done, DiskRecord, MetaRecord
        <2>4. QED
            BY <1>1, <1>3, <1>4, <1>12, <2>2, <2>3, QuietFacts, MetaStep DEF Scripting, Rotating
    <1>13. QED
        BY <1>5, <1>6, <1>7, <1>8, <1>9, <1>10, <1>11, <1>12

\* The sessions with the server, and a command that is killed.
LEMMA SessionInv ==
    ASSUME BootstrapInv,
           \/ StartInstall \/ InstallKey \/ VerifyKey \/ StartProbe \/ Reprobe
           \/ StartRemote \/ Upload \/ Execute \/ Cleanup \/ Kill
    PROVE  BootstrapInv'
    <1>1. /\ op \in OpRecord /\ seen \in SeenRecord /\ remote \in {"absent", "uploaded"}
          /\ net \in [at : [Endpoints -> Machines], keyed : SUBSET Machines]
          /\ disk \in DiskRecord
        BY DEF BootstrapInv, BootstrapTypes
    <1>2. UNCHANGED disk
        BY DEF StartInstall, InstallKey, VerifyKey, StartProbe, Reprobe, StartRemote, Upload,
               Uploaded, PathUnknown, Execute, Cleanup, Kill, Raised
    <1>3. disk.store \in Endpoints
        <2>1. CASE op.pc # "idle"
            BY <2>1 DEF BootstrapInv, Pinned
        <2>2. CASE Migrated
            BY <1>1, <2>2 DEF Migrated, DiskRecord
        <2>3. QED
            BY <2>1, <2>2 DEF StartInstall, InstallKey, VerifyKey, StartProbe, Reprobe,
               StartRemote, Upload, Execute, Cleanup, Kill, Idle
    <1>4. Server \in Machines /\ (Strict => Server \in Own) /\ (KeyLogin => Strict)
        BY <1>3, ServerFacts DEF KeyLogin
    <1>5. /\ disk.meta.ssh => seen.earned \/ seen.torn \/ op.pc \in Rotating
          /\ op.pc \in Installing => disk.meta.written
          /\ remote # "absent" => seen.lost \/ op.pc \in Scripting
        BY DEF BootstrapInv, Earned, Tidy
    <1>6. PICK p : p = [seen EXCEPT !.password = @ \cup {Server}]
        OBVIOUS
    <1>7. /\ Strict => p \in SeenRecord
          /\ p.earned = seen.earned /\ p.torn = seen.torn /\ p.lost = seen.lost
        BY <1>1, <1>4, <1>6 DEF SeenRecord
    <1>8. ASSUME NEW s \in Steps, NEW y, y = [Quiet EXCEPT !.pc = s] \/ y = [op EXCEPT !.pc = s]
          PROVE  y \in OpRecord /\ y.pc = s
        BY <1>1, <1>8, QuietFacts DEF OpRecord
    <1>9. CASE Raised /\ (InstallKey \/ VerifyKey \/ Reprobe \/ Upload)
        <2>1. op.pc \in {"install", "verify", "probe", "upload"}
            BY <1>9 DEF InstallKey, VerifyKey, Reprobe, Upload
        <2>2. op' = Quiet /\ UNCHANGED <<net, remote, seen>>
            BY <1>9 DEF Raised, Done
        <2>3. QED
            BY <1>1, <1>2, <1>5, <2>1, <2>2, QuietFacts, SessionStep
               DEF Rotating, Installing, Scripting
    <1>10. CASE StartInstall
        <2>1. /\ Strict /\ seen' = p /\ op' = [Quiet EXCEPT !.pc = "install"] /\ op.pc = "idle"
              /\ disk.meta.written /\ UNCHANGED <<net, remote>>
            BY <1>6, <1>10 DEF StartInstall, Idle, Migrated
        <2>2. PICK y : y = op'
            OBVIOUS
        <2>3. y \in OpRecord /\ y.pc = "install"
            BY <1>8, <2>1, <2>2 DEF Steps, Installing
        <2>4. QED
            BY <1>1, <1>2, <1>3, <1>5, <1>7, <2>1, <2>2, <2>3, SessionStep
               DEF Rotating, Installing, Scripting
    <1>11. CASE InstallKey /\ ~Raised
        <2>1. /\ Strict /\ seen' = p /\ op.pc = "install" /\ UNCHANGED remote
              /\ net' = [net EXCEPT !.keyed = @ \cup {Server}]
              /\ op' = [op EXCEPT !.pc = "verify"] \/ op' = Quiet
            BY <1>6, <1>11 DEF InstallKey, Done
        <2>2. PICK y : y = op'
            OBVIOUS
        <2>3. y \in OpRecord /\ y.pc \in {"verify", "idle"}
            BY <1>8, <2>1, <2>2, QuietFacts DEF Steps, Installing
        <2>4. PICK z : z = [net EXCEPT !.keyed = @ \cup {Server}]
            OBVIOUS
        <2>5. z \in [at : [Endpoints -> Machines], keyed : SUBSET Machines]
            BY <1>1, <1>4, <2>4
        <2>6. QED
            BY <1>1, <1>2, <1>3, <1>5, <1>7, <2>1, <2>2, <2>3, <2>4, <2>5, SessionStep
               DEF Rotating, Installing, Scripting
    <1>12. CASE VerifyKey /\ ~Raised
        <2>1. /\ op.pc = "verify" /\ op' = [op EXCEPT !.pc = "verified"]
              /\ seen' = [seen EXCEPT !.earned = TRUE] /\ UNCHANGED <<net, remote>>
            BY <1>12 DEF VerifyKey
        <2>2. PICK y : y = op'
            OBVIOUS
        <2>3. y \in OpRecord /\ y.pc = "verified"
            BY <1>8, <2>1, <2>2 DEF Steps, Installing
        <2>4. PICK s : s = [seen EXCEPT !.earned = TRUE]
            OBVIOUS
        <2>5. s \in SeenRecord /\ s.earned /\ s.lost = seen.lost
            BY <1>1, <2>4 DEF SeenRecord
        <2>6. QED
            BY <1>1, <1>2, <1>3, <1>5, <2>1, <2>2, <2>3, <2>4, <2>5, SessionStep
               DEF Rotating, Installing, Scripting
    <1>13. CASE StartProbe \/ (Reprobe /\ ~Raised)
        <2>1. /\ op.pc \in {"idle", "probe"} /\ UNCHANGED <<net, remote, seen>>
            BY <1>13 DEF StartProbe, Reprobe, Idle
        <2>2. PICK y : y = op'
            OBVIOUS
        <2>3. y \in OpRecord /\ y.pc \in {"probe", "probed"}
            <3>1. CASE StartProbe
                <4>1. y = [Quiet EXCEPT !.pc = "probe", !.sample = Server]
                    BY <2>2, <3>1 DEF StartProbe
                <4>2. QED
                    BY <1>4, <4>1, QuietFacts DEF OpRecord, Steps
            <3>2. CASE Reprobe /\ ~Raised
                <4>1. y = [op EXCEPT !.pc = "probed"]
                    BY <2>2, <3>2 DEF Reprobe
                <4>2. QED
                    BY <1>8, <4>1 DEF Steps
            <3>3. QED
                BY <1>13, <3>1, <3>2
        <2>4. QED
            BY <1>1, <1>2, <1>3, <1>5, <2>1, <2>2, <2>3, SessionStep
               DEF Rotating, Installing, Scripting
    <1>14. CASE StartRemote
        <2>1. /\ op.pc = "idle" /\ op' = [Quiet EXCEPT !.pc = "upload"] /\ remote' = "absent"
              /\ UNCHANGED net /\ seen' = [seen EXCEPT !.lost = FALSE]
            BY <1>14 DEF StartRemote, Idle
        <2>2. PICK y : y = op'
            OBVIOUS
        <2>3. y \in OpRecord /\ y.pc = "upload"
            BY <1>8, <2>1, <2>2 DEF Steps
        <2>4. PICK s : s = [seen EXCEPT !.lost = FALSE]
            OBVIOUS
        <2>5. s \in SeenRecord /\ s.earned = seen.earned /\ s.torn = seen.torn
            BY <1>1, <2>4 DEF SeenRecord
        <2>6. QED
            BY <1>1, <1>2, <1>3, <1>5, <2>1, <2>2, <2>3, <2>4, <2>5, SessionStep
               DEF Rotating, Installing, Scripting
    <1>15. CASE Upload /\ ~Raised
        <2>1. /\ op.pc = "upload" /\ remote' = "uploaded" /\ UNCHANGED net
              /\ \/ op' = [op EXCEPT !.pc = "execute"] /\ seen' = seen
                 \/ op' = Quiet /\ seen' = [seen EXCEPT !.lost = TRUE]
            BY <1>15 DEF Upload, Uploaded, PathUnknown, Done
        <2>2. PICK y, s : y = op' /\ s = seen'
            OBVIOUS
        <2>3. y \in OpRecord /\ y.pc \in {"execute", "idle"}
            BY <1>8, <2>1, <2>2, QuietFacts DEF Steps, Scripting
        <2>4. /\ s \in SeenRecord /\ s.earned = seen.earned /\ s.torn = seen.torn
              /\ s.lost \/ y.pc = "execute"
            <3>1. CASE y = [op EXCEPT !.pc = "execute"] /\ s = seen
                BY <1>1, <3>1, <1>8 DEF Steps, Scripting
            <3>2. CASE s = [seen EXCEPT !.lost = TRUE]
                BY <1>1, <3>2 DEF SeenRecord
            <3>3. QED
                BY <2>1, <2>2, <3>1, <3>2
        <2>5. QED
            BY <1>1, <1>2, <1>3, <1>5, <2>1, <2>2, <2>3, <2>4, SessionStep
               DEF Rotating, Installing, Scripting
    <1>16. CASE Execute
        <2>1. PICK f \in BOOLEAN : op' = [op EXCEPT !.pc = "cleanup", !.failed = f]
            BY <1>16 DEF Execute
        <2>2. PICK y : y = [op EXCEPT !.pc = "cleanup", !.failed = f]
            OBVIOUS
        <2>3. y \in OpRecord /\ y.pc = "cleanup" /\ op' = y
            BY <1>1, <2>1, <2>2 DEF OpRecord, Steps, Scripting
        <2>4. op.pc = "execute" /\ UNCHANGED <<net, remote>>
            BY <1>16 DEF Execute
        <2>5. PICK s : s = IF KeyLogin THEN p ELSE seen
            OBVIOUS
        <2>6. /\ s \in SeenRecord /\ s.earned = seen.earned /\ s.torn = seen.torn
              /\ s.lost = seen.lost
            BY <1>1, <1>4, <1>7, <2>5
        <2>7. seen' = s
            BY <1>6, <1>16, <2>5 DEF Execute
        <2>8. QED
            BY <1>1, <1>2, <1>3, <1>5, <2>3, <2>4, <2>6, <2>7, SessionStep
               DEF Rotating, Installing, Scripting
    <1>17. CASE Cleanup
        <2>1. /\ op.pc = "cleanup" /\ op' = Quiet /\ UNCHANGED net
              /\ \/ remote' = "absent" /\ seen' = seen
                 \/ remote' = remote /\ seen' = [seen EXCEPT !.lost = TRUE]
            BY <1>17 DEF Cleanup, Done, CleanupAlways
        <2>2. PICK s : s = seen'
            OBVIOUS
        <2>3. /\ s \in SeenRecord /\ s.earned = seen.earned /\ s.torn = seen.torn
              /\ remote' = "absent" \/ s.lost
            BY <1>1, <2>1, <2>2 DEF SeenRecord
        <2>4. PICK w \in {"absent", "uploaded"} : w = remote'
            BY <1>1, <2>1
        <2>5. QED
            BY <1>1, <1>2, <1>5, <2>1, <2>2, <2>3, <2>4, QuietFacts, SessionStep
               DEF Rotating, Installing, Scripting
    <1>18. CASE Kill
        <2>1. PICK t \in BOOLEAN, l \in BOOLEAN :
                 /\ t = (seen.torn \/ op.pc \in {"unpin", "uncapture", "rotated"})
                 /\ l = (seen.lost \/ op.pc \in {"upload", "execute", "cleanup"})
            BY <1>1 DEF SeenRecord
        <2>2. PICK s : s = [seen EXCEPT !.torn = t, !.lost = l]
            OBVIOUS
        <2>3. /\ s \in SeenRecord /\ s.earned = seen.earned /\ s.torn = t /\ s.lost = l
            BY <1>1, <2>2 DEF SeenRecord
        <2>4. seen' = s /\ op' = Quiet /\ UNCHANGED <<net, remote>>
            BY <1>18, <2>1, <2>2 DEF Kill, Done
        <2>5. disk.meta.ssh => s.earned \/ s.torn
            BY <1>5, <2>1, <2>3 DEF Rotating
        <2>6. remote # "absent" => s.lost
            BY <1>5, <2>1, <2>3 DEF Scripting
        <2>7. QED
            BY <1>1, <1>2, <2>3, <2>4, <2>5, <2>6, QuietFacts, SessionStep DEF Installing
    <1>19. QED
        BY <1>9, <1>10, <1>11, <1>12, <1>13, <1>15, <1>16, <1>17, <1>18, <1>14
           DEF InstallKey, VerifyKey, Reprobe, Upload

\* The writes of the store, the candidate and the pin, and the end of the handoff.
LEMMA FileInv ==
    ASSUME BootstrapInv,
           Migrate \/ Rotate \/ Unpin \/ Finalize \/ Capture \/ AcceptHostKey
    PROVE  BootstrapInv'
    <1>1. /\ op \in OpRecord /\ seen \in SeenRecord /\ remote \in {"absent", "uploaded"}
          /\ net \in [at : [Endpoints -> Machines], keyed : SUBSET Machines]
          /\ disk \in DiskRecord
        BY DEF BootstrapInv, BootstrapTypes
    <1>2. PICK o \in MetaRecord : o = disk.meta
        BY <1>1 DEF DiskRecord
    <1>3. UNCHANGED <<net, remote>>
        BY DEF Migrate, Rotate, Unpin, Finalize, Capture, AcceptHostKey
    <1>4. op.pc \in {"idle"} \cup Rotating
        BY DEF Migrate, Rotate, Unpin, Finalize, Capture, AcceptHostKey, Idle, Rotating
    <1>5. remote # "absent" => seen.lost
        BY <1>4 DEF BootstrapInv, Tidy, Scripting, Rotating
    <1>6. /\ o.ssh => o.written /\ (seen.earned \/ seen.torn \/ op.pc \in Rotating)
          /\ disk.pin # NoLine => disk.pin[2] \in Own
          /\ op.pc # "idle" \/ disk.candidate # NoLine => disk.store \in Endpoints
        BY <1>2 DEF BootstrapInv, Earned, Pinned
    <1>7. ASSUME NEW r \in DiskRecord, disk' = r, r.meta = o,
                 r.pin # NoLine => r.pin[2] \in Own,
                 NEW y \in OpRecord, op' = y,
                 y.pc \in {"idle", "migrated", "finalized", "pinned"} \cup Rotating,
                 y.pc # "idle" \/ r.candidate # NoLine => r.store \in Endpoints,
                 y.pc = "finalized" => y.meta = o /\ o.written,
                 NEW s \in SeenRecord, seen' = s, s.lost = seen.lost,
                 o.ssh => s.earned \/ s.torn \/ (y.pc \in Rotating)
          PROVE  BootstrapInv'
        <2>1. BootstrapTypes'
            BY <1>1, <1>3, <1>7 DEF BootstrapTypes
        <2>2. Pinned'
            BY <1>7 DEF Pinned
        <2>3. y.pc \notin Installing /\ y.pc \notin Scripting
            BY <1>7 DEF Installing, Scripting, Rotating
        <2>4. y.pc = "finalized" => y.meta.written /\ (y.meta.ssh => s.earned \/ s.torn)
            BY <1>7 DEF Rotating
        <2>5. Earned'
            BY <1>6, <1>7, <2>3, <2>4 DEF Earned, Installing
        <2>6. Tidy'
            BY <1>3, <1>5, <1>7 DEF Tidy
        <2>7. QED
            BY <2>1, <2>2, <2>5, <2>6 DEF BootstrapInv
    <1>8. CASE Migrate \/ Rotate
        <2>1. PICK e \in Endpoints : disk' = [disk EXCEPT !.store = e]
            BY <1>8 DEF Migrate, Rotate
        <2>2. PICK r : r = [disk EXCEPT !.store = e]
            OBVIOUS
        <2>3. r \in DiskRecord /\ r.meta = o /\ r.pin = disk.pin /\ r.store = e /\ disk' = r
            BY <1>1, <1>2, <2>1, <2>2 DEF DiskRecord
        <2>4. PICK s : s = [seen EXCEPT !.earned = FALSE]
            OBVIOUS
        <2>5. s \in SeenRecord /\ s.lost = seen.lost /\ seen' = s
            BY <1>1, <1>8, <2>4 DEF SeenRecord, Migrate, Rotate
        <2>6. PICK y : y = op'
            OBVIOUS
        <2>7. CASE Migrate
            <3>1. y = [Quiet EXCEPT !.pc = "migrated"]
                BY <2>6, <2>7 DEF Migrate
            <3>2. y \in OpRecord /\ y.pc = "migrated"
                BY <3>1, QuietFacts DEF OpRecord, Steps
            <3>3. ~o.ssh
                BY <1>2, <1>6, <2>7 DEF Migrate
            <3>4. QED
                BY <1>6, <1>7, <2>3, <2>5, <2>6, <3>2, <3>3
        <2>8. CASE Rotate
            <3>1. y = [Quiet EXCEPT !.pc = "unpin", !.meta = o]
                BY <1>2, <2>6, <2>8 DEF Rotate
            <3>2. y \in OpRecord /\ y.pc = "unpin"
                BY <3>1, QuietFacts DEF OpRecord, Steps, Rotating
            <3>3. y.pc \in Rotating
                BY <3>2 DEF Rotating
            <3>4. QED
                BY <1>6, <1>7, <2>3, <2>5, <2>6, <3>2, <3>3
        <2>9. QED
            BY <1>8, <2>7, <2>8
    <1>9. CASE Unpin
        <2>1. UNCHANGED seen /\ op.pc \in {"unpin", "uncapture"}
            BY <1>9 DEF Unpin
        <2>2. PICK r, y : r = disk' /\ y = op'
            OBVIOUS
        <2>3. /\ r \in DiskRecord /\ r.meta = o /\ r.store = disk.store
              /\ r.pin = NoLine \/ r.pin = disk.pin
            <3>1. r = [disk EXCEPT !.pin = NoLine] \/ r = [disk EXCEPT !.candidate = NoLine]
                BY <1>9, <2>2 DEF Unpin
            <3>2. QED
                BY <1>1, <1>2, <3>1 DEF DiskRecord, Lines
        <2>4. y \in OpRecord /\ y.pc \in Rotating /\ y.pc # "finalized"
            <3>1. y = [op EXCEPT !.pc = "uncapture"] \/ y = [op EXCEPT !.pc = "rotated"]
                BY <1>9, <2>2 DEF Unpin
            <3>2. QED
                BY <1>1, <3>1 DEF OpRecord, Steps, Rotating
        <2>5. disk.store \in Endpoints
            BY <1>6, <2>1
        <2>6. QED
            BY <1>1, <1>6, <1>7, <2>1, <2>2, <2>3, <2>4, <2>5
    <1>10. CASE Finalize
        <2>1. PICK r : r = [disk EXCEPT !.handoff = FALSE]
            OBVIOUS
        <2>2. /\ r \in DiskRecord /\ r.meta = o /\ r.pin = disk.pin /\ r.store = disk.store
              /\ disk' = r
            BY <1>1, <1>2, <1>10, <2>1 DEF DiskRecord, Finalize
        <2>3. PICK y : y = [Quiet EXCEPT !.pc = "finalized", !.meta = o]
            OBVIOUS
        <2>4. y \in OpRecord /\ y.pc = "finalized" /\ y.meta = o
            BY <2>3, QuietFacts DEF OpRecord, Steps
        <2>5. op' = y /\ UNCHANGED seen /\ o.written /\ disk.store # NoStore /\ op.pc = "idle"
            BY <1>2, <1>10, <2>3 DEF Finalize, MayFinalize, Migrated, Idle
        <2>6. disk.store \in Endpoints
            BY <1>1, <2>5 DEF DiskRecord
        <2>7. o.ssh => seen.earned \/ seen.torn
            BY <1>6, <2>5 DEF Rotating
        <2>8. QED
            BY <1>1, <1>6, <1>7, <2>2, <2>4, <2>5, <2>6, <2>7
    <1>11. CASE Capture
        <2>1. disk.store \in Endpoints /\ UNCHANGED <<op, seen>> /\ op.pc = "idle"
            BY <1>1, <1>11 DEF Capture, DiskRecord, Idle
        <2>2. PICK l : l = <<disk.store, net.at[disk.store]>>
            OBVIOUS
        <2>3. l \in Lines
            BY <1>1, <2>1, <2>2 DEF Lines
        <2>4. PICK r : r = [disk EXCEPT !.candidate = l]
            OBVIOUS
        <2>5. /\ r \in DiskRecord /\ r.meta = o /\ r.pin = disk.pin /\ r.store = disk.store
              /\ disk' = r
            BY <1>1, <1>2, <1>11, <2>2, <2>3, <2>4 DEF DiskRecord, Capture
        <2>6. PICK y \in OpRecord : y = op /\ y.pc = "idle"
            BY <1>1, <2>1
        <2>7. o.ssh => seen.earned \/ seen.torn
            BY <1>6, <2>1 DEF Rotating
        <2>8. QED
            BY <1>1, <1>6, <1>7, <2>1, <2>5, <2>6, <2>7
    <1>12. CASE AcceptHostKey
        <2>1. PICK l \in Lines : l = disk.candidate
            BY <1>1 DEF DiskRecord
        <2>2. l # NoLine /\ l[2] \in Own /\ op.pc = "idle" /\ UNCHANGED seen
            BY <1>12, <2>1 DEF AcceptHostKey, Confirmed, Idle
        <2>3. PICK r : r = [disk EXCEPT !.pin = l]
            OBVIOUS
        <2>4. /\ r \in DiskRecord /\ r.meta = o /\ r.pin = l /\ r.store = disk.store
              /\ disk' = r
            BY <1>1, <1>2, <1>12, <2>1, <2>3 DEF DiskRecord, AcceptHostKey
        <2>5. PICK y : y = [Quiet EXCEPT !.pc = "pinned"]
            OBVIOUS
        <2>6. y \in OpRecord /\ y.pc = "pinned" /\ op' = y
            BY <1>12, <2>5, QuietFacts DEF OpRecord, Steps, AcceptHostKey
        <2>7. disk.store \in Endpoints /\ (o.ssh => seen.earned \/ seen.torn)
            BY <1>6, <2>1, <2>2 DEF Rotating
        <2>8. QED
            BY <1>1, <1>7, <2>2, <2>4, <2>6, <2>7
    <1>13. QED
        BY <1>8, <1>9, <1>10, <1>11, <1>12

\* Another machine answers.
LEMMA ReaddressInv ==
    ASSUME BootstrapInv, Readdress
    PROVE  BootstrapInv'
    <1>1. PICK e \in Endpoints, m \in Machines : net' = [net EXCEPT !.at[e] = m]
        BY DEF Readdress
    <1>2. net' \in [at : [Endpoints -> Machines], keyed : SUBSET Machines]
        BY <1>1 DEF BootstrapInv, BootstrapTypes
    <1>3. UNCHANGED <<disk, op, remote, seen>>
        BY DEF Readdress
    <1>4. QED
        BY <1>2, <1>3 DEF BootstrapInv, BootstrapTypes, Pinned, Earned, Tidy

(***************************************************************************)
(* The inductive invariant of the bootstrap holds in every behaviour:      *)
(* whatever is killed, rotated or answered by another machine.             *)
(***************************************************************************)
THEOREM BootstrapInvariant == BootstrapSpec => []BootstrapInv
    <1>1. BootstrapInv /\ [BootstrapNext]_bootstrapVars => BootstrapInv'
        <2> SUFFICES ASSUME BootstrapInv, [BootstrapNext]_bootstrapVars PROVE BootstrapInv'
            OBVIOUS
        <2>1. CASE BootstrapNext
            BY <2>1, MetadataInv, SessionInv, FileInv, ReaddressInv DEF BootstrapNext
        <2>2. CASE UNCHANGED bootstrapVars
            BY <2>2 DEF bootstrapVars, BootstrapInv, BootstrapTypes, Pinned, Earned, Tidy
        <2>3. QED
            BY <2>1, <2>2
    <1>2. QED
        BY <1>1, BootstrapInitInv, PTL DEF BootstrapSpec

(***************************************************************************)
(* The server password reaches only machines whose key the operator        *)
(* confirmed (accept_host_key_candidate, _ssh_base_arguments).             *)
(***************************************************************************)
THEOREM PasswordReachesOwnMachines == BootstrapSpec => []PasswordTrusted
    <1>1. BootstrapInv => PasswordTrusted
        BY DEF BootstrapInv, BootstrapTypes, SeenRecord, PasswordTrusted
    <1>2. QED
        BY <1>1, BootstrapInvariant, PTL

(***************************************************************************)
(* Between commands the script of the last run is not on the host, unless  *)
(* its path was never learned, its clean-up got no answer or the command   *)
(* was killed (run_remote_script).                                         *)
(***************************************************************************)
THEOREM ScriptsAreRemoved == BootstrapSpec => []ScriptRemoved
    <1>1. BootstrapInv => ScriptRemoved
        BY DEF BootstrapInv, Tidy, ScriptRemoved, Idle, Scripting
    <1>2. QED
        BY <1>1, BootstrapInvariant, PTL

(***************************************************************************)
(* The plaintext handoff is deleted only while the store points at a       *)
(* server the key was verified on, or a rotation was cut off and none was  *)
(* completed since (finalize_handoff, rotate_server_endpoint).             *)
(***************************************************************************)
THEOREM HandoffEndsOnEvidence == BootstrapSpec => FinalizedOnEvidence
    <1>1. BootstrapInv /\ [BootstrapNext]_bootstrapVars =>
             [disk.handoff /\ ~disk'.handoff =>
                 disk.store # NoStore /\ (seen.earned \/ seen.torn)]_bootstrapVars
        <2> SUFFICES ASSUME BootstrapInv, BootstrapNext, disk.handoff, ~disk'.handoff
                     PROVE  disk.store # NoStore /\ (seen.earned \/ seen.torn)
            OBVIOUS
        <2>1. disk \in DiskRecord
            BY DEF BootstrapInv, BootstrapTypes
        <2>2. Finalize
            <3>1. CASE UNCHANGED disk
                BY <3>1
            <3>2. CASE \E v : \/ disk' = [disk EXCEPT !.store = v]
                             \/ disk' = [disk EXCEPT !.pin = v]
                             \/ disk' = [disk EXCEPT !.candidate = v]
                             \/ disk' = [disk EXCEPT !.meta = v]
                BY <2>1, <3>2 DEF DiskRecord
            <3>3. CASE AcceptCredentials \/ RecordLive \/ AcceptMetadata \/ InstallMetadata
                          \/ ProbeMetadata
                BY <2>1, <3>3 DEF DiskRecord, AcceptCredentials, RecordLive, AcceptMetadata,
                                  InstallMetadata, ProbeMetadata
            <3>4. CASE Migrate \/ MigrateMetadata \/ Rotate \/ Unpin \/ RotateMetadata
                          \/ FinalizeMetadata \/ Capture \/ AcceptHostKey
                BY <3>2, <3>4 DEF Migrate, MigrateMetadata, Rotate, Unpin, RotateMetadata,
                                  FinalizeMetadata, Capture, AcceptHostKey
            <3>5. CASE \/ StartInstall \/ InstallKey \/ VerifyKey \/ StartProbe \/ Reprobe
                       \/ StartRemote \/ Upload \/ Execute \/ Cleanup \/ Kill \/ Readdress
                BY <3>1, <3>5 DEF StartInstall, InstallKey, VerifyKey, StartProbe, Reprobe,
                                  StartRemote, Upload, Uploaded, PathUnknown, Execute, Cleanup,
                                  Kill, Readdress, Raised
            <3>6. QED
                BY <3>3, <3>4, <3>5 DEF BootstrapNext
        <2>3. op.pc = "idle" /\ disk.meta.ssh /\ disk.store # NoStore
            BY <2>2 DEF Finalize, MayFinalize, Idle, Migrated
        <2>4. QED
            BY <2>3 DEF BootstrapInv, Earned, Rotating
    <1>2. QED
        BY <1>1, BootstrapInvariant, PTL DEF BootstrapSpec, FinalizedOnEvidence

-----------------------------------------------------------------------------
(* The isolation probes. *)

Result == [env : Nat, good : BOOLEAN]
Statuses == {"absent", "running"} \cup Terminal
\* A record that was begun has no artifact until it is finished.
ProbeRecord ==
    {r \in [status : Statuses, key : Nat, attempt : {0}, marks : {{}}, artifact : Result \cup {0}] :
        r.status \in Terminal => r.artifact \in Result}
ProgramRecord == [id : Nat, env : Nat, sha : Nat, at : Nat, retired : BOOLEAN]
ProbePlaces == {"idle", "ensure", "provision", "scan", "cell", "recollect", "collect", "unit",
                "report"}
ProbeCommand ==
    [pc : ProbePlaces, env : Nat, sha : Nat, at : Nat, good : SUBSET Nat, found : Seq(Result),
     status : {"none"} \cup Statuses]
ProbeJournal(n) ==
    [provisioning : ProbeRecord, collection : ProbeRecord, unit : [1..n -> ProbeRecord]]
Secrets == [1..NumPrincipals -> [env : Nat, sha : Nat]]

\* Every variable has its type.
ProbesTypes ==
    /\ matrix \in {"access", "trace", "canary"}
    /\ secrets \in Secrets
    /\ programs \in SUBSET ProgramRecord
    /\ overlap \in BOOLEAN
    /\ journal \in ProbeJournal(Size)
    /\ cmd \in ProbeCommand
    /\ commands \in Nat

\* What command x has found so far is one result per unit, in its own environment.
Collected(x, n) ==
    /\ x.pc \notin {"idle", "report"} =>
          /\ x.at \in 1..(n + 1)
          /\ Len(x.found) = x.at - 1
          /\ \A i \in 1..Len(x.found) : x.found[i].env = x.env
    /\ x.pc = "cell" => x.at <= n
    /\ x.pc \in {"recollect", "collect"} => x.at = 1
    /\ x.pc = "report" /\ x.status = "pass" =>
          /\ Len(x.found) = n
          /\ \A i \in 1..n : x.found[i].env = x.env /\ x.found[i].good

\* The program of command x, the c-th, provisions for x's environment, as record w says.
OwnProgram(x, P, c, w) ==
    /\ \A p \in P : p.id <= c
    /\ x.pc = "ensure" => \A p \in P : p.id # c
    /\ x.pc = "provision" => /\ w.key = x.env
                             /\ \A p \in P : p.id = c => p.env = x.env

\* The programs P and the record w agree with the secrets s, unless programs overlapped.
Described(P, w, s) ==
    /\ \A p, q \in P : p = q
    /\ \A p \in P : \A i \in 1..NumPrincipals : i < p.at => s[i].env = p.env
    /\ P # {} => w.status # "pass"
    /\ w.status = "pass" => \A i \in 1..NumPrincipals : s[i].env = w.key

ProbesInv ==
    /\ ProbesTypes
    /\ Collected(cmd, Size)
    /\ OwnProgram(cmd, programs, commands, journal.provisioning)
    /\ ~overlap => Described(programs, journal.provisioning, secrets)

\* The constants, and a command that does not run.
LEMMA WaitingFacts ==
    /\ Waiting \in ProbeCommand /\ Waiting.pc = "idle" /\ Waiting.at = 1 /\ Waiting.found = <<>>
    /\ NumPrincipals \in Nat
    /\ \A m \in {"access", "trace", "canary"} : MatrixSize[m] \in Nat
    <1>1. /\ NumPrincipals \in Nat
          /\ \A m \in {"access", "trace", "canary"} : MatrixSize[m] \in Nat
        BY ProbesAssumption
    <1>2. <<>> \in Seq(Result)
        OBVIOUS
    <1>3. PICK f \in Seq(Result) : f = <<>>
        BY <1>2
    <1>4. Waiting = [pc |-> "idle", env |-> 0, sha |-> 0, at |-> 1, good |-> {}, found |-> f,
                     status |-> "none"]
        BY <1>3 DEF Waiting
    <1>5. QED
        BY <1>1, <1>3, <1>4 DEF ProbeCommand, ProbePlaces

\* Nothing has been provisioned or measured.
LEMMA ProbesInitInv == ProbesInit => ProbesInv
    <1> SUFFICES ASSUME ProbesInit PROVE ProbesInv
        OBVIOUS
    <1>1. PICK r : r = Unrecorded
        OBVIOUS
    <1>2. r \in ProbeRecord /\ r.status = "absent"
        <2>1. [env |-> 0, good |-> FALSE] \in Result
            BY DEF Result
        <2>2. PICK a \in Result : a = [env |-> 0, good |-> FALSE]
            BY <2>1
        <2>3. r = [status |-> "absent", key |-> 0, attempt |-> 0, marks |-> {}, artifact |-> a]
            BY <1>1, <2>2 DEF Unrecorded, NoRecord
        <2>4. QED
            BY <2>3 DEF ProbeRecord, Statuses
    <1>3. PICK U : U = [u \in 1..Size |-> r]
        OBVIOUS
    <1>4. U \in [1..Size -> ProbeRecord]
        BY <1>2, <1>3
    <1>5. journal = [provisioning |-> r, collection |-> r, unit |-> U]
        BY <1>1, <1>3 DEF ProbesInit, ProbeUnits
    <1>6. journal \in ProbeJournal(Size) /\ journal.provisioning = r
        BY <1>2, <1>4, <1>5 DEF ProbeJournal
    <1>7. secrets \in Secrets
        BY DEF ProbesInit, NoSecret, Secrets
    <1>8. ProbesTypes
        BY <1>6, <1>7, WaitingFacts DEF ProbesInit, ProbesTypes
    <1>9. Collected(cmd, Size)
        BY WaitingFacts DEF ProbesInit, Collected
    <1>10. OwnProgram(cmd, programs, commands, journal.provisioning)
        BY WaitingFacts DEF ProbesInit, OwnProgram
    <1>11. Described(programs, journal.provisioning, secrets)
        BY <1>2, <1>6 DEF ProbesInit, Described
    <1>12. QED
        BY <1>8, <1>9, <1>10, <1>11 DEF ProbesInv

\* The records a command writes.
LEMMA ProbeRecords ==
    ASSUME ProbesInv, NEW r \in ProbeRecord
    PROVE  /\ Started(r) \in ProbeRecord /\ Started(r).key = cmd.env
           /\ Started(r).status = "running"
           /\ \A v \in Terminal, g \in BOOLEAN :
                 /\ Finish(r, v, Bound(g)) \in ProbeRecord
                 /\ Finish(r, v, Bound(g)).key = r.key
                 /\ Finish(r, v, Bound(g)).status = v
    <1>1. PICK e \in Nat : e = cmd.env
        BY DEF ProbesInv, ProbesTypes, ProbeCommand
    <1>2. /\ Started(r) \in ProbeRecord /\ Started(r).key = e
          /\ Started(r).status = "running"
        <2>1. PICK m : m = IF r.key = e THEN r.marks ELSE {}
            OBVIOUS
        <2>2. m \in {{}}
            BY <2>1 DEF ProbeRecord
        <2>3. PICK a \in Nat : a = r.attempt + 1
            BY DEF ProbeRecord
        <2>4. Begin(r, e) = [status |-> "running", key |-> e, attempt |-> a, marks |-> m,
                             artifact |-> 0]
            BY <2>1, <2>3 DEF Begin
        <2>5. Started(r) = [status |-> "running", key |-> e, attempt |-> 0, marks |-> m,
                            artifact |-> 0]
            BY <1>1, <2>4 DEF Started
        <2>6. QED
            BY <2>2, <2>5 DEF ProbeRecord, Statuses, Terminal
    <1>3. ASSUME NEW v \in Terminal, NEW g \in BOOLEAN
          PROVE  /\ Finish(r, v, Bound(g)) \in ProbeRecord
                 /\ Finish(r, v, Bound(g)).key = r.key
                 /\ Finish(r, v, Bound(g)).status = v
        <2>1. PICK a : a = [env |-> e, good |-> g]
            OBVIOUS
        <2>2. a \in Result /\ Bound(g) = a
            BY <1>1, <2>1 DEF Result, Bound
        <2>3. PICK f : f = [r EXCEPT !.status = v, !.artifact = a]
            OBVIOUS
        <2>4. f \in ProbeRecord /\ f.key = r.key /\ f.status = v
            BY <2>2, <2>3 DEF ProbeRecord, Statuses
        <2>5. QED
            BY <2>2, <2>3, <2>4 DEF Finish
    <1>4. QED
        BY <1>1, <1>2, <1>3

\* A step of a command that is past the provisioning.
LEMMA RunStep ==
    ASSUME ProbesInv, UNCHANGED <<matrix, commands, secrets, programs, overlap>>,
           NEW j \in ProbeJournal(Size), journal' = j, j.provisioning = journal.provisioning,
           NEW x \in ProbeCommand, cmd' = x, Collected(x, Size),
           x.pc \notin {"ensure", "provision"}
    PROVE  ProbesInv'
    <1>1. Size' = Size
        BY DEF Size
    <1>2. ProbesTypes'
        BY <1>1 DEF ProbesInv, ProbesTypes
    <1>3. Collected(cmd, Size)'
        BY <1>1
    <1>4. OwnProgram(cmd, programs, commands, journal.provisioning)'
        BY DEF ProbesInv, OwnProgram
    <1>5. (~overlap => Described(programs, journal.provisioning, secrets))'
        BY DEF ProbesInv
    <1>6. QED
        BY <1>2, <1>3, <1>4, <1>5 DEF ProbesInv

\* One more result in the command's environment.
LEMMA OneMore ==
    ASSUME NEW f \in Seq(Result), NEW b \in Result, NEW e, b.env = e,
           \A i \in 1..Len(f) : f[i].env = e, NEW g, g = Append(f, b)
    PROVE  /\ g \in Seq(Result) /\ Len(g) = Len(f) + 1
           /\ \A i \in 1..Len(g) : g[i].env = e
    <1>1. g \in Seq(Result) /\ Len(g) = Len(f) + 1
        OBVIOUS
    <1>2. ASSUME NEW i \in 1..Len(g) PROVE g[i].env = e
        <2>1. CASE i \in 1..Len(f)
            BY <2>1
        <2>2. CASE i = Len(f) + 1
            BY <2>2
        <2>3. QED
            BY <1>1, <2>1, <2>2
    <1>3. QED
        BY <1>1, <1>2

\* The measurements of the three matrices, their reports, and a command that ends.
LEMMA MeasureInv ==
    ASSUME ProbesInv,
           \/ EnsureProvisioned \/ ReuseCell \/ BeginCell \/ AccessCell \/ ScanUnits
           \/ BeginCollection \/ Collect \/ BeginItem \/ FinishItem \/ ReportMatrix
           \/ EndCommand
    PROVE  ProbesInv'
    <1>1. UNCHANGED <<matrix, commands, secrets, programs, overlap>>
        BY DEF EnsureProvisioned, ReuseCell, BeginCell, AccessCell, ScanUnits,
               BeginCollection, Collect, BeginItem, FinishItem, ReportMatrix, EndCommand
    <1>2. PICK n \in Nat : n = Size
        BY WaitingFacts DEF ProbesInv, ProbesTypes, Size
    <1>3. journal \in ProbeJournal(n) /\ cmd \in ProbeCommand /\ Collected(cmd, n)
        BY <1>2 DEF ProbesInv, ProbesTypes
    <1>4. PICK a \in Nat, e \in Nat, f \in Seq(Result) : a = cmd.at /\ e = cmd.env /\ f = cmd.found
        BY <1>3 DEF ProbeCommand
    <1>5. ASSUME NEW j \in ProbeJournal(n), journal' = j, j.provisioning = journal.provisioning,
                 NEW x \in ProbeCommand, cmd' = x, Collected(x, n),
                 x.pc \notin {"ensure", "provision"}
          PROVE  ProbesInv'
        BY <1>1, <1>2, <1>5, RunStep
    <1>6. ASSUME NEW x \in ProbeCommand, cmd' = x, UNCHANGED journal, Collected(x, n),
                 x.pc \notin {"ensure", "provision"}
          PROVE  ProbesInv'
        <2>1. PICK j \in ProbeJournal(n) : j = journal
            BY <1>3
        <2>2. QED
            BY <1>5, <1>6, <2>1
    <1>7. ASSUME NEW s \in Statuses \ {"pass"}, Report(s)
          PROVE  cmd' \in ProbeCommand /\ Collected(cmd', n)
                    /\ cmd'.pc \notin {"ensure", "provision"}
        <2>1. PICK x : x = [cmd EXCEPT !.pc = "report", !.status = s]
            OBVIOUS
        <2>2. x \in ProbeCommand /\ x.pc = "report" /\ x.status = s
            BY <1>3, <2>1 DEF ProbeCommand, ProbePlaces, Statuses
        <2>3. Collected(x, n)
            BY <2>2 DEF Collected
        <2>4. QED
            BY <1>7, <2>1, <2>2, <2>3 DEF Report
    <1>8. cmd.pc \notin {"idle", "report"} =>
             a \in 1..(n + 1) /\ Len(f) = a - 1 /\ \A i \in 1..Len(f) : f[i].env = e
        BY <1>3, <1>4 DEF Collected
    <1>9. ASSUME cmd.pc \notin {"idle", "report"}, a <= n, NEW b \in Result, b.env = e,
                 NEW p \in {"scan", "unit"}, NEW x,
                 x = [cmd EXCEPT !.pc = p, !.at = a + 1, !.found = Append(f, b)]
          PROVE  x \in ProbeCommand /\ x.pc = p /\ Collected(x, n)
        <2>1. PICK g : g = Append(f, b)
            OBVIOUS
        <2>2. /\ g \in Seq(Result) /\ Len(g) = Len(f) + 1
              /\ \A i \in 1..Len(g) : g[i].env = e
            BY <1>8, <1>9, <2>1, OneMore
        <2>3. PICK k \in Nat : k = a + 1
            OBVIOUS
        <2>4. /\ x \in ProbeCommand /\ x.pc = p /\ x.at = k /\ x.found = g /\ x.env = e
            BY <1>3, <1>4, <1>9, <2>1, <2>2, <2>3 DEF ProbeCommand, ProbePlaces
        <2>5. k \in 1..(n + 1) /\ Len(g) = k - 1
            BY <1>8, <1>9, <2>2, <2>3
        <2>6. QED
            BY <1>9, <2>2, <2>4, <2>5 DEF Collected
    <1>10. ASSUME NEW p \in ProbePlaces \ {"report", "ensure", "provision"}, NEW x,
                  x = [cmd EXCEPT !.pc = p], cmd.pc \notin {"idle", "report"},
                  p = "cell" => a <= n, p \in {"recollect", "collect"} => a = 1
           PROVE  x \in ProbeCommand /\ x.pc = p /\ Collected(x, n)
        <2>1. /\ x \in ProbeCommand /\ x.pc = p /\ x.at = a /\ x.found = f /\ x.env = e
            BY <1>3, <1>4, <1>10 DEF ProbeCommand
        <2>2. QED
            BY <1>8, <1>10, <2>1 DEF Collected
    <1>11. ASSUME NEW r \in ProbeRecord, Journal(r), a <= n, cmd.pc \notin {"idle", "report"}
           PROVE  journal' \in ProbeJournal(n) /\ journal'.provisioning = journal.provisioning
        <2>1. a \in 1..n
            BY <1>8, <1>11
        <2>2. PICK U : U = [journal.unit EXCEPT ![a] = r]
            OBVIOUS
        <2>3. U \in [1..n -> ProbeRecord]
            BY <1>3, <1>11, <2>1, <2>2 DEF ProbeJournal
        <2>4. journal' = [journal EXCEPT !.unit = U]
            BY <1>3, <1>4, <1>11, <2>2 DEF Journal, ProbeJournal
        <2>5. QED
            BY <1>3, <2>3, <2>4 DEF ProbeJournal
    <1>12. ASSUME NEW r \in ProbeRecord, Collection(r)
           PROVE  journal' \in ProbeJournal(n) /\ journal'.provisioning = journal.provisioning
        BY <1>3, <1>12 DEF Collection, ProbeJournal
    <1>13. cmd.pc \notin {"idle", "report"} /\ a <= n => Unit \in ProbeRecord
        BY <1>3, <1>4, <1>8 DEF ProbeJournal, Unit
    <1>14. Collected(Waiting, n)
        BY WaitingFacts DEF Collected
    <1>15. ASSUME NEW g \in BOOLEAN PROVE Bound(g) \in Result /\ Bound(g).env = e
        BY <1>4 DEF Bound, Result
    <1>16. CASE EndCommand
        BY <1>6, <1>14, <1>16, WaitingFacts DEF EndCommand
    <1>17. CASE EnsureProvisioned
        <2>1. cmd.pc = "ensure" /\ UNCHANGED journal
            BY <1>17 DEF EnsureProvisioned
        <2>2. CASE cmd' = [cmd EXCEPT !.pc = "scan"]
            <3>1. PICK x : x = [cmd EXCEPT !.pc = "scan"]
                OBVIOUS
            <3>2. x \in ProbeCommand /\ x.pc = "scan" /\ Collected(x, n)
                BY <1>10, <2>1, <3>1 DEF ProbePlaces
            <3>3. QED
                BY <1>6, <2>1, <2>2, <3>1, <3>2
        <2>3. CASE Report("blocked")
            <3>1. "blocked" \in Statuses \ {"pass"}
                BY DEF Statuses, Terminal
            <3>2. QED
                BY <1>6, <1>7, <2>1, <2>3, <3>1
        <2>4. QED
            BY <1>17, <2>2, <2>3 DEF EnsureProvisioned
    <1>18. CASE ReuseCell \/ ScanUnits
        <2>1. cmd.pc = "scan" /\ a <= n /\ UNCHANGED journal
            BY <1>2, <1>4, <1>18 DEF ReuseCell, ScanUnits, InCells
        <2>2. Unit \in ProbeRecord
            BY <1>13, <2>1
        <2>3. CASE Final(Unit) /\ Report(Unit.status)
            <3>1. PICK v : v = Unit.status
                OBVIOUS
            <3>2. v \in Statuses \ {"pass"} /\ Report(v)
                BY <2>3, <3>1 DEF Final, Statuses, Terminal
            <3>3. QED
                BY <1>6, <1>7, <2>1, <3>2
        <2>4. CASE Reuses(Unit) /\ cmd' = Found(Unit)
            <3>1. PICK b : b = Unit.artifact
                OBVIOUS
            <3>2. b \in Result /\ b.env = e
                BY <1>4, <2>2, <2>4, <3>1 DEF Reuses, ProbeRecord, Terminal
            <3>3. PICK x : x = [cmd EXCEPT !.pc = "scan", !.at = a + 1, !.found = Append(f, b)]
                OBVIOUS
            <3>4. cmd' = [cmd EXCEPT !.at = a + 1, !.found = Append(f, b)]
                BY <1>4, <2>4, <3>1 DEF Found
            <3>5. cmd' = x
                BY <1>3, <2>1, <3>3, <3>4 DEF ProbeCommand
            <3>6. x \in ProbeCommand /\ x.pc = "scan" /\ Collected(x, n)
                BY <1>9, <2>1, <3>2, <3>3
            <3>7. QED
                BY <1>6, <2>1, <3>5, <3>6
        <2>5. CASE cmd' = [cmd EXCEPT !.pc = "recollect", !.at = 1, !.found = <<>>]
            <3>1. PICK g \in Seq(Result) : g = <<>>
                <4>1. <<>> \in Seq(Result)
                    OBVIOUS
                <4>2. QED
                    BY <4>1
            <3>2. PICK x : x = [cmd EXCEPT !.pc = "recollect", !.at = 1, !.found = g]
                OBVIOUS
            <3>3. /\ x \in ProbeCommand /\ x.pc = "recollect" /\ x.at = 1 /\ x.found = g
                BY <1>3, <3>2 DEF ProbeCommand, ProbePlaces
            <3>4. Collected(x, n)
                BY <1>2, <3>1, <3>3 DEF Collected
            <3>5. QED
                BY <1>6, <2>1, <2>5, <3>1, <3>2, <3>3, <3>4
        <2>6. QED
            BY <1>18, <2>3, <2>4, <2>5 DEF ReuseCell, ScanUnits
    <1>19. CASE BeginCell
        <2>1. cmd.pc = "scan" /\ a <= n /\ Journal(Started(Unit))
            BY <1>2, <1>4, <1>19 DEF BeginCell, InCells
        <2>2. Started(Unit) \in ProbeRecord
            BY <1>13, <2>1, ProbeRecords
        <2>3. PICK x : x = [cmd EXCEPT !.pc = "cell"]
            OBVIOUS
        <2>4. x \in ProbeCommand /\ x.pc = "cell" /\ Collected(x, n)
            BY <1>10, <2>1, <2>3 DEF ProbePlaces
        <2>5. cmd' = x
            BY <1>19, <2>3 DEF BeginCell
        <2>6. QED
            BY <1>5, <1>11, <2>1, <2>2, <2>4, <2>5
    <1>20. CASE AccessCell
        <2>1. cmd.pc = "cell" /\ a <= n
            BY <1>3, <1>4, <1>20 DEF AccessCell, Collected
        <2>2. PICK v \in CellOutcomes(cmd.at) :
                /\ Journal(Finish(Unit, v, Bound(v = "pass")))
                /\ IF v = "pass"
                   THEN cmd' = [cmd EXCEPT !.pc = "scan", !.at = @ + 1,
                                           !.found = Append(@, Bound(TRUE))]
                   ELSE Report(v)
            BY <1>20 DEF AccessCell
        <2>3. v \in Terminal
            BY DEF CellOutcomes, Terminal
        <2>4. PICK q \in BOOLEAN : q = (v = "pass")
            OBVIOUS
        <2>5. Finish(Unit, v, Bound(v = "pass")) \in ProbeRecord
            BY <1>13, <2>1, <2>3, <2>4, ProbeRecords
        <2>6. journal' \in ProbeJournal(n) /\ journal'.provisioning = journal.provisioning
            BY <1>11, <2>1, <2>2, <2>5
        <2>7. CASE v = "pass"
            <3>1. PICK b : b = Bound(TRUE)
                OBVIOUS
            <3>2. b \in Result /\ b.env = e
                BY <1>15, <3>1
            <3>3. PICK x : x = [cmd EXCEPT !.pc = "scan", !.at = a + 1, !.found = Append(f, b)]
                OBVIOUS
            <3>4. cmd' = x
                BY <1>4, <2>2, <2>7, <3>1, <3>3
            <3>5. x \in ProbeCommand /\ x.pc = "scan" /\ Collected(x, n)
                BY <1>9, <2>1, <3>2, <3>3
            <3>6. QED
                BY <1>5, <2>6, <3>4, <3>5
        <2>8. CASE v # "pass"
            BY <1>5, <1>7, <2>2, <2>3, <2>6, <2>8 DEF Statuses
        <2>9. QED
            BY <2>7, <2>8
    <1>21. CASE BeginCollection
        <2>1. cmd.pc = "recollect" /\ a = 1 /\ journal.collection \in ProbeRecord
            BY <1>3, <1>4, <1>21 DEF BeginCollection, Collected, ProbeJournal
        <2>2. PICK r \in ProbeRecord : r = journal.collection
            BY <2>1
        <2>3. CASE Final(r) /\ Report(r.status) /\ UNCHANGED journal
            <3>1. PICK v : v = r.status
                OBVIOUS
            <3>2. v \in Statuses \ {"pass"} /\ Report(v) /\ UNCHANGED journal
                BY <2>3, <3>1 DEF Final, Statuses, Terminal
            <3>3. QED
                BY <1>6, <1>7, <3>2
        <2>4. CASE Collection(Started(r)) /\ cmd' = [cmd EXCEPT !.pc = "collect"]
            <3>1. Started(r) \in ProbeRecord
                BY ProbeRecords
            <3>2. PICK x : x = [cmd EXCEPT !.pc = "collect"]
                OBVIOUS
            <3>3. x \in ProbeCommand /\ x.pc = "collect" /\ Collected(x, n)
                BY <1>10, <2>1, <3>2 DEF ProbePlaces
            <3>4. QED
                BY <1>5, <1>12, <2>4, <3>1, <3>2, <3>3
        <2>5. QED
            BY <1>21, <2>2, <2>3, <2>4 DEF BeginCollection
    <1>22. CASE Collect
        <2>1. cmd.pc = "collect" /\ a = 1 /\ journal.collection \in ProbeRecord
            BY <1>3, <1>4, <1>22 DEF Collect, Collected, ProbeJournal
        <2>2. PICK r \in ProbeRecord : r = journal.collection
            BY <2>1
        <2>3. ASSUME NEW v \in {"infra_failed", "blocked"},
                     Collection(Finish(r, v, Bound(FALSE))), Report(v)
              PROVE  ProbesInv'
            <3>1. v \in Terminal /\ v \in Statuses \ {"pass"}
                BY <2>3 DEF Terminal, Statuses
            <3>2. Finish(r, v, Bound(FALSE)) \in ProbeRecord
                BY <3>1, ProbeRecords
            <3>3. QED
                BY <1>5, <1>7, <1>12, <2>3, <3>1, <3>2
        <2>4. ASSUME NEW g \in SUBSET ProbeUnits,
                     cmd' = [cmd EXCEPT !.pc = "unit", !.at = 1, !.good = g],
                     Collection(Finish(r, "pass", Bound(TRUE)))
              PROVE  ProbesInv'
            <3>1. Finish(r, "pass", Bound(TRUE)) \in ProbeRecord
                <4>1. "pass" \in Terminal
                    BY DEF Terminal
                <4>2. QED
                    BY <4>1, ProbeRecords
            <3>2. g \in SUBSET Nat
                BY <1>2, <2>4 DEF ProbeUnits
            <3>3. PICK x : x = [cmd EXCEPT !.pc = "unit", !.at = 1, !.good = g]
                OBVIOUS
            <3>4. x \in ProbeCommand /\ x.pc = "unit" /\ x.at = a /\ x.found = f /\ x.env = e
                BY <1>3, <1>4, <2>1, <3>2, <3>3 DEF ProbeCommand, ProbePlaces
            <3>5. Collected(x, n)
                BY <1>8, <2>1, <3>4 DEF Collected
            <3>6. QED
                BY <1>5, <1>12, <2>4, <3>1, <3>3, <3>4, <3>5
        <2>5. QED
            BY <1>22, <2>2, <2>3, <2>4 DEF Collect, ObservedStages, CleanSurfaces
    <1>23. CASE BeginItem
        <2>1. /\ cmd.pc = "unit" /\ a <= n /\ Journal(Started(Unit)) /\ cmd' = cmd
            BY <1>2, <1>4, <1>23 DEF BeginItem
        <2>2. Started(Unit) \in ProbeRecord
            BY <1>13, <2>1, ProbeRecords
        <2>3. PICK x \in ProbeCommand : x = cmd /\ x.pc = "unit" /\ Collected(x, n)
            BY <1>3, <2>1
        <2>4. QED
            BY <1>5, <1>11, <2>1, <2>2, <2>3
    <1>24. CASE FinishItem
        <2>1. cmd.pc = "unit" /\ a <= n
            BY <1>2, <1>4, <1>24 DEF FinishItem
        <2>2. PICK q \in BOOLEAN : q = (cmd.at \in cmd.good)
            <3>1. CASE cmd.at \in cmd.good
                BY <3>1
            <3>2. CASE cmd.at \notin cmd.good
                <4>1. (cmd.at \in cmd.good) = FALSE
                    BY <3>2
                <4>2. QED
                    BY <4>1
            <3>3. QED
                BY <3>1, <3>2
        <2>3. PICK v \in Terminal : v = IF q THEN "pass" ELSE "metric_fail"
            BY DEF Terminal
        <2>4. /\ Journal(Finish(Unit, v, Bound(q)))
              /\ cmd' = [cmd EXCEPT !.at = @ + 1, !.found = Append(@, Bound(q))]
            BY <1>24, <2>2, <2>3 DEF FinishItem
        <2>5. Finish(Unit, v, Bound(q)) \in ProbeRecord
            BY <1>13, <2>1, ProbeRecords
        <2>6. PICK b : b = Bound(q)
            OBVIOUS
        <2>7. b \in Result /\ b.env = e
            BY <1>15, <2>6
        <2>8. PICK x : x = [cmd EXCEPT !.pc = "unit", !.at = a + 1, !.found = Append(f, b)]
            OBVIOUS
        <2>9. cmd' = [cmd EXCEPT !.at = a + 1, !.found = Append(f, b)]
            BY <1>4, <2>4, <2>6
        <2>10. cmd' = x
            BY <1>3, <2>1, <2>8, <2>9 DEF ProbeCommand
        <2>11. x \in ProbeCommand /\ x.pc = "unit" /\ Collected(x, n)
            BY <1>9, <2>1, <2>7, <2>8
        <2>12. QED
            BY <1>5, <1>11, <2>1, <2>4, <2>5, <2>10, <2>11
    <1>25. CASE ReportMatrix
        <2>1. cmd.pc \in {"scan", "unit"} /\ a = n + 1 /\ UNCHANGED journal
            BY <1>2, <1>4, <1>25 DEF ReportMatrix
        <2>2. CASE Report("metric_fail")
            <3>1. "metric_fail" \in Statuses \ {"pass"}
                BY DEF Statuses, Terminal
            <3>2. QED
                BY <1>6, <1>7, <2>1, <2>2, <3>1
        <2>3. CASE cmd' = Waiting
            BY <1>6, <1>14, <2>1, <2>3, WaitingFacts
        <2>4. CASE Valid(cmd.found) /\ Report("pass")
            <3>1. PICK x : x = [cmd EXCEPT !.pc = "report", !.status = "pass"]
                OBVIOUS
            <3>2. /\ x \in ProbeCommand /\ x.pc = "report" /\ x.found = f /\ x.env = e
                BY <1>3, <1>4, <3>1 DEF ProbeCommand, ProbePlaces, Statuses, Terminal
            <3>3. cmd' = x
                BY <2>4, <3>1 DEF Report
            <3>4. Len(f) = n
                BY <1>8, <2>1
            <3>5. \A i \in 1..n : f[i].env = e /\ f[i].good
                <4>1. DOMAIN f = 1..n
                    BY <3>4
                <4>2. \A i \in DOMAIN f : f[i].good
                    BY <1>4, <2>4 DEF Valid
                <4>3. QED
                    BY <1>8, <2>1, <3>4, <4>1, <4>2
            <3>6. Collected(x, n)
                BY <3>2, <3>4, <3>5 DEF Collected
            <3>7. QED
                BY <1>6, <2>1, <3>2, <3>3, <3>6
        <2>5. QED
            BY <1>25, <2>2, <2>3, <2>4 DEF ReportMatrix
    <1>26. QED
        BY <1>16, <1>17, <1>18, <1>19, <1>20, <1>21, <1>22, <1>23, <1>24, <1>25

\* A step that touches the provisioning.
LEMMA ProvisionStep ==
    ASSUME ProbesInv, UNCHANGED matrix,
           NEW s \in Secrets, secrets' = s, NEW P \in SUBSET ProgramRecord, programs' = P,
           NEW o \in BOOLEAN, overlap' = o, NEW c \in Nat, commands' = c,
           NEW w \in ProbeRecord, journal' = [journal EXCEPT !.provisioning = w],
           NEW x \in ProbeCommand, cmd' = x, Collected(x, Size),
           OwnProgram(x, P, c, w), ~o => Described(P, w, s)
    PROVE  ProbesInv'
    <1>1. Size' = Size /\ journal \in ProbeJournal(Size)
        BY DEF Size, ProbesInv, ProbesTypes
    <1>2. PICK j : j = [journal EXCEPT !.provisioning = w]
        OBVIOUS
    <1>3. j \in ProbeJournal(Size) /\ j.provisioning = w /\ journal' = j
        BY <1>1, <1>2 DEF ProbeJournal
    <1>4. ProbesTypes'
        BY <1>1, <1>3 DEF ProbesInv, ProbesTypes
    <1>5. QED
        BY <1>1, <1>3, <1>4 DEF ProbesInv

\* A new command; its provisioning, which is begun or loses its connection.
LEMMA ProvisionInv ==
    ASSUME ProbesInv, StartCommand \/ BeginProvisioning \/ LoseConnection
    PROVE  ProbesInv'
    <1>1. PICK n \in Nat : n = Size
        BY WaitingFacts DEF ProbesInv, ProbesTypes, Size
    <1>2. /\ journal \in ProbeJournal(n) /\ cmd \in ProbeCommand /\ Collected(cmd, n)
          /\ programs \in SUBSET ProgramRecord /\ overlap \in BOOLEAN /\ commands \in Nat
          /\ secrets \in Secrets
        BY <1>1 DEF ProbesInv, ProbesTypes
    <1>3. PICK w \in ProbeRecord : w = journal.provisioning
        BY <1>2 DEF ProbeJournal
    <1>4. OwnProgram(cmd, programs, commands, w) /\ (~overlap => Described(programs, w, secrets))
        BY <1>3 DEF ProbesInv
    <1>5. UNCHANGED <<matrix, secrets>>
        BY DEF StartCommand, BeginProvisioning, LoseConnection
    <1>6. PICK c \in Nat : c = commands
        BY <1>2
    <1>7. CASE StartCommand
        <2>1. PICK e \in Environments, h \in Producers :
                cmd' = [Waiting EXCEPT !.pc = "ensure", !.env = e, !.sha = h]
            BY <1>7 DEF StartCommand
        <2>2. PICK x : x = [Waiting EXCEPT !.pc = "ensure", !.env = e, !.sha = h]
            OBVIOUS
        <2>3. /\ x \in ProbeCommand /\ x.pc = "ensure" /\ x.at = 1 /\ x.found = <<>>
            <3>1. e \in Nat /\ h \in Nat
                BY ProbesAssumption
            <3>2. QED
                BY <2>2, <3>1, WaitingFacts DEF ProbeCommand, ProbePlaces
        <2>4. Collected(x, n)
            BY <2>3 DEF Collected
        <2>5. PICK k \in Nat : k = c + 1
            OBVIOUS
        <2>6. \A p \in programs : p.id <= k /\ p.id # k
            <3>1. \A p \in programs : p.id \in Nat /\ p.id <= c
                BY <1>2, <1>4, <1>6 DEF OwnProgram, ProgramRecord
            <3>2. QED
                BY <2>5, <3>1
        <2>7. OwnProgram(x, programs, k, w)
            BY <2>3, <2>6 DEF OwnProgram
        <2>8. /\ commands' = k /\ cmd' = x /\ UNCHANGED <<programs, overlap, journal>>
            BY <1>6, <1>7, <2>1, <2>2, <2>5 DEF StartCommand
        <2>9. journal' = [journal EXCEPT !.provisioning = w]
            BY <1>2, <1>3, <2>8 DEF ProbeJournal
        <2>10. QED
            BY <1>1, <1>2, <1>4, <1>5, <2>3, <2>4, <2>7, <2>8, <2>9, ProvisionStep
    <1>8. CASE BeginProvisioning
        <2>1. PICK r : r = Started(w)
            OBVIOUS
        <2>2. r \in ProbeRecord /\ r.key = cmd.env /\ r.status = "running"
            BY <2>1, ProbeRecords
        <2>3. journal' = [journal EXCEPT !.provisioning = r]
            BY <1>3, <1>8, <2>1 DEF BeginProvisioning, ProvisioningBegun
        <2>4. PICK p : p = [id |-> c, env |-> cmd.env, sha |-> cmd.sha, at |-> 1,
                            retired |-> FALSE]
            OBVIOUS
        <2>5. p \in ProgramRecord /\ p.id = c /\ p.env = cmd.env /\ p.at = 1
            BY <1>2, <2>4 DEF ProgramRecord, ProbeCommand
        <2>6. PICK P \in SUBSET ProgramRecord : P = programs \cup {p}
            BY <1>2, <2>5
        <2>7. PICK o \in BOOLEAN : o = (overlap \/ programs # {})
            OBVIOUS
        <2>8. PICK x : x = [cmd EXCEPT !.pc = "provision"]
            OBVIOUS
        <2>9. /\ x \in ProbeCommand /\ x.pc = "provision" /\ x.env = cmd.env
              /\ x.at = cmd.at /\ x.found = cmd.found
            BY <1>2, <2>8 DEF ProbeCommand, ProbePlaces
        <2>10. cmd.pc = "ensure"
            BY <1>8 DEF BeginProvisioning
        <2>11. Collected(x, n)
            BY <1>2, <2>9, <2>10 DEF Collected
        <2>12. OwnProgram(x, P, c, r)
            BY <1>4, <1>6, <2>2, <2>5, <2>6, <2>9, <2>10 DEF OwnProgram
        <2>13. ~o => Described(P, r, secrets)
            <3>1. SUFFICES ASSUME ~o PROVE Described(P, r, secrets)
                OBVIOUS
            <3>2. P = {p}
                BY <2>6, <2>7, <3>1
            <3>3. \A i \in 1..NumPrincipals : ~(i < p.at)
                BY <2>5, WaitingFacts
            <3>4. QED
                BY <2>2, <3>2, <3>3 DEF Described
        <2>14. programs' = P /\ overlap' = o /\ commands' = c /\ cmd' = x
            BY <1>6, <1>8, <2>4, <2>6, <2>7, <2>8 DEF BeginProvisioning
        <2>15. QED
            BY <1>1, <1>2, <1>5, <2>2, <2>3, <2>9, <2>11, <2>12, <2>13, <2>14, ProvisionStep
    <1>9. CASE LoseConnection
        <2>1. PICK r : r = Finish(w, "infra_failed", Bound(FALSE))
            OBVIOUS
        <2>2. r \in ProbeRecord /\ r.status = "infra_failed"
            <3>1. "infra_failed" \in Terminal
                BY DEF Terminal
            <3>2. QED
                BY <2>1, <3>1, ProbeRecords
        <2>3. PICK x : x = [cmd EXCEPT !.pc = "report", !.status = "infra_failed"]
            OBVIOUS
        <2>4. x \in ProbeCommand /\ x.pc = "report" /\ x.status = "infra_failed"
            BY <1>2, <2>3 DEF ProbeCommand, ProbePlaces, Statuses, Terminal
        <2>5. Collected(x, n)
            BY <2>4 DEF Collected
        <2>6. OwnProgram(x, programs, commands, r)
            BY <1>4, <2>4 DEF OwnProgram
        <2>7. ~overlap => Described(programs, r, secrets)
            BY <1>4, <2>2 DEF Described
        <2>8. /\ journal' = [journal EXCEPT !.provisioning = r] /\ cmd' = x
              /\ UNCHANGED <<programs, overlap, commands>>
            BY <1>3, <1>9, <2>1, <2>3 DEF LoseConnection, ProvisioningRefused, Provisioned, Report
        <2>9. QED
            BY <1>1, <1>2, <1>5, <2>2, <2>4, <2>5, <2>6, <2>7, <2>8, ProvisionStep
    <1>10. QED
        BY <1>7, <1>8, <1>9

\* A program on the server: it retires a secret, binds one, ends or fails.
LEMMA ProgramInv ==
    ASSUME ProbesInv, NEW p \in programs,
           RetireSecret(p) \/ EnsureSecret(p) \/ ProvisioningEnds(p) \/ ProgramFails(p)
    PROVE  ProbesInv'
    <1>1. PICK n \in Nat : n = Size
        BY WaitingFacts DEF ProbesInv, ProbesTypes, Size
    <1>2. /\ journal \in ProbeJournal(n) /\ cmd \in ProbeCommand /\ Collected(cmd, n)
          /\ programs \in SUBSET ProgramRecord /\ overlap \in BOOLEAN /\ commands \in Nat
          /\ secrets \in Secrets /\ p \in ProgramRecord
        BY <1>1 DEF ProbesInv, ProbesTypes
    <1>3. PICK w \in ProbeRecord : w = journal.provisioning
        BY <1>2 DEF ProbeJournal
    <1>4. OwnProgram(cmd, programs, commands, w) /\ (~overlap => Described(programs, w, secrets))
        BY <1>3 DEF ProbesInv
    <1>5. UNCHANGED <<matrix, overlap, commands>>
        BY DEF RetireSecret, EnsureSecret, ProvisioningEnds, ProgramFails
    <1>6. PICK a \in Nat, N \in Nat : a = p.at /\ N = NumPrincipals
        BY <1>2, WaitingFacts DEF ProgramRecord
    <1>7. ASSUME UNCHANGED <<journal, cmd>>,
                 NEW q \in ProgramRecord, q.id = p.id, q.env = p.env,
                 programs' = (programs \ {p}) \cup {q},
                 NEW s \in Secrets, secrets' = s,
                 (\A i \in 1..N : i < a => secrets[i].env = p.env) =>
                    \A i \in 1..N : i < q.at => s[i].env = p.env
          PROVE  ProbesInv'
        <2>1. PICK P \in SUBSET ProgramRecord : P = (programs \ {p}) \cup {q}
            BY <1>2, <1>7
        <2>2. OwnProgram(cmd, P, commands, w)
            BY <1>4, <1>7, <2>1 DEF OwnProgram
        <2>3. ~overlap => Described(P, w, s)
            <3>1. SUFFICES ASSUME ~overlap PROVE Described(P, w, s)
                OBVIOUS
            <3>2. programs = {p} /\ w.status # "pass"
                BY <1>4, <3>1 DEF Described
            <3>3. P = {q}
                BY <2>1, <3>2
            <3>4. \A i \in 1..N : i < a => secrets[i].env = p.env
                BY <1>4, <1>6, <3>1 DEF Described
            <3>5. QED
                BY <1>6, <1>7, <3>2, <3>3, <3>4 DEF Described
        <2>4. journal' = [journal EXCEPT !.provisioning = w]
            BY <1>2, <1>3, <1>7 DEF ProbeJournal
        <2>5. PICK x \in ProbeCommand : x = cmd
            BY <1>2
        <2>6. QED
            BY <1>1, <1>2, <1>5, <1>7, <2>1, <2>2, <2>3, <2>4, <2>5, ProvisionStep
    <1>8. PICK P \in SUBSET ProgramRecord : P = programs \ {p}
        BY <1>2
    <1>9. ~overlap => P = {} /\ programs = {p}
        BY <1>4, <1>8 DEF Described
    <1>10. CASE RetireSecret(p)
        <2>1. PICK q : q = [p EXCEPT !.retired = TRUE]
            OBVIOUS
        <2>2. q \in ProgramRecord /\ q.id = p.id /\ q.env = p.env /\ q.at = p.at
            BY <1>2, <2>1 DEF ProgramRecord
        <2>3. PICK s : s = [secrets EXCEPT ![a] = NoSecret]
            OBVIOUS
        <2>4. s \in Secrets /\ \A i \in 1..N : i # a => s[i] = secrets[i]
            BY <1>2, <1>6, <2>3 DEF Secrets, NoSecret
        <2>5. \A i \in 1..N : i < a => i # a
            BY <1>6
        <2>6. /\ programs' = (programs \ {p}) \cup {q} /\ secrets' = s
              /\ UNCHANGED <<journal, cmd>>
            BY <1>6, <1>10, <2>1, <2>3 DEF RetireSecret, Becomes
        <2>7. QED
            BY <1>6, <1>7, <2>2, <2>4, <2>5, <2>6
    <1>11. CASE EnsureSecret(p)
        <2>1. PICK k \in Nat : k = a + 1
            OBVIOUS
        <2>2. PICK q : q = [p EXCEPT !.at = k, !.retired = FALSE]
            OBVIOUS
        <2>3. q \in ProgramRecord /\ q.id = p.id /\ q.env = p.env /\ q.at = k
            BY <1>2, <2>2 DEF ProgramRecord
        <2>4. PICK b : b = Binding(p)
            OBVIOUS
        <2>5. b \in [env : Nat, sha : Nat] /\ b.env = p.env
            BY <1>2, <2>4 DEF Binding, ProgramRecord
        <2>6. PICK s : s = [secrets EXCEPT ![a] = b]
            OBVIOUS
        <2>7. /\ s \in Secrets /\ \A i \in 1..N : i # a => s[i] = secrets[i]
              /\ a \in 1..N => s[a] = b
            BY <1>2, <1>6, <2>5, <2>6 DEF Secrets
        <2>8. \A i \in 1..N : i < k => i < a \/ i = a
            BY <2>1
        <2>9. /\ programs' = (programs \ {p}) \cup {q} /\ secrets' = s
              /\ UNCHANGED <<journal, cmd>>
            BY <1>6, <1>11, <2>1, <2>2, <2>4, <2>6 DEF EnsureSecret, Advance, Becomes
        <2>10. \A i \in 1..N : i < a => i # a
            BY <1>6
        <2>11. QED
            BY <1>7, <2>3, <2>5, <2>7, <2>8, <2>9, <2>10
    <1>12. CASE (ProvisioningEnds(p) \/ ProgramFails(p)) /\ UNCHANGED <<journal, cmd>>
        <2>1. programs' = P /\ UNCHANGED secrets
            BY <1>8, <1>12 DEF ProvisioningEnds, ProgramFails
        <2>2. OwnProgram(cmd, P, commands, w)
            BY <1>4, <1>8 DEF OwnProgram
        <2>3. ~overlap => Described(P, w, secrets)
            BY <1>4, <1>8 DEF Described
        <2>4. journal' = [journal EXCEPT !.provisioning = w]
            BY <1>2, <1>3, <1>12 DEF ProbeJournal
        <2>5. PICK x \in ProbeCommand : x = cmd
            BY <1>2
        <2>6. QED
            BY <1>1, <1>2, <1>5, <1>12, <2>1, <2>2, <2>3, <2>4, <2>5, ProvisionStep
    <1>13. CASE ProvisioningEnds(p) /\ Mine(p)
        <2>1. PICK r : r = Finish(w, "pass", Bound(TRUE))
            OBVIOUS
        <2>2. r \in ProbeRecord /\ r.status = "pass" /\ r.key = w.key
            <3>1. "pass" \in Terminal
                BY DEF Terminal
            <3>2. QED
                BY <2>1, <3>1, ProbeRecords
        <2>3. PICK x : x = [cmd EXCEPT !.pc = "scan"]
            OBVIOUS
        <2>4. /\ x \in ProbeCommand /\ x.pc = "scan" /\ x.env = cmd.env /\ x.at = cmd.at
              /\ x.found = cmd.found
            BY <1>2, <2>3 DEF ProbeCommand, ProbePlaces
        <2>5. cmd.pc = "provision" /\ p.id = commands /\ a = N + 1
            BY <1>6, <1>13 DEF Mine, ProvisioningEnds
        <2>6. Collected(x, n)
            BY <1>2, <2>4, <2>5 DEF Collected
        <2>7. OwnProgram(x, P, commands, r)
            BY <1>4, <1>8, <2>4 DEF OwnProgram
        <2>8. w.key = cmd.env /\ p.env = cmd.env
            BY <1>4, <2>5 DEF OwnProgram
        <2>9. ~overlap => Described(P, r, secrets)
            <3>1. SUFFICES ASSUME ~overlap PROVE Described(P, r, secrets)
                OBVIOUS
            <3>2. \A i \in 1..N : i < a
                BY <2>5
            <3>3. \A i \in 1..NumPrincipals : secrets[i].env = r.key
                BY <1>4, <1>6, <2>2, <2>8, <3>1, <3>2 DEF Described
            <3>4. QED
                BY <1>9, <3>1, <3>3 DEF Described
        <2>10. /\ programs' = P /\ UNCHANGED secrets /\ cmd' = x
               /\ journal' = [journal EXCEPT !.provisioning = r]
            BY <1>3, <1>8, <1>13, <2>1, <2>3 DEF ProvisioningEnds, Provisioned
        <2>11. QED
            BY <1>1, <1>2, <1>5, <2>2, <2>4, <2>6, <2>7, <2>9, <2>10, ProvisionStep
    <1>14. ASSUME ProgramFails(p), NEW v \in {"infra_failed", "blocked"}, ProvisioningRefused(v)
           PROVE  ProbesInv'
        <2>1. PICK r : r = Finish(w, v, Bound(FALSE))
            OBVIOUS
        <2>2. r \in ProbeRecord /\ r.status = v /\ v \in Statuses
            <3>1. v \in Terminal
                BY <1>14 DEF Terminal
            <3>2. QED
                BY <2>1, <3>1, ProbeRecords DEF Statuses
        <2>3. PICK x : x = [cmd EXCEPT !.pc = "report", !.status = v]
            OBVIOUS
        <2>4. x \in ProbeCommand /\ x.pc = "report" /\ x.status = v
            BY <1>2, <2>2, <2>3 DEF ProbeCommand, ProbePlaces
        <2>5. Collected(x, n)
            BY <1>14, <2>4 DEF Collected
        <2>6. OwnProgram(x, P, commands, r)
            BY <1>4, <1>8, <2>4 DEF OwnProgram
        <2>7. ~overlap => Described(P, r, secrets)
            BY <1>9, <1>14, <2>2 DEF Described
        <2>8. /\ programs' = P /\ UNCHANGED secrets /\ cmd' = x
              /\ journal' = [journal EXCEPT !.provisioning = r]
            BY <1>3, <1>8, <1>14, <2>1, <2>3 DEF ProgramFails, ProvisioningRefused, Provisioned,
                                                 Report
        <2>9. QED
            BY <1>1, <1>2, <1>5, <2>2, <2>4, <2>5, <2>6, <2>7, <2>8, ProvisionStep
    <1>15. QED
        BY <1>10, <1>11, <1>12, <1>13, <1>14 DEF ProvisioningEnds, ProgramFails

(***************************************************************************)
(* The inductive invariant of the isolation probes holds in every          *)
(* behaviour, with commands dying anywhere and programs that outlive them. *)
(***************************************************************************)
THEOREM ProbesInvariant == ProbesSpec => []ProbesInv
    <1>1. ProbesInv /\ [ProbesNext]_probeVars => ProbesInv'
        <2> SUFFICES ASSUME ProbesInv, [ProbesNext]_probeVars PROVE ProbesInv'
            OBVIOUS
        <2>1. CASE ProbesNext
            BY <2>1, MeasureInv, ProvisionInv, ProgramInv DEF ProbesNext
        <2>2. CASE UNCHANGED probeVars
            BY <2>2 DEF probeVars, ProbesInv, ProbesTypes, Size
        <2>3. QED
            BY <2>1, <2>2
    <1>2. QED
        BY <1>1, ProbesInitInv, PTL DEF ProbesSpec

(***************************************************************************)
(* A matrix reported as passed has all its units, each measured in the     *)
(* environment of the command; and a journal that says provisioned         *)
(* describes the secrets, unless provisioning programs overlapped          *)
(* (_reusable, _finish, _ensure_provisioned, ensure_principal_secret).     *)
(***************************************************************************)
THEOREM ProbesAreBound == ProbesSpec => []ProbesBound
    <1>1. ProbesInv => ProbesBound
        <2> SUFFICES ASSUME ProbesInv PROVE ProbesBound
            OBVIOUS
        <2>1. PICK n \in Nat, f \in Seq(Result), e \in {cmd.env} :
                 n = Size /\ f = cmd.found /\ e = cmd.env
            BY WaitingFacts DEF ProbesInv, ProbesTypes, Size, ProbeCommand
        <2>2. ASSUME cmd.pc = "report", cmd.status = "pass"
              PROVE  Len(f) = n /\ \A i \in DOMAIN f : f[i] = Bound(TRUE)
            <3>1. Len(f) = n /\ \A i \in 1..n : f[i].env = e /\ f[i].good
                BY <2>1, <2>2 DEF ProbesInv, Collected
            <3>2. \A i \in 1..n : f[i] \in Result
                BY <3>1
            <3>3. \A i \in 1..n : f[i] = [env |-> e, good |-> TRUE]
                BY <3>1, <3>2 DEF Result
            <3>4. DOMAIN f = 1..n
                BY <3>1
            <3>5. QED
                BY <2>1, <3>1, <3>3, <3>4 DEF Bound
        <2>3. PassedHere
            BY <2>1, <2>2 DEF PassedHere
        <2>4. DOMAIN secrets = 1..NumPrincipals
            BY DEF ProbesInv, ProbesTypes, Secrets
        <2>5. ProvisionedAsRecorded
            BY <2>4 DEF ProbesInv, Described, ProvisionedAsRecorded
        <2>6. QED
            BY <2>3, <2>5 DEF ProbesBound
    <1>2. QED
        BY <1>1, ProbesInvariant, PTL

-----------------------------------------------------------------------------
(* The metric-v2 baselines. *)

\* The outcome of a trial, final or not.
Outcomes == Resolved \cup {"absent", "running", "infra_failed"}

Rows == [1..NumTrials -> Outcomes]

FileRecord == [version : Versions \cup {0}, rows : Rows \cup {<<>>}, best : Nat]

RetestCommand == [pc : {"idle", "trials", "call", "aggregate", "summary"},
                  version : Versions \cup {0}, at : Nat]

\* The command's variables have their types.
RetestTypes ==
    /\ scenarios \in Versions
    /\ trials \in [Versions -> Rows]
    /\ files \in [live : Versions \cup {0}, aggregate : FileRecord, summary : FileRecord]
    /\ retest \in RetestCommand

\* All trials of dataset v have their final answer.
AllResolved(T, v) == \A t \in 1..NumTrials : T[v][t] \in Resolved

\* The number in file f is the best of the three arms on f's dataset.
BestIn(T, f) ==
    f.version # 0 =>
        /\ AllResolved(T, f.version)
        /\ \A arm \in LiveArms : f.best >= Right(T[f.version], arm)
        /\ f.best >= RuleRight[f.version] * Repetitions

\* What the command x knows of the journal T.
Tried(T, x) ==
    /\ x.at # 0
    /\ x.pc # "idle" => x.version \in Versions
    /\ x.pc \in {"trials", "call"} =>
          \A t \in 1..NumTrials : t < x.at => T[x.version][t] \in Resolved \cup {"infra_failed"}
    /\ x.pc = "call" => x.at \in 1..NumTrials /\ T[x.version][x.at] = "running"
    /\ x.pc = "aggregate" => AllResolved(T, x.version)

RetestInv ==
    /\ RetestTypes
    /\ Tried(trials, retest)
    /\ BestIn(trials, files.aggregate)
    /\ BestIn(trials, files.summary)
    /\ files.aggregate.version # 0 => files.aggregate.rows = trials[files.aggregate.version]

\* The constants of the baselines.
LEMMA BaselineFacts ==
    /\ NumLabels \in Nat /\ NumTrials \in Nat
    /\ \A v \in Versions : v \in Nat /\ v # 0 /\ RuleRight[v] * Repetitions \in Nat
    <1>1. NumLabels \in Nat /\ Cases \in Nat /\ Repetitions \in Nat
        BY BaselinesAssumption
    <1>2. NumTrials \in Nat
        <2>1. PICK c \in Nat, r \in Nat : c = Cases /\ r = Repetitions
            BY <1>1
        <2>2. PICK p \in Nat : p = c * r
            OBVIOUS
        <2>3. NumTrials = 2 * p
            BY <2>1, <2>2 DEF NumTrials, PerArm
        <2>4. QED
            BY <2>3
    <1>3. ASSUME NEW v \in Versions PROVE v \in Nat /\ v # 0 /\ RuleRight[v] * Repetitions \in Nat
        <2>1. v \in Nat /\ v # 0 /\ RuleRight[v] \in 0..Cases
            BY BaselinesAssumption
        <2>2. PICK c \in Nat, r \in Nat : c = RuleRight[v] /\ r = Repetitions
            BY <1>1, <2>1
        <2>3. c * r \in Nat
            OBVIOUS
        <2>4. QED
            BY <2>1, <2>2, <2>3
    <1>4. QED
        BY <1>1, <1>2, <1>3

\* Max returns the greatest of three numbers.
LEMMA GreatestOfThree ==
    ASSUME NEW a \in Nat, NEW b \in Nat, NEW c \in Nat
    PROVE  /\ Max({a, b, c}) \in Nat
           /\ Max({a, b, c}) >= a /\ Max({a, b, c}) >= b /\ Max({a, b, c}) >= c
    <1>1. \E x \in {a, b, c} : \A y \in {a, b, c} : x >= y
        <2>1. CASE a >= b /\ a >= c
            BY <2>1
        <2>2. CASE b >= a /\ b >= c
            BY <2>2
        <2>3. CASE c >= a /\ c >= b
            BY <2>3
        <2>4. QED
            BY <2>1, <2>2, <2>3
    <1>2. PICK m : m = Max({a, b, c})
        OBVIOUS
    <1>3. m \in {a, b, c} /\ \A y \in {a, b, c} : m >= y
        BY <1>1, <1>2 DEF Max
    <1>4. QED
        BY <1>2, <1>3

\* The number of right answers of an arm.
LEMMA RightFacts == \A rows, arm : Right(rows, arm) \in Nat
    <1> SUFFICES ASSUME NEW rows, NEW arm PROVE Right(rows, arm) \in Nat
        OBVIOUS
    <1>1. PICK S : S = {t \in 1..NumTrials : Arm(t) = arm /\ rows[t] = "right"}
        OBVIOUS
    <1>2. S \subseteq 1..NumTrials /\ IsFiniteSet(1..NumTrials)
        BY <1>1, BaselineFacts, FS_Interval
    <1>3. QED
        BY <1>1, <1>2, FS_Subset, FS_CardinalityType DEF Right

\* The best baseline is not below any of the three.
LEMMA BestFacts ==
    ASSUME NEW v \in Versions, RetestInv
    PROVE  /\ BestBaseline(v) \in Nat
           /\ \A arm \in LiveArms : BestBaseline(v) >= Right(trials[v], arm)
           /\ BestBaseline(v) >= RuleRight[v] * Repetitions
    <1>1. PICK a \in Nat, b \in Nat, c \in Nat :
            /\ a = Right(trials[v], "naive_react") /\ b = Right(trials[v], "no_rag")
            /\ c = RuleRight[v] * Repetitions
        BY RightFacts, BaselineFacts
    <1>2. {Right(trials[v], arm) : arm \in LiveArms} \cup {RuleRight[v] * Repetitions} = {a, b, c}
        BY <1>1 DEF LiveArms
    <1>3. BestBaseline(v) = Max({a, b, c})
        BY <1>2 DEF BestBaseline
    <1>4. QED
        BY <1>1, <1>3, GreatestOfThree DEF LiveArms

\* A write to a trial that has no answer yet leaves every file true.
LEMMA TrialWritten ==
    ASSUME NEW v \in Versions, ~AllResolved(trials, v),
           NEW T, \A u \in Versions \ {v} : T[u] = trials[u],
           NEW f \in FileRecord, BestIn(trials, f)
    PROVE  BestIn(T, f) /\ (f.version # 0 => T[f.version] = trials[f.version])
    <1>1. SUFFICES ASSUME f.version # 0
                   PROVE  BestIn(T, f) /\ T[f.version] = trials[f.version]
        BY DEF BestIn
    <1>2. f.version \in Versions /\ AllResolved(trials, f.version)
        BY <1>1 DEF BestIn, FileRecord
    <1>3. f.version # v
        BY <1>2
    <1>4. T[f.version] = trials[f.version]
        BY <1>2, <1>3
    <1>5. QED
        BY <1>1, <1>4 DEF BestIn, AllResolved

\* The steps of the command and of its environment.
LEMMA RetestNextInv ==
    ASSUME RetestInv, [BaselinesNext]_baselineVars
    PROVE  RetestInv'
    <1>1. /\ scenarios \in Versions /\ trials \in [Versions -> Rows]
          /\ files \in [live : Versions \cup {0}, aggregate : FileRecord, summary : FileRecord]
          /\ retest \in RetestCommand
          /\ files.aggregate \in FileRecord /\ files.summary \in FileRecord
        BY DEF RetestInv, RetestTypes
    <1>2. Resting \in RetestCommand /\ Resting.pc = "idle" /\ Resting.at # 0
        BY DEF Resting, RetestCommand
    <1>3. Tried(trials, Resting)
        BY <1>2 DEF Tried
    <1>4. PICK N \in Nat, a \in Nat : N = NumTrials /\ a = retest.at
        BY <1>1, BaselineFacts DEF RetestCommand
    <1>5. ASSUME NEW x \in RetestCommand,
                 retest' = x, Tried(trials, x), UNCHANGED <<scenarios, trials, files>>
          PROVE  RetestInv'
        BY <1>5 DEF RetestInv, RetestTypes
    <1>6. ASSUME NEW v \in Versions,
                 NEW t \in 1..NumTrials, trials[v][t] \notin Resolved,
                 NEW o \in Outcomes, trials' = [trials EXCEPT ![v][t] = o],
                 NEW x \in RetestCommand,
                 retest' = x, Tried(trials', x), UNCHANGED <<scenarios, files>>
          PROVE  RetestInv'
        <2>1. PICK T : T = trials'
            OBVIOUS
        <2>2. T \in [Versions -> Rows]
            <3>1. PICK R : R = [trials[v] EXCEPT ![t] = o]
                OBVIOUS
            <3>2. R \in Rows
                BY <1>1, <1>6, <3>1 DEF Rows
            <3>3. T = [trials EXCEPT ![v] = R]
                BY <1>1, <1>6, <2>1, <3>1
            <3>4. QED
                BY <1>1, <3>2, <3>3
        <2>3. ASSUME NEW f \in FileRecord, BestIn(trials, f)
              PROVE  BestIn(T, f) /\ (f.version # 0 => T[f.version] = trials[f.version])
            <3>1. \A u \in Versions \ {v} : T[u] = trials[u]
                BY <1>1, <1>6, <2>1
            <3>2. ~AllResolved(trials, v)
                BY <1>6 DEF AllResolved
            <3>3. QED
                BY <1>6, <2>3, <3>1, <3>2, TrialWritten
        <2>4. PICK g, h : g = files.aggregate /\ h = files.summary
            OBVIOUS
        <2>5. g \in FileRecord /\ h \in FileRecord /\ BestIn(trials, g) /\ BestIn(trials, h)
            BY <1>1, <2>4 DEF RetestInv
        <2>6. /\ BestIn(T, g) /\ BestIn(T, h)
              /\ g.version # 0 => T[g.version] = trials[g.version]
            BY <2>3, <2>5
        <2>7. g.version # 0 => g.rows = T[g.version]
            BY <2>4, <2>6 DEF RetestInv
        <2>8. trials' = T /\ files' = files /\ files.aggregate = g /\ files.summary = h
            BY <1>6, <2>1, <2>4
        <2>9. QED
            BY <1>1, <1>6, <2>2, <2>6, <2>7, <2>8 DEF RetestInv, RetestTypes
    <1>7. CASE GradeResult \/ UNCHANGED baselineVars
        <2>1. UNCHANGED <<scenarios, trials, files, retest>>
            BY <1>7 DEF GradeResult, baselineVars
        <2>2. QED
            BY <2>1 DEF RetestInv, RetestTypes
    <1>8. CASE ReplaceScenarios
        BY <1>8 DEF ReplaceScenarios, RetestInv, RetestTypes
    <1>9. CASE AbortRetest
        BY <1>2, <1>3, <1>5, <1>9 DEF AbortRetest
    <1>10. CASE StartRetest
        <2>1. PICK x : x = [Resting EXCEPT !.pc = "trials", !.version = scenarios]
            OBVIOUS
        <2>2. x \in RetestCommand /\ x.pc = "trials" /\ x.version = scenarios /\ x.at = 1
            BY <1>1, <2>1 DEF Resting, RetestCommand
        <2>3. \A t \in 1..NumTrials : ~(t < x.at)
            BY <1>4, <2>2
        <2>4. Tried(trials, x)
            BY <1>1, <2>2, <2>3 DEF Tried
        <2>5. QED
            BY <1>5, <1>10, <2>1, <2>2, <2>4 DEF StartRetest
    <1>11. ASSUME NEW g \in FileRecord, NEW h \in FileRecord, NEW l \in Versions \cup {0},
                  files' = [live |-> l, aggregate |-> g, summary |-> h],
                  NEW x \in RetestCommand, retest' = x, Tried(trials, x),
                  BestIn(trials, g), BestIn(trials, h),
                  g.version # 0 => g.rows = trials[g.version],
                  UNCHANGED <<scenarios, trials>>
           PROVE  RetestInv'
        BY <1>1, <1>11 DEF RetestInv, RetestTypes
    <1>12. PICK g \in FileRecord, h \in FileRecord, l \in Versions \cup {0} :
             g = files.aggregate /\ h = files.summary /\ l = files.live
        BY <1>1
    <1>13. /\ files = [live |-> l, aggregate |-> g, summary |-> h]
           /\ BestIn(trials, g) /\ BestIn(trials, h) /\ (g.version # 0 => g.rows = trials[g.version])
        BY <1>1, <1>12 DEF RetestInv
    <1>14. CASE SkipLive
        <2>1. NoFile \in FileRecord /\ NoFile.version = 0
            BY DEF NoFile, FileRecord
        <2>2. BestIn(trials, NoFile)
            BY <2>1 DEF BestIn
        <2>3. files' = [live |-> l, aggregate |-> g, summary |-> NoFile] /\ retest' = Resting
            BY <1>13, <1>14 DEF SkipLive
        <2>4. QED
            BY <1>2, <1>3, <1>11, <1>13, <1>14, <2>1, <2>2, <2>3 DEF SkipLive
    <1>15. CASE WriteSummary
        <2>1. PICK f : f = [g EXCEPT !.rows = <<>>]
            OBVIOUS
        <2>2. f \in FileRecord /\ f.version = g.version /\ f.best = g.best
            BY <2>1 DEF FileRecord
        <2>3. BestIn(trials, f)
            BY <1>13, <2>2 DEF BestIn
        <2>4. files' = [live |-> l, aggregate |-> g, summary |-> f] /\ retest' = Resting
            BY <1>12, <1>13, <1>15, <2>1 DEF WriteSummary
        <2>5. QED
            BY <1>2, <1>3, <1>11, <1>13, <1>15, <2>2, <2>3, <2>4 DEF WriteSummary
    <1>16. CASE WriteAggregate
        <2>1. PICK v, b, R : v = retest.version /\ b = BestBaseline(v) /\ R = trials[v]
            OBVIOUS
        <2>2. v \in Versions /\ AllResolved(trials, v)
            BY <1>16, <2>1 DEF WriteAggregate, RetestInv, Tried
        <2>3. /\ b \in Nat /\ (\A arm \in LiveArms : b >= Right(trials[v], arm))
              /\ b >= RuleRight[v] * Repetitions
            BY <2>1, <2>2, BestFacts
        <2>4. PICK f : f = [version |-> v, rows |-> R, best |-> b]
            OBVIOUS
        <2>5. R \in Rows
            BY <1>1, <2>1, <2>2
        <2>6. f \in FileRecord /\ f.version = v /\ f.rows = trials[v] /\ f.best = b
            BY <2>1, <2>2, <2>3, <2>4, <2>5 DEF FileRecord
        <2>7. BestIn(trials, f)
            BY <2>2, <2>3, <2>6 DEF BestIn
        <2>8. PICK x : x = [retest EXCEPT !.pc = "summary"]
            OBVIOUS
        <2>9. x \in RetestCommand /\ x.pc = "summary" /\ x.version = v /\ x.at # 0
            BY <1>1, <2>1, <2>8 DEF RetestCommand, RetestInv, Tried
        <2>10. Tried(trials, x)
            BY <2>2, <2>9 DEF Tried
        <2>11. files' = [live |-> l, aggregate |-> f, summary |-> h] /\ retest' = x
            BY <1>13, <1>16, <2>1, <2>4, <2>8 DEF WriteAggregate
        <2>12. QED
            BY <1>11, <1>13, <1>16, <2>6, <2>7, <2>9, <2>10, <2>11 DEF WriteAggregate
    <1>17. CASE WriteLive
        <2>1. PICK v : v = retest.version
            OBVIOUS
        <2>2. /\ v \in Versions /\ retest.pc = "trials" /\ retest.at = N + 1
              /\ \A t \in 1..NumTrials : t < retest.at =>
                    trials[v][t] \in Resolved \cup {"infra_failed"}
            BY <1>4, <1>17, <2>1 DEF WriteLive, RetestInv, Tried
        <2>3. \A t \in 1..NumTrials : trials[v][t] \in Resolved \cup {"infra_failed"}
            BY <1>4, <2>2
        <2>4. files' = [live |-> v, aggregate |-> g, summary |-> h]
            BY <1>13, <1>17, <2>1 DEF WriteLive
        <2>5. CASE Unresolved(trials[v])
            <3>1. retest' = Resting
                BY <1>17, <2>1, <2>5 DEF WriteLive
            <3>2. QED
                BY <1>2, <1>3, <1>11, <1>13, <1>17, <2>2, <2>4, <3>1 DEF WriteLive
        <2>6. CASE ~Unresolved(trials[v])
            <3>1. AllResolved(trials, v)
                BY <2>3, <2>6 DEF AllResolved, Unresolved
            <3>2. PICK x : x = [retest EXCEPT !.pc = "aggregate"]
                OBVIOUS
            <3>3. x \in RetestCommand /\ x.pc = "aggregate" /\ x.version = v /\ x.at # 0
                BY <1>1, <2>1, <3>2 DEF RetestCommand, RetestInv, Tried
            <3>4. Tried(trials, x)
                BY <2>2, <3>1, <3>3 DEF Tried
            <3>5. retest' = x
                BY <1>17, <2>1, <2>6, <3>2 DEF WriteLive
            <3>6. QED
                BY <1>11, <1>13, <1>17, <2>2, <2>4, <3>3, <3>4, <3>5 DEF WriteLive
        <2>7. QED
            BY <2>5, <2>6
    <1>18. CASE BeginLive
        <2>1. PICK v : v = retest.version
            OBVIOUS
        <2>2. /\ v \in Versions /\ retest.pc = "trials" /\ a <= N
              /\ \A t \in 1..NumTrials : t < a => trials[v][t] \in Resolved \cup {"infra_failed"}
            BY <1>4, <1>18, <2>1 DEF BeginLive, RetestInv, Tried
        <2>3. CASE trials[v][a] \in Resolved
            <3>1. PICK x : x = [retest EXCEPT !.at = a + 1]
                OBVIOUS
            <3>2. x \in RetestCommand /\ x.pc = "trials" /\ x.version = v /\ x.at = a + 1
                BY <1>1, <2>1, <2>2, <3>1 DEF RetestCommand
            <3>3. \A t \in 1..NumTrials : t < a + 1 => t < a \/ t = a
                BY <1>4
            <3>4. Tried(trials, x)
                BY <2>2, <2>3, <3>2, <3>3 DEF Tried
            <3>5. retest' = x /\ UNCHANGED <<scenarios, trials, files>>
                BY <1>4, <1>18, <2>1, <2>3, <3>1 DEF BeginLive
            <3>6. QED
                BY <1>5, <3>2, <3>4, <3>5
        <2>4. CASE trials[v][a] \notin Resolved
            <3>1. PICK x : x = [retest EXCEPT !.pc = "call"]
                OBVIOUS
            <3>2. x \in RetestCommand /\ x.pc = "call" /\ x.version = v /\ x.at = a
                BY <1>1, <1>4, <2>1, <3>1 DEF RetestCommand
            <3>3. a \in 1..NumTrials
                <4>1. a # 0
                    BY <1>4 DEF RetestInv, Tried
                <4>2. QED
                    BY <1>4, <2>2, <4>1
            <3>4. /\ trials' = [trials EXCEPT ![v][a] = "running"]
                  /\ retest' = x /\ UNCHANGED <<scenarios, files>>
                BY <1>4, <1>18, <2>1, <2>4, <3>1 DEF BeginLive
            <3>5. PICK T : T = trials'
                OBVIOUS
            <3>6. T[v][a] = "running" /\ \A t \in 1..NumTrials : t # a => T[v][t] = trials[v][t]
                BY <1>1, <2>2, <3>3, <3>4, <3>5 DEF Rows
            <3>7. \A t \in 1..NumTrials : t < a => t # a
                BY <1>4
            <3>8. Tried(T, x)
                BY <2>2, <3>2, <3>3, <3>6, <3>7 DEF Tried
            <3>9. "running" \in Outcomes
                BY DEF Outcomes
            <3>10. QED
                BY <1>6, <2>2, <2>4, <3>2, <3>3, <3>4, <3>5, <3>8, <3>9
        <2>5. QED
            BY <2>3, <2>4
    <1>19. CASE CallModel
        <2>1. PICK v : v = retest.version
            OBVIOUS
        <2>2. /\ v \in Versions /\ a \in 1..NumTrials /\ trials[v][a] = "running"
              /\ \A t \in 1..NumTrials : t < a => trials[v][t] \in Resolved \cup {"infra_failed"}
            BY <1>4, <1>19, <2>1 DEF CallModel, RetestInv, Tried
        <2>3. PICK o \in Resolved \cup {"infra_failed"} : trials' = [trials EXCEPT ![v][a] = o]
            BY <1>4, <1>19, <2>1 DEF CallModel
        <2>4. PICK x : x = [retest EXCEPT !.pc = "trials", !.at = a + 1]
            OBVIOUS
        <2>5. x \in RetestCommand /\ x.pc = "trials" /\ x.version = v /\ x.at = a + 1
            <3>1. a + 1 \in Nat
                BY <1>4
            <3>2. QED
                BY <1>1, <2>1, <2>4, <3>1 DEF RetestCommand
        <2>6. PICK T : T = trials'
            OBVIOUS
        <2>7. T[v][a] = o /\ \A t \in 1..NumTrials : t # a => T[v][t] = trials[v][t]
            BY <1>1, <2>2, <2>3, <2>6 DEF Rows
        <2>8. \A t \in 1..NumTrials : t < a + 1 => t < a \/ t = a
            BY <1>4
        <2>9. \A t \in 1..NumTrials : t < a => t # a
            BY <1>4
        <2>10. \A t \in 1..NumTrials : t < a + 1 => T[v][t] \in Resolved \cup {"infra_failed"}
            BY <2>2, <2>3, <2>7, <2>8, <2>9
        <2>11. Tried(T, x)
            BY <2>2, <2>5, <2>10 DEF Tried
        <2>12. retest' = x /\ UNCHANGED <<scenarios, files>>
            BY <1>4, <1>19, <2>4 DEF CallModel
        <2>13. o \in Outcomes /\ trials[v][a] \notin Resolved
            BY <2>2, <2>3 DEF Outcomes, Resolved
        <2>14. QED
            BY <1>6, <2>2, <2>3, <2>5, <2>6, <2>11, <2>12, <2>13
    <1>20. QED
        BY <1>7, <1>8, <1>9, <1>10, <1>14, <1>15, <1>16, <1>17, <1>18, <1>19 DEF BaselinesNext

\* The command starts with no files and an empty journal.
LEMMA RetestInitInv ==
    ASSUME BaselinesInit
    PROVE  RetestInv
    <1>1. PICK R : R = [t \in 1..NumTrials |-> "absent"]
        OBVIOUS
    <1>2. R \in Rows
        BY <1>1 DEF Rows, Outcomes
    <1>3. NoFile \in FileRecord /\ NoFile.version = 0
        BY DEF NoFile, FileRecord
    <1>4. Resting \in RetestCommand /\ Resting.pc = "idle" /\ Resting.at # 0
        BY DEF Resting, RetestCommand
    <1>5. trials \in [Versions -> Rows]
        <2>1. trials = [v \in Versions |-> [t \in 1..NumTrials |-> "absent"]]
            BY Zenon DEF BaselinesInit
        <2>2. QED
            BY <1>1, <1>2, <2>1
    <1>6. /\ files = [live |-> 0, aggregate |-> NoFile, summary |-> NoFile]
          /\ retest = Resting /\ scenarios \in Versions
        BY Zenon DEF BaselinesInit
    <1>7. RetestTypes
        BY <1>3, <1>4, <1>5, <1>6 DEF RetestTypes
    <1>8. BestIn(trials, NoFile) /\ Tried(trials, Resting)
        BY <1>3, <1>4 DEF BestIn, Tried
    <1>9. QED
        BY <1>3, <1>6, <1>7, <1>8 DEF RetestInv

\* What grading needs: a case under grading has a label, and graded points are exact.
GradedInv ==
    /\ graded.pc \in {"live", "rule"} => graded.truth \in Known
    /\ graded = [pc |-> graded.pc, truth |-> graded.truth, result |-> graded.result,
                 score |-> graded.score]
    /\ CoreExact

\* A score of the scorer has a core point exactly for the exact diagnosis.
LEMMA ScoreIsExact ==
    ASSUME NEW r, NEW truth \in Known
    PROVE  (ScoreV2(r, truth).core = 1) <=>
              /\ r.root = truth /\ r.claim = truth /\ r.candidates \subseteq Known
              /\ r.evidence = {truth} /\ r.refs = {truth}
    <1>1. \A c : Malformed(c).core = 0
        BY DEF Malformed
    <1>2. CASE ({r.root, r.claim} \cup r.candidates) \ Known # {}
        <2>1. ScoreV2(r, truth) = Malformed("invalid_label")
            BY <1>2 DEF ScoreV2
        <2>2. ~(r.root = truth /\ r.claim = truth /\ r.candidates \subseteq Known)
            BY <1>2
        <2>3. QED
            BY <1>1, <2>1, <2>2
    <1>3. CASE ({r.root, r.claim} \cup r.candidates) \ Known = {} /\ r.claim # r.root
        <2>1. ScoreV2(r, truth) = Malformed("claim_contract")
            BY <1>3 DEF ScoreV2
        <2>2. QED
            BY <1>1, <1>3, <2>1
    <1>4. CASE /\ ({r.root, r.claim} \cup r.candidates) \ Known = {} /\ r.claim = r.root
               /\ (r.evidence \cup r.refs) \ Known # {}
        <2>1. ScoreV2(r, truth) = Malformed("unknown_evidence")
            BY <1>4 DEF ScoreV2
        <2>2. ~(r.evidence = {truth} /\ r.refs = {truth})
            BY <1>4
        <2>3. QED
            BY <1>1, <2>1, <2>2
    <1>5. CASE /\ ({r.root, r.claim} \cup r.candidates) \ Known = {} /\ r.claim = r.root
               /\ (r.evidence \cup r.refs) \ Known = {}
        <2>1. ScoreV2(r, truth) = WellFormed(r, truth)
            BY <1>5 DEF ScoreV2
        <2>2. r.candidates \subseteq Known
            BY <1>5
        <2>3. QED
            BY <1>5, <2>1, <2>2 DEF WellFormed, Exact, ClaimSupported
    <1>6. QED
        BY <1>2, <1>3, <1>4, <1>5

\* The rule gets a core point exactly when it names the label of the case.
LEMMA RuleIsExact ==
    ASSUME NEW signals, NEW truth \in Known
    PROVE  (ScoreV2(Rule(signals), truth).core = 1) <=> (Rule(signals).root = truth)
    <1>1. PICK shows : shows = {i \in 1..NumLabels : RuleOrder[i] \in signals}
        OBVIOUS
    <1>2. PICK root : root = IF shows = {} THEN NoLabel ELSE RuleOrder[Min(shows)]
        OBVIOUS
    <1>3. PICK r : r = Rule(signals)
        OBVIOUS
    <1>4. /\ r.root = root /\ r.claim = root /\ r.candidates = {root}
          /\ r.evidence = {Cites(root)} /\ r.refs = {Cites(root)}
        BY <1>1, <1>2, <1>3 DEF Rule
    <1>5. (ScoreV2(r, truth).core = 1) <=>
             /\ r.root = truth /\ r.claim = truth /\ r.candidates \subseteq Known
             /\ r.evidence = {truth} /\ r.refs = {truth}
        BY ScoreIsExact
    <1>6. truth # NoLabel
        BY BaselineFacts DEF Known, NoLabel
    <1>7. CASE root = truth
        <2>1. Cites(root) = truth
            BY <1>6, <1>7 DEF Cites
        <2>2. QED
            BY <1>3, <1>4, <1>5, <1>7, <2>1
    <1>8. CASE root # truth
        BY <1>3, <1>4, <1>5, <1>8
    <1>9. QED
        BY <1>7, <1>8

\* Grading is the only step that writes a score.
LEMMA GradedNextInv ==
    ASSUME GradedInv, [BaselinesNext]_baselineVars
    PROVE  GradedInv'
    <1>1. CASE UNCHANGED graded
        BY <1>1 DEF GradedInv, CoreExact
    <1>2. ASSUME NEW r, Grade(r), graded.pc \in {"live", "rule"},
                 graded.pc = "rule" =>
                    (ScoreV2(r, graded.truth).core = 1 <=> r.root = graded.truth)
          PROVE  GradedInv'
        <2>1. PICK t, s : t \in Known /\ t = graded.truth /\ s = ScoreV2(r, t)
            BY <1>2 DEF GradedInv
        <2>2. PICK pc \in {"answer", "row"} : pc = IF graded.pc = "live" THEN "answer" ELSE "row"
            OBVIOUS
        <2>3. PICK x : x = [graded EXCEPT !.result = r, !.score = s, !.pc = pc]
            OBVIOUS
        <2>4. graded' = x
            BY <1>2, <2>1, <2>2, <2>3 DEF Grade
        <2>5. /\ x.pc = pc /\ x.truth = t /\ x.result = r /\ x.score = s
              /\ x = [pc |-> x.pc, truth |-> x.truth, result |-> x.result, score |-> x.score]
            BY <2>1, <2>3 DEF GradedInv
        <2>6. (s.core = 1) <=>
                 /\ r.root = t /\ r.claim = t /\ r.candidates \subseteq Known
                 /\ r.evidence = {t} /\ r.refs = {t}
            BY <2>1, ScoreIsExact
        <2>7. pc = "row" => (s.core = 1 <=> r.root = t)
            BY <1>2, <2>1, <2>2
        <2>8. CoreExact'
            BY <2>4, <2>5, <2>6, <2>7 DEF CoreExact
        <2>9. QED
            BY <2>4, <2>5, <2>8 DEF GradedInv
    <1>3. CASE GradeResult
        <2>1. CASE graded.pc = "live" /\ \E r \in Answered2 : Grade(r)
            <3>1. PICK r : Grade(r)
                BY <2>1
            <3>2. QED
                BY <1>2, <2>1, <3>1
        <2>2. CASE graded.pc = "rule" /\ \E signals \in SUBSET Known : Grade(Rule(signals))
            <3>1. PICK signals : Grade(Rule(signals))
                BY <2>2
            <3>2. PICK r : r = Rule(signals)
                OBVIOUS
            <3>3. (ScoreV2(r, graded.truth).core = 1) <=> (r.root = graded.truth)
                BY <2>2, <3>2, RuleIsExact DEF GradedInv
            <3>4. QED
                BY <1>2, <2>2, <3>1, <3>2, <3>3
        <2>3. QED
            BY <1>3, <2>1, <2>2 DEF GradeResult
    <1>4. BaselinesNext => GradeResult \/ UNCHANGED graded
        BY DEF BaselinesNext, StartRetest, SkipLive, BeginLive, CallModel, WriteLive,
               WriteAggregate, WriteSummary, AbortRetest, ReplaceScenarios
    <1>5. QED
        BY <1>1, <1>3, <1>4 DEF baselineVars

\* Before grading there is no score.
LEMMA GradedInitInv ==
    ASSUME BaselinesInit
    PROVE  GradedInv
    <1>1. CASE graded = Ungraded
        <2>1. graded.pc = "off"
            BY <1>1 DEF Ungraded
        <2>2. graded = [pc |-> graded.pc, truth |-> graded.truth, result |-> graded.result,
                        score |-> graded.score]
            BY <1>1 DEF Ungraded
        <2>3. QED
            BY <2>1, <2>2 DEF GradedInv, CoreExact
    <1>2. ASSUME NEW pc \in {"live", "rule"}, NEW l \in AnswerLabels,
                 graded = [Ungraded EXCEPT !.pc = pc, !.truth = l]
          PROVE  GradedInv
        <2>1. graded = [pc |-> pc, truth |-> l, result |-> <<>>, score |-> <<>>]
            BY <1>2 DEF Ungraded
        <2>2. l \in Known
            BY BaselinesAssumption DEF Known
        <2>3. QED
            BY <2>1, <2>2 DEF GradedInv, CoreExact
    <1>3. QED
        BY <1>1, <1>2, Zenon DEF BaselinesInit

(***************************************************************************)
(* The inductive invariant of the metric-v2 baselines holds in every       *)
(* behaviour: the journal only gains answers, a file only speaks of a      *)
(* dataset whose trials all have one, and a score is the scorer's.         *)
(***************************************************************************)
THEOREM BaselinesInvariant == BaselinesSpec => [](RetestInv /\ GradedInv)
    <1>1. BaselinesInit => RetestInv /\ GradedInv
        BY RetestInitInv, GradedInitInv
    <1>2. (RetestInv /\ GradedInv) /\ [BaselinesNext]_baselineVars => (RetestInv /\ GradedInv)'
        BY RetestNextInv, GradedNextInv
    <1>3. QED
        BY <1>1, <1>2, PTL DEF BaselinesSpec

(***************************************************************************)
(* The number that the baselines hand on is sound, for any number of       *)
(* cases, repetitions, labels and datasets: core points are exact, no row  *)
(* of an aggregate is an outage, and the summary's number is the best of   *)
(* the three arms (_score_result_v2, run_gate_live_matrix,                 *)
(* aggregate_gate_baselines).                                              *)
(***************************************************************************)
THEOREM BaselinesAreSound == BaselinesSpec => []BaselinesSound
    <1>1. RetestInv /\ GradedInv => BaselinesSound
        <2> SUFFICES ASSUME RetestInv, GradedInv PROVE BaselinesSound
            OBVIOUS
        <2>1. NoOutageScored
            BY DEF RetestInv, BestIn, AllResolved, NoOutageScored
        <2>2. BestOfAllArms
            BY DEF RetestInv, BestIn, BestOfAllArms
        <2>3. QED
            BY <2>1, <2>2 DEF GradedInv, BaselinesSound
    <1>2. QED
        BY <1>1, BaselinesInvariant, PTL

-----------------------------------------------------------------------------
(* The experiment runner. *)

\* A record has the five fields; nothing is assumed of its key.
IsJournalRecord(r) ==
    r = [status |-> r.status, key |-> r.key, attempt |-> r.attempt, marks |-> r.marks,
         artifact |-> r.artifact]

RunRecord ==
    [pc : {"idle", "loop", "handler"}, at : Nat, selected : SUBSET Units,
     failed : SUBSET Units, done : SUBSET Units, inputs : [Units -> Nat]]

\* Every variable has its type, and a unit is handled only while it is at hand.
ExperimentTypes ==
    /\ input \in [Units -> Nat]
    /\ record = [u \in Units |-> record[u]]
    /\ \A u \in Units : IsJournalRecord(record[u])
    /\ run \in RunRecord
    /\ run.pc = "handler" => run.at \in Units

\* What a run reports lies behind it and is an exact pass: its own record and
\* those of everything it rests on agree with the inputs of the run.
DoneIsExact ==
    /\ run.pc = "idle" => run.done = {}
    /\ \A u \in run.done : u < run.at /\ ExactPass(u)

\* The unit at hand was begun under the key its dependencies give it, and they
\* are exact passes still.
HandledIsKeyed ==
    run.pc = "handler" =>
        /\ record[run.at].key = SemanticKey(run.at)
        /\ \A d \in Deps[run.at] : ExactPass(d)

ExperimentInv == ExperimentTypes /\ DoneIsExact /\ HandledIsKeyed /\ ResumeSameInputs

\* The dependencies of a unit come before it.
LEMMA DepsBefore ==
  ASSUME NEW u \in Units
  PROVE  /\ Deps[u] \subseteq Units
         /\ \A d \in Deps[u] : d < u
         /\ u \in Nat
  BY DagAssumption DEF Units

\* The exact passes together hold all their dependencies.
LEMMA ExactPassesClosed ==
  ASSUME NEW u \in Units, ExactPass(u)
  PROVE  PassedOn(u) /\ \A d \in Deps[u] : ExactPass(d)
  <1>1. PICK S \in SUBSET Units : u \in S /\ Closed(S) /\ \A x \in S : PassedOn(x)
    BY DEF ExactPass
  <1> QED BY <1>1 DEF ExactPass, Closed

\* A unit that passed on exact passes is one itself.
LEMMA ExactPassStep ==
  ASSUME NEW u \in Units, PassedOn(u), \A d \in Deps[u] : ExactPass(d)
  PROVE  ExactPass(u)
  <1> DEFINE G == {x \in Units : ExactPass(x)} \cup {u}
  <1>1. G \in SUBSET Units
    OBVIOUS
  <1>2. \A x \in G : PassedOn(x)
    BY ExactPassesClosed
  <1>3. ASSUME NEW x \in G, NEW d \in Deps[x]
        PROVE  d \in G
    <2>1. d \in Units
      BY DepsBefore, <1>3
    <2>2. ExactPass(d)
      BY ExactPassesClosed, <1>3
    <2> QED BY <2>1, <2>2
  <1>4. Closed(G)
    BY <1>3 DEF Closed
  <1> HIDE DEF G
  <1>5. u \in G
    BY DEF G
  <1> QED BY <1>1, <1>2, <1>4, <1>5 DEF ExactPass

\* A pass stays a pass on the same key while what the key is made of stays.
LEMMA PassedOnStays ==
  ASSUME NEW u \in Units, PassedOn(u), run'.inputs = run.inputs, record'[u] = record[u],
         \A d \in Deps[u] : record'[d] = record[d]
  PROVE  PassedOn(u)'
  <1>1. SemanticKey(u)' = SemanticKey(u)
    BY DEF SemanticKey
  <1> QED BY <1>1 DEF PassedOn

\* An exact pass stays one while the records up to it and the inputs stay.
LEMMA ExactPassStays ==
  ASSUME NEW u \in Units, ExactPass(u), run'.inputs = run.inputs,
         \A x \in Units : x <= u => record'[x] = record[x]
  PROVE  ExactPass(u)'
  <1>1. PICK S \in SUBSET Units : u \in S /\ Closed(S) /\ \A x \in S : PassedOn(x)
    BY DEF ExactPass
  <1> DEFINE T == {x \in S : x <= u}
  <1>2. T \in SUBSET Units /\ u \in T
    BY <1>1, DepsBefore
  <1>3. ASSUME NEW x \in T, NEW d \in Deps[x]
        PROVE  d \in T
    <2>1. d \in S
      BY <1>1, <1>3 DEF Closed
    <2>2. d < x /\ d \in Nat /\ x \in Nat /\ u \in Nat /\ x <= u
      BY <1>3, DepsBefore
    <2> QED BY <2>1, <2>2
  <1>4. ASSUME NEW x \in T
        PROVE  PassedOn(x)'
    <2>1. record'[x] = record[x] /\ PassedOn(x) /\ x \in Units
      BY <1>1, <1>4
    <2>2. \A d \in Deps[x] : record'[d] = record[d]
      BY <1>3, <1>4, <1>1
    <2> QED BY <2>1, <2>2, PassedOnStays
  <1>5. Closed(T)
    BY <1>3 DEF Closed
  <1> HIDE DEF T
  <1>6. \E Z \in SUBSET Units : u \in Z /\ Closed(Z) /\ \A x \in Z : PassedOn(x)'
    BY <1>2, <1>4, <1>5
  <1> QED BY <1>6 DEF ExactPass, Closed

\* Nothing runs: an idle runner is of the type and reports nothing.
LEMMA NotRunningFacts ==
  NotRunning \in RunRecord /\ NotRunning.pc = "idle" /\ NotRunning.done = {}
  BY DEF NotRunning, RunRecord

\* The invariant holds of an empty journal.
LEMMA ExperimentInitInv == ExperimentInit => ExperimentInv
  <1> SUFFICES ASSUME ExperimentInit PROVE ExperimentInv
    OBVIOUS
  <1> USE NotRunningFacts DEF ExperimentInit
  <1>1. \A u \in Units : /\ IsJournalRecord(record[u])
                         /\ record[u].marks = {}
    BY DEF IsJournalRecord, NoRecord
  <1>2. ExperimentTypes
    BY <1>1 DEF ExperimentTypes
  <1>3. DoneIsExact
    BY DEF DoneIsExact
  <1>4. HandledIsKeyed
    BY DEF HandledIsKeyed
  <1>5. ResumeSameInputs
    BY <1>1 DEF ResumeSameInputs
  <1> QED BY <1>2, <1>3, <1>4, <1>5 DEF ExperimentInv

\* The runner ends, whatever the reason: the journal is what is left.
LEMMA RunEndsInv ==
  ASSUME ExperimentInv, run' = NotRunning, UNCHANGED <<input, record>>
  PROVE  ExperimentInv'
  <1> USE NotRunningFacts
  <1>1. ExperimentTypes'
    BY DEF ExperimentInv, ExperimentTypes
  <1>2. DoneIsExact' /\ HandledIsKeyed'
    BY DEF DoneIsExact, HandledIsKeyed
  <1>3. ResumeSameInputs'
    BY DEF ExperimentInv, ResumeSameInputs
  <1> QED BY <1>1, <1>2, <1>3 DEF ExperimentInv

\* The loop goes on to the next unit: what is reported in addition, if
\* anything, is the unit at hand, and it is an exact pass.
LEMMA LoopInv ==
  ASSUME ExperimentInv, InLoop, UNCHANGED <<input, record>>,
         NEW next, next \in RunRecord, Continue(next), next.pc = "loop", next.at = run.at,
         next.inputs = run.inputs,
         next.done # run.done => next.done = run.done \cup {run.at} /\ ExactPass(run.at)
  PROVE  ExperimentInv'
  <1> USE DEF ExperimentInv
  <1>1. /\ run' \in RunRecord /\ run'.pc = "loop" /\ run'.at = run.at + 1
        /\ run'.done = next.done /\ run'.inputs = run.inputs /\ run.at \in Nat
    BY DEF Continue, RunRecord, ExperimentTypes
  <1>2. ExperimentTypes'
    BY <1>1 DEF ExperimentTypes
  <1>3. HandledIsKeyed'
    BY <1>1 DEF HandledIsKeyed
  <1>4. ResumeSameInputs'
    BY DEF ResumeSameInputs
  <1>5. ASSUME NEW u \in run'.done
        PROVE  u < run'.at /\ ExactPass(u)'
    <2>1. u \in Units /\ u \in Nat
      BY <1>1, <1>5, DepsBefore DEF RunRecord
    <2>2. ExactPass(u) /\ (u < run.at \/ u = run.at)
      BY <1>1, <1>5 DEF DoneIsExact
    <2>3. ExactPass(u)'
      BY <2>1, <2>2, <1>1, ExactPassStays
    <2> QED BY <2>1, <2>2, <2>3, <1>1
  <1>6. DoneIsExact'
    BY <1>1, <1>5 DEF DoneIsExact
  <1> QED BY <1>2, <1>3, <1>4, <1>6

\* run() starts with nothing reported.
LEMMA StartRunInv ==
  ASSUME ExperimentInv, StartRun
  PROVE  ExperimentInv'
  <1> USE DEF ExperimentInv, StartRun
  <1>1. PICK S \in SUBSET Units : run' = [NotRunning EXCEPT !.pc = "loop", !.at = 1,
                                            !.selected = S, !.inputs = input]
    OBVIOUS
  <1>2. run' \in RunRecord /\ run'.pc = "loop" /\ run'.done = {}
    BY <1>1 DEF RunRecord, NotRunning, ExperimentTypes
  <1>3. ExperimentTypes'
    BY <1>2 DEF ExperimentTypes
  <1>4. DoneIsExact' /\ HandledIsKeyed'
    BY <1>2 DEF DoneIsExact, HandledIsKeyed
  <1>5. ResumeSameInputs'
    BY DEF ResumeSameInputs
  <1> QED BY <1>3, <1>4, <1>5

\* A key is computed only over exact passes.
LEMMA CacheKeyFacts ==
  ASSUME NEW u \in Units, CacheKey(u) # NoKey
  PROVE  CacheKey(u) = SemanticKey(u) /\ \A d \in Deps[u] : ExactPass(d)
  BY DEF CacheKey

\* A reused unit passed on the inputs of this run, and so did its dependencies.
LEMMA ReuseUnitInv ==
  ASSUME ExperimentInv, ReuseUnit
  PROVE  ExperimentInv'
  <1> DEFINE next == [run EXCEPT !.done = @ \cup {run.at}]
  <1>0. run \in RunRecord /\ run.pc = "loop" /\ run.at \in Units /\ run.at <= NumUnits
    BY DEF ExperimentInv, ExperimentTypes, ReuseUnit, InLoop, RunRecord
  <1>1. /\ next \in RunRecord /\ next.pc = "loop" /\ next.at = run.at
        /\ next.inputs = run.inputs /\ next.done = run.done \cup {run.at}
    BY <1>0 DEF RunRecord
  <1>2. PassedOn(run.at)
    BY <1>0, CacheKeyFacts DEF ReuseUnit, Reusable, PassedOn
  <1>3. ExactPass(run.at)
    BY <1>0, <1>2, CacheKeyFacts, ExactPassStep DEF ReuseUnit
  <1>4. Continue(next) /\ InLoop /\ UNCHANGED <<input, record>>
    BY DEF ReuseUnit
  <1>5. next.done # run.done => next.done = run.done \cup {run.at} /\ ExactPass(run.at)
    BY <1>1, <1>3
  <1> HIDE DEF next
  <1> QED BY <1>1, <1>4, <1>5, LoopInv

\* A unit is passed over, or refused because a dependency failed.
LEMMA PassOverInv ==
  ASSUME ExperimentInv, NotSelected \/ SkipUnit
  PROVE  ExperimentInv'
  <1>0. run \in RunRecord /\ InLoop /\ run.pc = "loop" /\ UNCHANGED <<input, record>>
    BY DEF ExperimentInv, ExperimentTypes, NotSelected, SkipUnit, InLoop
  <1>1. CASE NotSelected
    <2>1. Continue(run)
      BY <1>1 DEF NotSelected
    <2> DEFINE next == run
    <2>2. /\ next \in RunRecord /\ next.pc = "loop" /\ next.at = run.at
          /\ next.inputs = run.inputs /\ next.done = run.done
      BY <1>0
    <2>3. Continue(next)
      BY <2>1
    <2> HIDE DEF next
    <2>4. next.done # run.done => next.done = run.done \cup {run.at} /\ ExactPass(run.at)
      BY ONLY <2>2, Zenon
    <2> QED BY <1>0, <2>2, <2>3, <2>4, LoopInv
  <1>2. CASE SkipUnit
    <2> DEFINE next == [run EXCEPT !.failed = @ \cup {run.at}]
    <2>1. /\ next \in RunRecord /\ next.pc = "loop" /\ next.at = run.at
          /\ next.inputs = run.inputs /\ next.done = run.done
      BY <1>0, <1>2 DEF RunRecord, SkipUnit
    <2>2. Continue(next)
      BY <1>2 DEF SkipUnit
    <2> HIDE DEF next
    <2>4. next.done # run.done => next.done = run.done \cup {run.at} /\ ExactPass(run.at)
      BY ONLY <2>1, Zenon
    <2> QED BY <1>0, <2>1, <2>2, <2>4, LoopInv
  <1> QED BY <1>1, <1>2

\* begin writes the record of the unit at hand only.  Checkpoints survive
\* only under the key they were made for.
LEMMA BeginUnitInv ==
  ASSUME ExperimentInv, BeginUnit
  PROVE  ExperimentInv'
  <1> USE DEF ExperimentInv
  <1>0. /\ run \in RunRecord /\ run.pc = "loop" /\ run.at \in Units /\ run.at \in Nat
        /\ CacheKey(run.at) # NoKey
    BY DepsBefore DEF ExperimentTypes, BeginUnit, InLoop, RunRecord
  <1>1. /\ CacheKey(run.at) = SemanticKey(run.at)
        /\ \A d \in Deps[run.at] : ExactPass(d)
    BY <1>0, CacheKeyFacts
  <1>2. /\ run' \in RunRecord /\ run'.pc = "handler" /\ run'.at = run.at
        /\ run'.done = run.done /\ run'.inputs = run.inputs /\ input' = input
    BY <1>0 DEF BeginUnit, RunRecord
  <1>3. record' = [record EXCEPT ![run.at] = Begin(record[run.at], SemanticKey(run.at))]
    BY <1>1 DEF BeginUnit
  <1>4. /\ record' = [u \in Units |-> record'[u]]
        /\ \A u \in Units : u # run.at => record'[u] = record[u]
        /\ record'[run.at] = Begin(record[run.at], SemanticKey(run.at))
    BY <1>0, <1>3 DEF ExperimentTypes
  <1>5. /\ IsJournalRecord(record'[run.at])
        /\ record'[run.at].key = SemanticKey(run.at)
        /\ \A mark \in record'[run.at].marks : mark = SemanticKey(run.at)
    BY <1>0, <1>4 DEF Begin, IsJournalRecord, ResumeSameInputs
  <1>6. ExperimentTypes'
    BY <1>0, <1>2, <1>4, <1>5 DEF ExperimentTypes
  <1>7. ASSUME NEW u \in Units, u < run.at, ExactPass(u)
        PROVE  ExactPass(u)'
    <2>1. \A x \in Units : x <= u => x # run.at
      BY <1>0, <1>7, DepsBefore
    <2> QED BY <1>2, <1>4, <1>7, <2>1, ExactPassStays
  <1>8. DoneIsExact'
    BY <1>0, <1>2, <1>7 DEF DoneIsExact, RunRecord
  <1>9. SemanticKey(run.at)' = SemanticKey(run.at)
    <2>1. \A d \in Deps[run.at] : record'[d] = record[d]
      BY <1>0, <1>4, DepsBefore
    <2> QED BY <1>2, <2>1 DEF SemanticKey
  <1>10. HandledIsKeyed'
    <2>1. \A d \in Deps[run.at] : ExactPass(d)'
      BY <1>0, <1>1, <1>7, DepsBefore
    <2> QED BY <1>2, <1>5, <1>9, <2>1 DEF HandledIsKeyed
  <1>11. ResumeSameInputs'
    BY <1>4, <1>5 DEF ResumeSameInputs
  <1> QED BY <1>6, <1>8, <1>10, <1>11

\* finish sets the two fields and leaves the others.
LEMMA FinishFacts ==
  ASSUME NEW r, IsJournalRecord(r), NEW status, NEW artifact
  PROVE  Finish(r, status, artifact) =
           [status |-> status, key |-> r.key, attempt |-> r.attempt, marks |-> r.marks,
            artifact |-> artifact]
  <1>1. PICK s, k, n, m, a :
          r = [status |-> s, key |-> k, attempt |-> n, marks |-> m, artifact |-> a]
    BY DEF IsJournalRecord
  <1>2. r.key = k /\ r.attempt = n /\ r.marks = m
    BY <1>1
  <1>3. PICK f : f = Finish(r, status, artifact)
    OBVIOUS
  <1>4. DOMAIN r = {"status", "key", "attempt", "marks", "artifact"}
    BY <1>1
  <1>5. f = [x \in DOMAIN r |-> IF x = "artifact" THEN artifact
                               ELSE IF x = "status" THEN status ELSE r[x]]
    BY <1>3 DEF Finish
  <1>6. f = [x \in {"status", "key", "attempt", "marks", "artifact"} |->
               IF x = "artifact" THEN artifact ELSE IF x = "status" THEN status ELSE r[x]]
    BY ONLY <1>4, <1>5
  <1>7. f = [status |-> status, key |-> k, attempt |-> n, marks |-> m, artifact |-> artifact]
    BY ONLY <1>2, <1>6
  <1> QED BY <1>2, <1>3, <1>7

\* checkpoint adds the key of the record to its own marks.
LEMMA HandlerCheckpointInv ==
  ASSUME ExperimentInv, HandlerCheckpoint
  PROVE  ExperimentInv'
  <1> USE DEF ExperimentInv
  <1>0. /\ run \in RunRecord /\ run.pc = "handler" /\ run.at \in Units /\ run.at \in Nat
        /\ UNCHANGED <<input, run>>
    BY DepsBefore DEF ExperimentTypes, HandlerCheckpoint
  <1>1. record' = [record EXCEPT ![run.at] = Checkpoint(record[run.at], record[run.at].key)]
    BY DEF HandlerCheckpoint
  <1>2. /\ record' = [u \in Units |-> record'[u]]
        /\ \A u \in Units : u # run.at => record'[u] = record[u]
        /\ record'[run.at] = Checkpoint(record[run.at], record[run.at].key)
    BY <1>0, <1>1 DEF ExperimentTypes
  <1>3. IsJournalRecord(record[run.at])
    BY <1>0 DEF ExperimentTypes
  <1>4. PICK r : r = record[run.at]
    OBVIOUS
  <1>5. /\ IsJournalRecord(Checkpoint(r, r.key)) /\ Checkpoint(r, r.key).key = r.key
        /\ Checkpoint(r, r.key).marks = r.marks \cup {r.key}
    BY <1>3, <1>4 DEF Checkpoint, IsJournalRecord
  <1>6. /\ IsJournalRecord(record'[run.at])
        /\ record'[run.at].key = record[run.at].key
        /\ record'[run.at].marks = record[run.at].marks \cup {record[run.at].key}
    BY <1>2, <1>4, <1>5
  <1>7. ExperimentTypes'
    BY <1>0, <1>2, <1>6 DEF ExperimentTypes
  <1>8. ASSUME NEW u \in Units, u < run.at, ExactPass(u)
        PROVE  ExactPass(u)'
    <2>1. \A x \in Units : x <= u => x # run.at
      BY <1>0, <1>8, DepsBefore
    <2> QED BY <1>0, <1>2, <1>8, <2>1, ExactPassStays
  <1>9. DoneIsExact'
    BY <1>0, <1>8 DEF DoneIsExact, RunRecord
  <1>10. HandledIsKeyed'
    <2>1. \A d \in Deps[run.at] : ExactPass(d)'
      BY <1>0, <1>8, DepsBefore DEF HandledIsKeyed
    <2>2. \A d \in Deps[run.at] : record'[d] = record[d]
      BY <1>0, <1>2, DepsBefore
    <2>3. SemanticKey(run.at)' = SemanticKey(run.at)
      BY <1>0, <2>2 DEF SemanticKey
    <2> QED BY <1>0, <1>6, <2>1, <2>3 DEF HandledIsKeyed
  <1>11. ResumeSameInputs'
    BY <1>0, <1>2, <1>6 DEF ResumeSameInputs
  <1> QED BY <1>7, <1>9, <1>10, <1>11

\* A handler that returns a pass makes its unit an exact pass: it ran under
\* the key that its dependencies, exact passes still, give it.
LEMMA HandlerEndsInv ==
  ASSUME ExperimentInv, HandlerEnds
  PROVE  ExperimentInv'
  <1> USE DEF ExperimentInv
  <1>0. /\ run \in RunRecord /\ run.pc = "handler" /\ run.at \in Units /\ run.at \in Nat
        /\ input' = input
    BY DepsBefore DEF ExperimentTypes, HandlerEnds
  <1>1. PICK status \in Terminal, artifact \in Artifacts :
          /\ record' = [record EXCEPT ![run.at] = Finish(record[run.at], status, artifact)]
          /\ Continue([run EXCEPT !.pc = "loop",
                         !.failed = IF status = "pass" THEN @ ELSE @ \cup {run.at},
                         !.done = IF status = "pass" THEN @ \cup {run.at} ELSE @])
    BY DEF HandlerEnds
  <1> DEFINE failed == IF status = "pass" THEN run.failed ELSE run.failed \cup {run.at}
             done == IF status = "pass" THEN run.done \cup {run.at} ELSE run.done
  <1>a. failed \in SUBSET Units /\ done \in SUBSET Units
    BY <1>0 DEF RunRecord
  <1>b. PICK next : /\ next = [run EXCEPT !.pc = "loop", !.failed = failed, !.done = done]
                    /\ Continue(next)
    BY <1>1
  <1> HIDE DEF failed, done
  <1>c. /\ next \in RunRecord /\ next.pc = "loop" /\ next.at = run.at
        /\ next.inputs = run.inputs /\ next.done = done
    BY <1>0, <1>a, <1>b DEF RunRecord
  <1>e. run' = [next EXCEPT !.at = run.at + 1]
    BY <1>b, <1>c DEF Continue
  <1>d. /\ run' \in RunRecord /\ run'.pc = "loop" /\ run'.at = run.at + 1
        /\ run'.inputs = run.inputs /\ run'.done = done
    BY <1>0, <1>c, <1>e DEF RunRecord
  <1>2. /\ run' \in RunRecord /\ run'.pc = "loop" /\ run'.at = run.at + 1
        /\ run'.inputs = run.inputs
        /\ run'.done = IF status = "pass" THEN run.done \cup {run.at} ELSE run.done
    BY <1>d DEF done
  <1>3. /\ record' = [u \in Units |-> record'[u]]
        /\ \A u \in Units : u # run.at => record'[u] = record[u]
        /\ record'[run.at] = Finish(record[run.at], status, artifact)
    BY <1>0, <1>1 DEF ExperimentTypes
  <1>4. PICK r : r = record[run.at]
    OBVIOUS
  <1>5. IsJournalRecord(r)
    BY <1>0, <1>4 DEF ExperimentTypes
  <1>6. /\ IsJournalRecord(Finish(r, status, artifact))
        /\ Finish(r, status, artifact).key = r.key
        /\ Finish(r, status, artifact).status = status
        /\ Finish(r, status, artifact).marks = r.marks
    <2>1. Finish(r, status, artifact) =
            [status |-> status, key |-> r.key, attempt |-> r.attempt, marks |-> r.marks,
             artifact |-> artifact]
      BY <1>5, FinishFacts
    <2> QED BY <2>1 DEF IsJournalRecord
  <1>7. /\ IsJournalRecord(record'[run.at]) /\ record'[run.at].status = status
        /\ record'[run.at].key = record[run.at].key
        /\ record'[run.at].marks = record[run.at].marks
    BY <1>3, <1>4, <1>6
  <1>8. ExperimentTypes'
    BY <1>0, <1>2, <1>3, <1>7 DEF ExperimentTypes
  <1>9. HandledIsKeyed'
    BY <1>2 DEF HandledIsKeyed
  <1>10. ResumeSameInputs'
    BY <1>3, <1>7 DEF ResumeSameInputs
  <1>11. ASSUME NEW u \in Units, u < run.at, ExactPass(u)
         PROVE  ExactPass(u)'
    <2>1. \A x \in Units : x <= u => x # run.at
      BY <1>0, <1>11, DepsBefore
    <2> QED BY <1>2, <1>3, <1>11, <2>1, ExactPassStays
  <1>12. PICK k : k = run.at
    OBVIOUS
  <1>13. ASSUME status = "pass"
         PROVE  ExactPass(k)'
    <2>1. \A d \in Deps[k] : ExactPass(d)'
      BY <1>0, <1>11, <1>12, DepsBefore DEF HandledIsKeyed
    <2>2. \A d \in Deps[k] : record'[d] = record[d]
      BY <1>0, <1>3, <1>12, DepsBefore
    <2>3. SemanticKey(k)' = SemanticKey(k)
      BY <1>2, <2>2 DEF SemanticKey
    <2>4. PassedOn(k)'
      BY <1>0, <1>7, <1>12, <1>13, <2>3 DEF PassedOn, HandledIsKeyed
    <2>5. k \in Units
      BY <1>0, <1>12
    <2> DEFINE T == {x \in Units : x < k /\ ExactPass(x)} \cup {k}
    <2>6. T \in SUBSET Units /\ k \in T
      BY <2>5
    <2>7. ASSUME NEW x \in T, NEW d \in Deps[x]
          PROVE  d \in T
      <3>1. ExactPass(d)
        BY <2>7, <1>0, <1>12, ExactPassesClosed DEF HandledIsKeyed
      <3>2. d \in Units /\ d \in Nat /\ x \in Nat /\ k \in Nat /\ d < x /\ x <= k
        BY <2>5, <2>7, DepsBefore
      <3> QED BY <3>1, <3>2
    <2>8. ASSUME NEW x \in T
          PROVE  PassedOn(x)'
      <3>1. CASE x = k
        BY <2>4, <3>1
      <3>2. CASE x # k
        <4>1. x \in Units /\ x < k /\ PassedOn(x)
          BY <2>8, <3>2, ExactPassesClosed
        <4>2. \A d \in Deps[x] : d \in Units /\ d # k
          BY <4>1, <2>5, DepsBefore
        <4>3. record'[x] = record[x] /\ \A d \in Deps[x] : record'[d] = record[d]
          BY <1>3, <1>12, <3>2, <4>1, <4>2
        <4> QED BY <1>2, <4>1, <4>3, PassedOnStays
      <3> QED BY <3>1, <3>2
    <2>9. Closed(T)
      BY <2>7 DEF Closed
    <2> HIDE DEF T
    <2>10. \E Z \in SUBSET Units : k \in Z /\ Closed(Z) /\ \A x \in Z : PassedOn(x)'
      BY <2>6, <2>8, <2>9
    <2> QED BY <2>10 DEF ExactPass, Closed
  <1>14. ASSUME NEW u \in run'.done
         PROVE  u < run'.at /\ ExactPass(u)'
    <2>1. u \in Units /\ u \in Nat
      BY <1>2, <1>14, DepsBefore DEF RunRecord
    <2>2. CASE u \in run.done
      BY <1>0, <1>2, <1>11, <2>1, <2>2 DEF DoneIsExact
    <2>3. CASE u \notin run.done
      <3>1. status = "pass" /\ u = k
        BY <1>2, <1>12, <1>14, <2>3
      <3> QED BY <1>0, <1>2, <1>12, <1>13, <3>1
    <2> QED BY <2>2, <2>3
  <1>15. DoneIsExact'
    BY <1>2, <1>14 DEF DoneIsExact
  <1> QED BY <1>8, <1>9, <1>10, <1>15

\* A commit or a new configuration is seen by the next run only.
LEMMA ChangeInputInv ==
  ASSUME ExperimentInv, UNCHANGED <<record, run>>, input' \in [Units -> Nat]
  PROVE  ExperimentInv'
  <1> USE DEF ExperimentInv
  <1>1. UNCHANGED <<record, run>> /\ input' \in [Units -> Nat]
    OBVIOUS
  <1>2. ExperimentTypes' /\ ResumeSameInputs'
    BY <1>1 DEF ExperimentTypes, ResumeSameInputs
  <1>3. \A u \in Units : ExactPass(u) => ExactPass(u)'
    BY <1>1, ExactPassStays
  <1>4. DoneIsExact'
    BY <1>1, <1>3 DEF DoneIsExact, ExperimentTypes, RunRecord
  <1>5. HandledIsKeyed'
    <2> SUFFICES ASSUME run.pc = "handler"
                 PROVE  /\ record[run.at].key = SemanticKey(run.at)'
                        /\ \A d \in Deps[run.at] : ExactPass(d)'
      BY <1>1 DEF HandledIsKeyed
    <2>1. run.at \in Units
      BY DEF ExperimentTypes
    <2>2. SemanticKey(run.at)' = SemanticKey(run.at)
      BY <1>1 DEF SemanticKey
    <2> QED BY <1>3, <2>1, <2>2, DepsBefore DEF HandledIsKeyed
  <1> QED BY <1>2, <1>4, <1>5

\* Every step of the runner, and every change of its inputs, keeps the invariant.
LEMMA ExperimentStepInv ==
  ASSUME ExperimentInv, [ExperimentNext]_experimentVars
  PROVE  ExperimentInv'
  <1>1. CASE StartRun
    BY <1>1, StartRunInv
  <1>2. CASE NotSelected \/ SkipUnit
    BY <1>2, PassOverInv
  <1>3. CASE RefuseUnit \/ Interrupt \/ EndRun
    BY <1>3, RunEndsInv DEF RefuseUnit, Interrupt, EndRun
  <1>4. CASE ReuseUnit
    BY <1>4, ReuseUnitInv
  <1>5. CASE BeginUnit
    BY <1>5, BeginUnitInv
  <1>6. CASE HandlerCheckpoint
    BY <1>6, HandlerCheckpointInv
  <1>7. CASE HandlerEnds
    BY <1>7, HandlerEndsInv
  <1>8. CASE ChangeInput
    <2>1. UNCHANGED <<record, run>> /\ input' \in [Units -> Nat]
      BY <1>8 DEF ChangeInput, ExperimentInv, ExperimentTypes
    <2> QED BY <2>1, ChangeInputInv
  <1>9. CASE UNCHANGED experimentVars
    <2>1. UNCHANGED <<record, run>> /\ input' \in [Units -> Nat]
      BY <1>9 DEF experimentVars, ExperimentInv, ExperimentTypes
    <2> QED BY <2>1, ChangeInputInv
  <1> QED BY <1>1, <1>2, <1>3, <1>4, <1>5, <1>6, <1>7, <1>8, <1>9 DEF ExperimentNext

\* Units behind the runner are exact passes of this run's inputs, the unit at
\* hand is keyed by exact passes, and checkpoints belong to their record's key.
THEOREM ExperimentInvariant == ExperimentSpec => []ExperimentInv
  BY ExperimentInitInv, ExperimentStepInv, PTL DEF ExperimentSpec

\* An exact pass rests, through all its dependencies, on records that name
\* the inputs of the run and the present artifacts of what they depend on.
LEMMA ExactPassSupports ==
  ASSUME NEW u \in Units, ExactPass(u)
  PROVE  \A d \in Below(u) : Supports(d)
  <1>1. PICK S \in SUBSET Units : u \in S /\ Closed(S) /\ \A x \in S : PassedOn(x)
    BY DEF ExactPass
  <1>2. ASSUME NEW d \in Below(u)
        PROVE  Supports(d)
    <2>1. d \in S
      BY <1>1 DEF Below
    <2>2. record[d].status = "pass" /\ record[d].key = SemanticKey(d)
      BY <1>1, <2>1 DEF PassedOn
    <2>3. record[d].key.own = run.inputs[d]
      BY <2>2 DEF SemanticKey
    <2>4. ASSUME NEW e \in Deps[d]
          PROVE  \E x \in record[d].key.deps :
                    x.unit = e /\ x.key = record[e].key /\ x.artifact = record[e].artifact
      <3> DEFINE x == [unit |-> e, key |-> record[e].key, artifact |-> record[e].artifact]
      <3>1. x \in record[d].key.deps
        BY <2>2 DEF SemanticKey
      <3> QED BY <3>1
    <2> QED BY <2>2, <2>3, <2>4 DEF Supports
  <1> QED BY <1>2

\* What a run reports as passed or reused, and what a resumed unit skips,
\* rests on the inputs that the run was given (ReuseSound), for every DAG of
\* units, every interruption and every change of inputs between runs.
THEOREM ReuseIsSound == ExperimentSpec => []ReuseSound
  <1>1. ExperimentInv => ReuseSound
    <2> SUFFICES ASSUME ExperimentInv PROVE ReuseSound
      OBVIOUS
    <2>1. \A u \in run.done : u \in Units /\ ExactPass(u)
      BY DEF ExperimentInv, DoneIsExact, ExperimentTypes, RunRecord
    <2>2. ReportedCurrent
      BY <2>1, ExactPassSupports DEF ReportedCurrent
    <2> QED BY <2>2 DEF ReuseSound, ExperimentInv
  <1> QED BY <1>1, ExperimentInvariant, PTL

=============================================================================
