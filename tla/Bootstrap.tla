----------------------------- MODULE Bootstrap ------------------------------
(***************************************************************************)
(* The operator's secret store and the pinned SSH channel to the host:     *)
(* migrate, rotate, accept, pin, install, probe, finalize (bootstrap.py)   *)
(* and run_remote_script (infra.py).  One command at a time; it can be     *)
(* killed between any two writes, every write replaces one file.           *)
(*                                                                         *)
(* The store is reduced to the endpoint it points at: the API keys are     *)
(* carried along by every write of it.  A host key is the machine it       *)
(* belongs to.                                                             *)
(***************************************************************************)
EXTENDS Naturals

CONSTANTS
    Endpoints,      \* host and port of a server
    Machines,       \* machines that may answer at an endpoint
    Own,            \* machines whose fingerprint the operator has out of band
    ApiKeys         \* bailian.api_key and langsmith.api_key

ASSUME BootstrapAssumption == Own \subseteq Machines

NoStore == "none"
NoLine == <<>>
NoMeta == [host |-> FALSE, ssh |-> FALSE, probed |-> FALSE, login |-> FALSE,
           accepted |-> FALSE, live |-> {}, deleted |-> FALSE, written |-> FALSE]

VARIABLES
    disk,       \* handoff, encrypted store, known_hosts, its candidate, metadata
    net,        \* which machine answers at each endpoint, and which know the project key
    op,         \* local variables of the command that is running
    remote,     \* the temporary script of the last run of run_remote_script
    seen        \* history: see below

bootstrapVars == <<disk, net, op, remote, seen>>

Quiet == [pc |-> "idle", to |-> NoStore, meta |-> NoMeta, sample |-> NoStore, failed |-> FALSE]

(***************************************************************************)
(* seen.password: machines that were sent the server password.             *)
(* seen.earned: the key was verified on the endpoint now in the store.     *)
(* seen.torn: a rotation was killed after it replaced the store, and none  *)
(* was completed since.                                                    *)
(* seen.lost: of the last remote script, the upload was not answered, or   *)
(* with something else than one path, the clean-up was not answered, or    *)
(* the command was killed.                                                 *)
(***************************************************************************)
BootstrapInit ==
    /\ disk = [handoff |-> TRUE, store |-> NoStore, pin |-> NoLine, candidate |-> NoLine,
               meta |-> NoMeta]
    /\ net \in [at : [Endpoints -> Machines], keyed : {{}}]
    /\ op = Quiet
    /\ remote = "absent"
    /\ seen = [password |-> {}, earned |-> FALSE, torn |-> FALSE, lost |-> FALSE]

Idle == op.pc = "idle"
Done == op' = Quiet

\* The command raises: a later command starts afresh.
Raised == Done /\ UNCHANGED <<disk, net, remote, seen>>

\* load_private_metadata with encrypted_round_trip = pass, and a store that decrypts.
Migrated == disk.store # NoStore /\ disk.meta.written

-----------------------------------------------------------------------------
(* The store and its metadata. *)

\* migrate_handoff: refuses when either file exists; the store is written first.
Migrate ==
    /\ Idle
    /\ disk.handoff
    /\ disk.store = NoStore /\ ~disk.meta.written
    /\ \E e \in Endpoints : disk' = [disk EXCEPT !.store = e]
    /\ op' = [Quiet EXCEPT !.pc = "migrated"]
    /\ seen' = [seen EXCEPT !.earned = FALSE]
    /\ UNCHANGED <<net, remote>>

\* After the round trip, which may fail with the store in place.
MigrateMetadata ==
    /\ op.pc = "migrated"
    /\ disk' = [disk EXCEPT !.meta = [NoMeta EXCEPT !.written = TRUE]]
    /\ Done
    /\ UNCHANGED <<net, remote, seen>>

\* rotate_server_endpoint: the new store is verified, then written.
Rotate ==
    /\ Idle
    /\ Migrated
    /\ \E e \in Endpoints :
          /\ disk' = [disk EXCEPT !.store = e]
          /\ op' = [Quiet EXCEPT !.pc = "unpin", !.meta = disk.meta]
    /\ seen' = [seen EXCEPT !.earned = FALSE]
    /\ UNCHANGED <<net, remote>>

\* The pin and the candidate are unlinked one after the other.
Unpin ==
    /\ op.pc \in {"unpin", "uncapture"}
    /\ IF op.pc = "unpin"
       THEN /\ disk' = [disk EXCEPT !.pin = NoLine]
            /\ op' = [op EXCEPT !.pc = "uncapture"]
       ELSE /\ disk' = [disk EXCEPT !.candidate = NoLine]
            /\ op' = [op EXCEPT !.pc = "rotated"]
    /\ UNCHANGED <<net, remote, seen>>

\* Mutant: the verification of the old server is kept.
RotatedMetaKept(m) == m

RotatedMeta(m) == [m EXCEPT !.host = FALSE, !.ssh = FALSE, !.probed = FALSE, !.login = FALSE]

RotateMetadata ==
    /\ op.pc = "rotated"
    /\ disk' = [disk EXCEPT !.meta = RotatedMeta(op.meta)]
    /\ seen' = [seen EXCEPT !.torn = FALSE]
    /\ Done
    /\ UNCHANGED <<net, remote>>

\* accept_existing_credentials: live verifications start over.
AcceptCredentials ==
    /\ Idle
    /\ Migrated
    /\ disk' = [disk EXCEPT !.meta.accepted = TRUE, !.meta.login = disk.meta.ssh,
                            !.meta.live = {}]
    /\ UNCHANGED <<net, op, remote, seen>>

\* record_live_api_verification, called by the owner of the key.
RecordLive ==
    /\ Idle
    /\ disk.meta.written /\ disk.meta.accepted
    /\ \E k \in ApiKeys : disk' = [disk EXCEPT !.meta.live = @ \cup {k}]
    /\ UNCHANGED <<net, op, remote, seen>>

\* finalize_handoff: deletes the plaintext, then records it.
MayFinalize ==
    /\ Migrated
    /\ disk.meta.accepted /\ disk.meta.login /\ disk.meta.host /\ disk.meta.ssh
    /\ disk.handoff

Finalize ==
    /\ Idle
    /\ MayFinalize
    /\ disk' = [disk EXCEPT !.handoff = FALSE]
    /\ op' = [Quiet EXCEPT !.pc = "finalized", !.meta = disk.meta]
    /\ UNCHANGED <<net, remote, seen>>

FinalizeMetadata ==
    /\ op.pc = "finalized"
    /\ disk' = [disk EXCEPT !.meta = [op.meta EXCEPT !.deleted = TRUE]]
    /\ Done
    /\ UNCHANGED <<net, remote, seen>>

-----------------------------------------------------------------------------
(* The host key. *)

\* capture_host_key_candidate: ssh-keyscan asks whoever answers.
Capture ==
    /\ Idle
    /\ disk.store # NoStore
    /\ disk' = [disk EXCEPT !.candidate = <<disk.store, net.at[disk.store]>>]
    /\ UNCHANGED <<net, op, remote, seen>>

\* Mutant: the operator's fingerprint is not compared.
ConfirmedAny(line) == TRUE

\* compare_digest with the fingerprint the operator read on the machine.
Confirmed(line) == line[2] \in Own

\* accept_host_key_candidate: the pin is written before the metadata is read.
AcceptHostKey ==
    /\ Idle
    /\ disk.candidate # NoLine
    /\ Confirmed(disk.candidate)
    /\ disk' = [disk EXCEPT !.pin = disk.candidate]
    /\ op' = [Quiet EXCEPT !.pc = "pinned"]
    /\ UNCHANGED <<net, remote, seen>>

AcceptMetadata ==
    /\ op.pc = "pinned"
    /\ disk' = IF disk.meta.written THEN [disk EXCEPT !.meta.host = TRUE] ELSE disk
    /\ Done
    /\ UNCHANGED <<net, remote, seen>>

-----------------------------------------------------------------------------
(* SSH sessions: StrictHostKeyChecking against known_hosts. *)

Server == net.at[disk.store]
Strict == disk.pin = <<disk.store, Server>>
KeyLogin == Strict /\ Server \in net.keyed

\* install_and_verify_ssh_key, up to the password preflight.
StartInstall ==
    /\ Idle
    /\ Migrated
    /\ disk.meta.host /\ disk.pin # NoLine
    /\ Strict
    /\ seen' = [seen EXCEPT !.password = @ \cup {Server}]
    /\ op' = [Quiet EXCEPT !.pc = "install"]
    /\ UNCHANGED <<disk, net, remote>>

InstallKey ==
    /\ op.pc = "install"
    /\ \/ /\ Strict
          /\ seen' = [seen EXCEPT !.password = @ \cup {Server}]
          /\ net' = [net EXCEPT !.keyed = @ \cup {Server}]
          /\ \/ op' = [op EXCEPT !.pc = "verify"]
             \/ Done
          /\ UNCHANGED <<disk, remote>>
       \/ Raised

VerifyKey ==
    /\ op.pc = "verify"
    /\ \/ /\ KeyLogin
          /\ op' = [op EXCEPT !.pc = "verified"]
          /\ seen' = [seen EXCEPT !.earned = TRUE]
          /\ UNCHANGED <<disk, net, remote>>
       \/ Raised

InstallMetadata ==
    /\ op.pc = "verified"
    /\ disk' = [disk EXCEPT !.meta.ssh = TRUE, !.meta.login = TRUE]
    /\ Done
    /\ UNCHANGED <<net, remote, seen>>

\* run_capability_probe: two samples over the key that must agree.
StartProbe ==
    /\ Idle
    /\ Migrated
    /\ disk.meta.host /\ disk.meta.ssh
    /\ KeyLogin
    /\ op' = [Quiet EXCEPT !.pc = "probe", !.sample = Server]
    /\ UNCHANGED <<disk, net, remote, seen>>

Reprobe ==
    /\ op.pc = "probe"
    /\ \/ /\ KeyLogin
          /\ op.sample = Server
          /\ op' = [op EXCEPT !.pc = "probed"]
          /\ UNCHANGED <<disk, net, remote, seen>>
       \/ Raised

ProbeMetadata ==
    /\ op.pc = "probed"
    /\ disk' = [disk EXCEPT !.meta.probed = TRUE]
    /\ Done
    /\ UNCHANGED <<net, remote, seen>>

-----------------------------------------------------------------------------
(* run_remote_script, privileged: upload, execute and clean up, a session each. *)

\* _remote_arguments looks at the metadata only; ssh looks at the pin.  Every run has a
\* temporary file of its own: what an earlier one left is not touched.
StartRemote ==
    /\ Idle
    /\ Migrated
    /\ disk.meta.host /\ disk.meta.ssh
    /\ op' = [Quiet EXCEPT !.pc = "upload"]
    /\ remote' = "absent"
    /\ seen' = [seen EXCEPT !.lost = FALSE]
    /\ UNCHANGED <<disk, net>>

\* The file is there and its path was answered.
Uploaded ==
    /\ KeyLogin
    /\ remote' = "uploaded"
    /\ op' = [op EXCEPT !.pc = "execute"]
    /\ UNCHANGED <<disk, net, seen>>

\* The file is there, but the answer was lost, is not UTF-8 or is not one path of the
\* expected form: the command raises and has no path to clean up.
PathUnknown ==
    /\ KeyLogin
    /\ remote' = "uploaded"
    /\ seen' = [seen EXCEPT !.lost = TRUE]
    /\ Done
    /\ UNCHANGED <<disk, net>>

\* An upload that fails on the host removes its file itself.
Upload == op.pc = "upload" /\ (Uploaded \/ PathUnknown \/ Raised)

\* The sudo password goes to the session's standard input.  No answer: it may have run.
Execute ==
    /\ op.pc = "execute"
    /\ \E failed \in BOOLEAN :
          /\ op' = [op EXCEPT !.pc = "cleanup", !.failed = failed]
          /\ ~failed => KeyLogin
          /\ seen' = IF KeyLogin THEN [seen EXCEPT !.password = @ \cup {Server}] ELSE seen
    /\ UNCHANGED <<disk, net, remote>>

\* Mutant: the clean-up follows only a session that went well.
CleanupIfOk == ~op.failed

\* The except and the straight path both clean up.
CleanupAlways == TRUE

Cleanup ==
    /\ op.pc = "cleanup"
    /\ \/ /\ CleanupAlways
          /\ KeyLogin
          /\ remote' = "absent"
          /\ UNCHANGED seen
       \/ /\ ~CleanupAlways
          /\ UNCHANGED <<remote, seen>>
       \/ /\ CleanupAlways
          /\ seen' = [seen EXCEPT !.lost = TRUE]
          /\ UNCHANGED remote
    /\ Done
    /\ UNCHANGED <<disk, net>>

-----------------------------------------------------------------------------
(* The environment. *)

Kill ==
    /\ ~Idle
    /\ Done
    /\ seen' = [seen EXCEPT !.torn = @ \/ op.pc \in {"unpin", "uncapture", "rotated"},
                            !.lost = @ \/ op.pc \in {"upload", "execute", "cleanup"}]
    /\ UNCHANGED <<disk, net, remote>>

\* Another machine answers at an endpoint.
Readdress ==
    /\ \E e \in Endpoints, m \in Machines :
          /\ m # net.at[e]
          /\ net' = [net EXCEPT !.at[e] = m]
    /\ UNCHANGED <<disk, op, remote, seen>>

BootstrapNext ==
    \/ Migrate \/ MigrateMetadata \/ Rotate \/ Unpin \/ RotateMetadata
    \/ AcceptCredentials \/ RecordLive \/ Finalize \/ FinalizeMetadata
    \/ Capture \/ AcceptHostKey \/ AcceptMetadata
    \/ StartInstall \/ InstallKey \/ VerifyKey \/ InstallMetadata
    \/ StartProbe \/ Reprobe \/ ProbeMetadata
    \/ StartRemote \/ Upload \/ Execute \/ Cleanup
    \/ Kill \/ Readdress

BootstrapSpec == BootstrapInit /\ [][BootstrapNext]_bootstrapVars

-----------------------------------------------------------------------------
(***************************************************************************)
(* The server password is sent only to machines whose key the operator     *)
(* confirmed out of band, whoever answers at an address between scan,      *)
(* acceptance, installation and later scripts, and wherever a rotation was *)
(* cut off (accept_host_key_candidate, _ssh_base_arguments).               *)
(***************************************************************************)
PasswordTrusted == seen.password \subseteq Own

(***************************************************************************)
(* The plaintext handoff is deleted only while the store points at a       *)
(* server the project's key was verified on: a rotation makes the          *)
(* verification start over.  A rotation killed between the store and the   *)
(* metadata keeps the flags of the server before it, and is left out until *)
(* another one is completed (rotate_server_endpoint, finalize_handoff).    *)
(***************************************************************************)
FinalizedOnEvidence ==
    [][disk.handoff /\ ~disk'.handoff =>
          disk.store # NoStore /\ (seen.earned \/ seen.torn)]_bootstrapVars

(***************************************************************************)
(* No run of run_remote_script leaves its script on the host, whatever     *)
(* became of the execution, unless the program could not learn its path,   *)
(* its clean-up session got no answer, or it was killed                    *)
(* (_run_remote_script_transport).                                         *)
(***************************************************************************)
ScriptRemoved == Idle /\ ~seen.lost => remote = "absent"

=============================================================================
