----------------------------- MODULE Hardening -----------------------------
(***************************************************************************)
(* The hardening stack behind @harden() on install, upgrade-charm,         *)
(* config-changed and update-status: the modules of the option "harden"    *)
(* run their audits one after the other; an audit that finds a path not    *)
(* compliant makes it compliant.                                           *)
(*                                                                         *)
(* One machine.  A charm upgrade brings new templates and a new            *)
(* hardening.yaml, somebody edits files and permissions at any time, a     *)
(* command an audit runs may fail (mostly only logged), and the hook may   *)
(* fail or be killed between two steps; the kv store keeps what was        *)
(* flushed.  A file's content is the template version and the context it   *)
(* was rendered from, or an edit; a checksum is the content it is of.  The *)
(* packages that some files want purged or installed before they are       *)
(* written are left out.                                                   *)
(***************************************************************************)
EXTENDS Naturals, Sequences, SequencesExt, FiniteSets

CONSTANTS
    Overrides,  \* the hardening.yaml files there may be, functions on keys
    Hardens,    \* the values of the option "harden", sets of words
    Disturbed,  \* the paths somebody disturbs in this instance
    MaxFaults,  \* bound on upgrades, edits and failures together
    None

VARIABLES
    harden,     \* the option
    installed,  \* which of mysql and apache2 there are
    version,    \* the templates of the charm
    settings,   \* get_settings(): the defaults with hardening.yaml on top
    disk,       \* disk[f]: the content of a templated file, None if there is none
    bad,        \* the paths whose mode, owner or existence is not what it should be
    kv,         \* kv[f]: [content, template], the checksums kept, None: none
    serving,    \* serving[f]: the content of f that a service, the kernel or PAM has loaded
    run,        \* the audits left in this hook and where the first one is
    faults,     \* how many upgrades, edits and failures there were
    excused,    \* the files a failure or an edit during a run has got past the audit
    unloaded    \* the files whose last loading failed, or was cut off

vars == <<harden, installed, version, settings, disk, bad, kv, serving, run, faults,
          excused, unloaded>>

-----------------------------------------------------------------------------
(* Settings.                                                               *)

_get_defaults ==
    [key \in {"packages_clean", "suid_sgid_enforce", "passwdqc", "retries", "ssh_tmout",
              "module_loading", "core_dump", "change_user", "unknown",
              "client.weak_hmac", "client.weak_kex", "client.cbc", "roaming",
              "server.weak_hmac", "server.weak_kex", "server.cbc", "sftp",
              "forwarding", "ipv6", "arp", "sysrq", "umask is a string"}
      |-> key \in {"packages_clean", "suid_sgid_enforce", "passwdqc", "retries",
                   "ssh_tmout", "module_loading", "arp"}]
\* The schema has the keys of the defaults.
_get_schema == DOMAIN _get_defaults
Settings == [_get_schema -> BOOLEAN]

\* Keys that are not in the schema are ignored.
_apply_overrides(overrides) ==
    [key \in _get_schema |-> IF key \in DOMAIN overrides THEN overrides[key]
                      ELSE _get_defaults[key]]

-----------------------------------------------------------------------------
(* The audits of each module, in order.                                    *)

audit(kind, path) == [kind |-> kind, path |-> path]
when(test, audits) == IF test THEN audits ELSE <<>>

apt_get_audits(s) ==
    <<audit("AptConfig", "AllowUnauthenticated")>>
    \o when(s["packages_clean"], <<audit("RestrictedPackages", "packages_list")>>)
limits_get_audits(s) ==
    <<audit("DirectoryPermissionAudit", "limits.d")>>
    \o when(~s["core_dump"], <<audit("TemplatedFile", "10.hardcore.conf")>>)
login_get_audits == <<audit("TemplatedFile", "login.defs")>>
minimize_access_get_audits(s) ==
    <<audit("ReadOnly", "path_folders"), audit("FilePermissionAudit", "shadow")>>
    \o when(~s["change_user"], <<audit("FilePermissionAudit", "su")>>)
pam_get_audits(s) ==
    when(s["passwdqc"], <<audit("TemplatedFile", "passwdqc.conf")>>)
    \o <<audit(IF s["retries"] THEN "TemplatedFile" ELSE "DeletedFile", "tally2")>>
profile_get_audits(s) ==
    when(~s["core_dump"], <<audit("TemplatedFile", "pinerolo_profile.sh")>>)
    \o when(s["ssh_tmout"], <<audit("TemplatedFile", "99-hardening.sh")>>)
securetty_get_audits == <<audit("TemplatedFile", "securetty")>>
suid_sgid_get_audits(s) ==
    when(s["suid_sgid_enforce"], <<audit("NoSUIDSGIDAudit", "blacklist")>>)
sysctl_get_audits ==
    <<audit("TemplatedFile", "99-juju-hardening.conf"),
      audit("FilePermissionAudit", "sysctl.conf")>>

run_os_checks(s) ==
    apt_get_audits(s) \o limits_get_audits(s) \o login_get_audits
    \o minimize_access_get_audits(s) \o pam_get_audits(s) \o profile_get_audits(s)
    \o securetty_get_audits \o suid_sgid_get_audits(s) \o sysctl_get_audits

SSHConfig == audit("TemplatedFile", "ssh_config")
SSHDConfig == audit("TemplatedFile", "sshd_config")
ssh_get_audits ==
    <<SSHConfig, SSHDConfig, audit("FileContentAudit", "ssh_config"),
      audit("FileContentAudit", "sshd_config")>>

mysql_get_audits ==
    when("mysql" \in installed,
         <<audit("FilePermissionAudit", "my.cnf"), audit("TemplatedFile", "hardening.cnf"),
           audit("FilePermissionAudit", "mysql_data"),
           audit("FilePermissionAudit", "etc_mysql")>>)

apache_get_audits ==
    when("apache2" \in installed,
         <<audit("FilePermissionAudit", "apache2.conf"), audit("TemplatedFile", "alias.conf"),
           audit("TemplatedFile", "99-hardening.conf"),
           audit("DirectoryPermissionAudit", "apache_dir"),
           audit("DisabledModuleAudit", "modules"),
           audit("NoReadWriteForOther", "apache_dir"), audit("DeletedFile", "index.html")>>)

\* The modules run in this order, whatever the option's; unknown words are ignored.
harden_audits(s) ==
    when("os" \in harden, run_os_checks(s)) \o when("ssh" \in harden, ssh_get_audits)
    \o when("mysql" \in harden, mysql_get_audits)
    \o when("apache" \in harden, apache_get_audits)

\* The lists of the two settings that need more than the defaults raise TypeError:
\* ModulesTemplate has no base class that takes arguments.
ModulesTemplate(s) == ~s["module_loading"]
find_paths_with_suid_sgid(s) == s["suid_sgid_enforce"] /\ s["unknown"]
broken(s) == "os" \in harden /\ (ModulesTemplate(s) \/ find_paths_with_suid_sgid(s))

Files == {"10.hardcore.conf", "login.defs", "passwdqc.conf", "tally2",
          "pinerolo_profile.sh", "99-hardening.sh", "securetty", "99-juju-hardening.conf",
          "ssh_config", "sshd_config", "hardening.cnf", "alias.conf", "99-hardening.conf"}
apache == {"alias.conf", "99-hardening.conf"}
Restarts == {"sshd_config", "hardening.cnf"} \cup apache
pam == {"passwdqc.conf", "tally2"}
Posts == pam \cup {"99-juju-hardening.conf"}
Leaves == {"limits.d"}      \* directories without directories in them

-----------------------------------------------------------------------------
(* What the ssh templates are given, and what the content audits ask of    *)
(* the files (Ubuntu 14.04 and later).                                     *)

get_macs(allow_weak_mac) ==
    <<"sha2-512-etm", "umac-128-etm", "sha2-512", "hmac-ripemd160">>
    \o when(allow_weak_mac, <<"hmac-sha1">>)

\* Mutant of get_kexs: the strong exchange is not the last of the strong ones.
get_kexs_reordered(allow_weak_kex) ==
    <<"group-exchange-sha256", "curve25519">>
    \o when(allow_weak_kex, <<"group14-sha1", "group-exchange-sha1", "group1-sha1">>)

get_kexs(allow_weak_kex) ==
    <<"curve25519", "group-exchange-sha256">>
    \o when(allow_weak_kex, <<"group14-sha1", "group-exchange-sha1", "group1-sha1">>)
get_ciphers(cbc_required) ==
    <<"chacha20", "aes256-gcm", "aes128-gcm", "aes256-ctr", "aes192-ctr", "aes128-ctr">>
    \o when(cbc_required, <<"aes256-cbc", "aes192-cbc", "aes128-cbc">>)

SSHConfigContext(s) ==
    [macs |-> get_macs(s["client.weak_hmac"]), kexs |-> get_kexs(s["client.weak_kex"]),
     ciphers |-> get_ciphers(s["client.cbc"]), extra |-> s["roaming"]]
SSHDConfigContext(s) ==
    [macs |-> get_macs(s["server.weak_hmac"]), kexs |-> get_kexs(s["server.weak_kex"]),
     ciphers |-> get_ciphers(s["server.cbc"]), extra |-> s["sftp"]]

\* Both audits go by the server's settings.  With weak_kex each of three exchanges is
\* expected to be the first.
AlgorithmCases(s, ctxt) ==
    /\ Last(ctxt.macs) = IF s["server.weak_hmac"] THEN "hmac-sha1" ELSE "hmac-ripemd160"
    /\ IF s["server.weak_kex"]
       THEN /\ Head(ctxt.kexs) # "group-exchange-sha256"
            /\ \A kex \in {"group14-sha1", "group-exchange-sha1", "group1-sha1"} :
                  Head(ctxt.kexs) = kex
       ELSE /\ Len(ctxt.kexs) > 1 /\ Last(ctxt.kexs) = "group-exchange-sha256"
            /\ "group14-sha1" \notin ToSet(ctxt.kexs)
    /\ IF s["server.cbc"]
       THEN /\ "aes256-cbc" \in ToSet(ctxt.ciphers)
            /\ {"aes128-ctr", "aes192-ctr", "aes256-ctr"} \cap ToSet(ctxt.ciphers) = {}
       ELSE /\ "aes256-cbc" \notin ToSet(ctxt.ciphers)
            /\ Head(ctxt.ciphers) = "chacha20" /\ Last(ctxt.ciphers) = "aes128-ctr"
            /\ {"aes192-ctr", "aes256-ctr"} \subseteq ToSet(ctxt.ciphers)
SSHConfigFileContentAudit(s, ctxt) == AlgorithmCases(s, ctxt) /\ ctxt.extra = s["roaming"]
SSHDConfigFileContentAudit(s, ctxt) == AlgorithmCases(s, ctxt) /\ ctxt.extra = s["sftp"]

-----------------------------------------------------------------------------
(* What the other templates are given.                                     *)

number(test, yes, no) == IF test THEN yes ELSE no

\* The keys the settings decide; the other values are the same on every machine.
SysCtlHardeningContext(s) ==
    [disable_ipv6 |-> number(s["ipv6"], 0, 1), forwarding |-> number(s["forwarding"], 1, 0),
     arp_ignore |-> number(s["arp"], 1, 0), arp_announce |-> number(s["arp"], 2, 0),
     modules_disabled |-> number(s["module_loading"], 0, 1),
     sysrq |-> number(s["sysrq"], 244, 0), suid_dumpable |-> number(s["core_dump"], 1, 0)]
Tally2PAMContext(s) == [auth_retries |-> s["retries"]]

\* oct() of an umask that YAML has read as a number begins with "0o".
LoginContext(s) ==
    [umask |-> number(s["umask is a string"], "027", "0o27"), login_retries |-> s["retries"]]

\* The contexts of the remaining files hold nothing the settings here change.
Context(f) ==
    CASE f = "99-juju-hardening.conf" -> SysCtlHardeningContext(settings)
      [] f = "tally2" -> Tally2PAMContext(settings)
      [] f = "login.defs" -> LoginContext(settings)
      [] f = "ssh_config" -> SSHConfigContext(settings)
      [] f = "sshd_config" -> SSHDConfigContext(settings)
      [] OTHER -> None

-----------------------------------------------------------------------------
idle == [stage |-> "idle", todo |-> <<>>]
at(kind) == run.stage = "audit" /\ run.todo # <<>> /\ Head(run.todo).kind = kind
path == Head(run.todo).path
nextAudit == [stage |-> "audit", todo |-> Tail(run.todo)]
content == [version |-> version, context |-> Context(path), edited |-> FALSE]
ensure_permissions == bad \ {path}

Init ==
    /\ harden \in Hardens
    /\ installed \in SUBSET {"mysql", "apache2"}
    /\ version = 0
    /\ settings \in {_apply_overrides(o) : o \in Overrides}
    /\ disk = [f \in Files |-> None] /\ serving = disk
    /\ kv = [f \in Files |-> [content |-> None, template |-> None]]
    /\ bad = {}
    /\ run = idle
    /\ faults = 0
    /\ excused = {} /\ unloaded = {}

\* A hook with @harden() starts; it fails at once if the lists cannot be made.
Start ==
    /\ run = idle /\ ~broken(settings)
    /\ run' = [stage |-> "audit", todo |-> harden_audits(settings)]
    /\ UNCHANGED <<harden, installed, version, settings, disk, bad, kv, serving, faults,
                   excused, unloaded>>

\* The audits are done, and the hook itself follows.
End ==
    /\ run.stage = "audit" /\ run.todo = <<>>
    /\ run' = idle
    /\ UNCHANGED <<harden, installed, version, settings, disk, bad, kv, serving, faults,
                   excused, unloaded>>

\* Mutant of is_compliant: the template is not looked at.
is_compliant_content(f) == kv[f].content = disk[f] /\ f \notin bad

\* None if there is no file.
file_hash(f) == disk[f]

\* TemplatedFile: a file is compliant when neither it nor its template has changed since
\* it was written.  The settings are not looked at.
is_compliant(f) ==
    kv[f].template = version /\ kv[f].content = file_hash(f) /\ f \notin bad

\* BaseFileAudit.ensure_compliance of a templated file.  The template's checksum is
\* stored here, before the file is written; not if there is no file yet.
CheckTemplated ==
    /\ at("TemplatedFile")
    /\ run' = IF disk[path] # None /\ is_compliant(path) THEN nextAudit
              ELSE [run EXCEPT !.stage = "write"]
    /\ kv' = IF disk[path] # None THEN [kv EXCEPT ![path].template = version] ELSE kv
    /\ UNCHANGED <<harden, installed, version, settings, disk, bad, serving, faults, excused,
                   unloaded>>

\* TemplatedFile.comply up to ensure_permissions.
WriteTemplated ==
    /\ run.stage = "write"
    /\ disk' = [disk EXCEPT ![path] = content]
    /\ bad' = ensure_permissions
    /\ run' = [run EXCEPT !.stage = "finish"]
    /\ UNCHANGED <<harden, installed, version, settings, kv, serving, faults, excused,
                   unloaded>>

Fault == faults < MaxFaults /\ faults' = faults + 1

\* A command that fails is only logged.
Load(fs, ok) ==
    /\ IF ok THEN UNCHANGED faults ELSE fs # {} /\ Fault
    /\ serving' = [f \in Files |-> IF ok /\ f \in fs THEN disk[f] ELSE serving[f]]
    /\ unloaded' = IF ok THEN unloaded \ fs ELSE unloaded \cup fs

\* One service reads both files of apache.
run_service_actions(ok) ==
    Load(IF path \in apache THEN apache ELSE {path} \cap Restarts, ok)


\* The rest of comply: the service is restarted and the checksum is saved of what is in
\* the file now.
FinishTemplated(ok) ==
    /\ run.stage = "finish"
    /\ run_service_actions(ok)
    /\ kv' = [kv EXCEPT ![path].content = file_hash(path)]
    /\ excused' = IF disk[path].edited THEN excused ELSE excused \ {path}
    /\ run' = IF path \in Posts THEN [run EXCEPT !.stage = "post"] ELSE nextAudit
    /\ UNCHANGED <<harden, installed, version, settings, disk, bad>>

\* post_write: sysctl reads its file, pam-auth-update everything of PAM.
post_write(ok) ==
    /\ run.stage = "post"
    /\ Load(IF path \in pam THEN pam ELSE {path}, ok)
    /\ run' = nextAudit
    /\ UNCHANGED <<harden, installed, version, settings, disk, bad, kv, excused>>

\* The other audits check and comply in one step; a command that fails is logged.
Comply(kind, ok) ==
    /\ at(kind)
    /\ bad' = IF ok THEN ensure_permissions ELSE bad
    /\ UNCHANGED disk
FilePermissionAudit(ok) == Comply("FilePermissionAudit", ok)
ReadOnly(ok) == Comply("ReadOnly", ok)
NoReadWriteForOther(ok) == Comply("NoReadWriteForOther", ok)
NoSUIDSGIDAudit(ok) == Comply("NoSUIDSGIDAudit", ok)
apt_purge(ok) == bad' = IF ok THEN bad \ {path} ELSE bad
RestrictedPackages(ok) == at("RestrictedPackages") /\ apt_purge(ok) /\ UNCHANGED disk
DisabledModuleAudit(ok) == Comply("DisabledModuleAudit", ok)

\* comply goes by os.walk: a directory without directories is found bad and left so.
DirectoryPermissionAudit(ok) ==
    Comply("DirectoryPermissionAudit", ok /\ path \notin Leaves)

DeletedFile(ok) ==
    /\ at("DeletedFile")
    /\ bad' = IF ok THEN ensure_permissions ELSE bad
    /\ disk' = IF path \in Files THEN [disk EXCEPT ![path] = None] ELSE disk

\* These two only warn.
FileContentAudit == at("FileContentAudit") /\ UNCHANGED <<bad, disk>>
AptConfig == at("AptConfig") /\ UNCHANGED <<bad, disk>>

ensure_compliance(ok) ==
    /\ \/ FilePermissionAudit(ok) \/ ReadOnly(ok) \/ NoReadWriteForOther(ok)
       \/ NoSUIDSGIDAudit(ok) \/ RestrictedPackages(ok) \/ DisabledModuleAudit(ok)
       \/ DirectoryPermissionAudit(ok) \/ DeletedFile(ok) \/ FileContentAudit
       \/ AptConfig
    /\ run' = nextAudit
    /\ UNCHANGED <<harden, installed, version, settings, kv, serving, faults, excused,
                   unloaded>>

-----------------------------------------------------------------------------
\* A charm upgrade: other templates, maybe another hardening.yaml.
Upgrade(overrides) ==
    /\ Fault /\ run = idle
    /\ version' = version + 1
    /\ settings' = _apply_overrides(overrides)
    /\ UNCHANGED <<harden, installed, disk, bad, kv, serving, run, excused, unloaded>>

Edit(f) ==
    /\ Fault
    /\ disk[f] # None /\ ~disk[f].edited
    /\ disk' = [disk EXCEPT ![f].edited = TRUE]
    /\ excused' = IF run = idle THEN excused ELSE excused \cup {f}
    /\ UNCHANGED <<harden, installed, version, settings, bad, kv, serving, run, unloaded>>

Disturb(p) ==
    /\ Fault
    /\ p \notin bad
    /\ bad' = bad \cup {p}
    /\ UNCHANGED <<harden, installed, version, settings, disk, kv, serving, run, excused, unloaded>>

\* The hook fails or is killed.  A file whose template was noted and that was not
\* written yet is not looked at again until something else about it changes; nor is one that
\* was written and not loaded, once its checksum is saved, or if an earlier one is the same.
Fail ==
    /\ Fault
    /\ run # idle
    /\ excused' = IF run.stage = "write" THEN excused \cup {path} ELSE excused
    /\ unloaded' = IF run.stage \in {"finish", "post"} /\ path \in Restarts \cup Posts
                   THEN unloaded \cup {path} ELSE unloaded
    /\ run' = idle
    /\ UNCHANGED <<harden, installed, version, settings, disk, bad, kv, serving>>

Next ==
    \/ Start \/ End \/ CheckTemplated \/ WriteTemplated
    \/ \E ok \in BOOLEAN : FinishTemplated(ok) \/ post_write(ok) \/ ensure_compliance(ok)
    \/ \E o \in Overrides : Upgrade(o)
    \/ \E f \in Disturbed \cap Files : Edit(f)
    \/ \E p \in Disturbed : Disturb(p)
    \/ Fail

Spec == Init /\ [][Next]_vars

-----------------------------------------------------------------------------
TypeOK ==
    /\ harden \in Hardens /\ installed \subseteq {"mysql", "apache2"}
    /\ version \in 0..MaxFaults /\ faults \in 0..MaxFaults
    /\ settings \in Settings
    /\ \A f \in Files : disk[f] # None => disk[f].version \in 0..version
    /\ \A f \in Files : kv[f].template \in 0..MaxFaults \cup {None}
    /\ run.stage \in {"idle", "audit", "write", "finish", "post"}
    /\ excused \subseteq Files /\ unloaded \subseteq Restarts \cup Posts

\* A run that comes to its end leaves every file it manages as its template makes it,
\* whatever happened before: edits are undone and new templates are rendered.  Two ways
\* past it are excused: an edit during the run, and a run that failed after it had noted
\* a new template and before it wrote the file.
Hardened(f) == disk[f] # None /\ disk[f].version = version /\ ~disk[f].edited
RunHardens ==
    run.stage = "audit" /\ run.todo = <<>> =>
        \A i \in DOMAIN harden_audits(settings) :
            LET a == harden_audits(settings)[i] IN
            a.kind = "TemplatedFile" => a.path \in excused \/ Hardened(a.path)

\* It also leaves the services, the kernel and PAM with what is in the files, however often
\* and wherever earlier runs were cut off; a command that failed, or was not reached in a
\* run that had written the file, is the exception.
HardenedLoaded ==
    run.stage = "audit" /\ run.todo = <<>> =>
        \A i \in DOMAIN harden_audits(settings) :
            LET a == harden_audits(settings)[i] IN
            /\ a.kind = "TemplatedFile" /\ a.path \in Restarts \cup Posts
            /\ a.path \notin excused \cup unloaded
            => serving[a.path] = disk[a.path]

\* What the ssh templates render passes the charm's own content audits: as long as only
\* strong key exchanges and ciphers are asked for and the client's MACs are the server's,
\* no audit warns of a file the run before it has left in order.
Strict(s) ==
    /\ \A key \in {"server.weak_kex", "server.cbc", "client.weak_kex", "client.cbc"} : ~s[key]
    /\ s["client.weak_hmac"] = s["server.weak_hmac"]
SshAuditAgrees ==
    at("FileContentAudit") /\ Strict(settings) /\ path \notin excused
        => IF path = "ssh_config"
           THEN SSHConfigFileContentAudit(settings, disk[path].context)
           ELSE SSHDConfigFileContentAudit(settings, disk[path].context)
=============================================================================
