----------------------------- MODULE UnitStore -----------------------------
(***************************************************************************)
(* What a hook or action keeps for the next one: the unit's kv store, the  *)
(* charm options saved at the end, and the unit's relation settings with   *)
(* the cache of relation-get in front of them.                             *)
(*                                                                         *)
(* One unit, one process at a time, which may fail or be killed between    *)
(* any two steps.  The kv store is one sqlite connection, so one           *)
(* transaction: a commit takes everything written so far with it and a     *)
(* rollback drops everything.  HookData blocks commit at their end and     *)
(* roll back when an exception leaves them; other code writes and flushes. *)
(* Every write has a number of its own, so that a value tells its writer.  *)
(***************************************************************************)
EXTENDS Naturals

CONSTANTS
    Options,    \* the charm options
    MaxValue,   \* bound on the values of an option
    MaxWrites,  \* bound on the numbered writes
    None

VARIABLES
    proc,      \* "none", or where the process is: see Phases
    conf,      \* the options Juju holds
    file,      \* .juju-persistent-config; None: absent, empty or cut short
    cur,       \* config() of the process
    prev,      \* its _prev_dict, None when there is none
    db,        \* the kv store on disk, by key
    view,      \* the kv store with what the process has not committed
    revision,  \* the number of the open HookData block, 0 if none
    sent,      \* the relation settings Juju has published
    own,       \* the settings in the process's context
    cached,    \* the entry of relation-get's cache for the local unit, or None
    writes,    \* how many writes there were
    base,      \* the options seen by the last process that came to its atexit calls
    raised     \* the numbers of the blocks an exception has left

vars == <<proc, conf, file, cur, prev, db, view, revision, sent, own, cached,
          writes, base, raised>>

Phases == {"none", "body", "saving", "tail"}
Keys == {"env", "flag", "tracker"}   \* written by every block, by one, by other code
Config == [Options -> 0..MaxValue]
storage == <<db, view, revision>>
settings == <<sent, own, cached>>

-----------------------------------------------------------------------------
(* Config.                                                                 *)

previous(o) == IF prev \in Config THEN prev[o] ELSE None
changed(o) == IF prev = None THEN TRUE ELSE previous(o) # cur[o]

-----------------------------------------------------------------------------
Init ==
    /\ proc = "none"
    /\ conf = [o \in Options |-> 0] /\ cur = conf
    /\ file = None /\ prev = None /\ base = None
    /\ db = [k \in Keys |-> 0] /\ view = db /\ revision = 0
    /\ sent = 0 /\ own = 0 /\ cached = None
    /\ writes = 0
    /\ raised = {}

\* The operator sets an option.
Configure(o, v) ==
    /\ conf[o] # v
    /\ conf' = [conf EXCEPT ![o] = v]
    /\ UNCHANGED <<proc, file, cur, prev, storage, settings, writes, base, raised>>

\* A hook or action starts: its config() is what Juju holds now, beside the previous
\* one; an empty file is like none, and so is one that cannot be parsed.
Begin ==
    /\ proc = "none"
    /\ proc' = "body"
    /\ cur' = conf
    /\ prev' = IF file \in Config THEN file ELSE None
    /\ view' = db /\ revision' = 0
    /\ own' = sent /\ cached' = None
    /\ UNCHANGED <<conf, file, db, sent, writes, base, raised>>

Running == proc \in {"body", "tail"}

\* Storage.set by code that uses no block.
set(k) ==
    /\ Running /\ revision = 0 /\ writes < MaxWrites
    /\ writes' = writes + 1
    /\ view' = [view EXCEPT ![k] = writes']
    /\ UNCHANGED <<proc, conf, file, cur, prev, db, revision, settings, base, raised>>

flush ==
    /\ Running /\ revision = 0
    /\ db' = view
    /\ UNCHANGED <<proc, conf, file, cur, prev, view, revision, settings, writes,
                   base, raised>>

\* HookData.__call__: even a block that only reads writes the environment.
_record_hook ==
    /\ Running /\ revision = 0 /\ writes < MaxWrites
    /\ writes' = writes + 1
    /\ revision' = writes'
    /\ view' = [view EXCEPT !["env"] = writes']
    /\ UNCHANGED <<proc, conf, file, cur, prev, db, settings, base, raised>>

set_in_block ==
    /\ revision # 0
    /\ view' = [view EXCEPT !["flag"] = revision]
    /\ UNCHANGED <<proc, conf, file, cur, prev, db, revision, settings, writes,
                   base, raised>>

hook_scope_end ==
    /\ revision # 0
    /\ db' = view /\ revision' = 0
    /\ UNCHANGED <<proc, conf, file, cur, prev, view, settings, writes, base, raised>>

\* Mutant of hook_scope_raises: what the block wrote stays in the transaction.
hook_scope_keeps ==
    /\ revision # 0
    /\ raised' = raised \cup {revision}
    /\ revision' = 0
    /\ UNCHANGED <<proc, conf, file, cur, prev, db, view, settings, writes, base>>

\* An exception leaves the block and is swallowed (is_unit_paused_set): the rollback
\* takes with it what other code had written and not flushed.
hook_scope_raises ==
    /\ revision # 0
    /\ raised' = raised \cup {revision}
    /\ view' = db /\ revision' = 0
    /\ UNCHANGED <<proc, conf, file, cur, prev, db, settings, writes, base>>

relation_get ==
    /\ Running
    /\ cached' = IF cached = None THEN own ELSE cached
    /\ UNCHANGED <<proc, conf, file, cur, prev, storage, sent, own, writes, base,
                   raised>>

\* Mutant of relation_set: the cache is left alone.
relation_set_cached ==
    /\ Running /\ writes < MaxWrites
    /\ writes' = writes + 1
    /\ own' = writes'
    /\ UNCHANGED <<proc, conf, file, cur, prev, storage, sent, cached, base, raised>>

relation_set ==
    /\ Running /\ writes < MaxWrites
    /\ writes' = writes + 1
    /\ own' = writes'
    /\ cached' = None
    /\ UNCHANGED <<proc, conf, file, cur, prev, storage, sent, base, raised>>

\* The handler is done (an action also when it failed): the atexit calls run, and the
\* first thing Config.save does is to empty the file.
_run_atexit ==
    /\ proc = "body" /\ revision = 0
    /\ proc' = "saving"
    /\ file' = None
    /\ base' = cur
    /\ UNCHANGED <<conf, cur, prev, storage, settings, writes, raised>>

save ==
    /\ proc = "saving"
    /\ proc' = "tail"
    /\ file' = cur
    /\ UNCHANGED <<conf, cur, prev, storage, settings, writes, base, raised>>

\* The process ends well: Juju publishes its settings; what is not committed is lost.
End ==
    /\ proc = "tail" /\ revision = 0
    /\ proc' = "none"
    /\ sent' = own
    /\ view' = db
    /\ UNCHANGED <<conf, file, cur, prev, db, revision, own, cached, writes, base,
                   raised>>

\* Mutant of Fail: the options are saved although the handler failed.
FailSaving ==
    /\ proc # "none"
    /\ proc' = "none"
    /\ file' = cur
    /\ view' = db /\ revision' = 0
    /\ UNCHANGED <<conf, cur, prev, db, settings, writes, base, raised>>

\* The process fails or is killed, maybe in the middle of Config.save.
Fail ==
    /\ proc # "none"
    /\ proc' = "none"
    /\ view' = db /\ revision' = 0
    /\ UNCHANGED <<conf, file, cur, prev, db, settings, writes, base, raised>>

Next ==
    \/ \E o \in Options, v \in 0..MaxValue : Configure(o, v)
    \/ Begin \/ set("tracker") \/ flush
    \/ _record_hook \/ set_in_block \/ hook_scope_end \/ hook_scope_raises
    \/ relation_get \/ relation_set
    \/ _run_atexit \/ save \/ End \/ Fail

Spec == Init /\ [][Next]_vars

-----------------------------------------------------------------------------
TypeOK ==
    /\ proc \in Phases
    /\ {conf, cur} \subseteq Config
    /\ {file, prev, base} \subseteq Config \cup {None}
    /\ {db, view} \subseteq [Keys -> 0..MaxWrites]
    /\ {sent, own, writes, revision} \subseteq 0..MaxWrites
    /\ cached \in 0..MaxWrites \cup {None}
    /\ raised \subseteq 1..MaxWrites

\* An option that is not what the last process that came to its atexit calls saw is
\* reported as changed, however many processes failed or were killed since, also in
\* the middle of saving.
ChangeReported ==
    proc # "none" => \A o \in Options : base = None \/ cur[o] # base[o] => changed(o)

\* A HookData block is all or nothing: what a block wrote that an exception left is
\* not on disk, whoever commits later.
BlockAtomic == \A k \in Keys : db[k] \notin raised

\* A process that reads its own settings sees what it has set, also when it has read
\* them before.
ReadsOwnWrites == proc # "none" /\ cached # None => cached = own

\* Both: nothing is read or kept that the process has replaced or taken back.
WritesHold == BlockAtomic /\ ReadsOwnWrites
=============================================================================
