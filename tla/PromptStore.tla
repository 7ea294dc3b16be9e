------------------------------ MODULE PromptStore ------------------------------
(***************************************************************************)
(* The versions of a prompt template in SQLite and the cache before them   *)
(* (dashboard/backend/database/prompts.py, over get_db of core.py).        *)
(*                                                                         *)
(* Request threads save, activate, delete and read.  Each call has a       *)
(* connection of its own: its SELECT sees what is committed, its first     *)
(* UPDATE, INSERT or DELETE takes the database's write lock and holds it   *)
(* to the commit.  So the check a call makes first is outside of the       *)
(* transaction that acts on it.  A read fills a cache that every write     *)
(* clears, before it commits.  Templates of different names share nothing  *)
(* but the lock: one name is modelled.                                     *)
(***************************************************************************)
EXTENDS Naturals

CONSTANTS
    Clients,            \* request threads
    Nobody,             \* the lock is free
    Latest,             \* the cache key (name, None): the active version
    NoText,             \* no such version
    NotCached,          \* no cache entry, or one past its time to live
    MaxSaves            \* bound: calls of save_prompt, those of the import included

Versions == 1 .. MaxSaves
Texts == 1 .. MaxSaves          \* the n-th save brings text n
MaybeText == Texts \union {NoText}
Keys == Versions \union {Latest}
Contents == [Versions -> MaybeText]

ASSUME MaxSavesAssumption == MaxSaves \in Nat
ASSUME NobodyAssumption == Nobody \notin Clients
ASSUME MarkersAssumption ==
    NoText \notin Texts /\ NotCached \notin MaybeText /\ Latest \notin Versions

VARIABLES
    rows,               \* the committed versions
    active,             \* those of them with is_active = 1
    lock,               \* who holds the write lock
    stagedRows,         \* what the holder's transaction has made of rows
    stagedActive,       \* ... and of active
    cache,              \* what get_prompt has cached, by key
    pc,                 \* where each thread is
    op,                 \* the call it executes
    arg,                \* the version or key of the call
    text,               \* the text it saves or has read
    saves,              \* history: calls of save_prompt
    saved,              \* history: saves that returned, but for deleted versions
    overtaken,          \* history: calls whose SELECT is older than the commit of another
                        \*   call (for a write: of one about the same version)
    raced,              \* history: entries cached by an overtaken read, or between a
                        \*   write's clearing of the cache and its commit
    contested           \* history: what is active was left by an overtaken write

dbVars == <<rows, active>>
txVars == <<lock, stagedRows, stagedActive>>
callVars == <<pc, op, arg, text>>
raceVars == <<overtaken, raced, contested>>
vars == <<dbVars, txVars, cache, callVars, saves, saved, raceVars>>

TypeOK ==
    /\ rows \in Contents
    /\ active \subseteq Versions
    /\ lock \in Clients \union {Nobody}
    /\ stagedRows \in Contents
    /\ stagedActive \subseteq Versions
    /\ cache \in [Keys -> MaybeText \union {NotCached}]
    /\ pc \in [Clients -> {"idle", "import", "write", "invalidate", "commit", "query", "fill"}]
    /\ op \in [Clients -> {"none", "save", "activate", "delete", "get"}]
    /\ arg \in [Clients -> Keys \union {0}]
    /\ text \in [Clients -> MaybeText]
    /\ saves \in 0 .. MaxSaves
    /\ saved \subseteq Versions \X Texts
    /\ overtaken \subseteq Clients
    /\ raced \subseteq Keys
    /\ contested \in BOOLEAN

Init ==
    /\ rows = [v \in Versions |-> NoText]
    /\ active = {}
    /\ lock = Nobody
    /\ stagedRows = rows
    /\ stagedActive = active
    /\ cache = [k \in Keys |-> NotCached]
    /\ pc = [c \in Clients |-> "idle"]
    /\ op = [c \in Clients |-> "none"]
    /\ arg = [c \in Clients |-> 0]
    /\ text = [c \in Clients |-> NoText]
    /\ saves = 0
    /\ saved = {}
    /\ overtaken = {}
    /\ raced = {}
    /\ contested = FALSE

Existing == {v \in Versions : rows[v] # NoText}

\* v is MAX(version) + 1.
IsNextVersion(v) ==
    /\ \A w \in Existing : w < v
    /\ v = 1 \/ v - 1 \in Existing

\* What SELECT finds for a key: the version, or the newest active one.
Lookup(k) ==
    IF k # Latest THEN rows[k]
    ELSE IF active \intersect Existing = {} THEN NoText
    ELSE rows[CHOOSE v \in active \intersect Existing :
                  \A w \in active \intersect Existing : w <= v]

-----------------------------------------------------------------------------
(* The checks a call begins with *)

Begin(c, o, k, t, at) ==
    /\ op' = [op EXCEPT ![c] = o]
    /\ arg' = [arg EXCEPT ![c] = k]
    /\ text' = [text EXCEPT ![c] = t]
    /\ pc' = [pc EXCEPT ![c] = at]
    /\ overtaken' = overtaken \ {c}
    /\ UNCHANGED <<dbVars, txVars, cache, saved, raced, contested>>

\* import_prompts_from_files: no version of this name is active, so the file is
\* to be saved as one.
ImportCheck(c) ==
    /\ pc[c] = "idle"
    /\ active = {}
    /\ Begin(c, "save", 0, NoText, "import")
    /\ UNCHANGED saves

\* save_prompt reads the highest version; the text comes from a request or a file.
SaveCheck(c) ==
    /\ pc[c] \in {"idle", "import"}
    /\ saves < MaxSaves
    /\ saves' = saves + 1
    /\ \E v \in Versions : IsNextVersion(v) /\ Begin(c, "save", v, saves + 1, "write")

\* activate_prompt goes on if the version exists.
ActivateCheck(c, v) ==
    /\ pc[c] = "idle"
    /\ v \in Existing
    /\ Begin(c, "activate", v, NoText, "write")
    /\ UNCHANGED saves

\* Mutant of DeleteCheck: without the test of is_active.
DeleteCheckExists(c, v) ==
    /\ pc[c] = "idle"
    /\ v \in Existing
    /\ Begin(c, "delete", v, NoText, "write")
    /\ UNCHANGED saves

\* delete_prompt_version goes on if the version exists and is not active.
DeleteCheck(c, v) ==
    /\ pc[c] = "idle"
    /\ v \in Existing \ active
    /\ Begin(c, "delete", v, NoText, "write")
    /\ UNCHANGED saves

-----------------------------------------------------------------------------
(* The transactions *)

\* Mutant of Stage: the statement does not wait for the lock.
StageAtOnce(c, newRows, newActive) ==
    /\ lock' = c
    /\ stagedRows' = newRows
    /\ stagedActive' = newActive
    /\ pc' = [pc EXCEPT ![c] = "invalidate"]
    /\ UNCHANGED <<dbVars, cache, op, arg, text, saves, saved, raceVars>>

\* The first statement of a transaction waits for the lock and sees what is
\* committed then.
Stage(c, newRows, newActive) ==
    /\ lock = Nobody
    /\ lock' = c
    /\ stagedRows' = newRows
    /\ stagedActive' = newActive
    /\ pc' = [pc EXCEPT ![c] = "invalidate"]
    /\ UNCHANGED <<dbVars, cache, op, arg, text, saves, saved, raceVars>>

\* Mutants of WriteSave: the older versions stay active; a version that exists is
\* replaced (INSERT OR REPLACE).
WriteSaveKeepsActive(c) ==
    /\ pc[c] = "write" /\ op[c] = "save"
    /\ rows[arg[c]] = NoText
    /\ Stage(c, [rows EXCEPT ![arg[c]] = text[c]], active \union {arg[c]})

WriteSaveReplaces(c) ==
    /\ pc[c] = "write" /\ op[c] = "save"
    /\ Stage(c, [rows EXCEPT ![arg[c]] = text[c]], {arg[c]})

WriteSave(c) ==
    /\ pc[c] = "write" /\ op[c] = "save"
    /\ rows[arg[c]] = NoText
    /\ Stage(c, [rows EXCEPT ![arg[c]] = text[c]], {arg[c]})

\* UNIQUE(name, version) refuses a version that was saved meanwhile: the whole
\* transaction is rolled back and the call fails.
SaveClash(c) ==
    /\ pc[c] = "write" /\ op[c] = "save"
    /\ lock = Nobody
    /\ rows[arg[c]] # NoText
    /\ pc' = [pc EXCEPT ![c] = "idle"]
    /\ overtaken' = overtaken \ {c}
    /\ UNCHANGED <<dbVars, txVars, cache, op, arg, text, saves, saved, raced, contested>>

\* Every version is made inactive, then the chosen one active, if it still exists.
WriteActivate(c) ==
    /\ pc[c] = "write" /\ op[c] = "activate"
    /\ Stage(c, rows, {arg[c]} \intersect Existing)

\* The version is deleted, active or not.
WriteDelete(c) ==
    /\ pc[c] = "write" /\ op[c] = "delete"
    /\ Stage(c, [rows EXCEPT ![arg[c]] = NoText], active \ {arg[c]})

\* Mutant of Invalidate: only the entry of the version itself is cleared.
InvalidateVersionOnly(c) ==
    /\ pc[c] = "invalidate"
    /\ cache' = [cache EXCEPT ![arg[c]] = NotCached]
    /\ pc' = [pc EXCEPT ![c] = "commit"]
    /\ UNCHANGED <<dbVars, txVars, op, arg, text, saves, saved, raceVars>>

\* The entries of the name are cleared while the transaction is still open.
Invalidate(c) ==
    /\ pc[c] = "invalidate"
    /\ cache' = [k \in Keys |-> NotCached]
    /\ raced' = {}
    /\ pc' = [pc EXCEPT ![c] = "commit"]
    /\ UNCHANGED <<dbVars, txVars, op, arg, text, saves, saved, overtaken, contested>>

\* get_db commits when the call's block ends, and the caller is told so.
Commit(c) ==
    /\ pc[c] = "commit"
    /\ rows' = stagedRows
    /\ active' = stagedActive
    /\ lock' = Nobody
    /\ pc' = [pc EXCEPT ![c] = "idle"]
    /\ saved' = CASE op[c] = "save" -> saved \union {<<arg[c], text[c]>>}
                  [] op[c] = "delete" -> {s \in saved : s[1] # arg[c]}
                  [] OTHER -> saved
    /\ overtaken' = (overtaken \ {c}) \union
                       {d \in Clients : pc[d] = "fill" \/ (pc[d] = "write" /\ arg[d] = arg[c])}
    /\ contested' = (c \in overtaken \/ (op[c] = "delete" /\ contested))
    /\ UNCHANGED <<stagedRows, stagedActive, cache, op, arg, text, saves, raced>>

\* The lock is not granted in time, or a statement or the commit fails: get_db
\* rolls back what there is to roll back, and the call raises.
Rollback(c) ==
    /\ pc[c] # "idle"
    /\ lock' = IF lock = c THEN Nobody ELSE lock
    /\ pc' = [pc EXCEPT ![c] = "idle"]
    /\ overtaken' = overtaken \ {c}
    /\ UNCHANGED <<dbVars, stagedRows, stagedActive, cache, op, arg, text, saves, saved,
                   raced, contested>>

-----------------------------------------------------------------------------
(* get_prompt *)

\* The key is not in the cache (a hit changes nothing).
GetMisses(c, k) ==
    /\ pc[c] = "idle"
    /\ cache[k] = NotCached
    /\ Begin(c, "get", k, NoText, "query")
    /\ UNCHANGED saves

GetQuery(c) ==
    /\ pc[c] = "query"
    /\ text' = [text EXCEPT ![c] = Lookup(arg[c])]
    /\ pc' = [pc EXCEPT ![c] = "fill"]
    /\ UNCHANGED <<dbVars, txVars, cache, op, arg, saves, saved, raceVars>>

\* Mutant of GetFill: the key is cached in place of the row.
GetFillKey(c) ==
    /\ pc[c] = "fill"
    /\ cache' = [cache EXCEPT ![arg[c]] = arg[c]]
    /\ pc' = [pc EXCEPT ![c] = "idle"]
    /\ UNCHANGED <<dbVars, txVars, op, arg, text, saves, saved, raceVars>>

\* The result is cached, a missing row too, whatever was written meanwhile.
GetFill(c) ==
    /\ pc[c] = "fill"
    /\ cache' = [cache EXCEPT ![arg[c]] = text[c]]
    /\ raced' = IF c \in overtaken \/ \E d \in Clients : pc[d] = "commit"
                THEN raced \union {arg[c]} ELSE raced \ {arg[c]}
    /\ overtaken' = overtaken \ {c}
    /\ pc' = [pc EXCEPT ![c] = "idle"]
    /\ UNCHANGED <<dbVars, txVars, op, arg, text, saves, saved, contested>>

\* Sixty seconds have gone by since the entry was made.
Expire(k) ==
    /\ cache[k] # NotCached
    /\ cache' = [cache EXCEPT ![k] = NotCached]
    /\ raced' = raced \ {k}
    /\ UNCHANGED <<dbVars, txVars, callVars, saves, saved, overtaken, contested>>

-----------------------------------------------------------------------------

\* The dashboard dies and is restarted: the cache and the open transactions are
\* gone, what was committed stays.
Restart ==
    /\ cache' = [k \in Keys |-> NotCached]
    /\ pc' = [c \in Clients |-> "idle"]
    /\ lock' = Nobody
    /\ overtaken' = {}
    /\ raced' = {}
    /\ UNCHANGED <<dbVars, stagedRows, stagedActive, op, arg, text, saves, saved, contested>>

Write(c) ==
    \/ WriteSave(c) \/ SaveClash(c) \/ WriteActivate(c) \/ WriteDelete(c)
    \/ Invalidate(c) \/ Commit(c) \/ Rollback(c)

Next ==
    \/ \E c \in Clients :
        \/ ImportCheck(c) \/ SaveCheck(c)
        \/ \E v \in Versions : ActivateCheck(c, v) \/ DeleteCheck(c, v)
        \/ Write(c)
        \/ \E k \in Keys : GetMisses(c, k)
        \/ GetQuery(c) \/ GetFill(c)
    \/ \E k \in Keys : Expire(k)
    \/ Restart

Spec == Init /\ [][Next]_vars

-----------------------------------------------------------------------------
(* Properties *)

\* At most one version is active, and it exists, however the calls of several
\* threads interleave.
OneActive ==
    /\ \A v, w \in active : v = w
    /\ active \subseteq Existing

\* A version whose save was acknowledged is there with its text until a delete of
\* that version is acknowledged: two saves never take the same number.
SavedIsKept == \A s \in saved : rows[s[1]] = s[2]

\* A name that has versions and none of them active was brought there by a delete or an
\* activation whose check another call had overtaken with a commit about that version: no
\* other interleaving of the checks and the transactions, no rollback and no restart does it.
NoneActiveWasContested == Existing # {} /\ active = {} => contested

\* A cache entry that disagrees with the database was put there in one of two windows: by
\* a read that a commit overtook, or between a write's clearing of the cache and its commit.
StaleWasRaced == \A k \in Keys : cache[k] \notin {Lookup(k), NotCached} => k \in raced

\* However the calls interleave, fail and are cut short, each takes effect at its
\* commit as if it were alone, or not at all.
Promise == INSTANCE VersionStore

ImplementsVersionStore == Promise!Spec

=============================================================================
