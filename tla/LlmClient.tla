------------------------------ MODULE LlmClient ------------------------------
(***************************************************************************)
(* Calls of language models (skills/llm.py): the cache of answers, the     *)
(* chain of models, and the usage file that each answered call leaves.     *)
(*                                                                         *)
(* Agents are processes with threads.  The cache is one SQLite table of    *)
(* all processes, but each process counts its rows for itself, from its    *)
(* first insertion on.  A usage file is named by the process's hash of     *)
(* agent, model, second and token counts: calls of one process in one      *)
(* second that use as many tokens share a file, the later replaces the     *)
(* earlier.  UsageLedger adds the dashboard that imports the files.        *)
(***************************************************************************)
EXTENDS Integers, Recency, FiniteSets

CONSTANTS
    Threads,            \* threads of agents that call chat
    Processes,          \* processes of agents
    Keys,               \* cache keys: prompts, model, temperature and format
    ChainOf,            \* the models a request with that key may be sent to, in order
    MaxEntries,         \* _CACHE_MAX_ENTRIES
    MaxCalls,           \* bound: calls of chat
    MaxSecond           \* bound: the clock

ASSUME LimitsAssumption ==
    /\ MaxEntries \in Nat \ {0} /\ MaxCalls \in Nat /\ MaxSecond \in Nat
    /\ IsFiniteSet(Threads) /\ IsFiniteSet(Processes)

\* There is a model to begin with.
ASSUME ChainAssumption ==
    /\ Keys # {}
    /\ \A k \in Keys : Len(ChainOf[k]) \in Nat \ {0} /\ DOMAIN ChainOf[k] = 1 .. Len(ChainOf[k])

Seconds == 0 .. MaxSecond
Names == Processes \X Seconds
Unknown == -1                       \* _cache_entry_count before the first insertion

VARIABLES
    host,               \* the process each thread belongs to
    lru,                \* the cached keys, the least recently accessed first
    expired,            \* those of them that are past their time to live
    count,              \* _cache_entry_count of each process
    pc,                 \* where each thread is in chat
    key,                \* the key of its call
    cacheable,          \* whether the temperature allows for a cached answer
    attempt,            \* the position of the model it tries
    calls,              \* history: calls begun
    second,             \* the clock, in seconds
    usage,              \* usage files in the directory of tokens
    recorded            \* history: how often each was written

callVars == <<pc, key, cacheable, attempt>>
cacheVars == <<lru, expired, count>>
fileVars == <<usage, recorded>>
clientVars == <<host, callVars, cacheVars, fileVars, calls, second>>

ClientTypeOK ==
    /\ host \in [Threads -> Processes]
    /\ lru \in Seq(Keys) /\ IsInjective(lru) /\ expired \subseteq ToSet(lru)
    /\ count \in [Processes -> Unknown .. MaxEntries]
    /\ pc \in [Threads -> {"idle", "attempt", "record", "put"}]
    /\ key \in [Threads -> Keys]
    /\ cacheable \in [Threads -> BOOLEAN]
    /\ \A t \in Threads : attempt[t] \in DOMAIN ChainOf[key[t]]
    /\ calls \in 0 .. MaxCalls
    /\ second \in Seconds
    /\ usage \subseteq Names
    /\ recorded \in [Names -> 0 .. MaxCalls]

\* A call that has returned leaves nothing behind.
NoKey == CHOOSE k \in Keys : TRUE

ClientInit ==
    /\ host \in [Threads -> Processes]
    /\ lru = <<>>
    /\ expired = {}
    /\ count = [p \in Processes |-> Unknown]
    /\ pc = [t \in Threads |-> "idle"]
    /\ key = [t \in Threads |-> NoKey]
    /\ cacheable = [t \in Threads |-> FALSE]
    /\ attempt = [t \in Threads |-> 1]
    /\ calls = 0
    /\ second = 0
    /\ usage = {}
    /\ recorded = [n \in Names |-> 0]

Goto(t, where) == pc' = [pc EXCEPT ![t] = where]

Return(t) ==
    /\ Goto(t, "idle")
    /\ key' = [key EXCEPT ![t] = NoKey]
    /\ cacheable' = [cacheable EXCEPT ![t] = FALSE]
    /\ attempt' = [attempt EXCEPT ![t] = 1]

\* What follows the recording of an answer.
AfterRecord(t) ==
    IF cacheable[t] THEN Goto(t, "put") /\ UNCHANGED <<key, cacheable, attempt>> ELSE Return(t)

-----------------------------------------------------------------------------
(* The cache *)

\* _cache_get finds a row that is young enough.
Hit(k) == k \in ToSet(lru) \ expired

\* The rows after an insertion by a process that counts n rows, and its count then.
Evict(rows, n) == IF n > MaxEntries THEN Dropped(rows, n - MaxEntries) ELSE rows

\* Mutant of CountAfter: a first insertion counts itself only.
CountAfterFromZero(n, rows) == IF n = Unknown THEN 1 ELSE n + 1

\* The count becomes known with the first insertion, and grows by one with each of
\* the others, those that replace a row included.
CountAfter(n, rows) == IF n = Unknown THEN Len(rows) ELSE n + 1

\* _cache_put: INSERT OR REPLACE, counting and eviction are one transaction.
CachePut(p, k) ==
    LET rows == Touched(lru, k)
        n == CountAfter(count[p], rows)
        kept == Evict(rows, n)
    IN /\ lru' = kept
       /\ expired' = (expired \ {k}) \intersect ToSet(kept)
       /\ count' = [count EXCEPT ![p] = IF n > MaxEntries THEN MaxEntries ELSE n]

\* clear_llm_cache, in whatever process: the counts are not reset.
ClearCache ==
    /\ lru # <<>>
    /\ lru' = <<>> /\ expired' = {}
    /\ UNCHANGED <<host, count, callVars, fileVars, calls, second>>

\* A row becomes older than the time to live.
ExpireRow(k) ==
    /\ Hit(k)
    /\ expired' = expired \union {k}
    /\ UNCHANGED <<host, lru, count, callVars, fileVars, calls, second>>

-----------------------------------------------------------------------------
(* chat *)

\* A cached answer is returned at once, and is the most recently accessed now.
ChatHits(t, k) ==
    /\ pc[t] = "idle" /\ calls < MaxCalls
    /\ Hit(k)
    /\ lru' = Touched(lru, k)
    /\ calls' = calls + 1
    /\ UNCHANGED <<host, expired, count, callVars, fileVars, second>>

\* The temperature is too high for the cache, the row is missing or old, or reading
\* it fails: the first model is asked.
ChatMisses(t, k, cold) ==
    /\ pc[t] = "idle" /\ calls < MaxCalls
    /\ Goto(t, "attempt")
    /\ key' = [key EXCEPT ![t] = k]
    /\ cacheable' = [cacheable EXCEPT ![t] = cold]
    /\ attempt' = [attempt EXCEPT ![t] = 1]
    /\ calls' = calls + 1
    /\ UNCHANGED <<host, cacheVars, fileVars, second>>

\* A model answers.
ModelAnswers(t) ==
    /\ pc[t] = "attempt"
    /\ Goto(t, "record")
    /\ UNCHANGED <<host, key, cacheable, attempt, cacheVars, fileVars, calls, second>>

\* It fails or times out: the next one is tried, unless this one has the name of the last.
ModelFails(t) ==
    LET chain == ChainOf[key[t]]
    IN /\ pc[t] = "attempt"
       /\ IF chain[attempt[t]] = Last(chain) THEN Return(t)
          ELSE attempt' = [attempt EXCEPT ![t] = @ + 1] /\ UNCHANGED <<pc, key, cacheable>>
       /\ UNCHANGED <<host, cacheVars, fileVars, calls, second>>

\* The answer has no choices: LLMError, before anything is recorded.
AnswerIsMalformed(t) ==
    /\ pc[t] = "record"
    /\ Return(t)
    /\ UNCHANGED <<host, cacheVars, fileVars, calls, second>>

\* _record_usage writes the file of this second, over one that is there.
RecordUsage(t) ==
    LET name == <<host[t], second>>
    IN /\ pc[t] = "record"
       /\ usage' = usage \union {name}
       /\ recorded' = [recorded EXCEPT ![name] = @ + 1]
       /\ AfterRecord(t)
       /\ UNCHANGED <<host, cacheVars, calls, second>>

\* The answer has no usage, or writing fails, which is not noticed.
RecordNothing(t) ==
    /\ pc[t] = "record"
    /\ AfterRecord(t)
    /\ UNCHANGED <<host, cacheVars, fileVars, calls, second>>

\* The answer is stored under the key of the request, whichever model gave it.
StoreAnswer(t) ==
    /\ pc[t] = "put"
    /\ CachePut(host[t], key[t])
    /\ Return(t)
    /\ UNCHANGED <<host, fileVars, calls, second>>

\* The lock of the table is not had in time.
StoreFails(t) ==
    /\ pc[t] = "put"
    /\ Return(t)
    /\ UNCHANGED <<host, cacheVars, fileVars, calls, second>>

\* An agent's process ends, or is killed in the middle of calls, and another one is started.
ProcessEnds(p) ==
    /\ count' = [count EXCEPT ![p] = Unknown]
    /\ LET mine == {t \in Threads : host[t] = p}
       IN /\ pc' = [t \in Threads |-> IF t \in mine THEN "idle" ELSE pc[t]]
          /\ key' = [t \in Threads |-> IF t \in mine THEN NoKey ELSE key[t]]
          /\ cacheable' = [t \in Threads |-> t \notin mine /\ cacheable[t]]
          /\ attempt' = [t \in Threads |-> IF t \in mine THEN 1 ELSE attempt[t]]
    /\ UNCHANGED <<host, lru, expired, fileVars, calls, second>>

Tick ==
    /\ second < MaxSecond
    /\ second' = second + 1
    /\ UNCHANGED <<host, callVars, cacheVars, fileVars, calls>>

Chat(t) ==
    \/ \E k \in Keys : ChatHits(t, k) \/ \E cold \in BOOLEAN : ChatMisses(t, k, cold)
    \/ ModelAnswers(t) \/ ModelFails(t) \/ AnswerIsMalformed(t)
    \/ RecordUsage(t) \/ RecordNothing(t)
    \/ StoreAnswer(t) \/ StoreFails(t)

ClientNext ==
    \/ \E t \in Threads : Chat(t)
    \/ ClearCache
    \/ \E k \in Keys : ExpireRow(k)
    \/ \E p \in Processes : ProcessEnds(p)
    \/ Tick

ClientSpec == ClientInit /\ [][ClientNext]_clientVars

-----------------------------------------------------------------------------
(* Properties *)

\* The table of answers stays within the limit of one process, and within the limits of all
\* of them together: each counts for itself, from when on it likes, and forgets with its end.
CacheBounded == Len(lru) <= Cardinality(Processes) * (MaxEntries - 1) + 1

=============================================================================
