---------------------------- MODULE ConfigStore ----------------------------
(***************************************************************************)
(* One settings file of the dashboard (backend/config_service.py) under    *)
(* the threads that serve requests: it is read through a cache that goes   *)
(* by the file's modification time, changed in memory, written to a        *)
(* temporary file and renamed.  Two saves use the same temporary file, so  *)
(* files are inodes here, and a thread writes to the inode it has opened.  *)
(*                                                                         *)
(* What the parser returned for a file is kept by the cache and handed     *)
(* out.  Budget, gates and schedule are merged into a new object first;    *)
(* styles and sources are objects within objects, which the merge does not *)
(* copy: there an update changes what the cache holds.                     *)
(***************************************************************************)
EXTENDS Integers, FiniteSets

CONSTANTS
    Requests,           \* threads, each serving one request
    Keys,               \* the settings in the file
    Corrupt,            \* content that is no JSON
    Missing,            \* a file or an entry that is not there
    Defaults,           \* the value of every setting without a file, and at first
    MaxFaults           \* bound: failed writes and restarts

First == "first"                                \* the inode there is at first
Inodes == Requests \union {First}
Values == Requests \union {Defaults}            \* a value is named by its update
Settings == [Keys -> Values]
Objects == Requests \X {"parsed", "own"}

ASSUME ConfigAssumption ==
    /\ MaxFaults \in Nat
    /\ Requests \cap {Corrupt, Missing, Defaults, First} = {}
    /\ Missing \notin Keys /\ Corrupt \notin Settings

VARIABLES
    nested,             \* whether the settings are objects within objects
    inode,              \* each inode: what it contains, and its modification time
    file, tmp,          \* the inodes the two names stand for
    time,               \* how often an inode was written
    object,             \* the objects in memory
    cache,              \* the parsed file: its modification time then, and the object
    summary,            \* the summary of all settings that is answered for 30 seconds
    at,                 \* where each thread is
    key,                \* the setting an update is for; Missing: a summary is asked for
    ref,                \* the object it works on
    seen,               \* the modification time it has read
    handle,             \* the inode it writes to
    acked,              \* history: the value of the last acknowledged update
    tried,              \* history: values of the updates that were not, and not replaced
    overlapped,         \* history: two updates ran at once
    faults

storeVars == <<inode, file, tmp, time>>
memoryVars == <<object, cache, summary>>
threadVars == <<at, key, ref, seen, handle>>
historyVars == <<acked, tried, overlapped, faults>>
configVars == <<nested, storeVars, memoryVars, threadVars, historyVars>>

Started == [k \in Keys |-> Defaults]

ConfigTypeOK ==
    /\ nested \in BOOLEAN
    /\ inode \in [Inodes -> [content : Settings \union {Corrupt}, mtime : 0 .. time]]
    /\ file \in Inodes /\ tmp \in Inodes \union {Missing}
    /\ time \in Nat
    /\ object \in [Objects -> Settings]
    /\ cache = Missing \/ (cache.mtime \in 0 .. time /\ cache.object \in Objects)
    /\ summary \in Settings \union {Missing}
    /\ at \in [Requests -> {"idle", "load", "read", "apply", "open", "write", "rename",
                            "invalidate", "summarise", "done"}]
    /\ key \in [Requests -> Keys \union {Missing}]
    /\ ref \in [Requests -> Objects]
    /\ seen \in [Requests -> 0 .. time]
    /\ handle \in [Requests -> Inodes]
    /\ acked \in [Keys -> Values] /\ tried \in [Keys -> SUBSET Requests]
    /\ overlapped \in BOOLEAN /\ faults \in 0 .. MaxFaults

ConfigInit ==
    /\ nested \in BOOLEAN
    /\ inode = [i \in Inodes |-> [content |-> Started, mtime |-> 0]]
    /\ file = First /\ tmp = Missing /\ time = 0
    /\ object = [o \in Objects |-> Started]
    /\ cache = Missing /\ summary = Missing
    /\ at = [r \in Requests |-> "idle"]
    /\ key = [r \in Requests |-> Missing]
    /\ ref = [r \in Requests |-> <<r, "own">>]
    /\ seen = [r \in Requests |-> 0]
    /\ handle = [r \in Requests |-> First]
    /\ acked = Started
    /\ tried = [k \in Keys |-> {}]
    /\ overlapped = FALSE /\ faults = 0

Goes(r, where) == at' = [at EXCEPT ![r] = where]
Updating(r) == key[r] # Missing /\ at[r] \notin {"idle", "done"}

\* A thread that is through lets go of what it held; objects nobody else holds are gone.
Ends(r) ==
    /\ at' = [at EXCEPT ![r] = "done"]
    /\ key' = [key EXCEPT ![r] = Missing]
    /\ ref' = [ref EXCEPT ![r] = <<r, "own">>]
    /\ seen' = [seen EXCEPT ![r] = 0]
    /\ handle' = [handle EXCEPT ![r] = First]
    /\ LET held == {ref[q] : q \in Requests \ {r}} \union
                   (IF cache = Missing THEN {} ELSE {cache.object})
       IN object' = [o \in Objects |-> IF o \in held THEN object[o] ELSE Started]

-----------------------------------------------------------------------------
(* Reading *)

\* An update of setting k is asked for.
AskUpdate(r, k) ==
    /\ at[r] = "idle"
    /\ Goes(r, "load")
    /\ key' = [key EXCEPT ![r] = k]
    /\ tried' = [tried EXCEPT ![k] = @ \union {r}]
    /\ overlapped' = (overlapped \/ \E q \in Requests : Updating(q))
    /\ UNCHANGED <<nested, storeVars, memoryVars, ref, seen, handle, acked, faults>>

\* The summary is asked for; a cached one is the answer.
AskSummary(r) ==
    /\ at[r] = "idle"
    /\ Goes(r, IF summary = Missing THEN "load" ELSE "done")
    /\ UNCHANGED <<nested, storeVars, memoryVars, key, ref, seen, handle, historyVars>>

Loaded(r) == IF key[r] = Missing THEN "summarise" ELSE "apply"

\* Mutant of HandOut: nothing is merged into a new object.
HandOutCached(r, o, objects) == object' = objects /\ ref' = [ref EXCEPT ![r] = o]

\* What a thread works on that is handed the object o.
HandOut(r, o, objects) ==
    IF nested THEN object' = objects /\ ref' = [ref EXCEPT ![r] = o]
    ELSE /\ object' = [objects EXCEPT ![<<r, "own">>] = objects[o]]
         /\ ref' = [ref EXCEPT ![r] = <<r, "own">>]

\* Mutant of Fresh: the modification time is not looked at.
FreshAlways == cache # Missing

Fresh == cache # Missing /\ cache.mtime = inode[file].mtime

\* load_config_from_file: the modification time decides whether the cache is used.
Load(r) ==
    /\ at[r] = "load"
    /\ IF Fresh
       THEN Goes(r, Loaded(r)) /\ HandOut(r, cache.object, object) /\ UNCHANGED seen
       ELSE Goes(r, "read") /\ seen' = [seen EXCEPT ![r] = inode[file].mtime]
                            /\ UNCHANGED <<object, ref>>
    /\ UNCHANGED <<nested, storeVars, cache, summary, key, handle, historyVars>>

\* The file is read later, and kept under the modification time from before.  When it
\* does not parse, the defaults are handed out.
Read(r) ==
    /\ at[r] = "read"
    /\ Goes(r, Loaded(r))
    /\ LET content == inode[file].content
           o == <<r, "parsed">>
       IN IF content = Corrupt
          THEN /\ object' = [object EXCEPT ![<<r, "own">>] = Started]
               /\ ref' = [ref EXCEPT ![r] = <<r, "own">>]
               /\ UNCHANGED cache
          ELSE /\ HandOut(r, o, [object EXCEPT ![o] = content])
               /\ cache' = [mtime |-> seen[r], object |-> o]
    /\ UNCHANGED <<nested, storeVars, summary, key, seen, handle, historyVars>>

\* The summary that was put together is stored, whatever was saved meanwhile.
StoreSummary(r) ==
    /\ at[r] = "summarise"
    /\ summary' = object[ref[r]]
    /\ Ends(r)
    /\ UNCHANGED <<nested, storeVars, cache, historyVars>>

SummaryExpires ==
    /\ summary # Missing
    /\ summary' = Missing
    /\ UNCHANGED <<nested, storeVars, object, cache, threadVars, historyVars>>

-----------------------------------------------------------------------------
(* Saving *)

\* The update is put into the object in memory.
Apply(r) ==
    /\ at[r] = "apply"
    /\ object' = [object EXCEPT ![ref[r]][key[r]] = r]
    /\ Goes(r, "open")
    /\ UNCHANGED <<nested, storeVars, cache, summary, key, ref, seen, handle, historyVars>>

Written(i, content) ==
    /\ inode' = [inode EXCEPT ![i] = [content |-> content, mtime |-> time + 1]]
    /\ time' = time + 1

\* The temporary file is opened, and emptied if it is there.
Open(r) ==
    /\ at[r] = "open"
    /\ LET i == IF tmp = Missing THEN r ELSE tmp
       IN tmp' = i /\ handle' = [handle EXCEPT ![r] = i] /\ Written(i, Corrupt)
    /\ Goes(r, "write")
    /\ UNCHANGED <<nested, file, memoryVars, key, ref, seen, historyVars>>

\* The settings are written from the beginning.  Where another save has written since,
\* the end of its text may be left.
Write(r) ==
    /\ at[r] = "write"
    /\ LET i == handle[r]
       IN \E content \in {object[ref[r]]} \union (IF inode[i].content = Corrupt THEN {} ELSE {Corrupt}) :
              Written(i, content)
    /\ Goes(r, "rename")
    /\ UNCHANGED <<nested, file, tmp, memoryVars, key, ref, seen, handle, historyVars>>

\* The temporary file gets the name of the settings; it fails when another save has
\* renamed it already.
Rename(r) ==
    /\ at[r] = "rename"
    /\ IF tmp = Missing
       THEN Ends(r) /\ UNCHANGED <<file, tmp>>
       ELSE /\ Goes(r, "invalidate") /\ file' = tmp /\ tmp' = Missing
            /\ UNCHANGED <<object, key, ref, seen, handle>>
    /\ UNCHANGED <<nested, inode, time, cache, summary, historyVars>>

\* A save fails otherwise: the temporary file is removed, whoever is writing it.
SaveFails(r) ==
    /\ at[r] \in {"open", "write", "rename"} /\ faults < MaxFaults
    /\ tmp' = Missing
    /\ Ends(r)
    /\ faults' = faults + 1
    /\ UNCHANGED <<nested, inode, file, time, cache, summary, acked, tried, overlapped>>

\* The summary is dropped and the update acknowledged.
Invalidate(r) ==
    /\ at[r] = "invalidate"
    /\ summary' = Missing
    /\ Ends(r)
    /\ acked' = [acked EXCEPT ![key[r]] = r]
    /\ tried' = [tried EXCEPT ![key[r]] = IF overlapped THEN @ \ {r} ELSE {}]
    /\ UNCHANGED <<nested, storeVars, cache, overlapped, faults>>

\* The dashboard is restarted; a temporary file stays.
LoseMemory ==
    /\ faults < MaxFaults
    /\ faults' = faults + 1
    /\ cache' = Missing /\ summary' = Missing
    /\ object' = [o \in Objects |-> Started]
    /\ at' = [r \in Requests |-> IF at[r] = "idle" THEN "idle" ELSE "done"]
    /\ key' = [r \in Requests |-> Missing]
    /\ ref' = [r \in Requests |-> <<r, "own">>]
    /\ seen' = [r \in Requests |-> 0]
    /\ handle' = [r \in Requests |-> First]
    /\ UNCHANGED <<nested, storeVars, acked, tried, overlapped>>

ConfigStep ==
    \/ SummaryExpires
    \/ \E r \in Requests :
           \/ Load(r) \/ Read(r) \/ StoreSummary(r)
           \/ Apply(r) \/ Open(r) \/ Write(r) \/ Rename(r) \/ SaveFails(r) \/ Invalidate(r)

-----------------------------------------------------------------------------
(* Properties *)

\* When updates do not overlap, the file is whole and every setting has the value of the
\* last acknowledged update (update_*), or of one not acknowledged since: one whose answer
\* was lost in a restart, or whose save failed and left its value in the cache.
UpdatesAloneAreKept ==
    ~overlapped =>
        /\ inode[file].content # Corrupt
        /\ \A k \in Keys : inode[file].content[k] \in {acked[k]} \union tried[k]

\* What the cache hands out for a file differs from it by updates in place only, that is,
\* where settings are nested and by values that were not acknowledged
\* (load_config_from_file), even when updates overlap.
CacheDiffersByUnsaved ==
    Fresh /\ inode[file].content # Corrupt =>
        \A k \in Keys :
            \/ object[cache.object][k] = inode[file].content[k]
            \/ nested /\ object[cache.object][k] \in tried[k]

=============================================================================
