-------------------------- MODULE PromptStore_proofs --------------------------
(* Theorems about PromptStore, for every value of its constants. *)
EXTENDS PromptStore, TLAPS

-----------------------------------------------------------------------------
(* The inductive invariant *)

Writing == {"invalidate", "commit"}

\* The write lock is held by the call whose transaction is open, and by no other.
LockInv == \A c \in Clients : pc[c] \in Writing <=> lock = c

\* A call that is about to write knows what and where.
CallInv ==
    \A c \in Clients :
        pc[c] \in Writing \union {"write"} =>
            /\ op[c] \in {"save", "activate", "delete"}
            /\ arg[c] \in Versions
            /\ op[c] = "save" => text[c] # NoText

\* A read knows its key.
ReadInv == \A c \in Clients : pc[c] \in {"query", "fill"} => arg[c] \in Keys

\* What an open transaction makes of what is committed, its version being v and its
\* text t: new rows R and new active versions A.
Made(o, v, t, R, A) ==
    /\ o = "save" => /\ rows[v] = NoText
                     /\ R = [rows EXCEPT ![v] = t]
                     /\ A = {v}
    /\ o = "delete" => R = [rows EXCEPT ![v] = NoText] /\ A = active \ {v}
    /\ o = "activate" => R = rows /\ A = {v} \intersect Existing

\* What is committed is still what the open transaction began with: this relates the
\* check of a call, its write and its commit.
StagedInv ==
    \A c \in Clients :
        pc[c] \in Writing =>
            /\ \A v, w \in stagedActive : v = w
            /\ \A v \in stagedActive : stagedRows[v] # NoText
            /\ Made(op[c], arg[c], text[c], stagedRows, stagedActive)

\* The histories of races have their types, which is all the invariant says of them.
RacesTyped == overtaken \subseteq Clients /\ raced \subseteq Keys /\ contested \in BOOLEAN

IInv == TypeOK /\ OneActive /\ LockInv /\ CallInv /\ ReadInv /\ StagedInv /\ SavedIsKept

-----------------------------------------------------------------------------

\* SELECT finds a text or nothing: with one active version, "the newest active
\* one" is well defined.
LEMMA LookupTyped ==
    ASSUME TypeOK, OneActive, NEW k \in Keys
    PROVE  Lookup(k) \in MaybeText
<1>1. CASE k # Latest
  BY <1>1 DEF Lookup, TypeOK, Keys, Contents
<1>2. CASE k = Latest /\ active = {}
  BY <1>2 DEF Lookup, MaybeText
<1>3. CASE k = Latest /\ active # {}
  <2>1. PICK v \in active : TRUE
    BY <1>3
  <2>2. active \intersect Existing = {v} /\ v \in Versions
    BY <2>1 DEF OneActive, TypeOK
  <2>3. v <= v
    BY <2>2, MaxSavesAssumption DEF Versions
  <2>4. (CHOOSE w \in {v} : \A u \in {v} : u <= w) = v
    BY <2>3
  <2>5. Lookup(k) = rows[v]
    BY <1>3, <2>2, <2>4 DEF Lookup
  <2>6. QED
    BY <2>2, <2>5 DEF TypeOK, Contents
<1>4. QED
  BY <1>1, <1>2, <1>3

LEMMA InitInv == Init => IInv
<1> SUFFICES ASSUME Init
             PROVE  IInv
  OBVIOUS
<1> USE DEF Init
<1>1. TypeOK
  <2>1. rows \in Contents /\ stagedRows \in Contents /\ saved \subseteq Versions \X Texts
    BY DEF Contents, MaybeText
  <2>2. saves \in 0 .. MaxSaves
    BY MaxSavesAssumption
  <2>3. cache \in [Keys -> MaybeText \union {NotCached}] /\ text \in [Clients -> MaybeText]
    BY DEF MaybeText
  <2>4. QED
    BY <2>1, <2>2, <2>3 DEF TypeOK
<1>2. OneActive /\ SavedIsKept
  BY DEF OneActive, SavedIsKept
<1>3. LockInv
  BY NobodyAssumption DEF LockInv, Writing
<1>4. CallInv /\ ReadInv /\ StagedInv
  BY DEF CallInv, ReadInv, StagedInv, Writing
<1>5. QED
  BY <1>1, <1>2, <1>3, <1>4 DEF IInv

-----------------------------------------------------------------------------
(* The steps.  First those that open a call: they touch no row and no lock.  *)

LEMMA BeginKeeps ==
    ASSUME IInv, NEW c \in Clients, pc[c] \in {"idle", "import"},
           NEW o \in {"none", "save", "activate", "delete", "get"},
           NEW k \in Keys \union {0}, NEW t \in MaybeText,
           NEW at \in {"import", "write", "query"},
           at = "write" => o \in {"save", "activate", "delete"} /\ k \in Versions,
           at = "write" /\ o = "save" => t # NoText,
           at = "query" => k \in Keys,
           saves' \in 0 .. MaxSaves,
           Begin(c, o, k, t, at)
    PROVE  IInv'
<1> USE DEF Begin, IInv, dbVars, txVars
<1>1. TypeOK'
  BY DEF TypeOK
<1>2. OneActive' /\ SavedIsKept'
  BY DEF OneActive, Existing, SavedIsKept
<1>3. /\ pc'[c] = at /\ op'[c] = o /\ arg'[c] = k /\ text'[c] = t
      /\ \A d \in Clients \ {c} : /\ pc'[d] = pc[d] /\ op'[d] = op[d]
                                  /\ arg'[d] = arg[d] /\ text'[d] = text[d]
  BY DEF TypeOK
<1>4. LockInv'
  BY <1>3 DEF LockInv, Writing
<1>5. CallInv' /\ ReadInv'
  BY <1>3 DEF CallInv, ReadInv, Writing
<1>6. StagedInv'
  BY <1>3 DEF StagedInv, Made, Existing, Writing
<1>7. QED
  BY <1>1, <1>2, <1>4, <1>5, <1>6

\* A step that moves one thread, holds no lock after it and leaves the database as
\* it is; the cache may change.
LEMMA LeaveKeeps ==
    ASSUME IInv, NEW c \in Clients, NEW at \in {"idle", "fill"},
           at = "fill" => arg[c] \in Keys,
           pc[c] \notin Writing \/ lock' = Nobody,
           lock' = IF lock = c THEN Nobody ELSE lock,
           pc' = [pc EXCEPT ![c] = at],
           text' \in [Clients -> MaybeText],
           \A d \in Clients \ {c} : text'[d] = text[d],
           cache' \in [Keys -> MaybeText \union {NotCached}],
           RacesTyped',
           UNCHANGED <<dbVars, stagedRows, stagedActive, op, arg, saves, saved>>
    PROVE  IInv'
<1> USE DEF IInv, dbVars
<1>1. TypeOK'
  BY DEF TypeOK, RacesTyped
<1>2. OneActive' /\ SavedIsKept'
  BY DEF OneActive, Existing, SavedIsKept
<1>3. pc'[c] = at /\ \A d \in Clients \ {c} : pc'[d] = pc[d]
  BY DEF TypeOK
<1>4. LockInv'
  BY <1>3, NobodyAssumption DEF LockInv, Writing
<1>5. CallInv' /\ ReadInv'
  BY <1>3 DEF CallInv, ReadInv, Writing
<1>6. StagedInv'
  BY <1>3 DEF StagedInv, Made, Existing, Writing
<1>7. QED
  BY <1>1, <1>2, <1>4, <1>5, <1>6

\* The cache alone changes, or nothing does.
LEMMA CacheKeeps ==
    ASSUME IInv, cache' \in [Keys -> MaybeText \union {NotCached}],
           RacesTyped',
           UNCHANGED <<dbVars, txVars, callVars, saves, saved>>
    PROVE  IInv'
<1> USE DEF IInv, dbVars, txVars, callVars
<1>1. TypeOK'
  BY DEF TypeOK, RacesTyped
<1>2. OneActive' /\ SavedIsKept'
  BY DEF OneActive, Existing, SavedIsKept
<1>3. LockInv' /\ CallInv' /\ ReadInv' /\ StagedInv'
  BY DEF LockInv, CallInv, ReadInv, StagedInv, Made, Existing
<1>4. QED
  BY <1>1, <1>2, <1>3

\* The statement that opens a transaction.
LEMMA StageKeeps ==
    ASSUME IInv, NEW c \in Clients, pc[c] = "write",
           NEW R \in Contents, NEW A \in SUBSET Versions,
           \A v, w \in A : v = w,
           \A v \in A : R[v] # NoText,
           Made(op[c], arg[c], text[c], R, A),
           Stage(c, R, A)
    PROVE  IInv'
<1> USE DEF IInv, Stage, dbVars, raceVars
<1>1. TypeOK'
  BY DEF TypeOK
<1>2. OneActive' /\ SavedIsKept'
  BY DEF OneActive, Existing, SavedIsKept
<1>3. pc'[c] = "invalidate" /\ \A d \in Clients \ {c} : pc'[d] = pc[d]
  BY DEF TypeOK
<1>4. \A d \in Clients \ {c} : pc[d] \notin Writing
  BY NobodyAssumption DEF LockInv
<1>5. LockInv'
  BY <1>3, <1>4 DEF LockInv, Writing
<1>6. CallInv' /\ ReadInv'
  BY <1>3 DEF CallInv, ReadInv, Writing
<1>7. StagedInv'
  BY <1>3, <1>4 DEF StagedInv, Made, Existing, Writing
<1>8. QED
  BY <1>1, <1>2, <1>5, <1>6, <1>7

LEMMA CommitKeeps ==
    ASSUME IInv, NEW c \in Clients, Commit(c)
    PROVE  IInv'
<1> USE DEF IInv, Commit
<1>1. /\ pc[c] = "commit" /\ pc[c] \in Writing /\ lock = c
      /\ op[c] \in {"save", "activate", "delete"} /\ arg[c] \in Versions
  BY DEF LockInv, CallInv, Writing
<1>2. pc'[c] = "idle" /\ \A d \in Clients \ {c} : pc'[d] = pc[d] /\ pc[d] \notin Writing
  BY <1>1 DEF TypeOK, LockInv
<1>3. saved' \subseteq Versions \X Texts
  BY <1>1 DEF TypeOK, CallInv, MaybeText, Writing
<1>4. TypeOK'
  BY <1>1, <1>3 DEF TypeOK
<1>5. OneActive'
  BY <1>1 DEF OneActive, Existing, StagedInv, TypeOK
<1>6. SavedIsKept'
  <2> SUFFICES ASSUME NEW s \in saved'
               PROVE  stagedRows[s[1]] = s[2]
    BY DEF SavedIsKept
  <2>1. ASSUME s \in saved
        PROVE  s[1] \in Versions /\ s[2] # NoText /\ rows[s[1]] = s[2]
    BY <2>1, MarkersAssumption DEF TypeOK, SavedIsKept
  <2>2. CASE op[c] = "save"
    <3>1. rows \in Contents /\ rows[arg[c]] = NoText
      BY <1>1, <2>2 DEF StagedInv, Made, Made, TypeOK
    <3>2. stagedRows = [rows EXCEPT ![arg[c]] = text[c]]
      BY <1>1, <2>2 DEF StagedInv, Made
    <3>3. s \in saved \/ s = <<arg[c], text[c]>>
      BY <2>2
    <3>4. CASE s \in saved
      BY <2>1, <3>1, <3>2, <3>4 DEF Contents
    <3>5. CASE s = <<arg[c], text[c]>>
      BY <1>1, <3>1, <3>2, <3>5 DEF Contents
    <3>6. QED
      BY <3>3, <3>4, <3>5
  <2>3. CASE op[c] = "delete"
    <3>1. rows \in Contents /\ stagedRows = [rows EXCEPT ![arg[c]] = NoText]
      BY <1>1, <2>3 DEF StagedInv, Made, TypeOK
    <3>2. s \in saved /\ s[1] # arg[c]
      BY <2>3
    <3>3. QED
      BY <2>1, <3>1, <3>2 DEF Contents
  <2>4. CASE op[c] = "activate"
    BY <1>1, <2>1, <2>4 DEF StagedInv, Made
  <2>5. QED
    BY <1>1, <2>2, <2>3, <2>4
<1>7. LockInv'
  BY <1>2, NobodyAssumption DEF LockInv, Writing
<1>8. CallInv' /\ ReadInv'
  BY <1>2 DEF CallInv, ReadInv, Writing
<1>9. StagedInv'
  BY <1>2 DEF StagedInv, Made, Existing, Writing
<1>10. QED
  BY <1>4, <1>5, <1>6, <1>7, <1>8, <1>9

-----------------------------------------------------------------------------

LEMMA NextInv == IInv /\ [Next]_vars => IInv'
<1> SUFFICES ASSUME IInv, [Next]_vars
             PROVE  IInv'
  OBVIOUS
<1>a. /\ TypeOK /\ OneActive /\ SavedIsKept
      /\ saves \in Nat /\ saves <= MaxSaves /\ MaxSaves \in Nat
  BY MaxSavesAssumption DEF IInv, TypeOK
<1>b. /\ NoText \in MaybeText /\ Versions \subseteq Keys /\ Latest \in Keys
      /\ 0 \in Keys \union {0}
  BY DEF MaybeText, Keys
<1>1. ASSUME NEW c \in Clients, ImportCheck(c)
      PROVE  IInv'
  BY <1>1, <1>a, <1>b, BeginKeeps DEF ImportCheck, TypeOK
<1>2. ASSUME NEW c \in Clients, SaveCheck(c)
      PROVE  IInv'
  <2>1. PICK v \in Versions : Begin(c, "save", v, saves + 1, "write")
    BY <1>2 DEF SaveCheck
  <2>2. saves' \in 0 .. MaxSaves /\ saves + 1 \in MaybeText /\ saves + 1 # NoText
    BY <1>2, <1>a, MarkersAssumption DEF SaveCheck, MaybeText, Texts
  <2>3. pc[c] \in {"idle", "import"}
    BY <1>2 DEF SaveCheck
  <2>4. QED
    BY <2>1, <2>2, <2>3, <1>b, BeginKeeps
<1>3. ASSUME NEW c \in Clients, NEW v \in Versions, ActivateCheck(c, v)
      PROVE  IInv'
  BY <1>3, <1>a, <1>b, BeginKeeps DEF ActivateCheck, TypeOK
<1>4. ASSUME NEW c \in Clients, NEW v \in Versions, DeleteCheck(c, v)
      PROVE  IInv'
  BY <1>4, <1>a, <1>b, BeginKeeps DEF DeleteCheck, TypeOK
<1>5. ASSUME NEW c \in Clients, WriteSave(c)
      PROVE  IInv'
  <2>1. arg[c] \in Versions /\ pc[c] = "write" /\ op[c] = "save" /\ text[c] # NoText
    BY <1>5 DEF WriteSave, IInv, CallInv
  <2> DEFINE R == [rows EXCEPT ![arg[c]] = text[c]]
  <2>2. R \in Contents /\ R[arg[c]] # NoText /\ {arg[c]} \in SUBSET Versions
    BY <2>1, <1>a DEF TypeOK, Contents
  <2>3. Stage(c, R, {arg[c]}) /\ Made(op[c], arg[c], text[c], R, {arg[c]})
    BY <1>5, <2>1 DEF WriteSave, Made
  <2> HIDE DEF R
  <2>4. QED
    BY <2>1, <2>2, <2>3, StageKeeps
<1>6. ASSUME NEW c \in Clients, SaveClash(c)
      PROVE  IInv'
  BY <1>6, <1>a, LeaveKeeps DEF SaveClash, TypeOK, RacesTyped, txVars, Writing
<1>7. ASSUME NEW c \in Clients, WriteActivate(c)
      PROVE  IInv'
  <2>1. arg[c] \in Versions /\ pc[c] = "write" /\ op[c] = "activate" /\ rows \in Contents
    BY <1>7, <1>a DEF WriteActivate, IInv, CallInv, TypeOK
  <2> DEFINE A == {arg[c]} \intersect Existing
  <2>2. /\ A \in SUBSET Versions
        /\ \A v, w \in A : v = w
        /\ \A v \in A : rows[v] # NoText
    BY <2>1 DEF Existing
  <2>3. Stage(c, rows, A) /\ Made(op[c], arg[c], text[c], rows, A)
    BY <1>7, <2>1 DEF WriteActivate, Made
  <2> HIDE DEF A
  <2>4. QED
    BY <2>1, <2>2, <2>3, StageKeeps
<1>8. ASSUME NEW c \in Clients, WriteDelete(c)
      PROVE  IInv'
  <2>1. arg[c] \in Versions /\ pc[c] = "write" /\ op[c] = "delete"
    BY <1>8 DEF WriteDelete, IInv, CallInv
  <2> DEFINE R == [rows EXCEPT ![arg[c]] = NoText]
             A == active \ {arg[c]}
  <2>2. /\ R \in Contents
        /\ A \in SUBSET Versions
        /\ \A v, w \in A : v = w
        /\ \A v \in A : R[v] # NoText
    BY <2>1, <1>a, <1>b DEF TypeOK, Contents, OneActive, Existing
  <2>3. Stage(c, R, A) /\ Made(op[c], arg[c], text[c], R, A)
    BY <1>8, <2>1 DEF WriteDelete, Made
  <2> HIDE DEF R, A
  <2>4. QED
    BY <2>1, <2>2, <2>3, StageKeeps
<1>9. ASSUME NEW c \in Clients, Invalidate(c)
      PROVE  IInv'
  <2>1. /\ pc[c] = "invalidate" /\ pc'[c] = "commit"
        /\ \A d \in Clients \ {c} : pc'[d] = pc[d]
    BY <1>9, <1>a DEF Invalidate, TypeOK
  <2>2. UNCHANGED <<dbVars, txVars, op, arg, text, saves, saved, overtaken, contested>>
    BY <1>9 DEF Invalidate
  <2>3. TypeOK'
    BY <1>9, <2>2, <1>a DEF Invalidate, TypeOK, dbVars, txVars
  <2>4. OneActive' /\ SavedIsKept'
    BY <2>2, <1>a DEF OneActive, Existing, SavedIsKept, dbVars
  <2>5. LockInv'
    BY <2>1, <2>2 DEF IInv, LockInv, Writing, txVars
  <2>6. CallInv' /\ ReadInv'
    BY <2>1, <2>2 DEF IInv, CallInv, ReadInv, Writing
  <2>7. StagedInv'
    BY <2>1, <2>2 DEF IInv, StagedInv, Made, Existing, Writing, dbVars, txVars
  <2>8. QED
    BY <2>3, <2>4, <2>5, <2>6, <2>7 DEF IInv
<1>10. ASSUME NEW c \in Clients, Rollback(c)
       PROVE  IInv'
  <2>1. pc[c] \notin Writing \/ lock = c
    BY DEF IInv, LockInv
  <2>2. QED
    BY <1>10, <2>1, <1>a, LeaveKeeps DEF Rollback, TypeOK, RacesTyped
<1>11. ASSUME NEW c \in Clients, NEW k \in Keys, GetMisses(c, k)
       PROVE  IInv'
  BY <1>11, <1>a, <1>b, BeginKeeps DEF GetMisses, TypeOK
<1>12. ASSUME NEW c \in Clients, GetQuery(c)
       PROVE  IInv'
  <2>1. arg[c] \in Keys /\ pc[c] \notin Writing /\ lock # c
    BY <1>12 DEF GetQuery, IInv, ReadInv, LockInv, Writing
  <2>2. Lookup(arg[c]) \in MaybeText
    BY <2>1, <1>a, LookupTyped
  <2>3. /\ text' \in [Clients -> MaybeText]
        /\ \A d \in Clients \ {c} : text'[d] = text[d]
    BY <1>12, <2>2, <1>a DEF GetQuery, TypeOK
  <2>4. QED
    BY <1>12, <2>1, <2>3, <1>a, LeaveKeeps DEF GetQuery, TypeOK, RacesTyped, txVars, raceVars
<1>13. ASSUME NEW c \in Clients, GetFill(c)
       PROVE  IInv'
  <2>1. arg[c] \in Keys /\ pc[c] \notin Writing /\ lock # c
    BY <1>13 DEF GetFill, IInv, ReadInv, LockInv, Writing
  <2>2. cache' \in [Keys -> MaybeText \union {NotCached}]
    BY <1>13, <2>1, <1>a DEF GetFill, TypeOK
  <2>3. RacesTyped'
    BY <1>13, <2>1, <1>a DEF GetFill, RacesTyped, TypeOK
  <2>4. QED
    BY <1>13, <2>1, <2>2, <2>3, <1>a, LeaveKeeps DEF GetFill, TypeOK, txVars
<1>14. ASSUME NEW k \in Keys, Expire(k)
       PROVE  IInv'
  <2>1. cache' \in [Keys -> MaybeText \union {NotCached}]
    BY <1>14, <1>a DEF Expire, TypeOK
  <2>2. RacesTyped'
    BY <1>14, <1>a DEF Expire, RacesTyped, TypeOK
  <2>3. QED
    BY <1>14, <2>1, <2>2, CacheKeeps DEF Expire
<1>15. CASE Restart
  <2>1. UNCHANGED <<dbVars, stagedRows, stagedActive, op, arg, text, saves, saved, contested>>
    BY <1>15 DEF Restart
  <2>2. TypeOK'
    BY <1>15, <2>1, <1>a DEF Restart, TypeOK, dbVars
  <2>3. OneActive' /\ SavedIsKept'
    BY <2>1, <1>a DEF OneActive, Existing, SavedIsKept, dbVars
  <2>4. LockInv' /\ CallInv' /\ ReadInv' /\ StagedInv'
    BY <1>15, NobodyAssumption DEF Restart, LockInv, CallInv, ReadInv, StagedInv, Writing
  <2>5. QED
    BY <2>2, <2>3, <2>4 DEF IInv
<1>16. CASE UNCHANGED vars
  BY <1>16, <1>a, CacheKeeps DEF vars, raceVars, TypeOK, RacesTyped
<1>17. QED
  BY <1>1, <1>2, <1>3, <1>4, <1>5, <1>6, <1>7, <1>8, <1>9, <1>10, <1>11, <1>12, <1>13, <1>14,
     <1>15, <1>16, CommitKeeps DEF Next, Write

-----------------------------------------------------------------------------

LEMMA Inductive == Spec => []IInv
<1>1. QED
  BY InitInv, NextInv, PTL DEF Spec

\* Every variable keeps its type, for any number of threads and of saves.
THEOREM PromptTypeCorrect == Spec => []TypeOK
<1>1. IInv => TypeOK
  BY DEF IInv
<1>2. QED
  BY <1>1, Inductive, PTL

\* save_prompt, activate_prompt and delete_prompt_version never leave two active
\* versions or an active one that does not exist, however they interleave.
THEOREM OneVersionActive == Spec => []OneActive
<1>1. IInv => OneActive
  BY DEF IInv
<1>2. QED
  BY <1>1, Inductive, PTL

\* A version whose save_prompt returned keeps its text until a delete of it returns:
\* no other save takes its number, no rollback undoes it.
THEOREM SavesAreKept == Spec => []SavedIsKept
<1>1. IInv => SavedIsKept
  BY DEF IInv
<1>2. QED
  BY <1>1, Inductive, PTL

-----------------------------------------------------------------------------
(* The refinement.  A call takes effect at its commit, the only step that      *)
(* changes what is committed or what callers were told.                        *)

LEMMA CommitRefines ==
    ASSUME IInv, NEW c \in Clients, Commit(c)
    PROVE  Promise!Next
<1>1. /\ op[c] \in {"save", "activate", "delete"} /\ arg[c] \in Versions
      /\ op[c] = "save" => text[c] \in Texts
      /\ Made(op[c], arg[c], text[c], stagedRows, stagedActive)
  BY DEF IInv, Commit, CallInv, StagedInv, TypeOK, MaybeText, Writing
<1>2. rows' = stagedRows /\ active' = stagedActive
  BY DEF Commit
<1>3. CASE op[c] = "save"
  <2>1. saved' = saved \union {<<arg[c], text[c]>>}
    BY <1>3 DEF Commit
  <2>2. Promise!Save(arg[c], text[c])
    BY <1>1, <1>2, <1>3, <2>1 DEF Made, Promise!Save
  <2>3. QED
    BY <1>1, <1>3, <2>2 DEF Promise!Next
<1>4. CASE op[c] = "activate"
  <2>1. saved' = saved
    BY <1>4 DEF Commit
  <2>2. active' = {w \in {arg[c]} : rows[w] # NoText} /\ rows' = rows
    BY <1>1, <1>2, <1>4 DEF Made, Existing
  <2>3. Promise!Activate(arg[c])
    BY <2>1, <2>2 DEF Promise!Activate
  <2>4. QED
    BY <1>1, <2>3 DEF Promise!Next
<1>5. CASE op[c] = "delete"
  <2>1. saved' = {s \in saved : s[1] # arg[c]}
    BY <1>5 DEF Commit
  <2>2. Promise!Delete(arg[c])
    BY <1>1, <1>2, <1>5, <2>1 DEF Made, Promise!Delete
  <2>3. QED
    BY <1>1, <2>2 DEF Promise!Next
<1>6. QED
  BY <1>1, <1>3, <1>4, <1>5

LEMMA InitRefines == Init => Promise!Init
BY DEF Init, Promise!Init

LEMMA NextRefines ==
    ASSUME IInv, [Next]_vars
    PROVE  [Promise!Next]_(Promise!vars)
<1> DEFINE Stutter == UNCHANGED <<rows, active, saved>>
<1>1. CASE \E c \in Clients : Commit(c)
  BY <1>1, CommitRefines
<1>2. ASSUME NEW c \in Clients,
             \/ ImportCheck(c) \/ SaveCheck(c)
             \/ \E v \in Versions : ActivateCheck(c, v) \/ DeleteCheck(c, v)
             \/ \E k \in Keys : GetMisses(c, k)
      PROVE  Stutter
  BY <1>2 DEF ImportCheck, SaveCheck, ActivateCheck, DeleteCheck, GetMisses, Begin, dbVars
<1>3. ASSUME NEW c \in Clients,
             \/ WriteSave(c) \/ SaveClash(c) \/ WriteActivate(c) \/ WriteDelete(c)
             \/ Invalidate(c) \/ Rollback(c) \/ GetQuery(c) \/ GetFill(c)
      PROVE  Stutter
  BY <1>3 DEF WriteSave, SaveClash, WriteActivate, WriteDelete, Stage, Invalidate, Rollback,
              GetQuery, GetFill, dbVars
<1>4. CASE Restart \/ \E k \in Keys : Expire(k)
  BY <1>4 DEF Restart, Expire, dbVars, Promise!vars
<1>5. CASE UNCHANGED vars
  BY <1>5 DEF vars, dbVars, Promise!vars
<1>6. QED
  BY <1>1, <1>2, <1>3, <1>4, <1>5 DEF Next, Write, Promise!vars

\* save_prompt, activate_prompt and delete_prompt_version are atomic: every behaviour
\* of interleaved, failing and interrupted calls is one of a store in which each
\* call that returns takes effect in one step and no other call has any.
THEOREM VersionsRefine == Spec => ImplementsVersionStore
BY InitRefines, NextRefines, Inductive, PTL DEF Spec, ImplementsVersionStore, Promise!Spec

-----------------------------------------------------------------------------
(* Calls that overlap: what a race can do to the cache *)

\* A read that no commit overtook holds what the database says.
FreshRead ==
    \A c \in Clients : pc[c] = "fill" /\ c \notin overtaken => text[c] = Lookup(arg[c])

\* From the clearing of the cache to the commit, what enters it is on record.
ClearedInv ==
    \A c \in Clients : pc[c] = "commit" => \A k \in Keys : cache[k] = NotCached \/ k \in raced

RacedInv == StaleWasRaced /\ FreshRead /\ ClearedInv

LEMMA LookupStays ==
    ASSUME UNCHANGED dbVars, NEW k
    PROVE  Lookup(k)' = Lookup(k)
BY DEF dbVars, Lookup, Existing

LEMMA RacedInit == Init => RacedInv
BY DEF Init, RacedInv, StaleWasRaced, FreshRead, ClearedInv

\* A step of one thread that leaves the database, the cache and what the others read alone,
\* and does not bring the thread to where the invariant speaks of it.
LEMMA RacedElsewhere ==
    ASSUME RacedInv, NEW c \in Clients,
           UNCHANGED <<dbVars, cache, raced>>,
           \A d \in Clients \ {c} : /\ pc'[d] = pc[d] /\ arg'[d] = arg[d] /\ text'[d] = text[d]
                                    /\ d \in overtaken => d \in overtaken',
           pc'[c] \notin {"fill", "commit"}
    PROVE  RacedInv'
<1>1. \A k : Lookup(k)' = Lookup(k)
  BY LookupStays
<1>2. StaleWasRaced'
  BY <1>1 DEF RacedInv, StaleWasRaced
<1>3. FreshRead'
  BY <1>1 DEF RacedInv, FreshRead
<1>4. ClearedInv'
  BY DEF RacedInv, ClearedInv
<1>5. QED
  BY <1>2, <1>3, <1>4 DEF RacedInv

LEMMA RacedNext == IInv /\ RacedInv /\ [Next]_vars => RacedInv'
<1> SUFFICES ASSUME IInv, RacedInv, [Next]_vars
             PROVE  RacedInv'
  OBVIOUS
<1>a. /\ TypeOK /\ LockInv /\ ReadInv
      /\ pc \in [Clients -> {"idle", "import", "write", "invalidate", "commit", "query", "fill"}]
      /\ op \in [Clients -> {"none", "save", "activate", "delete", "get"}]
      /\ arg \in [Clients -> Keys \union {0}] /\ text \in [Clients -> MaybeText]
      /\ cache \in [Keys -> MaybeText \union {NotCached}]
  BY DEF IInv, TypeOK
<1>1. ASSUME NEW c \in Clients, NEW o, NEW k, NEW t, NEW at \in {"import", "write", "query"},
             Begin(c, o, k, t, at)
      PROVE  RacedInv'
  <2>1. UNCHANGED <<dbVars, cache, raced>>
    BY <1>1 DEF Begin
  <2>2. /\ pc'[c] = at
        /\ \A d \in Clients \ {c} : /\ pc'[d] = pc[d] /\ arg'[d] = arg[d] /\ text'[d] = text[d]
                                    /\ d \in overtaken => d \in overtaken'
    BY <1>1, <1>a DEF Begin
  <2>3. QED
    BY <2>1, <2>2, RacedElsewhere
<1>2. ASSUME NEW c \in Clients, NEW R, NEW A, Stage(c, R, A)
      PROVE  RacedInv'
  <2>1. UNCHANGED <<dbVars, cache, raced>>
    BY <1>2 DEF Stage, raceVars
  <2>2. /\ pc'[c] = "invalidate"
        /\ \A d \in Clients \ {c} : /\ pc'[d] = pc[d] /\ arg'[d] = arg[d] /\ text'[d] = text[d]
                                    /\ d \in overtaken => d \in overtaken'
    BY <1>2, <1>a DEF Stage, raceVars
  <2>3. QED
    BY <2>1, <2>2, RacedElsewhere
<1>3. ASSUME NEW c \in Clients, SaveClash(c) \/ Rollback(c)
      PROVE  RacedInv'
  <2>1. UNCHANGED <<dbVars, cache, raced>>
    BY <1>3 DEF SaveClash, Rollback
  <2>2. /\ pc'[c] = "idle"
        /\ \A d \in Clients \ {c} : /\ pc'[d] = pc[d] /\ arg'[d] = arg[d] /\ text'[d] = text[d]
                                    /\ d \in overtaken => d \in overtaken'
    BY <1>3, <1>a DEF SaveClash, Rollback
  <2>3. QED
    BY <2>1, <2>2, RacedElsewhere
<1>4. ASSUME NEW c \in Clients, Invalidate(c)
      PROVE  RacedInv'
  <2>1. /\ \A k \in Keys : cache'[k] = NotCached
        /\ pc'[c] = "commit" /\ \A d \in Clients \ {c} : pc'[d] = pc[d]
        /\ UNCHANGED <<dbVars, arg, text, overtaken>>
    BY <1>4, <1>a DEF Invalidate
  <2>2. \A k : Lookup(k)' = Lookup(k)
    BY <2>1, LookupStays
  <2>3. FreshRead'
    BY <2>1, <2>2 DEF RacedInv, FreshRead
  <2>4. QED
    BY <2>1, <2>3 DEF RacedInv, StaleWasRaced, ClearedInv
<1>5. ASSUME NEW c \in Clients, Commit(c)
      PROVE  RacedInv'
  <2>1. /\ pc[c] = "commit" /\ pc'[c] = "idle" /\ UNCHANGED <<cache, raced>>
        /\ \A d \in Clients \ {c} : pc'[d] = pc[d]
        /\ \A d \in Clients : pc[d] = "fill" => d \in overtaken'
    BY <1>5, <1>a DEF Commit
  <2>2. \A k \in Keys : cache[k] = NotCached \/ k \in raced
    BY <2>1 DEF RacedInv, ClearedInv
  <2>3. \A d \in Clients \ {c} : pc[d] # "commit"
    BY <2>1, <1>a DEF LockInv, Writing
  <2>4. QED
    BY <2>1, <2>2, <2>3 DEF RacedInv, StaleWasRaced, FreshRead, ClearedInv
<1>6. ASSUME NEW c \in Clients, GetQuery(c)
      PROVE  RacedInv'
  <2>1. /\ pc'[c] = "fill" /\ text'[c] = Lookup(arg[c])
        /\ \A d \in Clients \ {c} : pc'[d] = pc[d] /\ text'[d] = text[d]
        /\ UNCHANGED <<dbVars, cache, arg, raced, overtaken>>
    BY <1>6, <1>a DEF GetQuery, raceVars
  <2>2. \A k : Lookup(k)' = Lookup(k)
    BY <2>1, LookupStays
  <2>3. QED
    BY <2>1, <2>2 DEF RacedInv, StaleWasRaced, FreshRead, ClearedInv
<1>7. ASSUME NEW c \in Clients, GetFill(c)
      PROVE  RacedInv'
  <2>1. /\ pc[c] = "fill" /\ pc'[c] = "idle" /\ arg[c] \in Keys
        /\ \A d \in Clients \ {c} : /\ pc'[d] = pc[d]
                                    /\ d \in overtaken => d \in overtaken'
        /\ cache' = [cache EXCEPT ![arg[c]] = text[c]]
        /\ UNCHANGED <<dbVars, arg, text>>
    BY <1>7, <1>a DEF GetFill, ReadInv
  <2>2. /\ c \in overtaken \/ (\E d \in Clients : pc[d] = "commit") => raced' = raced \union {arg[c]}
        /\ ~(c \in overtaken \/ \E d \in Clients : pc[d] = "commit") => raced' = raced \ {arg[c]}
    BY <1>7 DEF GetFill
  <2>3. \A k : Lookup(k)' = Lookup(k)
    BY <2>1, LookupStays
  <2>4. /\ cache'[arg[c]] = text[c]
        /\ \A k \in Keys \ {arg[c]} : cache'[k] = cache[k] /\ (k \in raced => k \in raced')
    BY <2>1, <2>2, <1>a
  <2>5. FreshRead'
    BY <2>1, <2>3 DEF RacedInv, FreshRead
  <2>6. arg[c] \in raced' \/ (text[c] = Lookup(arg[c]) /\ \A d \in Clients : pc[d] # "commit")
    BY <2>1, <2>2 DEF RacedInv, FreshRead
  <2>7. StaleWasRaced' /\ ClearedInv'
    BY <2>1, <2>3, <2>4, <2>6 DEF RacedInv, StaleWasRaced, ClearedInv
  <2>8. QED
    BY <2>5, <2>7 DEF RacedInv
<1>8. ASSUME NEW k \in Keys, Expire(k)
      PROVE  RacedInv'
  <2>1. /\ cache'[k] = NotCached
        /\ \A j \in Keys \ {k} : cache'[j] = cache[j] /\ (j \in raced => j \in raced')
        /\ UNCHANGED <<dbVars, pc, arg, text, overtaken>>
    BY <1>8, <1>a DEF Expire, callVars
  <2>2. \A j : Lookup(j)' = Lookup(j)
    BY <2>1, LookupStays
  <2>3. QED
    BY <2>1, <2>2 DEF RacedInv, StaleWasRaced, FreshRead, ClearedInv
<1>9. CASE Restart
  BY <1>9 DEF Restart, RacedInv, StaleWasRaced, FreshRead, ClearedInv
<1>10. CASE UNCHANGED vars
  <2>1. \A k : Lookup(k)' = Lookup(k)
    BY <1>10, LookupStays DEF vars
  <2>2. QED
    BY <1>10, <2>1 DEF vars, callVars, raceVars, RacedInv, StaleWasRaced, FreshRead, ClearedInv
<1>11. ASSUME NEW c \in Clients,
              \/ ImportCheck(c) \/ SaveCheck(c)
              \/ \E v \in Versions : ActivateCheck(c, v) \/ DeleteCheck(c, v)
              \/ \E k \in Keys : GetMisses(c, k)
              \/ WriteSave(c) \/ WriteActivate(c) \/ WriteDelete(c)
       PROVE  RacedInv'
  BY <1>1, <1>2, <1>11 DEF ImportCheck, SaveCheck, ActivateCheck, DeleteCheck, GetMisses,
     WriteSave, WriteActivate, WriteDelete
<1>12. QED
  BY <1>3, <1>4, <1>5, <1>6, <1>7, <1>8, <1>9, <1>10, <1>11 DEF Next, Write

\* The cache disagrees with the database only by an entry that a read overtaken by a commit
\* has made, or one made between a write's clearing and its commit (get_prompt against
\* save_prompt, activate_prompt and delete_prompt_version), for any number of threads.
THEOREM StaleEntriesWereRaced == Spec => []StaleWasRaced
<1>1. RacedInv => StaleWasRaced
  BY DEF RacedInv
<1>2. QED
  BY <1>1, RacedInit, RacedNext, Inductive, PTL DEF Spec

-----------------------------------------------------------------------------
(* Calls that overlap: what a race can do to the active version *)

\* What the check of a call has seen is still so, unless a commit overtook it.
CheckedInv ==
    \A c \in Clients :
        pc[c] = "write" /\ c \notin overtaken =>
            /\ op[c] = "activate" => rows[arg[c]] # NoText
            /\ op[c] = "delete" => arg[c] \notin active

\* A transaction that leaves nothing active was overtaken, deletes the last version, or
\* found it so.
EmptiedInv ==
    \A c \in Clients :
        pc[c] \in Writing /\ stagedActive = {} /\ c \notin overtaken =>
            \/ \A v \in Versions : stagedRows[v] = NoText
            \/ op[c] = "delete" /\ contested

ContestedInv == NoneActiveWasContested /\ CheckedInv /\ EmptiedInv

LEMMA ContestedInit == Init => ContestedInv
BY DEF Init, ContestedInv, NoneActiveWasContested, CheckedInv, EmptiedInv, Existing, Writing

\* A step of one thread that leaves the database, its transaction and the other calls alone.
LEMMA ContestedElsewhere ==
    ASSUME ContestedInv, NEW c \in Clients,
           UNCHANGED <<dbVars, stagedRows, stagedActive, contested>>,
           \A d \in Clients \ {c} : /\ pc'[d] = pc[d] /\ arg'[d] = arg[d] /\ op'[d] = op[d]
                                    /\ d \in overtaken => d \in overtaken',
           \/ pc'[c] \notin Writing \union {"write"}
           \/ /\ pc[c] \in Writing /\ pc'[c] \in Writing /\ op'[c] = op[c]
              /\ c \in overtaken => c \in overtaken'
           \/ /\ pc'[c] = "write"
              /\ op'[c] = "activate" => rows[arg'[c]] # NoText
              /\ op'[c] = "delete" => arg'[c] \notin active
    PROVE  ContestedInv'
<1> USE DEF dbVars, Writing
<1>1. NoneActiveWasContested'
  BY DEF ContestedInv, NoneActiveWasContested, Existing
<1>2. CheckedInv'
  BY DEF ContestedInv, CheckedInv
<1>3. EmptiedInv'
  BY DEF ContestedInv, EmptiedInv
<1>4. QED
  BY <1>1, <1>2, <1>3 DEF ContestedInv

\* The statement that opens a transaction turns what the check saw into what will be.
LEMMA ContestedStage ==
    ASSUME IInv, ContestedInv, NEW c \in Clients, pc[c] = "write",
           NEW R \in Contents, NEW A \in SUBSET Versions,
           Made(op[c], arg[c], text[c], R, A),
           Stage(c, R, A)
    PROVE  ContestedInv'
<1>1. /\ lock = Nobody /\ stagedRows' = R /\ stagedActive' = A
      /\ UNCHANGED <<dbVars, op, arg, text, overtaken, contested>>
      /\ pc'[c] = "invalidate" /\ \A d \in Clients \ {c} : pc'[d] = pc[d]
  BY DEF Stage, raceVars, IInv, TypeOK
<1>2. \A d \in Clients \ {c} : pc'[d] \notin Writing
  BY <1>1, NobodyAssumption DEF IInv, LockInv
<1>3. NoneActiveWasContested'
  BY <1>1 DEF ContestedInv, NoneActiveWasContested, Existing, dbVars
<1>4. CheckedInv'
  BY <1>1 DEF ContestedInv, CheckedInv, dbVars
<1>5. ASSUME A = {}, c \notin overtaken
      PROVE  (\A v \in Versions : R[v] = NoText) \/ (op[c] = "delete" /\ contested)
  <2>1. /\ op[c] \in {"save", "activate", "delete"} /\ arg[c] \in Versions
        /\ op[c] = "activate" => rows[arg[c]] # NoText
        /\ op[c] = "delete" => arg[c] \notin active
    BY <1>5 DEF IInv, CallInv, ContestedInv, CheckedInv
  <2>2. op[c] = "delete"
    BY <1>5, <2>1 DEF Made, Existing
  <2>3. active = {} /\ R = [rows EXCEPT ![arg[c]] = NoText]
    BY <1>5, <2>1, <2>2 DEF Made
  <2>4. (\A v \in Versions : rows[v] = NoText) \/ contested
    BY <2>3 DEF ContestedInv, NoneActiveWasContested, Existing
  <2>5. rows \in Contents
    BY DEF IInv, TypeOK
  <2>6. QED
    BY <2>2, <2>3, <2>4, <2>5 DEF Contents
<1>6. EmptiedInv'
  BY <1>1, <1>2, <1>5 DEF EmptiedInv
<1>7. QED
  BY <1>3, <1>4, <1>6 DEF ContestedInv

LEMMA ContestedCommit ==
    ASSUME IInv, ContestedInv, NEW c \in Clients, Commit(c)
    PROVE  ContestedInv'
<1>1. /\ pc[c] = "commit" /\ rows' = stagedRows /\ active' = stagedActive
      /\ contested' = (c \in overtaken \/ (op[c] = "delete" /\ contested))
      /\ pc'[c] = "idle" /\ \A d \in Clients \ {c} : pc'[d] = pc[d]
      /\ \A d \in Clients \ {c} : d \in overtaken => d \in overtaken'
      /\ \A d \in Clients : pc[d] = "write" /\ arg[d] = arg[c] => d \in overtaken'
      /\ UNCHANGED <<stagedRows, stagedActive, op, arg>>
  BY DEF Commit, IInv, TypeOK
<1>2. /\ op[c] \in {"save", "activate", "delete"} /\ arg[c] \in Versions
      /\ Made(op[c], arg[c], text[c], stagedRows, stagedActive)
      /\ rows \in Contents
  BY <1>1 DEF IInv, CallInv, StagedInv, TypeOK, Writing
<1>3. NoneActiveWasContested'
  <2> SUFFICES ASSUME NEW v \in Versions, stagedRows[v] # NoText, stagedActive = {}
               PROVE  c \in overtaken \/ (op[c] = "delete" /\ contested)
    BY <1>1 DEF NoneActiveWasContested, Existing
  <2>1. QED
    BY <1>1 DEF ContestedInv, EmptiedInv, Writing
<1>4. CheckedInv'
  <2> SUFFICES ASSUME NEW d \in Clients, pc'[d] = "write", d \notin overtaken'
               PROVE  /\ op[d] = "activate" => stagedRows[arg[d]] # NoText
                      /\ op[d] = "delete" => arg[d] \notin stagedActive
    BY <1>1 DEF CheckedInv
  <2>1. d # c /\ pc[d] = "write" /\ arg[d] # arg[c] /\ d \notin overtaken
    BY <1>1
  <2>2. arg[d] \in Versions
    BY <2>1 DEF IInv, CallInv
  <2>3. /\ op[d] = "activate" => rows[arg[d]] # NoText
        /\ op[d] = "delete" => arg[d] \notin active
    BY <2>1 DEF ContestedInv, CheckedInv
  <2>4. stagedRows[arg[d]] = rows[arg[d]]
    BY <1>2, <2>1, <2>2 DEF Made, Contents
  <2>5. arg[d] \in stagedActive => arg[d] \in active
    BY <1>2, <2>1 DEF Made
  <2>6. QED
    BY <2>3, <2>4, <2>5
<1>5. \A d \in Clients : pc'[d] \notin Writing
  BY <1>1, NobodyAssumption DEF IInv, LockInv, Writing
<1>6. EmptiedInv'
  BY <1>5 DEF EmptiedInv
<1>7. QED
  BY <1>3, <1>4, <1>6 DEF ContestedInv

LEMMA ContestedNext == IInv /\ ContestedInv /\ [Next]_vars => ContestedInv'
<1> SUFFICES ASSUME IInv, ContestedInv, [Next]_vars
             PROVE  ContestedInv'
  OBVIOUS
<1>a. /\ pc \in [Clients -> {"idle", "import", "write", "invalidate", "commit", "query", "fill"}]
      /\ op \in [Clients -> {"none", "save", "activate", "delete", "get"}]
      /\ arg \in [Clients -> Keys \union {0}]
      /\ rows \in Contents /\ active \in SUBSET Versions
  BY DEF IInv, TypeOK
<1>1. ASSUME NEW c \in Clients, NEW o, NEW k, NEW t, NEW at, Begin(c, o, k, t, at),
             at \notin Writing,
             /\ o = "activate" => rows[k] # NoText
             /\ o = "delete" => k \notin active
      PROVE  ContestedInv'
  <2>1. UNCHANGED <<dbVars, stagedRows, stagedActive, contested>>
    BY <1>1 DEF Begin, txVars
  <2>2. /\ pc'[c] = at /\ op'[c] = o /\ arg'[c] = k
        /\ \A d \in Clients \ {c} : /\ pc'[d] = pc[d] /\ arg'[d] = arg[d] /\ op'[d] = op[d]
                                    /\ d \in overtaken => d \in overtaken'
    BY <1>1, <1>a DEF Begin
  <2>3. QED
    BY <1>1, <2>1, <2>2, ContestedElsewhere
<1>2. ASSUME NEW c \in Clients, \/ ImportCheck(c) \/ SaveCheck(c)
                                \/ \E v \in Versions : ActivateCheck(c, v) \/ DeleteCheck(c, v)
                                \/ \E k \in Keys : GetMisses(c, k)
      PROVE  ContestedInv'
  BY <1>1, <1>2 DEF ImportCheck, SaveCheck, ActivateCheck, DeleteCheck, GetMisses, Existing, Writing
<1>3. ASSUME NEW c \in Clients, \/ SaveClash(c) \/ Rollback(c) \/ Invalidate(c)
                                \/ GetQuery(c) \/ GetFill(c)
      PROVE  ContestedInv'
  <2>1. UNCHANGED <<dbVars, stagedRows, stagedActive, contested>>
    BY <1>3 DEF SaveClash, Rollback, Invalidate, GetQuery, GetFill, txVars, raceVars
  <2>2. /\ \A d \in Clients \ {c} : /\ pc'[d] = pc[d] /\ arg'[d] = arg[d] /\ op'[d] = op[d]
                                    /\ d \in overtaken => d \in overtaken'
    BY <1>3, <1>a DEF SaveClash, Rollback, Invalidate, GetQuery, GetFill, raceVars
  <2>3. \/ pc'[c] \in {"idle", "fill"}
        \/ pc[c] = "invalidate" /\ pc'[c] = "commit" /\ op'[c] = op[c] /\ overtaken' = overtaken
    BY <1>3, <1>a DEF SaveClash, Rollback, Invalidate, GetQuery, GetFill
  <2>4. QED
    BY <2>1, <2>2, <2>3, ContestedElsewhere DEF Writing
<1>4. ASSUME NEW c \in Clients, WriteSave(c) \/ WriteActivate(c) \/ WriteDelete(c)
      PROVE  ContestedInv'
  <2>1. arg[c] \in Versions /\ text[c] \in MaybeText /\ NoText \in MaybeText
    BY <1>4 DEF WriteSave, WriteActivate, WriteDelete, IInv, CallInv, TypeOK, MaybeText
  <2>2. PICK R \in Contents, A \in SUBSET Versions :
           Made(op[c], arg[c], text[c], R, A) /\ Stage(c, R, A) /\ pc[c] = "write"
    <3>1. CASE WriteSave(c)
      <4>1. /\ [rows EXCEPT ![arg[c]] = text[c]] \in Contents
            /\ {arg[c]} \in SUBSET Versions
        BY <2>1, <1>a DEF Contents
      <4>2. Made(op[c], arg[c], text[c], [rows EXCEPT ![arg[c]] = text[c]], {arg[c]})
        BY <3>1 DEF WriteSave, Made
      <4>3. QED
        BY <3>1, <4>1, <4>2 DEF WriteSave
    <3>2. CASE WriteActivate(c)
      BY <3>2, <1>a DEF WriteActivate, Made, Existing
    <3>3. CASE WriteDelete(c)
      <4>1. /\ [rows EXCEPT ![arg[c]] = NoText] \in Contents
            /\ active \ {arg[c]} \in SUBSET Versions
        BY <2>1, <1>a DEF Contents
      <4>2. Made(op[c], arg[c], text[c], [rows EXCEPT ![arg[c]] = NoText], active \ {arg[c]})
        BY <3>3 DEF WriteDelete, Made
      <4>3. QED
        BY <3>3, <4>1, <4>2 DEF WriteDelete
    <3>4. QED
      BY <1>4, <3>1, <3>2, <3>3
  <2>3. QED
    BY <2>2, ContestedStage
<1>5. CASE \E k \in Keys : Expire(k)
  BY <1>5 DEF Expire, dbVars, txVars, callVars, ContestedInv, NoneActiveWasContested, Existing,
     CheckedInv, EmptiedInv
<1>6. CASE Restart
  BY <1>6 DEF Restart, dbVars, ContestedInv, NoneActiveWasContested, Existing, CheckedInv,
     EmptiedInv, Writing
<1>7. CASE UNCHANGED vars
  BY <1>7 DEF vars, dbVars, txVars, callVars, raceVars, ContestedInv, NoneActiveWasContested,
     Existing, CheckedInv, EmptiedInv
<1>8. QED
  BY <1>2, <1>3, <1>4, <1>5, <1>6, <1>7, ContestedCommit DEF Next, Write

\* A name with versions of which none is active was left so by a delete or an activation
\* whose check was overtaken by a commit about the same version (delete_prompt_version
\* against activate_prompt, say), for any number of threads and saves.
THEOREM NoneActiveWereContested == Spec => []NoneActiveWasContested
<1>1. ContestedInv => NoneActiveWasContested
  BY DEF ContestedInv
<1>2. QED
  BY <1>1, ContestedInit, ContestedNext, Inductive, PTL DEF Spec

=============================================================================
