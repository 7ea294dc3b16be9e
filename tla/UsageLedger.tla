----------------------------- MODULE UsageLedger -----------------------------
(***************************************************************************)
(* From usage files to budget alerts: the importer of usage files and the  *)
(* budget monitor (dashboard/backend/background.py), the table of usages   *)
(* and the cached budget check (dashboard/backend/database/tokens.py),     *)
(* with LlmClient as the writer of the files.                              *)
(*                                                                         *)
(* A file is imported in steps: its row is committed, then it is deleted.  *)
(* The budget check is called by the monitor and by requests; the total is *)
(* read outside of the lock of its cache.  All calls cost the same and lie *)
(* in one month.                                                           *)
(***************************************************************************)
EXTENDS LlmClient

CONSTANTS
    CallCost,           \* the cost of one call
    Budget,             \* monthly_limit_usd
    MaxFaults,          \* bound: interruptions of the dashboard and failures of the importer
    NoFile              \* the importer is between files

ASSUME LedgerAssumption ==
    /\ CallCost \in Nat /\ Budget \in Nat \ {0} /\ MaxFaults \in Nat
    /\ NoFile \notin Names

VARIABLES
    total,              \* the month's sum of estimated_cost in token_usage
    counted,            \* history: how many rows come from each file
    setAside,           \* files in the directory failed/
    listed,             \* the files the importer has yet to handle
    current,            \* the file whose row is committed
    replaced,           \* history: how often a file took the place of another of its name
    faults,             \* history
    checked,            \* _budget_cache, if it is young enough
    asking,             \* callers of the budget check that have missed the cache
    answer,             \* the total each caller goes by
    alertAge,           \* how long ago the last alert was
    alerted             \* history: an alert has said that the budget is exceeded

rowVars == <<total, counted, setAside, listed, current>>
importVars == <<rowVars, replaced>>
budgetVars == <<checked, asking, answer, alertAge, alerted>>
vars == <<clientVars, importVars, faults, budgetVars>>

Callers == {"monitor", "request"}
Ages == {"recent", "half an hour", "an hour"}
NotCached == -1
MaxTotal == CallCost * (MaxCalls + MaxFaults)

TypeOK ==
    /\ ClientTypeOK
    /\ total \in 0 .. MaxTotal
    /\ counted \in [Names -> 0 .. MaxCalls + MaxFaults]
    /\ setAside \subseteq Names
    /\ listed \subseteq usage
    /\ current \in usage \union {NoFile}
    /\ replaced \in [Names -> Nat]
    /\ faults \in 0 .. MaxFaults
    /\ checked \in {NotCached} \union 0 .. MaxTotal
    /\ asking \in [Callers -> {"no", "query", "fill", "told"}]
    /\ answer \in [Callers -> 0 .. MaxTotal]
    /\ alertAge \in Ages
    /\ alerted \in BOOLEAN

Init ==
    /\ ClientInit
    /\ total = 0
    /\ counted = [n \in Names |-> 0]
    /\ setAside = {}
    /\ listed = {}
    /\ current = NoFile
    /\ replaced = [n \in Names |-> 0]
    /\ faults = 0
    /\ checked = NotCached
    /\ asking = [c \in Callers |-> "no"]
    /\ answer = [c \in Callers |-> 0]
    /\ alertAge = "an hour"
    /\ alerted = FALSE

-----------------------------------------------------------------------------
(* import_tokens_target *)

ImportList ==
    /\ listed = {} /\ current = NoFile
    /\ listed' = usage
    /\ usage # {}
    /\ UNCHANGED <<clientVars, total, counted, setAside, current, replaced, faults,
                   budgetVars>>

\* log_token_usage commits a row for the file.
ImportCount(n) ==
    /\ n \in listed /\ current = NoFile
    /\ total' = total + CallCost
    /\ counted' = [counted EXCEPT ![n] = @ + 1]
    /\ current' = n
    /\ UNCHANGED <<clientVars, setAside, listed, replaced, faults, budgetVars>>

\* Mutants of ImportDelete: the file stays; it stays on the list.
ImportDeleteKeeps ==
    /\ current # NoFile
    /\ listed' = listed \ {current}
    /\ current' = NoFile
    /\ UNCHANGED <<clientVars, total, counted, setAside, replaced, faults, budgetVars>>

ImportDeleteListed ==
    /\ current # NoFile
    /\ usage' = usage \ {current}
    /\ current' = NoFile
    /\ UNCHANGED <<host, callVars, cacheVars, recorded, calls, second, total, counted, setAside,
                   listed, replaced, faults, budgetVars>>

ImportDelete ==
    /\ current # NoFile
    /\ usage' = usage \ {current}
    /\ listed' = listed \ {current}
    /\ current' = NoFile
    /\ UNCHANGED <<host, callVars, cacheVars, recorded, calls, second, total, counted, setAside,
                   replaced, faults, budgetVars>>

\* Mutant of ImportFails: the file is deleted instead of set aside.
ImportFailsDeletes(n) ==
    /\ n \in listed /\ current \in {NoFile, n}
    /\ faults < MaxFaults
    /\ faults' = faults + 1
    /\ usage' = usage \ {n}
    /\ listed' = listed \ {n}
    /\ current' = NoFile
    /\ UNCHANGED <<host, callVars, cacheVars, recorded, calls, second, total, counted, setAside,
                   replaced, budgetVars>>

\* Reading the file, the insertion or the deletion raises: the file goes to failed/, also
\* when its row is there, in the place of a file of its name.
ImportFails(n) ==
    /\ n \in listed /\ current \in {NoFile, n}
    /\ faults < MaxFaults
    /\ faults' = faults + 1
    /\ usage' = usage \ {n}
    /\ setAside' = setAside \union {n}
    /\ replaced' = IF n \in setAside THEN [replaced EXCEPT ![n] = @ + 1] ELSE replaced
    /\ listed' = listed \ {n}
    /\ current' = NoFile
    /\ UNCHANGED <<host, callVars, cacheVars, recorded, calls, second, total, counted, budgetVars>>

\* That rename raises: the round is over.
ImportAborts ==
    /\ listed # {}
    /\ faults < MaxFaults
    /\ faults' = faults + 1
    /\ listed' = {}
    /\ current' = NoFile
    /\ UNCHANGED <<clientVars, total, counted, setAside, replaced, budgetVars>>

-----------------------------------------------------------------------------
(* check_budget_limit *)

\* A call that has returned leaves nothing behind.
Done(c) ==
    /\ asking' = [asking EXCEPT ![c] = "no"]
    /\ answer' = [answer EXCEPT ![c] = 0]

\* The monitor is answered from the cache (for a request that changes nothing).
CheckHits ==
    /\ asking["monitor"] = "no"
    /\ checked # NotCached
    /\ asking' = [asking EXCEPT !["monitor"] = "told"]
    /\ answer' = [answer EXCEPT !["monitor"] = checked]
    /\ UNCHANGED <<clientVars, importVars, faults, checked, alertAge, alerted>>

CheckMisses(c) ==
    /\ asking[c] = "no"
    /\ checked = NotCached
    /\ asking' = [asking EXCEPT ![c] = "query"]
    /\ UNCHANGED <<clientVars, importVars, faults, checked, answer, alertAge, alerted>>

CheckQuery(c) ==
    /\ asking[c] = "query"
    /\ asking' = [asking EXCEPT ![c] = "fill"]
    /\ answer' = [answer EXCEPT ![c] = total]
    /\ UNCHANGED <<clientVars, importVars, faults, checked, alertAge, alerted>>

\* The total is cached with the time at which the call began: it may be old already,
\* and it replaces whatever another caller has cached meanwhile.
CheckFill(c) ==
    /\ asking[c] = "fill"
    /\ checked' \in {NotCached, answer[c]}
    /\ IF c = "monitor"
       THEN asking' = [asking EXCEPT ![c] = "told"] /\ UNCHANGED answer
       ELSE Done(c)
    /\ UNCHANGED <<clientVars, importVars, faults, alertAge, alerted>>

IsWarning(cost) == cost * 100 >= Budget * 80
IsExceeded(cost) == cost >= Budget

\* Mutant of BudgetExpires: only a total below the warning expires.
BudgetExpiresEarly ==
    /\ checked # NotCached
    /\ ~IsWarning(checked)
    /\ checked' = NotCached
    /\ UNCHANGED <<clientVars, importVars, faults, asking, answer, alertAge, alerted>>

\* Thirty seconds have gone by.
BudgetExpires ==
    /\ checked # NotCached
    /\ checked' = NotCached
    /\ UNCHANGED <<clientVars, importVars, faults, asking, answer, alertAge, alerted>>

-----------------------------------------------------------------------------
(* budget_monitor_target *)

\* A warning after an hour, or after half an hour once the budget is exceeded.
Alert ==
    /\ asking["monitor"] = "told"
    /\ \/ IsWarning(answer["monitor"]) /\ alertAge = "an hour"
       \/ IsExceeded(answer["monitor"]) /\ alertAge # "recent"
    /\ alertAge' = "recent"
    /\ alerted' = (alerted \/ IsExceeded(answer["monitor"]))
    /\ Done("monitor")
    /\ UNCHANGED <<clientVars, importVars, faults, checked>>

NoAlert ==
    /\ asking["monitor"] = "told"
    /\ ~(IsWarning(answer["monitor"]) /\ alertAge = "an hour")
    /\ ~(IsExceeded(answer["monitor"]) /\ alertAge # "recent")
    /\ Done("monitor")
    /\ UNCHANGED <<clientVars, importVars, faults, checked, alertAge, alerted>>

AlertAges ==
    /\ alertAge # "an hour"
    /\ alertAge' = IF alertAge = "recent" THEN "half an hour" ELSE "an hour"
    /\ UNCHANGED <<clientVars, importVars, faults, checked, asking, answer, alerted>>

\* The dashboard dies and is restarted: what its memory held is gone.
Restart ==
    /\ faults < MaxFaults
    /\ faults' = faults + 1
    /\ listed' = {} /\ current' = NoFile
    /\ checked' = NotCached
    /\ asking' = [c \in Callers |-> "no"]
    /\ answer' = [c \in Callers |-> 0]
    /\ alertAge' = "an hour"
    /\ UNCHANGED <<clientVars, total, counted, setAside, replaced, alerted>>

Import ==
    \/ ImportList \/ ImportDelete
    \/ \E n \in Names : ImportCount(n)

Monitor ==
    \/ CheckHits \/ CheckMisses("monitor")
    \/ CheckQuery("monitor") \/ CheckFill("monitor")
    \/ Alert \/ NoAlert

\* The clients of language models go on; one may write a file over one not imported yet.
Clients ==
    /\ ClientNext
    /\ replaced' = [n \in Names |-> IF n \in usage /\ recorded'[n] > recorded[n]
                                   THEN replaced[n] + 1 ELSE replaced[n]]
    /\ UNCHANGED <<rowVars, faults, budgetVars>>

Next ==
    \/ Clients
    \/ Import \/ ImportAborts
    \/ \E n \in Names : ImportFails(n)
    \/ Monitor
    \/ CheckMisses("request") \/ CheckQuery("request") \/ CheckFill("request")
    \/ BudgetExpires \/ AlertAges
    \/ Restart

\* The pollers are daemon threads that loop for ever, and time goes by.
Fairness ==
    /\ WF_vars(Import)
    /\ WF_vars(Monitor)
    /\ WF_vars(BudgetExpires)
    /\ WF_vars(AlertAges)

Spec == Init /\ [][Next]_vars
FairSpec == Spec /\ Fairness

-----------------------------------------------------------------------------
(* Properties *)

One(condition) == IF condition THEN 1 ELSE 0

\* Of the usages written under a name, one may be in the directory and one in failed/, and all
\* others have their row in the table, whatever interrupts the importer; only a file that took
\* the place of its namesake may have cost one: written before the namesake was imported, or
\* between the commit of its row and its deletion (lines 189 to 196 of background.py).
UsageIsKept ==
    \A n \in Names :
        recorded[n] <= counted[n] + One(n \in usage) + One(n \in setAside) + replaced[n]

\* The table never has more rows of a file than the file was written, but for one for each
\* interruption: only one between the commit and the deletion counts a call twice.
OvercountsAreFaults ==
    \A n \in Names : counted[n] <= recorded[n] + faults

\* When the month's total has reached the budget, an alert says so in the end, although the
\* check answers from a cache that requests refill with older totals, and alerts are throttled.
ExceededGetsAlerted == total >= Budget ~> alerted

=============================================================================
