------------------------------- MODULE IndexCatalog -------------------------------
(* What is derived from a project's page and kept next to it: the catalog of its     *)
(* links and the summary of the catalog (index/catalog_cache.py), each an atomic      *)
(* entry of the HTTP cache. A lookup takes the summary when the page is fresh         *)
(* (source_locations.py); else it gets the page through the session of HttpSession,    *)
(* and takes its links from the catalog or parses and saves them (page_parsing.py).    *)
EXTENDS HttpSession

CONSTANT Lookups    \* how many each thread makes

ASSUME LookupsAssumption == Lookups \in Nat

VARIABLES
    stage,          \* of each thread's lookup
    left,           \* lookups each thread still makes
    took,           \* the version of the catalog a thread has in hand
    catalog, summary,   \* versions of the two entries; 0 when there is none
    clash           \* threads had different versions in hand at once

lookup == <<stage, left, took>>
derived == <<catalog, summary>>
vars == <<httpVars, lookup, derived, clash>>

Stages == {"rest", "summarising", "compiling", "choosing", "embedding", "page",
           "saving", "summing", "killed"}

To(t, from, to) == stage[t] = from /\ stage' = [stage EXCEPT ![t] = to]
Takes(t, version) == took' = [took EXCEPT ![t] = version]
Drops(t) == Takes(t, 0)

Init ==
    /\ HttpInit
    /\ stage = [t \in Threads |-> "rest"]
    /\ left = [t \in Threads |-> Lookups]
    /\ took = [t \in Threads |-> 0]
    /\ catalog \in {0, body} /\ summary \in {0, catalog}
    /\ clash = FALSE

------------------------------------------------------------------------------------
(* has_fresh_cached_response, and load_summary when it is.                           *)

IsKnownFresh(t) == LET x == fresh_until[process[t]] IN x = Never \/ x > now

Begin(t) ==
    /\ left[t] > 0
    /\ left' = [left EXCEPT ![t] = @ - 1]
    /\ IsKnownFresh(t) \/ IsFresh(Stored)
    /\ To(t, "rest", "summarising")
    /\ fresh_until' = [fresh_until EXCEPT ![process[t]] = IF IsKnownFresh(t) THEN @ ELSE Stored.expires]
    /\ UNCHANGED <<world, disk, inflight_requests, call, took, derived>>

\* The page is not fresh; links_from_url calls the session.
BeginStale(t) ==
    /\ left[t] > 0
    /\ left' = [left EXCEPT ![t] = @ - 1]
    /\ ~IsKnownFresh(t) /\ ~IsFresh(Stored)
    /\ To(t, "rest", "page")
    /\ fresh_until' = [fresh_until EXCEPT ![process[t]] = 0]
    /\ Request(t)
    /\ UNCHANGED <<world, disk, inflight_requests, took, derived>>

UseSummary(t) ==
    /\ summary # 0 /\ To(t, "summarising", "choosing") /\ Takes(t, summary)
    /\ UNCHANGED <<httpVars, left, derived>>

\* There is none: it is compiled from the catalog.
Compile(t) ==
    /\ summary = 0 /\ catalog # 0 /\ To(t, "summarising", "compiling") /\ Takes(t, catalog)
    /\ UNCHANGED <<httpVars, left, derived>>

SaveCompiled(t) ==
    /\ To(t, "compiling", "choosing")
    /\ summary' = took[t]
    /\ UNCHANGED <<httpVars, left, took, catalog>>

NoSummary(t) ==
    /\ summary = 0 /\ catalog = 0 /\ To(t, "summarising", "page")
    /\ Request(t)
    /\ UNCHANGED <<world, disk, session, left, took, derived>>

\* The choices made for this target were in the summary, or belong to another one by now.
Chosen(t) ==
    /\ To(t, "choosing", "rest") /\ Drops(t)
    /\ UNCHANGED <<httpVars, left, derived>>

\* embed_summary_choices: the summary is read again and, when it is of the same generation,
\* written with the choices.
Embed(t) ==
    /\ summary = took[t]
    /\ To(t, "choosing", "embedding")
    /\ UNCHANGED <<httpVars, left, took, derived>>

SaveEmbedded(t) ==
    /\ To(t, "embedding", "rest") /\ Drops(t)
    /\ summary' = took[t]
    /\ UNCHANGED <<httpVars, left, catalog>>

------------------------------------------------------------------------------------
(* links_from_url.                                                                   *)

GetStep(t) ==
    /\ stage[t] = "page"
    /\ HttpStep(t)
    /\ UNCHANGED <<lookup, derived>>

Interrupted(t) == InterruptedWait(t) /\ UNCHANGED <<lookup, derived>>

Got(t) == stage[t] = "page" /\ pc[t] = "idle"

\* The page's text is not kept.
Forgets(t) ==
    /\ response' = [response EXCEPT ![t] = NoResponse]
    /\ UNCHANGED <<world, disk, session, pc, seen, attempt, waits, got>>

\* load_links: a page that came from the cache has its links there.
Known(t) == response[t].from_cache /\ catalog # 0

\* raise_for_status, an error, or links that are known.
TakeLinks(t) ==
    /\ Got(t) /\ (response[t].kind # "ok" \/ Known(t))
    /\ To(t, "page", "rest") /\ Forgets(t)
    /\ UNCHANGED <<left, took, derived>>

Parse(t) ==
    /\ Got(t) /\ response[t].kind = "ok" /\ ~Known(t)
    /\ To(t, "page", "saving") /\ Takes(t, response[t].body) /\ Forgets(t)
    /\ UNCHANGED <<left, derived>>

\* Mutant of SaveCatalog: a catalog that is there is kept.
SaveCatalogOnce(t) ==
    /\ To(t, "saving", "summing")
    /\ catalog' = IF catalog = 0 THEN took[t] ELSE catalog
    /\ UNCHANGED <<httpVars, left, took, summary>>

\* save_catalog: the catalog, then its summary.
SaveCatalog(t) ==
    /\ To(t, "saving", "summing")
    /\ catalog' = took[t]
    /\ UNCHANGED <<httpVars, left, took, summary>>

SaveSummary(t) ==
    /\ To(t, "summing", "rest") /\ Drops(t)
    /\ summary' = took[t]
    /\ UNCHANGED <<httpVars, left, catalog>>

------------------------------------------------------------------------------------
LookupStep(t) ==
    \/ UseSummary(t) \/ Compile(t) \/ SaveCompiled(t) \/ NoSummary(t)
    \/ Chosen(t) \/ Embed(t) \/ SaveEmbedded(t)
    \/ GetStep(t) \/ TakeLinks(t) \/ Parse(t) \/ SaveCatalog(t) \/ SaveSummary(t)

Works(t) == stage[t] \notin {"rest", "killed"}

\* LookupStep(t) is enabled, and changes something.
Busy(t) == Works(t) /\ pc[t] # "waiting"

KillProcess(p) ==
    /\ \E t \in Threads : process[t] = p /\ Works(t)
    /\ KillSession(p)
    /\ stage' = [t \in Threads |-> IF process[t] = p /\ Works(t) THEN "killed" ELSE stage[t]]
    /\ took' = [t \in Threads |-> IF process[t] = p THEN 0 ELSE took[t]]
    /\ UNCHANGED <<left, derived>>

\* The version a thread may yet write of: that of the catalog in its hand, of its answer, of the
\* metadata that was confirmed.
InHand(t) ==
    IF stage[t] = "killed" THEN 0
    ELSE IF took[t] # 0 THEN took[t]
    ELSE IF Got(t) THEN response[t].body
    ELSE IF got[t].kind = "unchanged" THEN seen[t].version ELSE got[t].version

Clashing == \E t, u \in Threads : InHand(t) # 0 /\ InHand(u) # 0 /\ InHand(t) # InHand(u)

Next ==
    /\ \/ \E t \in Threads : Begin(t) \/ BeginStale(t) \/ LookupStep(t) \/ Interrupted(t)
       \/ Publish /\ UNCHANGED <<lookup, derived>>
       \/ Tick /\ UNCHANGED <<lookup, derived>>
       \/ \E p \in Processes : KillProcess(p)
    /\ clash' = (clash \/ Clashing')

\* Each thread runs, and the session's timeout ends a request that gets no answer. Nobody has to
\* press Ctrl-C.
Fairness == \A t \in Threads : []<>~Busy(t) \/ []<><<LookupStep(t)>>_vars

Spec == Init /\ [][Next]_vars /\ Fairness

------------------------------------------------------------------------------------
\* Every variable has its type.
TypeOK ==
    /\ HttpTypeOK
    /\ stage \in [Threads -> Stages]
    /\ left \in [Threads -> 0..Lookups]
    /\ took \in [Threads -> Versions \cup {0}]
    /\ catalog \in Versions \cup {0} /\ summary \in Versions \cup {0}
    /\ clash \in BOOLEAN

\* What is derived is never newer than what it is derived from, and a body never newer than its
\* metadata: whenever a process is killed, between whichever two of the four writes, what it leaves
\* behind is the old, which the next page replaces. It holds while no two threads have different
\* versions in hand at once; cache.py admits that race.
DerivedNeverAhead == ~clash => summary <= catalog /\ body <= entry.version

\* With nobody at work and nobody killed, the two halves of the page's entry are of one answer,
\* no catalog is older than the page it will be used for, and the summary is that of the catalog,
\* however requests were shared, repeated or confirmed, unless versions met in two threads.
RestingAgree ==
    (\A t \in Threads : stage[t] = "rest") /\ ~clash =>
        /\ body = entry.version
        /\ catalog # 0 => body <= catalog
        /\ summary \in {0, catalog}

\* Every lookup ends: whoever waits for another's request is woken, whatever became of it.
EveryLookupEnds == \A t \in Threads : Works(t) ~> ~Works(t)
====
