------------------------------- MODULE HttpSession -------------------------------
(* Requests for one page through network/http.py: the file cache that processes      *)
(* share (network/cache.py), threads of one process that wait for each other's        *)
(* request, retries and a 304. The page's content is a version; the server may *)
(* publish the next one at any moment. A process may be killed between any two steps.  *)
EXTENDS Integers, FiniteSets

CONSTANTS
    Threads,
    Processes,
    Sharing,        \* which process a thread may belong to: a set of functions
    Nobody,         \* no thread
    MaxVersion,     \* versions the server publishes
    MaxTime,        \* the clock ends here
    Lifetimes,      \* what an answer may say of its lifetime
    Attempts        \* retries + 1

Never == -1         \* neither max-age nor Expires: expires_at is None
NoStore == -2

ASSUME SharingAssumption == Sharing \subseteq [Threads -> Processes]
ASSUME NobodyAssumption == Nobody \notin Threads
ASSUME BoundsAssumption == MaxVersion \in Nat \ {0} /\ MaxTime \in Nat /\ Attempts \in Nat \ {0}
ASSUME LifetimesAssumption == Lifetimes \subseteq Nat \cup {Never, NoStore}

Versions == 1..MaxVersion

\* The metadata file of an entry; 0 is no version, or no file.
Metadata == [version: Versions \cup {0}, lifetime: Nat \cup {Never}, expires: Nat \cup {Never}]
NoEntry == [version |-> 0, lifetime |-> Never, expires |-> 0]

\* Requests differ in the validators that they send.
Key == Versions \cup {0}

\* A response, or the error that came instead: one that is tried again, or any other.
Kinds == {"ok", "unchanged", "busy", "error", "fatal"}
Answer == [kind: Kinds, version: Versions \cup {0}, lifetime: Nat \cup {Never, NoStore}]
Bare(kind) == [kind |-> kind, version |-> 0, lifetime |-> NoStore]

Response == [kind: Kinds, body: Versions \cup {0}, from_cache: BOOLEAN]

VARIABLES
    \* the world
    content,        \* what the server has
    now,
    process,        \* the process of each thread
    \* the cache directory
    entry, body,
    \* one session a process
    inflight_requests,  \* the thread that asks, for each key
    fresh_until,        \* fresh_cached_response_cache: the expiry of the page's entry, or 0
    \* the call of each thread
    pc,
    seen,           \* the metadata read last; then cached_metadata
    attempt,
    waits,          \* the thread whose flight it waits for
    got,            \* what open_coalesced ends with
    response        \* what the last call returned or raised

world == <<content, now, process>>
disk == <<entry, body>>
session == <<inflight_requests, fresh_until>>
call == <<pc, seen, attempt, waits, got, response>>
httpVars == <<world, disk, session, call>>

Ended == {"idle", "killed"}
Steps == {"opening", "asking", "sending", "leaving", "signalling", "waiting",
          "handling", "reopening", "storing"} \cup Ended

RequestKey(t) == seen[t].version
Flight(t) == inflight_requests[process[t]][RequestKey(t)]
NoFlights == [k \in Key |-> Nobody]

IsFresh(m) == m # NoEntry /\ (m.expires = Never \/ m.expires > now)
Expires(lifetime) == IF lifetime = Never THEN Never ELSE now + lifetime

Go(t, from, to) == pc[t] = from /\ pc' = [pc EXCEPT ![t] = to]

\* The call ends, with a response or an error, and its locals are gone.
Return(t, from, r) ==
    /\ Go(t, from, "idle")
    /\ response' = [response EXCEPT ![t] = r]
    /\ seen' = [seen EXCEPT ![t] = NoEntry]
    /\ attempt' = [attempt EXCEPT ![t] = 0]
    /\ got' = [got EXCEPT ![t] = Bare("error")]

Cached(version) == [kind |-> "ok", body |-> version, from_cache |-> TRUE]
Downloaded(a) == [kind |-> a.kind, body |-> a.version, from_cache |-> FALSE]
NoResponse == Downloaded(Bare("error"))

------------------------------------------------------------------------------------
HttpInit ==
    /\ content = 1 /\ now = 0 /\ process \in Sharing
    /\ \/ entry = NoEntry /\ body = 0
       \/ /\ entry \in {[version |-> 1, lifetime |-> l, expires |-> x] :
                            l \in Lifetimes \ {NoStore}, x \in {Never, 0, 1}}
          /\ (entry.lifetime = Never) <=> (entry.expires = Never)
          /\ body = 1
    /\ inflight_requests = [p \in Processes |-> NoFlights]
    /\ fresh_until = [p \in Processes |-> 0]
    /\ pc = [t \in Threads |-> "idle"]
    /\ seen = [t \in Threads |-> NoEntry]
    /\ attempt = [t \in Threads |-> 0]
    /\ waits = [t \in Threads |-> Nobody]
    /\ got = [t \in Threads |-> Bare("error")]
    /\ response = [t \in Threads |-> NoResponse]

------------------------------------------------------------------------------------
(* The cache: SafeFileCache.                                                         *)

\* get: metadata counts only next to a body.
Stored == IF body = 0 THEN NoEntry ELSE entry

\* request: cached_response reads the metadata.
Request(t) ==
    /\ Go(t, "idle", "opening")
    /\ seen' = [seen EXCEPT ![t] = Stored]
    /\ UNCHANGED <<attempt, waits, got, response>>

\* Then it opens the body.
Hit(t) ==
    /\ IsFresh(seen[t])
    /\ Return(t, "opening", Cached(body))
    /\ UNCHANGED <<world, disk, session, waits>>

\* Or it does not, and stale_cache_metadata reads the metadata again, for the validators.
Miss(t) ==
    /\ ~IsFresh(seen[t])
    /\ Go(t, "opening", "asking")
    /\ seen' = [seen EXCEPT ![t] = IF IsFresh(Stored) THEN NoEntry ELSE [Stored EXCEPT !.expires = 0]]
    /\ attempt' = [attempt EXCEPT ![t] = 1]
    /\ UNCHANGED <<world, disk, session, waits, got, response>>

------------------------------------------------------------------------------------
(* open_coalesced.                                                                   *)

Join(t) ==
    /\ Flight(t) # Nobody
    /\ Go(t, "asking", "waiting")
    /\ waits' = [waits EXCEPT ![t] = Flight(t)]
    /\ UNCHANGED <<world, disk, session, seen, attempt, got, response>>

Own(t) ==
    /\ Flight(t) = Nobody
    /\ Go(t, "asking", "sending")
    /\ inflight_requests' = [inflight_requests EXCEPT ![process[t]][RequestKey(t)] = t]
    /\ UNCHANGED <<world, disk, fresh_until, seen, attempt, waits, got, response>>

\* What the server, the network or the user (Ctrl-C) may make of the request.
Outcomes(t) ==
    {Bare("error"), Bare("fatal"), Bare("busy")}
    \cup {[kind |-> "ok", version |-> content, lifetime |-> l] : l \in Lifetimes}
    \cup (IF seen[t].version = content THEN {Bare("unchanged")} ELSE {})

Answered(t) ==
    /\ Go(t, "sending", "leaving")
    /\ \E a \in Outcomes(t) : got' = [got EXCEPT ![t] = a]
    /\ UNCHANGED <<world, disk, session, seen, attempt, waits, response>>

\* Mutant of Leave: not after an error.
LeaveOnSuccess(t) ==
    /\ Go(t, "leaving", "signalling")
    /\ inflight_requests' = IF got[t].kind \in {"error", "fatal"} THEN inflight_requests
                            ELSE [inflight_requests EXCEPT ![process[t]][RequestKey(t)] = Nobody]
    /\ UNCHANGED <<world, disk, fresh_until, seen, attempt, waits, got, response>>

\* The finally, whatever came: under the lock the flight is taken off.
Leave(t) ==
    /\ Go(t, "leaving", "signalling")
    /\ inflight_requests' = [inflight_requests EXCEPT ![process[t]][RequestKey(t)] = Nobody]
    /\ UNCHANGED <<world, disk, fresh_until, seen, attempt, waits, got, response>>

\* Mutant of Signal: the event is not set after an error.
SignalOnSuccess(t) ==
    LET woken == {u \in Threads : /\ pc[u] = "waiting" /\ waits[u] = t
                                  /\ got[t].kind \notin {"error", "fatal"}}
    IN  /\ pc[t] = "signalling"
        /\ pc' = [u \in Threads |-> IF u \in woken \cup {t} THEN "handling" ELSE pc[u]]
        /\ got' = [u \in Threads |-> IF u \in woken THEN got[t] ELSE got[u]]
        /\ waits' = [u \in Threads |-> IF u \in woken THEN Nobody ELSE waits[u]]
        /\ UNCHANGED <<world, disk, session, seen, attempt, response>>

\* Then the event is set: all who wait get the same response or error.
Signal(t) ==
    LET woken == {u \in Threads : pc[u] = "waiting" /\ waits[u] = t}
    IN  /\ pc[t] = "signalling"
        /\ pc' = [u \in Threads |-> IF u \in woken \cup {t} THEN "handling" ELSE pc[u]]
        /\ got' = [u \in Threads |-> IF u \in woken THEN got[t] ELSE got[u]]
        /\ waits' = [u \in Threads |-> IF u \in woken THEN Nobody ELSE waits[u]]
        /\ UNCHANGED <<world, disk, session, seen, attempt, response>>

\* Ctrl-C while it waits.
InterruptedWait(t) ==
    /\ Return(t, "waiting", Downloaded(Bare("fatal")))
    /\ waits' = [waits EXCEPT ![t] = Nobody]
    /\ UNCHANGED <<world, disk, session>>

------------------------------------------------------------------------------------
(* The rest of request, for the owner and for those that waited alike.               *)

\* Mutant of TryAgain: once too often.
TryOnceMore(t) ==
    /\ got[t].kind \in {"error", "busy"} /\ attempt[t] <= Attempts
    /\ Go(t, "handling", "asking")
    /\ attempt' = [attempt EXCEPT ![t] = @ + 1]
    /\ UNCHANGED <<world, disk, session, seen, waits, got, response>>

TryAgain(t) ==
    /\ got[t].kind \in {"error", "busy"} /\ attempt[t] < Attempts
    /\ Go(t, "handling", "asking")
    /\ attempt' = [attempt EXCEPT ![t] = @ + 1]
    /\ UNCHANGED <<world, disk, session, seen, waits, got, response>>

Raise(t) ==
    /\ got[t].kind = "fatal" \/ (got[t].kind = "error" /\ attempt[t] = Attempts)
    /\ Return(t, "handling", Downloaded(got[t]))
    /\ UNCHANGED <<world, disk, session, waits>>

\* revalidated_response: the metadata read before the request, with a new expiry.
Revalidate(t) ==
    /\ got[t].kind = "unchanged" /\ seen[t] # NoEntry
    /\ Go(t, "handling", "reopening")
    /\ entry' = [seen[t] EXCEPT !.expires = IF seen[t].lifetime = Never THEN now ELSE now + seen[t].lifetime]
    /\ fresh_until' = [fresh_until EXCEPT ![process[t]] = 0]
    /\ UNCHANGED <<world, body, inflight_requests, seen, attempt, waits, got, response>>

Reopen(t) ==
    /\ Return(t, "reopening", Cached(body))
    /\ UNCHANGED <<world, disk, session, waits>>

Storable(a) == a.kind = "ok" /\ a.lifetime # NoStore

\* cache_response: the metadata, then the body.
StoreMetadata(t) ==
    /\ Storable(got[t])
    /\ Go(t, "handling", "storing")
    /\ entry' = [version |-> got[t].version, lifetime |-> got[t].lifetime,
                 expires |-> Expires(got[t].lifetime)]
    /\ fresh_until' = [fresh_until EXCEPT ![process[t]] = 0]
    /\ UNCHANGED <<world, body, inflight_requests, seen, attempt, waits, got, response>>

\* Mutant of StoreBody: a body that is there is kept.
StoreBodyOnce(t) ==
    /\ Return(t, "storing", Downloaded(got[t]))
    /\ body' = IF body = 0 THEN got[t].version ELSE body
    /\ UNCHANGED <<world, entry, session, waits>>

StoreBody(t) ==
    /\ Return(t, "storing", Downloaded(got[t]))
    /\ body' = got[t].version
    /\ UNCHANGED <<world, entry, session, waits>>

ReturnUncached(t) ==
    /\ \/ got[t].kind = "ok" /\ ~Storable(got[t])
       \/ got[t].kind = "busy" /\ attempt[t] = Attempts
    /\ Return(t, "handling", Downloaded(got[t]))
    /\ UNCHANGED <<world, disk, session, waits>>

Handle(t) == TryAgain(t) \/ Raise(t) \/ Revalidate(t) \/ StoreMetadata(t) \/ ReturnUncached(t)

HttpStep(t) ==
    \/ Hit(t) \/ Miss(t)
    \/ Join(t) \/ Own(t) \/ Answered(t) \/ Leave(t) \/ Signal(t)
    \/ Handle(t) \/ Reopen(t) \/ StoreBody(t)

------------------------------------------------------------------------------------
\* The server has a new page.
Publish ==
    /\ content < MaxVersion
    /\ content' = content + 1
    /\ UNCHANGED <<now, process, disk, session, call>>

Tick ==
    /\ now < MaxTime
    /\ now' = now + 1
    /\ UNCHANGED <<content, process, disk, session, call>>

\* A process is killed, with its threads and its session.
KillSession(p) ==
    /\ pc' = [t \in Threads |-> IF process[t] = p /\ pc[t] \notin Ended THEN "killed" ELSE pc[t]]
    /\ waits' = [t \in Threads |-> IF process[t] = p THEN Nobody ELSE waits[t]]
    /\ inflight_requests' = [inflight_requests EXCEPT ![p] = NoFlights]
    /\ fresh_until' = [fresh_until EXCEPT ![p] = 0]
    /\ UNCHANGED <<world, disk, seen, attempt, got, response>>

------------------------------------------------------------------------------------
\* Every variable has its type.
HttpTypeOK ==
    /\ content \in Versions /\ now \in 0..MaxTime /\ process \in Sharing
    /\ entry \in Metadata /\ body \in Versions \cup {0}
    /\ inflight_requests \in [Processes -> [Key -> Threads \cup {Nobody}]]
    /\ fresh_until \in [Processes -> Nat \cup {Never}]
    /\ pc \in [Threads -> Steps]
    /\ seen \in [Threads -> Metadata]
    /\ attempt \in [Threads -> 0..Attempts]
    /\ waits \in [Threads -> Threads \cup {Nobody}]
    /\ got \in [Threads -> Answer]
    /\ response \in [Threads -> Response]

\* Requests of one process for the same thing are one: a flight that a call can join is asked by
\* exactly one thread, which is still at work on it, and whoever waits, waits for a thread of its
\* process that will set the event. So no retry, failed owner, Ctrl-C or late waiter leaves a flight
\* nobody flies, or takes one off that another thread put there.
OneRequest ==
    /\ \A t \in Threads : pc[t] \in {"sending", "leaving"} => Flight(t) = t
    /\ \A p \in Processes, k \in Key : inflight_requests[p][k] # Nobody =>
        LET u == inflight_requests[p][k]
        IN  process[u] = p /\ RequestKey(u) = k /\ pc[u] \in {"sending", "leaving"}
    /\ \A t \in Threads : pc[t] = "waiting" =>
        /\ waits[t] \in Threads /\ process[waits[t]] = process[t]
        /\ pc[waits[t]] \in {"sending", "leaving", "signalling"}
====
