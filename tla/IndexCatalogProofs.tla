---------------------------- MODULE IndexCatalogProofs ----------------------------
(* Proofs about HttpSession and IndexCatalog: flights are joined, left and signalled *)
(* by their own threads, and the files kept of a page do not run ahead of each other  *)
(* nor stay apart, for any number of threads, processes, versions and retries.        *)
EXTENDS IndexCatalog, TLAPS

USE DEF world, disk, session, call, httpVars, Ended, Go

\* What a step of a lookup changes of the session, apart from response and fresh_until.
SessionVars == <<world, disk, inflight_requests, pc, seen, attempt, waits, got>>

HttpInv == HttpTypeOK /\ OneRequest

------------------------------------------------------------------------------------
LEMMA TypeFacts ==
    /\ NoEntry \in Metadata /\ NoResponse \in Response
    /\ \A kind \in Kinds : Bare(kind) \in Answer
    /\ \A a \in Answer : Downloaded(a) \in Response
    /\ \A v \in Versions \cup {0} : Cached(v) \in Response
    /\ \A m \in Metadata : m.version \in Versions \cup {0}
BY DEF NoEntry, NoResponse, Bare, Answer, Downloaded, Cached, Response, Metadata, Kinds, NoStore

LEMMA HttpInvInit == HttpInit => HttpInv
<1> SUFFICES ASSUME HttpInit PROVE HttpInv
  OBVIOUS
<1>1. entry \in Metadata /\ body \in Versions \cup {0}
  BY BoundsAssumption, LifetimesAssumption, TypeFacts DEF HttpInit, Metadata, Versions, Never, NoStore
<1>2. HttpTypeOK
  <2>1. Bare("error") \in Answer
    BY TypeFacts DEF Kinds
  <2> QED BY <1>1, <2>1, BoundsAssumption, TypeFacts
          DEF HttpInit, HttpTypeOK, Versions, NoFlights, Steps
<1>3. OneRequest
  BY DEF HttpInit, OneRequest, NoFlights, Key
<1> QED BY <1>2, <1>3 DEF HttpInv

------------------------------------------------------------------------------------
(* Types.                                                                           *)

LEMMA ReturnTypes ==
    ASSUME HttpTypeOK, NEW t \in Threads, NEW from, NEW r \in Response, Return(t, from, r)
    PROVE  /\ pc' \in [Threads -> Steps] /\ seen' \in [Threads -> Metadata]
           /\ attempt' \in [Threads -> 0..Attempts] /\ got' \in [Threads -> Answer]
           /\ response' \in [Threads -> Response]
<1>1. Bare("error") \in Answer
  BY TypeFacts DEF Kinds
<1> QED BY <1>1, TypeFacts, BoundsAssumption DEF Return, HttpTypeOK, Steps

LEMMA StoredTypes == ASSUME HttpTypeOK PROVE Stored \in Metadata /\ [Stored EXCEPT !.expires = 0] \in Metadata
<1>1. Stored \in Metadata
  BY TypeFacts DEF Stored, HttpTypeOK
<1>2. \A m \in Metadata : [m EXCEPT !.expires = 0] \in Metadata
  BY DEF Metadata
<1> QED BY <1>1, <1>2

LEMMA RequestTypes ==
    ASSUME HttpTypeOK, NEW t \in Threads, Request(t), UNCHANGED <<world, disk, inflight_requests>>,
           fresh_until' \in [Processes -> Nat \cup {Never}]
    PROVE  HttpTypeOK'
BY StoredTypes DEF Request, HttpTypeOK, Steps

LEMMA OutcomeTypes == ASSUME HttpTypeOK, NEW t \in Threads PROVE Outcomes(t) \subseteq Answer
<1>1. \A l \in Lifetimes : [kind |-> "ok", version |-> content, lifetime |-> l] \in Answer
  BY LifetimesAssumption DEF HttpTypeOK, Answer, Kinds
<1>2. {Bare("error"), Bare("fatal"), Bare("busy"), Bare("unchanged")} \subseteq Answer
  BY TypeFacts DEF Kinds
<1> QED BY <1>1, <1>2 DEF Outcomes

LEMMA StepTypes ==
    ASSUME HttpTypeOK, NEW t \in Threads, HttpStep(t) PROVE HttpTypeOK'
<1> USE BoundsAssumption
<1>1. CASE Hit(t)
  <2>1. Cached(body) \in Response
    BY TypeFacts DEF HttpTypeOK
  <2> QED BY <1>1, <2>1, ReturnTypes DEF Hit, HttpTypeOK
<1>2. CASE Miss(t)
  BY <1>2, StoredTypes, TypeFacts DEF Miss, HttpTypeOK, Steps
<1>3. CASE Join(t)
  <2>1. Flight(t) \in Threads \cup {Nobody}
    BY TypeFacts, SharingAssumption DEF Flight, RequestKey, Key, HttpTypeOK
  <2> QED BY <1>3, <2>1 DEF Join, HttpTypeOK, Steps
<1>4. CASE Own(t)
  BY <1>4, TypeFacts DEF Own, RequestKey, Key, HttpTypeOK, Steps
<1>5. CASE Answered(t)
  BY <1>5, OutcomeTypes DEF Answered, HttpTypeOK, Steps
<1>6. CASE Leave(t)
  BY <1>6 DEF Leave, HttpTypeOK, Steps
<1>7. CASE Signal(t)
  BY <1>7 DEF Signal, HttpTypeOK, Steps
<1>8. CASE TryAgain(t)
  BY <1>8 DEF TryAgain, HttpTypeOK, Steps
<1>9. CASE Raise(t) \/ ReturnUncached(t)
  <2>1. Downloaded(got[t]) \in Response
    BY TypeFacts DEF HttpTypeOK
  <2> QED BY <1>9, <2>1, ReturnTypes DEF Raise, ReturnUncached, HttpTypeOK
<1>10. CASE Revalidate(t)
  <2>1. entry' \in Metadata
    <3>1. seen[t] \in Metadata /\ now \in Nat
      BY DEF HttpTypeOK
    <3>2. \A x \in Nat : [seen[t] EXCEPT !.expires = x] \in Metadata
      BY <3>1 DEF Metadata
    <3>3. seen[t].lifetime # Never => seen[t].lifetime \in Nat
      BY <3>1 DEF Metadata
    <3> QED BY <1>10, <3>1, <3>2, <3>3 DEF Revalidate
  <2> QED BY <1>10, <2>1 DEF Revalidate, HttpTypeOK, Steps
<1>11. CASE Reopen(t)
  <2>1. Cached(body) \in Response
    BY TypeFacts DEF HttpTypeOK
  <2> QED BY <1>11, <2>1, ReturnTypes DEF Reopen, HttpTypeOK
<1>12. CASE StoreMetadata(t)
  <2>1. entry' \in Metadata
    BY <1>12 DEF StoreMetadata, Storable, Expires, Metadata, HttpTypeOK, Answer
  <2> QED BY <1>12, <2>1 DEF StoreMetadata, HttpTypeOK, Steps
<1>13. CASE StoreBody(t)
  <2>1. Downloaded(got[t]) \in Response /\ body' \in Versions \cup {0}
    BY <1>13, TypeFacts DEF StoreBody, HttpTypeOK, Answer
  <2> QED BY <1>13, <2>1, ReturnTypes DEF StoreBody, HttpTypeOK
<1> QED BY <1>1, <1>2, <1>3, <1>4, <1>5, <1>6, <1>7, <1>8, <1>9, <1>10, <1>11, <1>12, <1>13
        DEF HttpStep, Handle

------------------------------------------------------------------------------------
(* Flights.                                                                         *)

\* A step of t that starts and ends outside the flight, with locals of t only.
LEMMA AwayStep ==
    ASSUME HttpTypeOK, OneRequest, NEW t \in Threads, NEW s,
           pc[t] \notin {"sending", "leaving", "signalling", "waiting"},
           s \notin {"sending", "leaving", "waiting"},
           pc' = [pc EXCEPT ![t] = s],
           \A u \in Threads : u # t => seen'[u] = seen[u],
           UNCHANGED <<process, inflight_requests, waits>>
    PROVE  OneRequest'
BY DEF OneRequest, Flight, RequestKey, HttpTypeOK

\* A step of the session's other parts.
LEMMA StillStep ==
    ASSUME OneRequest, UNCHANGED <<process, inflight_requests, waits, pc, seen>> PROVE OneRequest'
BY DEF OneRequest, Flight, RequestKey

LEMMA FlightStep ==
    ASSUME HttpTypeOK, OneRequest, NEW t \in Threads, HttpStep(t) PROVE OneRequest'
<1> USE NobodyAssumption
<1>1. CASE Hit(t) \/ Miss(t) \/ Handle(t) \/ Reopen(t) \/ StoreBody(t)
  <2>1. PICK s \in Steps \ {"sending", "leaving", "waiting"} : pc' = [pc EXCEPT ![t] = s]
    BY <1>1 DEF Hit, Miss, Handle, TryAgain, Raise, Revalidate, StoreMetadata, ReturnUncached,
                Reopen, StoreBody, Return, Steps
  <2>2. pc[t] \notin {"sending", "leaving", "signalling", "waiting"}
    BY <1>1 DEF Hit, Miss, Handle, TryAgain, Raise, Revalidate, StoreMetadata, ReturnUncached,
                Reopen, StoreBody, Return
  <2>3. \A u \in Threads : u # t => seen'[u] = seen[u]
    BY <1>1 DEF Hit, Miss, Handle, TryAgain, Raise, Revalidate, StoreMetadata, ReturnUncached,
                Reopen, StoreBody, Return, HttpTypeOK
  <2>4. UNCHANGED <<process, inflight_requests, waits>>
    BY <1>1 DEF Hit, Miss, Handle, TryAgain, Raise, Revalidate, StoreMetadata, ReturnUncached,
                Reopen, StoreBody
  <2> QED BY <2>1, <2>2, <2>3, <2>4, AwayStep
<1>2. CASE Join(t)
  <2>1. Flight(t) \in Threads /\ RequestKey(t) \in Key /\ process[t] \in Processes
    BY <1>2, TypeFacts, SharingAssumption DEF Join, Flight, RequestKey, Key, HttpTypeOK
  <2>2. process[Flight(t)] = process[t] /\ pc[Flight(t)] \in {"sending", "leaving"}
    BY <1>2, <2>1 DEF Join, OneRequest, Flight
  <2> QED BY <1>2, <2>1, <2>2 DEF Join, OneRequest, Flight, RequestKey, HttpTypeOK
<1>3. CASE Own(t)
  <2>1. RequestKey(t) \in Key /\ process[t] \in Processes
    BY TypeFacts, SharingAssumption DEF RequestKey, Key, HttpTypeOK
  <2>2. \A u \in Threads : pc[u] \in {"sending", "leaving"} =>
            process[u] # process[t] \/ RequestKey(u) # RequestKey(t)
    BY <1>3, <2>1 DEF Own, OneRequest, Flight
  <2>3. \A p \in Processes, k \in Key : inflight_requests'[p][k] =
            IF p = process[t] /\ k = RequestKey(t) THEN t ELSE inflight_requests[p][k]
    BY <1>3, <2>1 DEF Own, HttpTypeOK
  <2>4. /\ pc[t] = "asking" /\ pc' = [pc EXCEPT ![t] = "sending"]
        /\ UNCHANGED <<process, seen, waits>>
    BY <1>3 DEF Own
  <2>5. \A u \in Threads : RequestKey(u) \in Key /\ process[u] \in Processes
    BY TypeFacts, SharingAssumption DEF RequestKey, Key, HttpTypeOK
  <2> QED BY <2>1, <2>2, <2>3, <2>4, <2>5 DEF OneRequest, Flight, RequestKey, HttpTypeOK
<1>4. CASE Answered(t)
  BY <1>4 DEF Answered, OneRequest, Flight, RequestKey, HttpTypeOK
<1>5. CASE Leave(t)
  <2>1. RequestKey(t) \in Key /\ process[t] \in Processes
    BY TypeFacts, SharingAssumption DEF RequestKey, Key, HttpTypeOK
  <2>2. \A p \in Processes, k \in Key : inflight_requests'[p][k] =
            IF p = process[t] /\ k = RequestKey(t) THEN Nobody ELSE inflight_requests[p][k]
    BY <1>5, <2>1 DEF Leave, HttpTypeOK
  <2>3. /\ pc[t] = "leaving" /\ pc' = [pc EXCEPT ![t] = "signalling"]
        /\ UNCHANGED <<process, seen, waits>>
    BY <1>5 DEF Leave
  <2>4. \A u \in Threads : RequestKey(u) \in Key /\ process[u] \in Processes
    BY TypeFacts, SharingAssumption DEF RequestKey, Key, HttpTypeOK
  <2>5. Flight(t) = t
    BY <2>3 DEF OneRequest
  <2> QED BY <2>1, <2>2, <2>3, <2>4, <2>5 DEF OneRequest, Flight, RequestKey, HttpTypeOK
<1>6. CASE Signal(t)
  <2> DEFINE woken == {u \in Threads : pc[u] = "waiting" /\ waits[u] = t}
  <2>1. /\ pc[t] = "signalling" /\ UNCHANGED <<process, inflight_requests, seen>>
        /\ pc' = [u \in Threads |-> IF u \in woken \cup {t} THEN "handling" ELSE pc[u]]
        /\ waits' = [u \in Threads |-> IF u \in woken THEN Nobody ELSE waits[u]]
    BY <1>6 DEF Signal
  <2>2. \A u \in Threads : pc'[u] \in {"sending", "leaving", "signalling", "waiting"} =>
            u # t /\ pc'[u] = pc[u] /\ waits'[u] = waits[u]
    BY <2>1
  <2>3. \A u \in Threads : pc'[u] = "waiting" => waits[u] # t
    BY <2>1
  <2>4. \A u \in Threads : pc[u] \in {"sending", "leaving", "signalling"} /\ u # t => pc'[u] = pc[u]
    BY <2>1
  <2>5. \A u \in Threads : RequestKey(u)' = RequestKey(u) /\ Flight(u)' = Flight(u)
    BY <2>1 DEF RequestKey, Flight
  <2>6. \A u \in Threads : pc'[u] \in {"sending", "leaving"} => Flight(u)' = u
    BY <2>2, <2>5 DEF OneRequest
  <2>7. \A p \in Processes, k \in Key : inflight_requests[p][k] # Nobody =>
            LET u == inflight_requests[p][k]
            IN  process[u] = p /\ RequestKey(u)' = k /\ pc'[u] \in {"sending", "leaving"}
    <3> SUFFICES ASSUME NEW p \in Processes, NEW k \in Key, inflight_requests[p][k] # Nobody
                 PROVE  LET u == inflight_requests[p][k]
                        IN  process[u] = p /\ RequestKey(u)' = k /\ pc'[u] \in {"sending", "leaving"}
      OBVIOUS
    <3>1. inflight_requests[p][k] \in Threads
      BY DEF HttpTypeOK
    <3>2. PICK u \in Threads : u = inflight_requests[p][k]
      BY <3>1
    <3>3. process[u] = p /\ RequestKey(u) = k /\ pc[u] \in {"sending", "leaving"}
      BY <3>2 DEF OneRequest
    <3> QED BY <2>1, <2>4, <2>5, <3>2, <3>3
  <2>8. \A u \in Threads : pc'[u] = "waiting" =>
            /\ waits'[u] \in Threads /\ process[waits'[u]] = process[u]
            /\ pc'[waits'[u]] \in {"sending", "leaving", "signalling"}
    <3> SUFFICES ASSUME NEW u \in Threads, pc'[u] = "waiting"
                 PROVE  /\ waits'[u] \in Threads /\ process[waits'[u]] = process[u]
                        /\ pc'[waits'[u]] \in {"sending", "leaving", "signalling"}
      OBVIOUS
    <3>1. pc[u] = "waiting" /\ waits'[u] = waits[u] /\ waits[u] # t
      BY <2>2, <2>3
    <3>2. /\ waits[u] \in Threads /\ process[waits[u]] = process[u]
          /\ pc[waits[u]] \in {"sending", "leaving", "signalling"}
      BY <3>1 DEF OneRequest
    <3> QED BY <2>4, <3>1, <3>2
  <2> QED BY <2>1, <2>6, <2>7, <2>8 DEF OneRequest
<1> QED BY <1>1, <1>2, <1>3, <1>4, <1>5, <1>6 DEF HttpStep

LEMMA KillFlights ==
    ASSUME HttpTypeOK, OneRequest, NEW p \in Processes, KillSession(p)
    PROVE  HttpTypeOK' /\ OneRequest'
<1>1. HttpTypeOK'
  BY DEF KillSession, HttpTypeOK, NoFlights, Steps
<1>2. \A q \in Processes, k \in Key : inflight_requests'[q][k] =
          IF q = p THEN Nobody ELSE inflight_requests[q][k]
  BY DEF KillSession, NoFlights, HttpTypeOK
<1>3. \A t \in Threads : RequestKey(t) \in Key /\ process[t] \in Processes
  BY TypeFacts, SharingAssumption DEF RequestKey, Key, HttpTypeOK
<1>4. \A t \in Threads : /\ pc'[t] \in Steps \ Ended => process[t] # p /\ pc'[t] = pc[t]
                         /\ process[t] # p => pc'[t] = pc[t] /\ waits'[t] = waits[t]
  BY DEF KillSession, HttpTypeOK
<1>5. process' = process /\ seen' = seen
  BY DEF KillSession
<1>6. \A t \in Threads : RequestKey(t)' = RequestKey(t)
  BY <1>5 DEF RequestKey
<1>7. \A t \in Threads : pc'[t] \in {"sending", "leaving"} => Flight(t)' = t
  <2> SUFFICES ASSUME NEW t \in Threads, pc'[t] \in {"sending", "leaving"} PROVE Flight(t)' = t
    OBVIOUS
  <2>1. process[t] # p /\ pc'[t] = pc[t]
    BY <1>4 DEF Steps
  <2> QED BY <1>2, <1>3, <1>5, <1>6, <2>1 DEF OneRequest, Flight
<1>8. \A q \in Processes, k \in Key : inflight_requests'[q][k] # Nobody =>
          LET u == inflight_requests'[q][k]
          IN  process'[u] = q /\ seen'[u].version = k /\ pc'[u] \in {"sending", "leaving"}
  <2> SUFFICES ASSUME NEW q \in Processes, NEW k \in Key, inflight_requests'[q][k] # Nobody
               PROVE  LET u == inflight_requests'[q][k]
                      IN  process'[u] = q /\ seen'[u].version = k /\ pc'[u] \in {"sending", "leaving"}
    OBVIOUS
  <2>1. q # p /\ inflight_requests'[q][k] = inflight_requests[q][k]
    BY <1>2
  <2>2. PICK u \in Threads : u = inflight_requests[q][k]
    BY <2>1 DEF HttpTypeOK
  <2>3. process[u] = q /\ RequestKey(u) = k /\ pc[u] \in {"sending", "leaving"}
    BY <2>1, <2>2 DEF OneRequest
  <2> QED BY <1>4, <1>5, <2>1, <2>2, <2>3 DEF RequestKey
<1>9. \A t \in Threads : pc'[t] = "waiting" =>
          /\ waits'[t] \in Threads /\ process'[waits'[t]] = process'[t]
          /\ pc'[waits'[t]] \in {"sending", "leaving", "signalling"}
  <2> SUFFICES ASSUME NEW t \in Threads, pc'[t] = "waiting"
               PROVE  /\ waits'[t] \in Threads /\ process'[waits'[t]] = process'[t]
                      /\ pc'[waits'[t]] \in {"sending", "leaving", "signalling"}
    OBVIOUS
  <2>1. process[t] # p /\ pc[t] = "waiting" /\ waits'[t] = waits[t]
    BY <1>4 DEF Steps, Ended
  <2>2. /\ waits[t] \in Threads /\ process[waits[t]] = process[t]
        /\ pc[waits[t]] \in {"sending", "leaving", "signalling"}
    BY <2>1 DEF OneRequest
  <2> QED BY <1>4, <1>5, <2>1, <2>2
<1> QED BY <1>1, <1>7, <1>8, <1>9 DEF OneRequest, RequestKey

LEMMA WaitStep ==
    ASSUME HttpTypeOK, OneRequest, NEW t \in Threads, InterruptedWait(t)
    PROVE  HttpTypeOK' /\ OneRequest'
<1>1. Downloaded(Bare("fatal")) \in Response
  BY TypeFacts DEF Kinds
<1>2. HttpTypeOK'
  BY <1>1, ReturnTypes DEF InterruptedWait, HttpTypeOK
<1>3. /\ pc[t] = "waiting" /\ pc' = [pc EXCEPT ![t] = "idle"]
      /\ waits' = [waits EXCEPT ![t] = Nobody]
      /\ \A u \in Threads : u # t => seen'[u] = seen[u]
      /\ UNCHANGED <<process, inflight_requests>>
  BY DEF InterruptedWait, Return, HttpTypeOK
<1>4. OneRequest'
  BY <1>3 DEF OneRequest, Flight, RequestKey, HttpTypeOK
<1> QED BY <1>2, <1>4

LEMMA RequestFlights ==
    ASSUME HttpTypeOK, OneRequest, NEW t \in Threads, Request(t),
           UNCHANGED <<world, disk, inflight_requests>>
    PROVE  OneRequest'
<1>1. /\ pc[t] = "idle" /\ pc' = [pc EXCEPT ![t] = "opening"]
      /\ \A u \in Threads : u # t => seen'[u] = seen[u]
      /\ UNCHANGED <<process, inflight_requests, waits>>
  BY DEF Request, HttpTypeOK
<1> QED BY <1>1, AwayStep

------------------------------------------------------------------------------------
(* The lookups.                                                                     *)

LEMMA InvInit == Init => TypeOK /\ OneRequest
<1> SUFFICES ASSUME Init PROVE TypeOK /\ OneRequest
  OBVIOUS
<1>1. HttpTypeOK /\ OneRequest
  BY HttpInvInit DEF Init, HttpInv
<1>2. body \in Versions \cup {0}
  BY <1>1 DEF HttpTypeOK
<1>3. catalog \in Versions \cup {0} /\ summary \in Versions \cup {0}
  BY <1>2 DEF Init
<1>4. /\ stage \in [Threads -> Stages] /\ left \in [Threads -> 0..Lookups]
      /\ took \in [Threads -> Versions \cup {0}] /\ clash \in BOOLEAN
  <2>1. /\ stage = [t \in Threads |-> "rest"] /\ left = [t \in Threads |-> Lookups]
        /\ took = [t \in Threads |-> 0] /\ clash = FALSE
    BY DEF Init
  <2>2. stage \in [Threads -> Stages]
    BY <2>1 DEF Stages
  <2>3. left \in [Threads -> 0..Lookups]
    BY <2>1, LookupsAssumption
  <2>4. took \in [Threads -> Versions \cup {0}]
    BY <2>1
  <2> QED BY <2>1, <2>2, <2>3, <2>4
<1> QED BY <1>1, <1>3, <1>4 DEF TypeOK

\* Steps that leave the session alone, but for response and what is known to be fresh.
LEMMA RestTypes ==
    ASSUME HttpTypeOK, OneRequest, UNCHANGED SessionVars,
           fresh_until' \in [Processes -> Nat \cup {Never}],
           response' \in [Threads -> Response]
    PROVE  HttpTypeOK' /\ OneRequest'
BY StillStep DEF SessionVars, HttpTypeOK

LEMMA InvStep == TypeOK /\ OneRequest /\ [Next]_vars => TypeOK' /\ OneRequest'
<1> SUFFICES ASSUME TypeOK, OneRequest, [Next]_vars PROVE TypeOK' /\ OneRequest'
  OBVIOUS
<1> USE LookupsAssumption DEF Stages, To, Takes, Drops, lookup, derived
<1>1. HttpTypeOK
  BY DEF TypeOK
<1>2. Stored \in Metadata /\ Stored.expires \in Nat \cup {Never}
  BY <1>1, StoredTypes DEF Metadata
<1>3. ASSUME NEW t \in Threads, Begin(t), clash' \in BOOLEAN PROVE TypeOK' /\ OneRequest'
  <2>1. fresh_until' \in [Processes -> Nat \cup {Never}]
    BY <1>1, <1>2, <1>3 DEF Begin, HttpTypeOK
  <2>2. HttpTypeOK' /\ OneRequest'
    BY <1>1, <1>3, <2>1, RestTypes DEF Begin, SessionVars, HttpTypeOK
  <2> QED BY <1>3, <2>2 DEF Begin, TypeOK
<1>4. ASSUME NEW t \in Threads, BeginStale(t), clash' \in BOOLEAN PROVE TypeOK' /\ OneRequest'
  <2>1. fresh_until' \in [Processes -> Nat \cup {Never}]
    BY <1>1, <1>4 DEF BeginStale, HttpTypeOK
  <2>2. HttpTypeOK' /\ OneRequest'
    BY <1>1, <1>4, <2>1, RequestTypes, RequestFlights DEF BeginStale
  <2> QED BY <1>4, <2>2 DEF BeginStale, TypeOK
<1>5. ASSUME NEW t \in Threads, NoSummary(t), clash' \in BOOLEAN PROVE TypeOK' /\ OneRequest'
  <2>1. HttpTypeOK' /\ OneRequest'
    BY <1>1, <1>5, RequestTypes, RequestFlights DEF NoSummary, HttpTypeOK
  <2> QED BY <1>5, <2>1 DEF NoSummary, TypeOK
<1>6. ASSUME NEW t \in Threads, clash' \in BOOLEAN,
             UseSummary(t) \/ Compile(t) \/ SaveCompiled(t) \/ Chosen(t) \/ Embed(t)
             \/ SaveEmbedded(t) \/ SaveCatalog(t) \/ SaveSummary(t)
      PROVE  TypeOK' /\ OneRequest'
  <2>1. UNCHANGED httpVars
    BY <1>6 DEF UseSummary, Compile, SaveCompiled, Chosen, Embed, SaveEmbedded, SaveCatalog, SaveSummary
  <2>2. HttpTypeOK' /\ OneRequest'
    BY <1>1, <2>1, RestTypes DEF SessionVars, HttpTypeOK
  <2> QED BY <1>6, <2>2 DEF UseSummary, Compile, SaveCompiled, Chosen, Embed, SaveEmbedded,
                            SaveCatalog, SaveSummary, TypeOK
<1>7. ASSUME NEW t \in Threads, GetStep(t), clash' \in BOOLEAN PROVE TypeOK' /\ OneRequest'
  BY <1>1, <1>7, StepTypes, FlightStep DEF GetStep, TypeOK
<1>8. ASSUME NEW t \in Threads, Interrupted(t), clash' \in BOOLEAN PROVE TypeOK' /\ OneRequest'
  BY <1>1, <1>8, WaitStep DEF Interrupted, TypeOK
<1>9. ASSUME NEW t \in Threads, TakeLinks(t) \/ Parse(t), clash' \in BOOLEAN
      PROVE  TypeOK' /\ OneRequest'
  <2>1. response[t].body \in Versions \cup {0}
    BY <1>1 DEF HttpTypeOK, Response
  <2>2. HttpTypeOK' /\ OneRequest'
    BY <1>1, <1>9, TypeFacts, RestTypes DEF TakeLinks, Parse, Forgets, SessionVars, HttpTypeOK
  <2> QED BY <1>9, <2>1, <2>2 DEF TakeLinks, Parse, TypeOK
<1>10. CASE (Publish \/ Tick) /\ UNCHANGED <<lookup, derived>> /\ clash' \in BOOLEAN
  <2>1. HttpTypeOK' /\ OneRequest'
    BY <1>1, <1>10, StillStep, BoundsAssumption DEF Publish, Tick, HttpTypeOK, Versions
  <2> QED BY <1>10, <2>1 DEF TypeOK
<1>11. ASSUME NEW p \in Processes, KillProcess(p), clash' \in BOOLEAN PROVE TypeOK' /\ OneRequest'
  <2>1. HttpTypeOK' /\ OneRequest'
    BY <1>1, <1>11, KillFlights DEF KillProcess
  <2> QED BY <1>11, <2>1 DEF KillProcess, TypeOK
<1>12. CASE UNCHANGED vars
  BY <1>1, <1>12, RestTypes DEF vars, SessionVars, TypeOK, HttpTypeOK
<1>13. Next => clash' \in BOOLEAN
  BY DEF Next, TypeOK, Clashing
<1> QED BY <1>3, <1>4, <1>5, <1>6, <1>7, <1>8, <1>9, <1>10, <1>11, <1>12, <1>13
        DEF Next, LookupStep

LEMMA Invariance == Spec => [](TypeOK /\ OneRequest)
<1>1. Init => TypeOK /\ OneRequest
  BY InvInit
<1>2. TypeOK /\ OneRequest /\ [Next]_vars => (TypeOK /\ OneRequest)'
  BY InvStep
<1> QED BY <1>1, <1>2, PTL DEF Spec

\* Every variable of the session and of the lookups keeps its type.
THEOREM Typing == Spec => []TypeOK
BY Invariance, PTL

\* open_coalesced: whoever waits, waits for a thread of its process that is at work on the request and
\* will signal, and a flight is asked, left and taken off by one thread, for any number of threads.
THEOREM RequestsAreShared == Spec => []OneRequest
BY Invariance, PTL

------------------------------------------------------------------------------------
(* What a thread knows of its call, whatever met: the shapes of the locals.          *)

HasAnswer(t) == got[t].kind \in {"ok", "unchanged"}
Fetched(t) == Got(t) /\ response[t].kind = "ok" /\ ~response[t].from_cache
DiskUpTo(v) == entry.version <= v /\ body <= v /\ catalog <= v /\ summary <= v

\* Nothing is newer than the page.
Bounded ==
    /\ DiskUpTo(content)
    /\ \A t \in Threads : /\ seen[t].version <= content /\ got[t].version <= content
                          /\ response[t].body <= content /\ took[t] <= content

Shape(t) ==
    /\ IF stage[t] = "page" THEN pc[t] # "killed" ELSE pc[t] = "idle"
    /\ took[t] = 0 <=> stage[t] \in {"rest", "summarising", "page"}
    /\ pc[t] \in {"idle", "opening", "asking", "sending", "waiting"} => got[t].kind \in {"error", "busy"}
    /\ got[t].version # 0 <=> got[t].kind = "ok"
    /\ got[t].kind = "unchanged" => seen[t].version # 0
    /\ pc[t] = "storing" => got[t].kind = "ok"
    /\ pc[t] = "reopening" => got[t].kind = "unchanged"
    /\ pc[t] = "idle" => seen[t] = NoEntry
    /\ seen[t] # NoEntry => body # 0
    /\ response[t].body # 0 <=> response[t].kind = "ok"
    /\ response[t].from_cache => response[t].kind = "ok"
    /\ pc[t] = "waiting" => RequestKey(waits[t]) = RequestKey(t) /\ stage[waits[t]] # "killed"

Shaped == \A t \in Threads : IF stage[t] = "killed" THEN pc[t] \in Ended ELSE Shape(t)

Typed == TypeOK /\ OneRequest

\* A step leaves the locals of a thread alone.
Unmoved(t) ==
    /\ stage'[t] = stage[t] /\ took'[t] = took[t] /\ pc'[t] = pc[t] /\ seen'[t] = seen[t]
    /\ waits'[t] = waits[t] /\ got'[t] = got[t] /\ response'[t] = response[t]

\* The steps of a lookup that change the locals of one thread.
Solo(t) ==
    \/ Begin(t) \/ BeginStale(t) \/ UseSummary(t) \/ Compile(t) \/ SaveCompiled(t) \/ NoSummary(t)
    \/ Chosen(t) \/ Embed(t) \/ SaveEmbedded(t) \/ TakeLinks(t) \/ Parse(t) \/ SaveCatalog(t)
    \/ SaveSummary(t) \/ Interrupted(t)
    \/ /\ Hit(t) \/ Miss(t) \/ Join(t) \/ Own(t) \/ Answered(t) \/ Leave(t) \/ Handle(t)
          \/ Reopen(t) \/ StoreBody(t)
       /\ stage[t] = "page" /\ UNCHANGED <<lookup, derived>>

LEMMA StepKinds ==
    ASSUME Next
    PROVE  \/ \E t \in Threads : Solo(t)
           \/ \E t \in Threads : Signal(t) /\ stage[t] = "page" /\ UNCHANGED <<lookup, derived>>
           \/ (Publish \/ Tick) /\ UNCHANGED <<lookup, derived>>
           \/ \E p \in Processes : KillProcess(p)
BY DEF Next, LookupStep, GetStep, HttpStep, Solo

LEMMA SoloLeaves ==
    ASSUME TypeOK, NEW t \in Threads, Solo(t), NEW u \in Threads \ {t}
    PROVE  Unmoved(u) /\ process' = process /\ content' = content
<1> USE DEF TypeOK, HttpTypeOK, Unmoved, To, Takes, Drops, lookup, derived
<1>1. CASE (Hit(t) \/ Miss(t) \/ Join(t) \/ Own(t) \/ Answered(t) \/ Leave(t)) /\ UNCHANGED lookup
  BY <1>1 DEF Solo, Hit, Miss, Join, Own, Answered, Leave, Return
<1>2. CASE (Handle(t) \/ Reopen(t) \/ StoreBody(t)) /\ UNCHANGED lookup
  BY <1>2 DEF Handle, TryAgain, Raise, Revalidate, StoreMetadata, ReturnUncached, Reopen, StoreBody, Return
<1>3. CASE Begin(t) \/ BeginStale(t) \/ NoSummary(t)
  BY <1>3 DEF Begin, BeginStale, NoSummary, Request
<1>4. CASE UseSummary(t) \/ Compile(t) \/ SaveCompiled(t) \/ Chosen(t) \/ Embed(t) \/ SaveEmbedded(t)
           \/ SaveCatalog(t) \/ SaveSummary(t)
  BY <1>4 DEF UseSummary, Compile, SaveCompiled, Chosen, Embed, SaveEmbedded, SaveCatalog, SaveSummary
<1>5. CASE TakeLinks(t) \/ Parse(t) \/ Interrupted(t)
  BY <1>5 DEF TakeLinks, Parse, Forgets, Interrupted, InterruptedWait, Return
<1> QED BY <1>1, <1>2, <1>3, <1>4, <1>5 DEF Solo

LEMMA VersionFacts ==
    /\ \A kind : Bare(kind).version = 0 /\ Bare(kind).kind = kind
    /\ NoEntry.version = 0 /\ NoResponse.body = 0 /\ NoResponse.kind = "error"
    /\ NoEntry.expires = 0 /\ ~NoResponse.from_cache
    /\ \A a \in Answer : Downloaded(a).body = a.version /\ Downloaded(a).kind = a.kind
                         /\ ~Downloaded(a).from_cache
    /\ \A v : Cached(v).body = v /\ Cached(v).kind = "ok" /\ Cached(v).from_cache
    /\ \A m \in Metadata : \A x : [m EXCEPT !.expires = x].version = m.version
BY DEF Bare, NoEntry, NoResponse, Downloaded, Cached, Metadata

LEMMA Numbers ==
    ASSUME TypeOK
    PROVE  /\ content \in Nat /\ body \in Nat /\ catalog \in Nat /\ summary \in Nat
           /\ entry \in Metadata /\ entry.version \in Nat
           /\ \A t \in Threads : /\ seen[t].version \in Nat /\ got[t].version \in Nat
                                 /\ response[t].body \in Nat /\ took[t] \in Nat
                                 /\ seen[t] \in Metadata /\ got[t] \in Answer /\ response[t] \in Response
<1>1. Versions \cup {0} \subseteq Nat
  BY BoundsAssumption DEF Versions
<1>2. content \in Nat /\ body \in Nat /\ catalog \in Nat /\ summary \in Nat /\ entry \in Metadata
  BY <1>1 DEF TypeOK, HttpTypeOK
<1>3. \A t \in Threads : /\ took[t] \in Versions \cup {0}
                         /\ seen[t] \in Metadata /\ got[t] \in Answer /\ response[t] \in Response
  BY DEF TypeOK, HttpTypeOK
<1>4. /\ \A m \in Metadata : m.version \in Versions \cup {0}
      /\ \A a \in Answer : a.version \in Versions \cup {0}
      /\ \A r \in Response : r.body \in Versions \cup {0}
  BY DEF Metadata, Answer, Response
<1> QED BY <1>1, <1>2, <1>3, <1>4

\* Where a step finds the versions it leaves behind.
LEMMA Sources ==
    ASSUME TypeOK, NEW t \in Threads, Solo(t)
    PROVE  /\ seen'[t].version \in {0, seen[t].version, entry.version}
           /\ got'[t].version \in {0, got[t].version, content}
           /\ response'[t].body \in {0, response[t].body, body, got[t].version}
           /\ took'[t] \in {0, took[t], catalog, summary, response[t].body}
           /\ entry'.version \in {entry.version, seen[t].version, got[t].version}
           /\ body' \in {body, got[t].version}
           /\ catalog' \in {catalog, took[t]} /\ summary' \in {summary, took[t]}
<1> USE Numbers, VersionFacts DEF To, Takes, Drops, lookup, derived, TypeOK, HttpTypeOK
<1>0. Stored.version \in {0, entry.version} /\ Stored \in Metadata
  BY StoredTypes DEF Stored
<1>1. CASE (Hit(t) \/ Join(t) \/ Own(t) \/ Leave(t)) /\ UNCHANGED <<lookup, derived>>
  BY <1>0, <1>1 DEF Hit, Join, Own, Leave, Return
<1>8. CASE Miss(t) /\ UNCHANGED <<lookup, derived>>
  <2>1. [Stored EXCEPT !.expires = 0].version = Stored.version
    BY <1>0, VersionFacts
  <2>2. seen'[t].version \in {0, Stored.version}
    BY <1>8, <2>1 DEF Miss
  <2> QED BY <1>0, <1>8, <2>2 DEF Miss
<1>2. CASE Answered(t) /\ UNCHANGED <<lookup, derived>>
  <2>1. \A a \in Outcomes(t) : a.version \in {0, content}
    BY DEF Outcomes
  <2> QED BY <1>2, <2>1 DEF Answered
<1>3. CASE (TryAgain(t) \/ Raise(t) \/ ReturnUncached(t) \/ Reopen(t) \/ StoreBody(t)) /\ UNCHANGED <<lookup, derived>>
  BY <1>3 DEF TryAgain, Raise, ReturnUncached, Reopen, StoreBody, Return
<1>4. CASE (Revalidate(t) \/ StoreMetadata(t)) /\ UNCHANGED <<lookup, derived>>
  <2>1. Revalidate(t) => entry'.version = seen[t].version
    BY VersionFacts DEF Revalidate
  <2>2. StoreMetadata(t) => entry'.version = got[t].version
    BY DEF StoreMetadata
  <2> QED BY <1>4, <2>1, <2>2 DEF Revalidate, StoreMetadata
<1>5. CASE Begin(t) \/ BeginStale(t) \/ NoSummary(t)
  BY <1>0, <1>5 DEF Begin, BeginStale, NoSummary, Request
<1>6. CASE UseSummary(t) \/ Compile(t) \/ SaveCompiled(t) \/ Chosen(t) \/ Embed(t) \/ SaveEmbedded(t)
           \/ SaveCatalog(t) \/ SaveSummary(t)
  BY <1>6 DEF UseSummary, Compile, SaveCompiled, Chosen, Embed, SaveEmbedded, SaveCatalog, SaveSummary
<1>7. CASE TakeLinks(t) \/ Parse(t) \/ Interrupted(t)
  <2>1. Bare("fatal") \in Answer
    BY TypeFacts DEF Kinds
  <2> QED BY <1>7, <2>1 DEF TakeLinks, Parse, Forgets, Interrupted, InterruptedWait, Return
<1> QED BY <1>1, <1>2, <1>3, <1>4, <1>5, <1>6, <1>7, <1>8 DEF Solo, Handle

LEMMA BoundedStep == ASSUME Typed, TypeOK', Bounded, [Next]_vars PROVE Bounded'
<1> USE Numbers, VersionFacts DEF Typed, Bounded, DiskUpTo
<1>1. ASSUME NEW t \in Threads, Solo(t) PROVE Bounded'
  <2>1. content' = content /\ \A u \in Threads \ {t} : Unmoved(u)
    BY <1>1, SoloLeaves DEF Solo, Hit, Miss, Join, Own, Answered, Leave, Handle, TryAgain, Raise, Revalidate,
         StoreMetadata, ReturnUncached, Reopen, StoreBody, Begin, BeginStale, NoSummary, UseSummary,
         Compile, SaveCompiled, Chosen, Embed, SaveEmbedded, SaveCatalog, SaveSummary, TakeLinks,
         Parse, Forgets, Interrupted, InterruptedWait
  <2> HIDE DEF Bounded, DiskUpTo
  <2>2. DiskUpTo(content)'
    BY <1>1, <2>1, Sources DEF Bounded, DiskUpTo
  <2>3. seen'[t].version <= content' /\ got'[t].version <= content'
        /\ response'[t].body <= content' /\ took'[t] <= content'
    BY <1>1, <2>1, Sources DEF Bounded, DiskUpTo
  <2> QED BY <2>1, <2>2, <2>3 DEF Bounded, Unmoved
<1>2. ASSUME NEW t \in Threads, Signal(t), UNCHANGED <<lookup, derived>> PROVE Bounded'
  BY <1>2 DEF Signal, TypeOK, HttpTypeOK, lookup, derived
<1>3. CASE (Publish \/ Tick) /\ UNCHANGED <<lookup, derived>>
  BY <1>3 DEF Publish, Tick, lookup, derived
<1>4. ASSUME NEW p \in Processes, KillProcess(p) PROVE Bounded'
  BY <1>4 DEF KillProcess, KillSession, derived
<1>5. CASE UNCHANGED vars
  BY <1>5 DEF vars, lookup, derived
<1> QED BY <1>1, <1>2, <1>3, <1>4, <1>5, StepKinds

\* A thread that a step leaves alone, and whose flight it does.
LEMMA ShapeStays ==
    ASSUME NEW u \in Threads, Shape(u), Unmoved(u), body # 0 => body' # 0,
           pc[u] = "waiting" => /\ seen'[waits[u]].version = seen[waits[u]].version
                                /\ stage'[waits[u]] # "killed"
    PROVE  Shape(u)'
BY DEF Shape, Unmoved, RequestKey

\* The body that is there when a step needs one stays.
LEMMA BodyStays ==
    ASSUME TypeOK, NEW t \in Threads, Solo(t), Shape(t), body # 0 PROVE body' # 0
<1>1. CASE StoreBody(t)
  BY <1>1 DEF StoreBody, Shape, Return, Solo
<1>2. CASE ~StoreBody(t)
  BY <1>2 DEF Solo, Hit, Miss, Join, Own, Answered, Leave, Handle, TryAgain, Raise, Revalidate,
         StoreMetadata, ReturnUncached, Reopen, StoreBody, Begin, BeginStale, NoSummary, UseSummary,
         Compile, SaveCompiled, Chosen, Embed, SaveEmbedded, SaveCatalog, SaveSummary, TakeLinks,
         Parse, Forgets, Interrupted, InterruptedWait
<1> QED BY <1>1, <1>2

LEMMA OwnShape ==
    ASSUME Typed, Bounded, Shaped, NEW t \in Threads, Solo(t), stage[t] # "killed" PROVE Shape(t)'
<1> USE Numbers, VersionFacts, TypeFacts DEF To, Takes, Drops, lookup, derived, Typed, TypeOK, HttpTypeOK
<1>0. Shape(t) /\ (Stored # NoEntry => body # 0) /\ Stored \in Metadata
  BY StoredTypes DEF Shaped, Stored
<1>1. CASE Begin(t) \/ BeginStale(t) \/ NoSummary(t)
  BY <1>0, <1>1 DEF Begin, BeginStale, NoSummary, Request, Shape
<1>2. CASE UseSummary(t) \/ Compile(t)
  BY <1>0, <1>2 DEF UseSummary, Compile, Shape
<1>3. CASE SaveCompiled(t) \/ Chosen(t) \/ Embed(t) \/ SaveEmbedded(t) \/ SaveCatalog(t) \/ SaveSummary(t)
  BY <1>0, <1>3 DEF SaveCompiled, Chosen, Embed, SaveEmbedded, SaveCatalog, SaveSummary, Shape
<1>4. CASE TakeLinks(t)
  BY <1>0, <1>4 DEF TakeLinks, Got, Forgets, Shape
<1>5. CASE Parse(t)
  BY <1>0, <1>5 DEF Parse, Got, Forgets, Shape
<1>6. CASE Interrupted(t)
  <2>1. Bare("fatal") \in Answer
    BY DEF Kinds
  <2> QED BY <1>0, <1>6, <2>1 DEF Interrupted, InterruptedWait, Return, Shape
<1>7. CASE (Hit(t) \/ Reopen(t)) /\ stage[t] = "page" /\ UNCHANGED <<lookup, derived>>
  <2>1. seen[t] # NoEntry
    BY <1>0, <1>7 DEF Hit, IsFresh, Reopen, Return, Shape
  <2>2. body # 0
    BY <1>0, <2>1 DEF Shape
  <2> QED BY <1>0, <1>7, <2>2 DEF Hit, Reopen, Return, Shape
<1>8. CASE Miss(t) /\ stage[t] = "page" /\ UNCHANGED <<lookup, derived>>
  <2>1. [NoEntry EXCEPT !.expires = 0] = NoEntry
    BY DEF NoEntry
  <2>2. seen'[t] # NoEntry => body # 0
    BY <1>0, <1>8, <2>1 DEF Miss
  <2> QED BY <1>0, <1>8, <2>2 DEF Miss, Shape
<1>9. CASE Join(t) /\ stage[t] = "page" /\ UNCHANGED <<lookup, derived>>
  <2>1. RequestKey(t) \in Key /\ process[t] \in Processes
    BY SharingAssumption DEF RequestKey, Key
  <2>2. PICK w \in Threads : w = Flight(t)
    BY <1>9, <2>1 DEF Join, Flight
  <2>3. process[w] = process[t] /\ RequestKey(w) = RequestKey(t) /\ pc[w] \in {"sending", "leaving"}
    BY <1>9, <2>1, <2>2 DEF Join, OneRequest, Flight
  <2>4. stage[w] # "killed"
    BY <2>3 DEF Shaped
  <2> QED BY <1>0, <1>9, <2>2, <2>3, <2>4 DEF Join, Shape, RequestKey
<1>10. CASE (Own(t) \/ Leave(t) \/ TryAgain(t)) /\ stage[t] = "page" /\ UNCHANGED <<lookup, derived>>
  BY <1>0, <1>10 DEF Own, Leave, TryAgain, Shape
<1>11. CASE Answered(t) /\ stage[t] = "page" /\ UNCHANGED <<lookup, derived>>
  <2>1. \A a \in Outcomes(t) : /\ a.version # 0 <=> a.kind = "ok"
                               /\ a.kind = "unchanged" => seen[t].version # 0
    BY BoundsAssumption DEF Outcomes, Versions
  <2> QED BY <1>0, <1>11, <2>1 DEF Answered, Shape
<1>12. CASE (Raise(t) \/ ReturnUncached(t) \/ StoreBody(t)) /\ stage[t] = "page" /\ UNCHANGED <<lookup, derived>>
  <2>1. Downloaded(got[t]).body # 0 <=> Downloaded(got[t]).kind = "ok"
    BY <1>0 DEF Shape
  <2> QED BY <1>0, <1>12, <2>1 DEF Raise, ReturnUncached, StoreBody, Return, Shape
<1>13. CASE (Revalidate(t) \/ StoreMetadata(t)) /\ stage[t] = "page" /\ UNCHANGED <<lookup, derived>>
  BY <1>0, <1>13 DEF Revalidate, StoreMetadata, Storable, Shape
<1> QED BY <1>1, <1>2, <1>3, <1>4, <1>5, <1>6, <1>7, <1>8, <1>9, <1>10, <1>11, <1>12, <1>13 DEF Solo, Handle

LEMMA ShapedStep == ASSUME Typed, Typed', Bounded, Shaped, [Next]_vars PROVE Shaped'
<1> USE Numbers, VersionFacts DEF Typed
<1>1. ASSUME NEW t \in Threads, Solo(t) PROVE Shaped'
  <2>1. stage[t] # "killed" /\ stage'[t] # "killed"
    BY <1>1 DEF Solo, To, Begin, BeginStale, NoSummary, UseSummary, Compile, SaveCompiled, Chosen, Embed,
         SaveEmbedded, SaveCatalog, SaveSummary, TakeLinks, Parse, Interrupted, InterruptedWait, Return,
         Shaped, lookup, TypeOK
  <2>2. Shape(t) /\ Shape(t)'
    BY <1>1, <2>1, OwnShape DEF Shaped
  <2>3. \A u \in Threads \ {t} : Unmoved(u)
    BY <1>1, SoloLeaves
  <2>4. body # 0 => body' # 0
    BY <1>1, <2>2, BodyStays
  <2>5. ASSUME NEW u \in Threads \ {t}, stage[u] # "killed" PROVE Shape(u)'
    <3>1. Shape(u) /\ Unmoved(u)
      BY <2>3, <2>5 DEF Shaped
    <3>2. CASE pc[u] = "waiting"
      <4>1. waits[u] \in Threads /\ pc[waits[u]] \in {"sending", "leaving", "signalling"}
            /\ stage[waits[u]] # "killed"
        BY <3>1, <3>2 DEF OneRequest, Shape
      <4>2. CASE waits[u] # t
        <5>1. Unmoved(waits[u])
          BY <2>3, <4>1, <4>2
        <5> QED BY <2>4, <3>1, <4>1, <5>1, ShapeStays DEF Unmoved
      <4>3. CASE waits[u] = t
        <5>1. (Answered(t) \/ Leave(t)) /\ UNCHANGED lookup
          BY <1>1, <2>2, <4>1, <4>3 DEF Solo, Hit, Miss, Join, Own, Handle, TryAgain, Raise, Revalidate,
             StoreMetadata, ReturnUncached, Reopen, StoreBody, Return, Begin, BeginStale, NoSummary, Request,
             UseSummary, Compile, SaveCompiled, Chosen, Embed, SaveEmbedded, SaveCatalog, SaveSummary,
             TakeLinks, Parse, Interrupted, InterruptedWait, To, Got, Shape
        <5>2. seen' = seen
          BY <5>1 DEF Answered, Leave
        <5> QED BY <2>1, <2>4, <3>1, <4>3, <5>2, ShapeStays
      <4> QED BY <4>2, <4>3
    <3> QED BY <2>4, <3>1, <3>2, ShapeStays
  <2>6. \A u \in Threads \ {t} : stage'[u] = stage[u] /\ pc'[u] = pc[u]
    BY <2>3 DEF Unmoved
  <2> QED BY <2>1, <2>2, <2>5, <2>6 DEF Shaped
<1>2. ASSUME NEW t \in Threads, Signal(t), stage[t] = "page", UNCHANGED <<lookup, derived>> PROVE Shaped'
  <2> DEFINE woken == {u \in Threads : pc[u] = "waiting" /\ waits[u] = t}
  <2>1. /\ pc[t] = "signalling" /\ UNCHANGED <<world, disk, session, seen, attempt, response>>
        /\ pc' = [u \in Threads |-> IF u \in woken \cup {t} THEN "handling" ELSE pc[u]]
        /\ got' = [u \in Threads |-> IF u \in woken THEN got[t] ELSE got[u]]
        /\ waits' = [u \in Threads |-> IF u \in woken THEN Nobody ELSE waits[u]]
    BY <1>2 DEF Signal
  <2>2. Shape(t) /\ stage' = stage /\ took' = took /\ seen' = seen /\ body' = body /\ response' = response
    BY <1>2, <2>1 DEF Shaped, lookup
  <2>3. ASSUME NEW u \in woken PROVE stage[u] # "killed" /\ Shape(u)'
    <3>1. stage[u] # "killed" /\ Shape(u) /\ RequestKey(t) = RequestKey(u)
      BY DEF Shaped, Shape
    <3>2. pc'[u] = "handling" /\ got'[u] = got[t]
      BY <2>1
    <3>3. stage[u] = "page"
      BY <3>1 DEF Shape
    <3> QED BY <2>2, <3>1, <3>2, <3>3 DEF Shape, RequestKey
  <2>4. Shape(t)'
    BY <2>1, <2>2 DEF Shape
  <2>5. ASSUME NEW u \in Threads \ (woken \cup {t}) PROVE Unmoved(u) /\ (stage[u] # "killed" => Shape(u)')
    <3>1. Unmoved(u)
      BY <2>1, <2>2 DEF Unmoved
    <3>2. stage[u] # "killed" /\ pc[u] = "waiting" => stage[waits[u]] # "killed"
      BY DEF Shaped, Shape
    <3> QED BY <2>2, <3>1, <3>2, ShapeStays DEF Shaped
  <2> QED BY <1>2, <2>2, <2>3, <2>4, <2>5 DEF Shaped, Unmoved
<1>3. CASE (Publish \/ Tick) /\ UNCHANGED <<lookup, derived>>
  BY <1>3 DEF Publish, Tick, lookup, derived, Shaped, Shape, RequestKey, Got
<1>4. ASSUME NEW p \in Processes, KillProcess(p) PROVE Shaped'
  <2>1. /\ stage' = [t \in Threads |-> IF process[t] = p /\ Works(t) THEN "killed" ELSE stage[t]]
        /\ took' = [t \in Threads |-> IF process[t] = p THEN 0 ELSE took[t]]
        /\ pc' = [t \in Threads |-> IF process[t] = p /\ pc[t] \notin Ended THEN "killed" ELSE pc[t]]
        /\ waits' = [t \in Threads |-> IF process[t] = p THEN Nobody ELSE waits[t]]
        /\ UNCHANGED <<world, disk, seen, attempt, got, response>>
    BY <1>4 DEF KillProcess, KillSession
  <2>2. ASSUME NEW u \in Threads, stage'[u] = "killed" PROVE pc'[u] \in Ended
    BY <2>1, <2>2 DEF Shaped, Works
  <2>3. ASSUME NEW u \in Threads, stage'[u] # "killed" PROVE Shape(u)'
    <3>1. stage[u] # "killed" /\ Shape(u) /\ (process[u] = p => stage[u] = "rest")
      BY <2>1, <2>3 DEF Shaped, Works
    <3>2. CASE process[u] = p
      <4>1. pc[u] = "idle" /\ took[u] = 0
        BY <3>1, <3>2 DEF Shape
      <4>2. /\ stage'[u] = "rest" /\ took'[u] = 0 /\ pc'[u] = "idle"
            /\ seen' = seen /\ got' = got /\ body' = body /\ response' = response
        BY <2>1, <2>3, <3>1, <3>2, <4>1
      <4> QED BY <3>1, <3>2, <4>1, <4>2 DEF Shape
    <3>3. CASE process[u] # p
      <4>1. Unmoved(u)
        BY <2>1, <3>3 DEF Unmoved
      <4>2. pc[u] = "waiting" => /\ waits[u] \in Threads /\ process[waits[u]] # p /\ stage[waits[u]] # "killed"
        BY <3>1, <3>3 DEF OneRequest, Shape
      <4> QED BY <2>1, <3>1, <4>1, <4>2, ShapeStays
    <3> QED BY <3>2, <3>3
  <2> QED BY <2>2, <2>3 DEF Shaped
<1>5. CASE UNCHANGED vars
  BY <1>5 DEF vars, lookup, derived, Shaped, Shape, RequestKey
<1> QED BY <1>1, <1>2, <1>3, <1>4, <1>5, StepKinds

------------------------------------------------------------------------------------
(* While no two threads have different versions in hand, whoever has one is up to date *)
(* with the disk.                                                                    *)

Current(t) ==
    /\ seen[t].version <= entry.version
    /\ HasAnswer(t) \/ Fetched(t) => DiskUpTo(InHand(t))
    /\ pc[t] = "storing" => entry.version = got[t].version
    /\ Got(t) /\ response[t].from_cache => response[t].body = body
    /\ stage[t] = "saving" => body <= took[t] /\ catalog <= took[t] /\ summary <= took[t]
    /\ stage[t] \in {"compiling", "summing"} => took[t] = catalog
    /\ stage[t] \in {"choosing", "embedding"} => took[t] = summary

AllCurrent == \A t \in Threads : stage[t] # "killed" => Current(t)

NeverAhead == summary <= catalog /\ body <= entry.version

\* A step changes the disk to nothing but the version h.
Writes(h) ==
    /\ entry'.version \in {entry.version, h} /\ entry.version <= entry'.version
    /\ body' \in {body, h} /\ catalog' \in {catalog, h} /\ summary' \in {summary, h}

LEMMA HandTypes == ASSUME TypeOK, NEW t \in Threads PROVE InHand(t) \in Nat
BY Numbers DEF InHand

LEMMA HandStays ==
    ASSUME NEW u \in Threads, Unmoved(u)
    PROVE  InHand(u)' = InHand(u) /\ Got(u)' = Got(u) /\ HasAnswer(u)' = HasAnswer(u) /\ Fetched(u)' = Fetched(u)
BY DEF Unmoved, InHand, Got, HasAnswer, Fetched

\* What other threads write has the version in a thread's hand, if it has any.
LEMMA StaysCurrent ==
    ASSUME TypeOK, TypeOK', NEW u \in Threads, stage[u] # "killed", Shape(u), Current(u), Unmoved(u),
           NEW h \in Nat, Writes(h), InHand(u) \in {0, h}
    PROVE  Current(u)'
<1> USE Numbers
<1>1. entry'.version \in Nat /\ body' \in Nat /\ catalog' \in Nat /\ summary' \in Nat
  <2>1. Versions \cup {0} \subseteq Nat
    BY BoundsAssumption DEF Versions
  <2> QED BY <2>1, TypeFacts DEF TypeOK, HttpTypeOK
<1>2. seen'[u].version <= entry'.version
  BY <1>1 DEF Unmoved, Current, Writes
<1>3. HasAnswer(u) \/ Fetched(u) => DiskUpTo(InHand(u))'
  <2> SUFFICES ASSUME HasAnswer(u) \/ Fetched(u) PROVE DiskUpTo(InHand(u))'
    OBVIOUS
  <2>1. DiskUpTo(InHand(u)) /\ InHand(u) # 0
    BY DEF Current, Shape, HasAnswer, Fetched, Got, InHand
  <2>2. InHand(u)' = InHand(u)
    BY HandStays
  <2> QED BY <1>1, <2>1, <2>2 DEF DiskUpTo, Writes
<1>4. pc[u] = "storing" => entry'.version = got[u].version
  BY DEF Current, Shape, Writes, InHand, Got
<1>5. Got(u) /\ response[u].from_cache => response[u].body = body'
  BY DEF Current, Shape, Writes, InHand, Got
<1>6. stage[u] = "saving" => body' <= took[u] /\ catalog' <= took[u] /\ summary' <= took[u]
  BY <1>1 DEF Current, Shape, Writes, InHand
<1>7. /\ stage[u] \in {"compiling", "summing"} => took[u] = catalog'
      /\ stage[u] \in {"choosing", "embedding"} => took[u] = summary'
  BY DEF Current, Shape, Writes, InHand
<1> QED BY <1>2, <1>3, <1>4, <1>5, <1>6, <1>7, HandStays DEF Current, Unmoved

\* A thread writes what it has in hand, and only what is up to date.
LEMMA WritesHand ==
    ASSUME Typed, TypeOK', Shaped, NEW t \in Threads, Solo(t), stage[t] # "killed", Current(t), NeverAhead
    PROVE  /\ Writes(InHand(t)) /\ NeverAhead'
           /\ entry' # entry \/ body' # body \/ catalog' # catalog \/ summary' # summary => InHand(t) # 0
<1> USE Numbers, VersionFacts DEF To, Takes, Drops, lookup, derived, Typed
<1>0. Shape(t)
  BY DEF Shaped
<1>1. CASE UNCHANGED <<entry, body, catalog, summary>>
  BY <1>1 DEF Writes, NeverAhead
<1>2. CASE (Revalidate(t) \/ StoreMetadata(t)) /\ stage[t] = "page" /\ UNCHANGED <<lookup, derived>>
  <2>1. HasAnswer(t) /\ pc[t] = "handling" /\ InHand(t) # 0
    BY <1>0, <1>2 DEF Revalidate, StoreMetadata, Storable, HasAnswer, InHand, Got, Shape
  <2>2. entry'.version = InHand(t)
    <3>1. CASE Revalidate(t)
      BY <1>0, <1>2, <2>1, <3>1 DEF Revalidate, Shape, InHand, Got
    <3>2. CASE StoreMetadata(t)
      BY <1>0, <1>2, <2>1, <3>2 DEF StoreMetadata, Storable, Shape, InHand, Got
    <3> QED BY <1>2, <3>1, <3>2
  <2>3. DiskUpTo(InHand(t))
    BY <2>1 DEF Current
  <2>4. UNCHANGED <<body, catalog, summary>>
    BY <1>2 DEF Revalidate, StoreMetadata
  <2> QED BY <2>1, <2>2, <2>3, <2>4, HandTypes DEF Writes, NeverAhead, DiskUpTo
<1>3. CASE StoreBody(t) /\ stage[t] = "page" /\ UNCHANGED <<lookup, derived>>
  <2>1. pc[t] = "storing" /\ got[t].kind = "ok" /\ body' = got[t].version /\ UNCHANGED <<entry, catalog, summary>>
    BY <1>0, <1>3 DEF StoreBody, Return, Shape
  <2>2. InHand(t) = got[t].version /\ InHand(t) # 0
    BY <1>0, <1>3, <2>1 DEF Shape, InHand, Got
  <2> QED BY <2>1, <2>2, HandTypes DEF Writes, NeverAhead, Current
<1>4. CASE SaveCompiled(t) \/ SaveEmbedded(t) \/ SaveCatalog(t) \/ SaveSummary(t)
  <2>1. InHand(t) = took[t] /\ InHand(t) # 0
    BY <1>0, <1>4 DEF SaveCompiled, SaveEmbedded, SaveCatalog, SaveSummary, Shape, InHand
  <2> QED BY <1>4, <2>1 DEF SaveCompiled, SaveEmbedded, SaveCatalog, SaveSummary, Writes, NeverAhead, Current
<1> QED BY <1>1, <1>2, <1>3, <1>4 DEF Solo, Hit, Miss, Join, Own, Answered, Leave, Handle, TryAgain, Raise,
        ReturnUncached, Reopen, Begin, BeginStale, NoSummary, UseSummary,
        Compile, Chosen, Embed, TakeLinks, Parse, Forgets, Interrupted, InterruptedWait

LEMMA OwnCurrent ==
    ASSUME Typed, TypeOK', Bounded, Shaped, Shaped', NEW t \in Threads, Solo(t),
           stage[t] # "killed", stage'[t] # "killed", Current(t), NeverAhead
    PROVE  Current(t)'
<1> USE Numbers, VersionFacts DEF To, Takes, Drops, lookup, derived, Typed
<1>0. /\ Shape(t) /\ Shape(t)' /\ Stored.version \in {0, entry.version} /\ Stored \in Metadata
      /\ pc \in [Threads -> Steps] /\ stage \in [Threads -> Stages] /\ took \in [Threads -> Versions \cup {0}]
      /\ got \in [Threads -> Answer] /\ response \in [Threads -> Response] /\ seen \in [Threads -> Metadata]
  BY StoredTypes DEF Shaped, Stored, TypeOK, HttpTypeOK
<1>1. CASE Begin(t) \/ BeginStale(t) \/ NoSummary(t)
  <2>1. stage'[t] \in {"summarising", "page"} /\ pc'[t] \in {"idle", "opening"} /\ entry' = entry
        /\ seen'[t].version \in {0, entry.version} /\ (pc'[t] = "idle" => stage'[t] = "summarising")
    BY <1>0, <1>1 DEF Begin, BeginStale, NoSummary, Request, Shape
  <2>2. ~HasAnswer(t)' /\ ~Got(t)'
    BY <1>0, <2>1 DEF HasAnswer, Shape, Got
  <2> QED BY <2>1, <2>2 DEF Current, Fetched
<1>2. CASE UseSummary(t) \/ Compile(t) \/ SaveCompiled(t) \/ Chosen(t) \/ Embed(t) \/ SaveEmbedded(t)
           \/ SaveCatalog(t) \/ SaveSummary(t)
  <2>1. ~HasAnswer(t)' /\ ~Got(t)' /\ pc'[t] = "idle" /\ UNCHANGED <<seen, entry>>
    BY <1>0, <1>2 DEF UseSummary, Compile, SaveCompiled, Chosen, Embed, SaveEmbedded, SaveCatalog, SaveSummary,
         HasAnswer, Shape, Got
  <2>2. CASE UseSummary(t) \/ Compile(t)
    BY <1>0, <2>1, <2>2 DEF UseSummary, Compile, Current, Fetched
  <2>3. CASE SaveCompiled(t) \/ SaveCatalog(t)
    BY <1>0, <2>1, <2>3 DEF SaveCompiled, SaveCatalog, Current, Fetched
  <2>4. CASE Chosen(t) \/ Embed(t) \/ SaveEmbedded(t) \/ SaveSummary(t)
    BY <1>0, <2>1, <2>4 DEF Chosen, Embed, SaveEmbedded, SaveSummary, Current, Fetched
  <2> QED BY <1>2, <2>2, <2>3, <2>4
<1>3. CASE TakeLinks(t)
  <2>1. stage'[t] = "rest" /\ UNCHANGED <<pc, got, seen, entry>> /\ pc[t] = "idle"
    BY <1>0, <1>3 DEF TakeLinks, Got, Forgets
  <2> QED BY <1>0, <2>1 DEF Current, HasAnswer, Fetched, Got, Shape
<1>4. CASE Parse(t)
  <2>1. /\ stage[t] = "page" /\ stage'[t] = "saving" /\ UNCHANGED <<pc, got, seen, disk, derived>> /\ pc[t] = "idle"
        /\ took'[t] = response[t].body /\ response[t].kind = "ok" /\ ~Known(t) /\ Got(t)
    BY <1>0, <1>4 DEF Parse, Got, Forgets
  <2>2. ~HasAnswer(t)' /\ ~Got(t)'
    BY <1>0, <2>1 DEF HasAnswer, Shape, Got
  <2>3. body <= response[t].body /\ catalog <= response[t].body /\ summary <= response[t].body
    <3>1. CASE response[t].from_cache
      BY <2>1, <3>1 DEF Current, Known, NeverAhead
    <3>2. CASE ~response[t].from_cache
      <4>1. Fetched(t) /\ InHand(t) = response[t].body
        BY <1>0, <2>1, <3>2 DEF Fetched, InHand, Shape
      <4> QED BY <4>1 DEF Current, DiskUpTo
    <3> QED BY <3>1, <3>2
  <2> QED BY <2>1, <2>2, <2>3 DEF Current, Fetched
<1>5. CASE Interrupted(t)
  <2>1. /\ stage' = stage /\ UNCHANGED <<disk, derived>> /\ pc'[t] = "idle" /\ seen'[t] = NoEntry
        /\ response'[t] = Downloaded(Bare("fatal"))
    BY <1>0, <1>5 DEF Interrupted, InterruptedWait, Return
  <2>2. Bare("fatal") \in Answer /\ stage[t] = "page"
    BY <1>0, <1>5, TypeFacts DEF Kinds, Interrupted, InterruptedWait, Return, Shape
  <2> QED BY <1>0, <2>1, <2>2 DEF Current, HasAnswer, Fetched, Got, Shape
<1>6. CASE (Hit(t) \/ Reopen(t)) /\ stage[t] = "page" /\ UNCHANGED <<lookup, derived>>
  <2>1. UNCHANGED <<disk, derived>> /\ pc'[t] = "idle" /\ seen'[t] = NoEntry /\ response'[t] = Cached(body) /\ stage' = stage
    BY <1>0, <1>6 DEF Hit, Reopen, Return
  <2> QED BY <1>0, <1>6, <2>1 DEF Current, HasAnswer, Fetched, Got, Shape
<1>7. CASE (Miss(t) \/ Join(t) \/ Own(t) \/ TryAgain(t)) /\ stage[t] = "page" /\ UNCHANGED <<lookup, derived>>
  <2>1. [Stored EXCEPT !.expires = 0].version = Stored.version
    BY <1>0
  <2>2. UNCHANGED <<disk, derived>> /\ pc'[t] \in {"asking", "waiting", "sending"} /\ stage' = stage
        /\ seen'[t].version \in {0, entry.version, seen[t].version}
    BY <1>0, <1>7, <2>1 DEF Miss, Join, Own, TryAgain
  <2> QED BY <1>0, <1>7, <2>2 DEF Current, HasAnswer, Fetched, Got, Shape
<1>8. CASE Answered(t) /\ stage[t] = "page" /\ UNCHANGED <<lookup, derived>>
  <2>1. UNCHANGED <<disk, derived, seen, content>> /\ pc'[t] = "leaving" /\ stage' = stage /\ took' = took
    BY <1>0, <1>8 DEF Answered
  <2>2. \A a \in Outcomes(t) : /\ a.kind = "ok" => a.version = content
                               /\ a.kind = "unchanged" => seen[t].version = content
    BY DEF Outcomes
  <2>3. HasAnswer(t)' => InHand(t)' = content
    BY <1>0, <1>8, <2>1, <2>2 DEF Answered, HasAnswer, InHand, Got, Shape
  <2>4. DiskUpTo(content)'
    BY <2>1 DEF Bounded, DiskUpTo
  <2> QED BY <1>0, <1>8, <2>1, <2>3, <2>4 DEF Current, Fetched, Got, DiskUpTo
<1>9. CASE Leave(t) /\ stage[t] = "page" /\ UNCHANGED <<lookup, derived>>
  <2>1. UNCHANGED <<disk, derived, seen, got, response>> /\ pc[t] = "leaving" /\ pc'[t] = "signalling"
        /\ stage' = stage /\ took' = took
    BY <1>0, <1>9 DEF Leave
  <2>2. HasAnswer(t)' => HasAnswer(t) /\ InHand(t)' = InHand(t)
    BY <2>1 DEF HasAnswer, InHand, Got
  <2> QED BY <1>9, <2>1, <2>2 DEF Current, Fetched, Got, DiskUpTo
<1>10. CASE (Raise(t) \/ ReturnUncached(t) \/ StoreBody(t)) /\ stage[t] = "page" /\ UNCHANGED <<lookup, derived>>
  <2>1. UNCHANGED <<entry, derived>> /\ pc'[t] = "idle" /\ seen'[t] = NoEntry /\ response'[t] = Downloaded(got[t])
        /\ stage' = stage /\ pc[t] \in {"handling", "storing"} /\ took' = took /\ got[t] \in Answer
        /\ got'[t] = Bare("error") /\ body' \in {body, got[t].version}
    BY <1>0, <1>10 DEF Raise, ReturnUncached, StoreBody, Return
  <2>2. ~response'[t].from_cache /\ ~HasAnswer(t)' /\ response'[t].body = got[t].version /\ response'[t].kind = got[t].kind
    BY <2>1 DEF HasAnswer
  <2>3. Fetched(t)' => HasAnswer(t) /\ InHand(t)' = InHand(t) /\ InHand(t) = got[t].version
    BY <1>0, <1>10, <2>1, <2>2 DEF HasAnswer, InHand, Got, Fetched, Shape
  <2> QED BY <1>0, <1>10, <2>1, <2>2, <2>3 DEF Current, DiskUpTo
<1>11. CASE (Revalidate(t) \/ StoreMetadata(t)) /\ stage[t] = "page" /\ UNCHANGED <<lookup, derived>>
  <2>1. UNCHANGED <<body, derived, seen, got, response>> /\ pc[t] = "handling" /\ pc'[t] \in {"reopening", "storing"}
        /\ stage' = stage /\ took' = took /\ HasAnswer(t)
        /\ (pc'[t] = "storing" => entry'.version = got[t].version)
    BY <1>0, <1>11 DEF Revalidate, StoreMetadata, Storable, HasAnswer
  <2>2. HasAnswer(t)' /\ InHand(t)' = InHand(t)
    BY <2>1 DEF HasAnswer, InHand, Got
  <2>3. entry.version <= entry'.version /\ entry'.version \in {entry.version, InHand(t)}
    BY <1>11, WritesHand DEF Writes
  <2> QED BY <1>11, <2>1, <2>2, <2>3, HandTypes DEF Current, Fetched, Got, DiskUpTo
<1> QED BY <1>1, <1>2, <1>3, <1>4, <1>5, <1>6, <1>7, <1>8, <1>9, <1>10, <1>11 DEF Solo, Handle

Mending ==
    (\A t \in Threads : stage[t] # "killed") =>
        /\ body # entry.version => \E t \in Threads : pc[t] = "storing"
        /\ catalog # 0 /\ catalog < body => \E t \in Threads : Fetched(t) \/ stage[t] = "saving"
        /\ summary \notin {0, catalog} => \E t \in Threads : stage[t] = "summing"

Apart == ~Clashing /\ NeverAhead /\ AllCurrent /\ Mending

LookupInv == Typed /\ Bounded /\ Shaped /\ (~clash => Apart)

LEMMA SoloIsAlive == ASSUME Typed, Shaped, NEW t \in Threads, Solo(t) PROVE stage[t] # "killed" /\ stage'[t] # "killed"
BY DEF Solo, To, Begin, BeginStale, NoSummary, UseSummary, Compile, SaveCompiled, Chosen, Embed,
       SaveEmbedded, SaveCatalog, SaveSummary, TakeLinks, Parse, Interrupted, InterruptedWait, Return,
       Shaped, Typed, TypeOK, lookup

LEMMA SoloStaysCurrent ==
    ASSUME Typed, TypeOK', Bounded, Shaped, Shaped', NEW t \in Threads, Solo(t), NeverAhead, AllCurrent, ~Clashing
    PROVE  NeverAhead' /\ AllCurrent'
<1>1. stage[t] # "killed" /\ stage'[t] # "killed" /\ Current(t)
  BY SoloIsAlive DEF AllCurrent
<1>2. /\ Writes(InHand(t)) /\ NeverAhead'
      /\ entry' # entry \/ body' # body \/ catalog' # catalog \/ summary' # summary => InHand(t) # 0
  BY <1>1, WritesHand
<1>3. Current(t)'
  BY <1>1, OwnCurrent
<1>4. ASSUME NEW u \in Threads \ {t} PROVE stage'[u] = stage[u] /\ (stage[u] # "killed" => Current(u)')
  <2>1. Unmoved(u)
    BY SoloLeaves DEF Typed
  <2> SUFFICES ASSUME stage[u] # "killed" PROVE Current(u)'
    BY <2>1 DEF Unmoved
  <2>2. Shape(u) /\ Current(u) /\ InHand(u) \in Nat /\ InHand(t) \in Nat
    BY HandTypes DEF Shaped, AllCurrent, Typed
  <2>3. CASE InHand(t) # 0
    <3>1. InHand(u) \in {0, InHand(t)}
      BY <2>3 DEF Clashing
    <3> QED BY <1>2, <2>1, <2>2, <3>1, StaysCurrent DEF Typed
  <2>4. CASE InHand(t) = 0
    <3>1. UNCHANGED <<entry, body, catalog, summary>>
      BY <1>2, <2>4
    <3>2. Writes(InHand(u))
      BY <3>1, Numbers DEF Writes, Typed
    <3> QED BY <2>1, <2>2, <3>2, StaysCurrent DEF Typed
  <2> QED BY <2>3, <2>4
<1> QED BY <1>1, <1>2, <1>3, <1>4 DEF AllCurrent

\* What is half done is in the hand of the thread that does the other half.
LEMMA SoloMends ==
    ASSUME Typed, TypeOK', Bounded, Shaped, Shaped', NEW t \in Threads, Solo(t), Apart
    PROVE  Mending'
<1> USE DEF To, Takes, Drops, lookup, derived
<1>0. /\ Shape(t) /\ Shape(t)' /\ Current(t) /\ NeverAhead /\ stage[t] # "killed" /\ stage'[t] # "killed"
      /\ pc \in [Threads -> Steps] /\ stage \in [Threads -> Stages] /\ took \in [Threads -> Versions \cup {0}]
      /\ response \in [Threads -> Response] /\ got \in [Threads -> Answer]
  BY SoloIsAlive DEF Apart, AllCurrent, Shaped, Typed, TypeOK, HttpTypeOK
<1>1. \A u \in Threads \ {t} : /\ stage'[u] = stage[u] /\ pc'[u] = pc[u] /\ Fetched(u)' = Fetched(u)
  BY SoloLeaves, HandStays DEF Typed, Unmoved
<1>2. ASSUME \A u \in Threads : stage'[u] # "killed" PROVE \A u \in Threads : stage[u] # "killed"
  BY <1>0, <1>1, <1>2
<1>3. ASSUME \A u \in Threads : stage[u] # "killed", body' # entry'.version
      PROVE  \E u \in Threads : pc'[u] = "storing"
  <2>1. CASE StoreMetadata(t)
    BY <1>0, <2>1 DEF StoreMetadata
  <2>2. CASE StoreBody(t)
    <3>1. body' = entry.version /\ entry' = entry
      BY <1>0, <2>2 DEF StoreBody, Return, Current
    <3> QED BY <1>3, <3>1
  <2>3. CASE ~StoreMetadata(t) /\ ~StoreBody(t)
    <3>1. body' = body /\ entry'.version = entry.version /\ pc[t] # "storing"
      <4>1. CASE Revalidate(t)
        <5>1. HasAnswer(t) /\ InHand(t) = seen[t].version /\ stage[t] = "page"
          BY <1>0, <4>1 DEF Revalidate, Shape, HasAnswer, InHand, Got
        <5>2. entry'.version = seen[t].version
          BY <4>1, Numbers, VersionFacts DEF Revalidate, Typed
        <5>3. entry.version = seen[t].version
          BY <1>0, <5>1, Numbers DEF Current, DiskUpTo, Typed
        <5> QED BY <4>1, <5>2, <5>3 DEF Revalidate
      <4>2. CASE ~Revalidate(t)
        BY <1>0, <2>3, <4>2 DEF Solo, Hit, Miss, Join, Own, Answered, Leave, Handle, TryAgain, Raise,
           ReturnUncached, Reopen, Return, Begin, BeginStale, NoSummary, Request, UseSummary, SaveCompiled,
           SaveEmbedded, SaveCatalog, SaveSummary, Compile, Chosen, Embed, TakeLinks, Parse, Got, Forgets,
           Interrupted, InterruptedWait, Shape
      <4> QED BY <4>1, <4>2
    <3>2. PICK u \in Threads : pc[u] = "storing"
      BY <1>3, <3>1 DEF Apart, Mending
    <3> QED BY <1>1, <3>1, <3>2
  <2> QED BY <2>1, <2>2, <2>3
<1>4. ASSUME \A u \in Threads : stage[u] # "killed", catalog' # 0, catalog' < body'
      PROVE  \E u \in Threads : Fetched(u)' \/ stage'[u] = "saving"
  <2>1. CASE StoreBody(t)
    <3>1. /\ pc[t] = "storing" /\ pc'[t] = "idle" /\ got[t].kind = "ok" /\ got[t] \in Answer
          /\ response'[t] = Downloaded(got[t])
      BY <1>0, <2>1 DEF StoreBody, Return, Shape
    <3>2. stage[t] = "page" /\ stage' = stage
      BY <1>0, <3>1 DEF Solo, Shape, Begin, BeginStale, NoSummary, Request, UseSummary, SaveCompiled, SaveEmbedded,
           SaveCatalog, SaveSummary, Compile, Chosen, Embed, TakeLinks, Parse, Got, Interrupted, InterruptedWait
    <3>3. Fetched(t)'
      BY <3>1, <3>2, VersionFacts DEF Fetched, Got
    <3> QED BY <3>3
  <2>2. CASE SaveCatalog(t)
    <3>1. catalog' = took[t] /\ body' = body /\ body <= took[t]
      BY <1>0, <2>2 DEF SaveCatalog, Current
    <3> QED BY <1>4, <3>1, Numbers DEF Typed
  <2>3. CASE Parse(t)
    BY <1>0, <2>3 DEF Parse
  <2>4. CASE ~StoreBody(t) /\ ~SaveCatalog(t) /\ ~Parse(t)
    <3>1. body' = body /\ catalog' = catalog
      BY <2>4 DEF Solo, Hit, Miss, Join, Own, Answered, Leave, Handle, TryAgain, Raise, Revalidate, StoreMetadata,
           ReturnUncached, Reopen, Begin, BeginStale, NoSummary, UseSummary, SaveCompiled,
           SaveEmbedded, SaveSummary, Compile, Chosen, Embed, TakeLinks, Forgets,
           Interrupted, InterruptedWait
    <3>2. ~Fetched(t) /\ stage[t] # "saving"
      BY <1>0, <2>4 DEF Solo, Hit, Miss, Join, Own, Answered, Leave, Handle, TryAgain, Raise, Revalidate, StoreMetadata,
           ReturnUncached, Reopen, Return, Begin, BeginStale, NoSummary, UseSummary, SaveCompiled,
           SaveEmbedded, SaveSummary, Compile, Chosen, Embed, TakeLinks, Known,
           Interrupted, InterruptedWait, Fetched, Got, Shape
    <3>3. PICK u \in Threads : Fetched(u) \/ stage[u] = "saving"
      BY <1>4, <3>1 DEF Apart, Mending
    <3> QED BY <1>1, <3>2, <3>3
  <2> QED BY <2>1, <2>2, <2>3, <2>4
<1>5. ASSUME \A u \in Threads : stage[u] # "killed", summary' \notin {0, catalog'}
      PROVE  \E u \in Threads : stage'[u] = "summing"
  <2>1. CASE SaveCatalog(t)
    BY <1>0, <2>1 DEF SaveCatalog
  <2>2. CASE SaveCompiled(t) \/ SaveSummary(t)
    BY <1>0, <1>5, <2>2 DEF SaveCompiled, SaveSummary, Current
  <2>3. CASE ~SaveCatalog(t) /\ ~SaveCompiled(t) /\ ~SaveSummary(t)
    <3>1. summary' = summary /\ catalog' = catalog /\ stage[t] # "summing"
      BY <1>0, <2>3 DEF Solo, Hit, Miss, Join, Own, Answered, Leave, Handle, TryAgain, Raise, Revalidate, StoreMetadata,
           ReturnUncached, Reopen, Return, Begin, BeginStale, NoSummary, UseSummary,
           SaveEmbedded, Compile, Chosen, Embed, TakeLinks, Parse, Forgets,
           Interrupted, InterruptedWait, Got, Shape, Current
    <3>2. PICK u \in Threads : stage[u] = "summing"
      BY <1>5, <3>1 DEF Apart, Mending
    <3> QED BY <1>1, <3>1, <3>2
  <2> QED BY <2>1, <2>2, <2>3
<1> QED BY <1>2, <1>3, <1>4, <1>5 DEF Mending

\* All that waited for an answer have it.
LEMMA SignalApart ==
    ASSUME Typed, TypeOK', Shaped, Shaped', Apart, NEW t \in Threads, Signal(t), stage[t] = "page",
           UNCHANGED <<lookup, derived>>
    PROVE  NeverAhead' /\ AllCurrent' /\ Mending'
<1> DEFINE woken == {u \in Threads : pc[u] = "waiting" /\ waits[u] = t}
<1>1. /\ pc[t] = "signalling" /\ UNCHANGED <<entry, body, catalog, summary, stage, took, seen, response>>
      /\ pc' = [u \in Threads |-> IF u \in woken \cup {t} THEN "handling" ELSE pc[u]]
      /\ got' = [u \in Threads |-> IF u \in woken THEN got[t] ELSE got[u]]
      /\ waits' = [u \in Threads |-> IF u \in woken THEN Nobody ELSE waits[u]]
  BY DEF Signal, lookup, derived
<1>2. NeverAhead'
  BY <1>1 DEF Apart, NeverAhead
<1>3. Shape(t) /\ Current(t) /\ stage[t] # "killed" /\ took[t] = 0
  BY DEF Apart, AllCurrent, Shaped, Shape
<1>4. ASSUME NEW u \in woken \cup {t} PROVE Current(u)' /\ stage[u] = "page"
  <2>1. Shape(u) /\ Current(u) /\ stage[u] = "page" /\ RequestKey(u) = RequestKey(t) /\ took[u] = 0
    BY <1>3 DEF Apart, AllCurrent, Shaped, Shape
  <2>2. pc'[u] = "handling" /\ got'[u] = got[t]
    BY <1>1
  <2>3. HasAnswer(u)' => HasAnswer(t) /\ InHand(u)' = InHand(t)
    BY <1>1, <1>3, <2>1, <2>2 DEF HasAnswer, InHand, Got, RequestKey
  <2>4. ~Fetched(u)' /\ ~Got(u)'
    BY <2>2 DEF Fetched, Got
  <2> QED BY <1>1, <1>3, <2>1, <2>2, <2>3, <2>4 DEF Current, DiskUpTo
<1>5. ASSUME NEW u \in Threads \ (woken \cup {t}) PROVE Unmoved(u)
  BY <1>1 DEF Unmoved
<1>6. ASSUME NEW u \in Threads \ (woken \cup {t}), stage[u] # "killed" PROVE Current(u)'
  <2>1. Unmoved(u) /\ Current(u)
    BY <1>5, <1>6 DEF Apart, AllCurrent
  <2> QED BY <1>1, <2>1, HandStays DEF Current, DiskUpTo, Unmoved
<1>7. AllCurrent'
  BY <1>1, <1>4, <1>6 DEF AllCurrent
<1>8. \A u \in Threads : /\ pc[u] = "storing" => pc'[u] = "storing"
                         /\ Fetched(u) => Fetched(u)'
  BY <1>1 DEF Fetched, Got
<1>9. Mending'
  BY <1>1, <1>8 DEF Apart, Mending
<1> QED BY <1>2, <1>7, <1>9

LEMMA ApartStill ==
    ASSUME Apart, UNCHANGED <<entry, body, catalog, summary, stage, took, seen, response, got, pc>> PROVE Apart'
<1>1. \A t \in Threads : /\ InHand(t)' = InHand(t) /\ HasAnswer(t)' = HasAnswer(t) /\ Fetched(t)' = Fetched(t)
                         /\ Got(t)' = Got(t)
  BY DEF InHand, HasAnswer, Fetched, Got
<1>2. ~Clashing'
  BY <1>1 DEF Apart, Clashing
<1>3. AllCurrent'
  BY <1>1 DEF Apart, AllCurrent, Current, DiskUpTo
<1>4. NeverAhead' /\ Mending'
  BY <1>1 DEF Apart, NeverAhead, Mending
<1> QED BY <1>2, <1>3, <1>4 DEF Apart

LEMMA ApartStep ==
    ASSUME Typed, TypeOK', Bounded, Shaped, Shaped', ~clash => Apart, [Next]_vars
    PROVE  ~clash' => Apart'
<1> SUFFICES ASSUME ~clash' PROVE Apart'
  OBVIOUS
<1>1. CASE UNCHANGED vars
  <2>1. Apart /\ UNCHANGED <<entry, body, catalog, summary, stage, took, seen, response, got, pc>>
    BY <1>1 DEF vars, lookup, derived
  <2> QED BY <2>1, ApartStill
<1>2. CASE Next
  <2>1. ~clash /\ ~Clashing' /\ Apart
    BY <1>2 DEF Next
  <2>2. ASSUME NEW t \in Threads, Solo(t) PROVE Apart'
    BY <2>1, <2>2, SoloStaysCurrent, SoloMends DEF Apart
  <2>3. ASSUME NEW t \in Threads, Signal(t), stage[t] = "page", UNCHANGED <<lookup, derived>> PROVE Apart'
    BY <2>1, <2>3, SignalApart DEF Apart
  <2>4. CASE (Publish \/ Tick) /\ UNCHANGED <<lookup, derived>>
    <3>1. UNCHANGED <<entry, body, catalog, summary, stage, took, seen, response, got, pc>>
      BY <2>4 DEF Publish, Tick, lookup, derived
    <3> QED BY <2>1, <3>1, ApartStill
  <2>5. ASSUME NEW p \in Processes, KillProcess(p) PROVE Apart'
    <3>1. /\ stage' = [t \in Threads |-> IF process[t] = p /\ Works(t) THEN "killed" ELSE stage[t]]
          /\ took' = [t \in Threads |-> IF process[t] = p THEN 0 ELSE took[t]]
          /\ pc' = [t \in Threads |-> IF process[t] = p /\ pc[t] \notin Ended THEN "killed" ELSE pc[t]]
          /\ UNCHANGED <<entry, body, catalog, summary, seen, response, got>>
          /\ \E t \in Threads : process[t] = p /\ Works(t)
      BY <2>5 DEF KillProcess, KillSession, derived
    <3>2. ASSUME NEW u \in Threads, stage'[u] # "killed" PROVE Current(u)'
      <4>1. stage[u] # "killed" /\ stage'[u] = stage[u] /\ (process[u] = p => stage[u] = "rest")
        BY <3>1, <3>2 DEF Works
      <4>2. Shape(u) /\ Current(u)
        BY <2>1, <4>1 DEF Shaped, Apart, AllCurrent
      <4>3. took'[u] = took[u] /\ pc'[u] = pc[u]
        BY <3>1, <4>1, <4>2 DEF Shape
      <4> QED BY <3>1, <4>1, <4>2, <4>3 DEF Current, HasAnswer, Fetched, Got, InHand, DiskUpTo
    <3>3. \E t \in Threads : stage'[t] = "killed"
      BY <3>1
    <3> QED BY <2>1, <3>1, <3>2, <3>3 DEF Apart, AllCurrent, NeverAhead, Mending
  <2> QED BY <1>2, <2>2, <2>3, <2>4, <2>5, StepKinds
<1> QED BY <1>1, <1>2

LEMMA LookupInvInit == Init => LookupInv
<1> SUFFICES ASSUME Init PROVE LookupInv
  OBVIOUS
<1> USE VersionFacts
<1>1. Typed
  BY InvInit DEF Typed
<1>2. /\ \A t \in Threads : /\ stage[t] = "rest" /\ took[t] = 0 /\ pc[t] = "idle" /\ seen[t] = NoEntry
                            /\ got[t] = Bare("error") /\ response[t] = NoResponse
      /\ content = 1 /\ entry.version \in {0, 1} /\ body = entry.version
      /\ catalog \in {0, body} /\ summary \in {0, catalog}
  BY DEF Init, HttpInit
<1>3. Bounded
  BY <1>2 DEF Bounded, DiskUpTo
<1>4. Shaped
  BY <1>2 DEF Shaped, Shape
<1>5. \A t \in Threads : InHand(t) = 0 /\ ~HasAnswer(t) /\ ~Got(t)
  BY <1>2 DEF InHand, HasAnswer, Got
<1>6. Apart
  BY <1>2, <1>5 DEF Apart, Clashing, NeverAhead, AllCurrent, Current, Fetched, Mending
<1> QED BY <1>1, <1>3, <1>4, <1>6 DEF LookupInv

LEMMA LookupInvStep == LookupInv /\ [Next]_vars => LookupInv'
<1> SUFFICES ASSUME LookupInv, [Next]_vars PROVE LookupInv'
  OBVIOUS
<1>1. Typed'
  BY InvStep DEF LookupInv, Typed
<1>2. Bounded'
  BY <1>1, BoundedStep DEF LookupInv, Typed
<1>3. Shaped'
  BY <1>1, ShapedStep DEF LookupInv
<1>4. ~clash' => Apart'
  BY <1>1, <1>3, ApartStep DEF LookupInv, Typed
<1> QED BY <1>1, <1>2, <1>3, <1>4 DEF LookupInv

LEMMA LookupInvAlways == Spec => []LookupInv
BY LookupInvInit, LookupInvStep, PTL DEF Spec

\* However many threads and processes share the cache, and wherever they are killed between the two
\* writes of an answer and the two of what is parsed from it: as long as no two threads had different
\* versions of the page in hand at once, no summary is newer than the catalog and no body than its metadata.
THEOREM NothingRunsAhead == Spec => []DerivedNeverAhead
<1>1. LookupInv => DerivedNeverAhead
  BY DEF LookupInv, Apart, NeverAhead, DerivedNeverAhead
<1> QED BY <1>1, LookupInvAlways, PTL

\* And when all are at rest and none was killed, the four agree: every half that a thread wrote was
\* followed by its other half, by whichever thread has the same version in hand.
THEOREM HalvesMeet == Spec => []RestingAgree
<1>1. LookupInv => RestingAgree
  <2> SUFFICES ASSUME LookupInv, \A t \in Threads : stage[t] = "rest", ~clash
               PROVE  /\ body = entry.version
                      /\ catalog # 0 => body <= catalog
                      /\ summary \in {0, catalog}
    BY DEF RestingAgree
  <2>1. \A t \in Threads : pc[t] = "idle" /\ ~Fetched(t)
    BY DEF LookupInv, Shaped, Shape, Fetched, Got
  <2> QED BY <2>1, Numbers DEF LookupInv, Typed, Apart, Mending
<1> QED BY <1>1, LookupInvAlways, PTL
====
