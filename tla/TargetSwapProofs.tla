------------------------------ MODULE TargetSwapProofs ------------------------------
(* Proofs about calls of any number of processes for any distributions and versions:  *)
(* type correctness, that the target's path never names a directory that is being     *)
(* built, and that calls that do not overlap never lose the target.                   *)
EXTENDS TargetSwap, TLAPS

------------------------------------------------------------------------------------
(* The invariant.                                                                   *)

\* A process whose directory can be the target, or be kept as somebody's "previous": it is no longer
\* building it, has not declined, and its wheel is in it.
Complete(p) ==
    /\ pc[p] \notin Building \cup {"idle", "moving", "swapout", "swapin", "restoring", "fallback"}
    /\ pc[p] \in {"dropping", "leaving"} => result[p] # "declined"
    /\ content[p][wheel[p].dist] # Absent

\* One directory is at one place, and those at the target's path or kept are complete.
PlacesInv ==
    /\ \A p \in Procs : previous[p] # NoDir => previous[p] # root
    /\ \A p, q \in Procs : p # q /\ previous[p] # NoDir => previous[p] # previous[q]
    /\ \A p \in Procs : root = p => Complete(p)
    /\ \A p, q \in Procs : previous[q] = p => Complete(p)
    /\ \A p \in Procs : pc[p] \in {"checking", "moving", "swapout", "swapin"} => content[p][wheel[p].dist] # Absent

CallsInv ==
    /\ \A p \in Procs : pc[p] = "idle" => content[p] = Empty
    /\ \A p \in Procs : pc[p] # "idle" => p \in ToSet(begun)
    /\ ~overlapped => \A p, q \in Procs : AtWork(p) /\ AtWork(q) => p = q

\* How the stage of a process at work relates to the target it found.
Follows(p) ==
    /\ pc[p] \notin {"moving", "swapin", "restoring"}
    /\ pc[p] \in Building => existed[p]
    /\ pc[p] = "cloning" => \A k \in Dists : content[p][k] = IF k \in left[p] THEN Absent ELSE content[root][k]
    /\ pc[p] \in {"discovering", "removing"} => content[p] = content[root]
    /\ pc[p] = "removing" => found[p] = content[root][wheel[p].dist]
    /\ pc[p] = "filling" => content[p] = [content[root] EXCEPT ![wheel[p].dist] = Absent]
    /\ pc[p] \in {"checking", "swapout"} => Kept(p)

Calm == ~overlapped /\ ~Unrecovered /\ origin # NoDir

\* Where the target is: in the staging parent of a killed process, at its path, or between the renames.
LeftBehind == \E p \in Procs : pc[p] = "crashed" /\ previous[p] # NoDir /\ Kept(previous[p])
InPlace == root # NoDir /\ Kept(root) /\ \A p \in Procs : AtWork(p) => Follows(p)
MovedAway ==
    /\ root = NoDir
    /\ \E p \in Procs : /\ pc[p] \in {"swapin", "restoring"}
                        /\ previous[p] # NoDir /\ Kept(previous[p])
                        /\ pc[p] = "swapin" => Kept(p)

KeptInv == Calm => LeftBehind \/ InPlace \/ MovedAway

------------------------------------------------------------------------------------
(* Types.                                                                           *)

Pcs == {"idle", "cloning", "discovering", "removing", "filling", "checking", "moving", "swapout", "swapin",
        "restoring", "dropping", "leaving", "fallback", "ended", "crashed"}

\* TypeOK but for what it says of two variables.
Typed ==
    /\ root \in Dirs \cup {NoDir}
    /\ content \in [Dirs -> [Dists -> Held]]
    /\ previous \in [Procs -> Dirs \cup {NoDir}]
    /\ pc \in [Procs -> Pcs]
    /\ wheel \in [Procs -> Wheels]
    /\ existed \in [Procs -> BOOLEAN]
    /\ found \in [Procs -> Held]
    /\ left \in [Procs -> SUBSET Dists]
    /\ result \in [Procs -> {"none", "returned", "declined", "raised"}]
    /\ origin \in [Dists -> Held] \cup {NoDir}
    /\ begun \in Seq(Procs)
    /\ overlapped \in BOOLEAN
    /\ hit \subseteq AllFaults

LEMMA EmptyTyped == Empty \in [Dists -> Held]
BY DEF Empty, Held

LEMMA WheelTyped ==
    ASSUME Typed, NEW p \in Procs
    PROVE  wheel[p].dist \in Dists /\ wheel[p].version \in Versions /\ wheel[p].version # Absent /\ p \in Dirs
BY VersionsAssumption DEF Typed, Wheels, Dirs

LEMMA WriteTyped ==
    ASSUME Typed, NEW d \in Dirs, NEW k \in Dists, NEW v \in Held
    PROVE  [content EXCEPT ![d][k] = v] \in [Dirs -> [Dists -> Held]]
<1>1. [content[d] EXCEPT ![k] = v] \in [Dists -> Held]
  BY DEF Typed
<1> QED BY <1>1 DEF Typed

LEMMA InitTyped == ASSUME Init PROVE Typed
<1>1. PICK c \in [Dists -> Held] :
          /\ content = [d \in Dirs |-> IF d = Target THEN c ELSE Empty]
          /\ origin = IF root = NoDir THEN NoDir ELSE c
  BY DEF Init
<1>2. content \in [Dirs -> [Dists -> Held]] /\ origin \in [Dists -> Held] \cup {NoDir}
  BY <1>1, EmptyTyped
<1>3. begun \in Seq(Procs) /\ overlapped \in BOOLEAN /\ hit \subseteq AllFaults
  <2>1. begun = <<>> /\ overlapped = FALSE /\ hit = {}
    BY DEF Init
  <2>2. begun \in Seq(Procs)
    BY <2>1
  <2> QED BY <2>1, <2>2
<1>4. /\ pc \in [Procs -> Pcs] /\ found \in [Procs -> Held] /\ left \in [Procs -> SUBSET Dists]
      /\ existed \in [Procs -> BOOLEAN] /\ wheel \in [Procs -> Wheels]
  BY DEF Init, Pcs, Held
<1>5. root \in Dirs \cup {NoDir} /\ previous \in [Procs -> Dirs \cup {NoDir}]
      /\ result \in [Procs -> {"none", "returned", "declined", "raised"}]
  BY DEF Init, Dirs
<1> QED BY <1>2, <1>3, <1>4, <1>5 DEF Typed

LEMMA TypedStep == ASSUME Typed, [Next]_vars PROVE Typed'
<1> USE DEF Goes, Answers, Stages
<1>1. ASSUME NEW p \in Procs, Begin(p) PROVE Typed'
  <2>1. begun' \in Seq(Procs)
    BY <1>1 DEF Begin, Typed
  <2>2. overlapped' \in BOOLEAN
    BY <1>1 DEF Begin, Typed
  <2> QED BY <1>1, <2>1, <2>2 DEF Begin, Typed, Pcs, Listed
<1>2. ASSUME NEW p \in Procs, CloneDone(p) \/ AlreadyThere(p) \/ Decline(p) \/ Check(p) PROVE Typed'
  BY <1>2 DEF CloneDone, AlreadyThere, Decline, Check, Typed, Pcs, local, ghost
<1>3. ASSUME NEW p \in Procs, Discover(p) PROVE Typed'
  <2>1. InRoot(wheel[p].dist) \in Held
    BY WheelTyped DEF InRoot, Typed, Held
  <2> QED BY <1>3, <2>1 DEF Discover, Typed, Pcs, ghost
<1>4. ASSUME NEW k \in Dists, NEW v \in Held, NEW d \in Dirs, content' = [content EXCEPT ![d][k] = v]
      PROVE  content' \in [Dirs -> [Dists -> Held]]
  BY <1>4, WriteTyped
<1>5. ASSUME NEW p \in Procs, NEW k \in Dists, CloneNext(p, k) PROVE Typed'
  <2>1. InRoot(k) \in Held
    BY DEF InRoot, Typed, Held
  <2>2. content' = content \/ content' = [content EXCEPT ![p][k] = InRoot(k)]
    BY <1>5 DEF CloneNext
  <2>3. content' \in [Dirs -> [Dists -> Held]]
    BY <1>4, <2>1, <2>2, WheelTyped DEF Typed
  <2>4. pc' \in [Procs -> Pcs] /\ result' \in [Procs -> {"none", "returned", "declined", "raised"}]
        /\ left' \in [Procs -> SUBSET Dists]
    BY <1>5 DEF CloneNext, Typed, Pcs
  <2>5. UNCHANGED <<root, previous, wheel, existed, found, origin, begun, overlapped, hit>>
    BY <1>5 DEF CloneNext, ghost
  <2> QED BY <2>3, <2>4, <2>5 DEF Typed
<1>6. ASSUME NEW p \in Procs, RemoveOld(p) PROVE Typed'
  <2>1. content' = content \/ content' = [content EXCEPT ![p][wheel[p].dist] = Absent]
    BY <1>6 DEF RemoveOld
  <2>2. wheel[p].dist \in Dists /\ Absent \in Held /\ p \in Dirs
    BY WheelTyped DEF Held
  <2>3. content' \in [Dirs -> [Dists -> Held]]
    <3> DEFINE k == wheel[p].dist  v == Absent
    <3>1. content' = content \/ content' = [content EXCEPT ![p][k] = v]
      BY <2>1
    <3>2. k \in Dists /\ v \in Held
      BY <2>2
    <3> HIDE DEF k, v
    <3> QED BY <1>4, <2>2, <3>1, <3>2 DEF Typed
  <2> QED BY <1>6, <2>3 DEF RemoveOld, Typed, Pcs, local, ghost
<1>7. ASSUME NEW p \in Procs, Fill(p) PROVE Typed'
  <2>1. content' = content \/ content' = [content EXCEPT ![p][wheel[p].dist] = wheel[p].version]
    BY <1>7 DEF Fill
  <2>2. wheel[p].dist \in Dists /\ wheel[p].version \in Held /\ p \in Dirs
    BY WheelTyped DEF Held
  <2>3. content' \in [Dirs -> [Dists -> Held]]
    <3> DEFINE k == wheel[p].dist  v == wheel[p].version
    <3>1. content' = content \/ content' = [content EXCEPT ![p][k] = v]
      BY <2>1
    <3>2. k \in Dists /\ v \in Held
      BY <2>2
    <3> HIDE DEF k, v
    <3> QED BY <1>4, <2>2, <3>1, <3>2 DEF Typed
  <2> QED BY <1>7, <2>3 DEF Fill, Typed, Pcs, ghost
<1>8. ASSUME NEW p \in Procs, MoveNew(p) \/ SwapOut(p) \/ SwapIn(p) \/ Drop(p) \/ CleanUp(p) PROVE Typed'
  BY <1>8, WheelTyped DEF MoveNew, SwapOut, SwapIn, Drop, CleanUp, Typed, Pcs, local, ghost
<1>9. ASSUME NEW p \in Procs, PutBack(p) PROVE Typed'
  BY <1>9 DEF PutBack, Typed, Pcs, local, ghost
<1>10. ASSUME NEW p \in Procs, Fallback(p) PROVE Typed'
  <2>1. [Empty EXCEPT ![wheel[p].dist] = wheel[p].version] \in [Dists -> Held]
    BY EmptyTyped, WheelTyped DEF Held
  <2>2. wheel[p].dist \in Dists /\ wheel[p].version \in Held /\ p \in Dirs /\ (root # NoDir => root \in Dirs)
    BY WheelTyped DEF Held, Typed
  <2>3. CASE content' = [content EXCEPT ![p] = [Empty EXCEPT ![wheel[p].dist] = wheel[p].version]]
    <3>1. content' \in [Dirs -> [Dists -> Held]]
      BY <2>1, <2>2, <2>3 DEF Typed
    <3> QED BY <1>10, <2>2, <3>1 DEF Fallback, Typed, Pcs, ghost
  <2>4. CASE root # NoDir /\ content' = [content EXCEPT ![root][wheel[p].dist] = wheel[p].version]
    <3> DEFINE k == wheel[p].dist  v == wheel[p].version
    <3>1. content' = [content EXCEPT ![root][k] = v] /\ k \in Dists /\ v \in Held /\ root \in Dirs
      BY <2>2, <2>4
    <3>2. content' \in [Dirs -> [Dists -> Held]]
      <4> HIDE DEF k, v
      <4> QED BY <1>4, <3>1
    <3> QED BY <1>10, <2>2, <3>2 DEF Fallback, Typed, Pcs, ghost
  <2>5. CASE UNCHANGED <<root, content>>
    BY <1>10, <2>5 DEF Fallback, Typed, Pcs, ghost
  <2> QED BY <1>10, <2>3, <2>4, <2>5 DEF Fallback
<1>11. ASSUME NEW p \in Procs, CallFails(p) \/ RestoreFails(p) \/ Interrupt(p) \/ InterruptInGap(p) \/ Crash(p) PROVE Typed'
  BY <1>11, FaultAssumption DEF CallFails, RestoreFails, Interrupt, InterruptInGap, Crash, Injected, Building, Typed, Pcs, local
<1>12. CASE UNCHANGED vars \/ Terminated
  BY <1>12 DEF Terminated, vars, local, ghost, Typed
<1> QED BY <1>1, <1>2, <1>3, <1>5, <1>6, <1>7, <1>8, <1>9, <1>10, <1>11, <1>12 DEF Next, Step, Fault

------------------------------------------------------------------------------------
(* One directory is at one place, and it is complete.                               *)

LEMMA InitPlaces == ASSUME Init PROVE PlacesInv
<1>1. root \notin Procs /\ \A p \in Procs : previous[p] = NoDir /\ pc[p] = "idle"
  BY ProcsAssumption DEF Init
<1>2. \A p \in Procs : p # NoDir
  BY ProcsAssumption
<1> QED BY <1>1, <1>2 DEF PlacesInv

\* What is written in a directory that is complete leaves it complete.
LEMMA PlacesStep == ASSUME Typed, PlacesInv, [Next]_vars PROVE PlacesInv'
<1> USE DEF Goes, Answers
<1>a. \A p \in Procs : p # NoDir /\ p # Target
  BY ProcsAssumption
<1>w. \A p \in Procs : wheel[p].dist \in Dists /\ wheel[p].version \in Versions /\ wheel[p].version # Absent
  BY WheelTyped
\* A process that only goes on.
<1>1. ASSUME NEW p \in Procs, UNCHANGED <<root, content, wheel>>, \E to \in Pcs : pc' = [pc EXCEPT ![p] = to],
             \A q \in Procs : previous'[q] = previous[q] \/ (q = p /\ previous'[q] = NoDir),
             \A q \in Procs : q # p => result'[q] = result[q],
             Complete(p) => Complete(p)',
             pc'[p] \in {"checking", "moving", "swapout", "swapin"} => pc[p] \in {"checking", "moving", "swapout"}
      PROVE  PlacesInv'
  <2>1. \A q \in Procs : Complete(q) => Complete(q)'
    <3> SUFFICES ASSUME NEW q \in Procs, q # p, Complete(q) PROVE Complete(q)'
      BY <1>1
    <3>1. pc'[q] = pc[q] /\ result'[q] = result[q]
      BY <1>1 DEF Typed
    <3> QED BY <1>1, <3>1 DEF Complete
  <2>2. \A q \in Procs : pc'[q] \in {"checking", "moving", "swapout", "swapin"} => content[q][wheel[q].dist] # Absent
    BY <1>1 DEF PlacesInv, Typed
  <2>3. \A q \in Procs : root' = q => Complete(q)'
    BY <1>1, <2>1 DEF PlacesInv
  <2>4. \A q, r \in Procs : previous'[r] = q => Complete(q)'
    BY <1>1, <1>a, <2>1 DEF PlacesInv
  <2>5. \A q \in Procs : previous'[q] # NoDir => previous'[q] # root'
    BY <1>1 DEF PlacesInv
  <2>6. \A q, r \in Procs : q # r /\ previous'[q] # NoDir => previous'[q] # previous'[r]
    BY <1>1 DEF PlacesInv
  <2> QED BY <1>1, <2>2, <2>3, <2>4, <2>5, <2>6 DEF PlacesInv
<1>2. ASSUME NEW p \in Procs, Begin(p) \/ CloneDone(p) \/ Discover(p) \/ AlreadyThere(p) \/ Decline(p) \/ Check(p)
      PROVE  PlacesInv'
  <2>1. ~Complete(p)
    BY <1>2 DEF Begin, CloneDone, Discover, AlreadyThere, Decline, Check, Complete, Building
  <2>2. /\ UNCHANGED <<root, content, previous, wheel>> /\ \E to \in Pcs : pc' = [pc EXCEPT ![p] = to]
        /\ \A q \in Procs : q # p => result'[q] = result[q]
        /\ pc'[p] \in {"checking", "moving", "swapout", "swapin"} => pc[p] \in {"checking", "moving", "swapout"}
    BY <1>2 DEF Begin, CloneDone, Discover, AlreadyThere, Decline, Check, Pcs, Typed, local
  <2> QED BY <1>1, <2>1, <2>2
<1>3. ASSUME NEW p \in Procs, Drop(p) \/ CleanUp(p) PROVE PlacesInv'
  <2>1. Complete(p) => Complete(p)'
    BY <1>3 DEF Drop, CleanUp, Complete, Building, Typed, local
  <2>2. /\ UNCHANGED <<root, content, wheel, result>> /\ \E to \in Pcs : pc' = [pc EXCEPT ![p] = to]
        /\ \A q \in Procs : previous'[q] = previous[q] \/ (q = p /\ previous'[q] = NoDir)
        /\ pc'[p] \notin {"checking", "moving", "swapout", "swapin"}
    BY <1>3 DEF Drop, CleanUp, Pcs, Typed, local
  <2> QED BY <1>1, <2>1, <2>2
<1>4. ASSUME NEW p \in Procs, CallFails(p) \/ RestoreFails(p) \/ Interrupt(p) \/ InterruptInGap(p) \/ Crash(p) PROVE PlacesInv'
  <2>1. Complete(p) => Complete(p)'
    BY <1>4 DEF CallFails, RestoreFails, Interrupt, InterruptInGap, Crash, Complete, Building, Typed, local
  <2>2. /\ UNCHANGED <<root, content, wheel, previous>> /\ \E to \in Pcs : pc' = [pc EXCEPT ![p] = to]
        /\ \A q \in Procs : q # p => result'[q] = result[q]
        /\ pc'[p] \notin {"checking", "moving", "swapout", "swapin"}
    BY <1>4 DEF CallFails, RestoreFails, Interrupt, InterruptInGap, Crash, Pcs, Building, Typed, local
  <2> QED BY <1>1, <2>1, <2>2
\* A process that writes in its own stage.
<1>5. ASSUME NEW p \in Procs, pc[p] \in Building, UNCHANGED <<root, previous, wheel>>,
             \E to \in Pcs : pc' = [pc EXCEPT ![p] = to],
             \A q \in Procs : q # p => content'[q] = content[q] /\ result'[q] = result[q],
             pc'[p] \in {"checking", "moving", "swapout", "swapin"} => content'[p][wheel[p].dist] # Absent
      PROVE  PlacesInv'
  <2>1. ~Complete(p)
    BY <1>5 DEF Complete
  <2>2. \A q \in Procs : q # p /\ Complete(q) => Complete(q)'
    <3> SUFFICES ASSUME NEW q \in Procs, q # p, Complete(q) PROVE Complete(q)'
      OBVIOUS
    <3>1. pc'[q] = pc[q] /\ result'[q] = result[q] /\ content'[q] = content[q]
      BY <1>5 DEF Typed
    <3> QED BY <1>5, <3>1 DEF Complete
  <2>3. \A q \in Procs : pc'[q] \in {"checking", "moving", "swapout", "swapin"} => content'[q][wheel[q].dist] # Absent
    BY <1>5 DEF PlacesInv, Typed
  <2>4. \A q \in Procs : root' = q => Complete(q)'
    BY <1>5, <2>1, <2>2 DEF PlacesInv
  <2>5. \A q, r \in Procs : previous'[r] = q => Complete(q)'
    BY <1>5, <2>1, <2>2 DEF PlacesInv
  <2> QED BY <1>5, <2>3, <2>4, <2>5 DEF PlacesInv
<1>6. ASSUME NEW p \in Procs, NEW k \in Dists, CloneNext(p, k) PROVE PlacesInv'
  <2>1. \E to \in Pcs : pc' = [pc EXCEPT ![p] = to]
    BY <1>6 DEF CloneNext, Pcs, Typed
  <2>2. /\ pc[p] \in Building /\ UNCHANGED <<root, previous, wheel>>
        /\ \A q \in Procs : q # p => content'[q] = content[q] /\ result'[q] = result[q]
        /\ pc'[p] \notin {"checking", "moving", "swapout", "swapin"}
    BY <1>6 DEF CloneNext, Stages, Building, Typed, Dirs
  <2> QED BY <1>5, <2>1, <2>2
<1>7. ASSUME NEW p \in Procs, RemoveOld(p) PROVE PlacesInv'
  <2>1. \E to \in Pcs : pc' = [pc EXCEPT ![p] = to]
    BY <1>7 DEF RemoveOld, Pcs, Typed
  <2>2. /\ pc[p] \in Building /\ UNCHANGED <<root, previous, wheel, result>>
        /\ \A q \in Procs : q # p => content'[q] = content[q]
        /\ pc'[p] \notin {"checking", "moving", "swapout", "swapin"}
    BY <1>7 DEF RemoveOld, Stages, Building, Typed, Dirs, local
  <2> QED BY <1>5, <2>1, <2>2
<1>8. ASSUME NEW p \in Procs, Fill(p) PROVE PlacesInv'
  <2>1. \E to \in Pcs : pc' = [pc EXCEPT ![p] = to]
    BY <1>8 DEF Fill, Pcs, Typed
  <2>2. /\ pc[p] \in Building /\ UNCHANGED <<root, previous, wheel>>
        /\ \A q \in Procs : q # p => content'[q] = content[q] /\ result'[q] = result[q]
    BY <1>8 DEF Fill, Stages, Building, Typed, Dirs
  <2>3. pc'[p] \in {"checking", "moving", "swapout", "swapin"} => content'[p][wheel[p].dist] # Absent
    BY <1>8, <1>w DEF Fill, Stages, Typed, Dirs
  <2> QED BY <1>5, <2>1, <2>2, <2>3
\* The renames.
<1>9. ASSUME NEW p \in Procs, MoveNew(p) \/ SwapIn(p) PROVE PlacesInv'
  <2>1. /\ ~Complete(p) /\ content[p][wheel[p].dist] # Absent /\ UNCHANGED <<content, previous, wheel>>
        /\ \A q \in Procs : q # p => pc'[q] = pc[q] /\ result'[q] = result[q]
    BY <1>9 DEF MoveNew, SwapIn, Complete, PlacesInv, Typed
  <2>2. \A q \in Procs : q # p /\ Complete(q) => Complete(q)'
    BY <2>1 DEF Complete
  <2>3. \A q \in Procs : previous[q] # p
    BY <2>1 DEF PlacesInv
  <2>4. CASE root' = p /\ pc'[p] \in {"leaving", "dropping"} /\ result'[p] = "returned"
    <3>1. Complete(p)'
      BY <2>1, <2>4 DEF Complete, Building
    <3> QED BY <1>a, <2>1, <2>2, <2>3, <2>4, <3>1 DEF PlacesInv
  <2>5. CASE root' = root /\ pc'[p] \in {"leaving", "restoring"}
    BY <2>1, <2>2, <2>3, <2>5 DEF PlacesInv
  <2> QED BY <1>9, <2>4, <2>5 DEF MoveNew, SwapIn, Typed
<1>10. ASSUME NEW p \in Procs, SwapOut(p) PROVE PlacesInv'
  <2>1. /\ ~Complete(p) /\ content[p][wheel[p].dist] # Absent /\ UNCHANGED <<content, wheel>>
        /\ pc'[p] \in {"swapin", "leaving"}
        /\ \A q \in Procs : q # p => pc'[q] = pc[q] /\ result'[q] = result[q] /\ previous'[q] = previous[q]
        /\ \/ root # NoDir /\ previous'[p] = root /\ root' = NoDir
           \/ UNCHANGED <<root, previous>>
    BY <1>10 DEF SwapOut, Complete, PlacesInv, Typed
  <2>2. \A q \in Procs : q # p /\ Complete(q) => Complete(q)'
    BY <2>1 DEF Complete
  <2>3. root # p /\ \A q \in Procs : previous[q] # p
    BY <2>1 DEF PlacesInv
  <2>4. \A q \in Procs : pc'[q] \in {"checking", "moving", "swapout", "swapin"} => content'[q][wheel'[q].dist] # Absent
    BY <2>1 DEF PlacesInv
  <2>5. \A q \in Procs : root' = q => Complete(q)'
    BY <1>a, <2>1, <2>2, <2>3 DEF PlacesInv
  <2>6. \A q, r \in Procs : previous'[r] = q => Complete(q)'
    BY <1>a, <2>1, <2>2, <2>3 DEF PlacesInv
  <2>7. \A q \in Procs : previous'[q] # NoDir => previous'[q] # root'
    BY <2>1 DEF PlacesInv
  <2>8. \A q, r \in Procs : q # r /\ previous'[q] # NoDir => previous'[q] # previous'[r]
    BY <2>1 DEF PlacesInv
  <2> QED BY <2>4, <2>5, <2>6, <2>7, <2>8 DEF PlacesInv
<1>11. ASSUME NEW p \in Procs, PutBack(p) PROVE PlacesInv'
  <2>1. /\ ~Complete(p) /\ UNCHANGED <<content, wheel, result>> /\ pc'[p] = "leaving"
        /\ \A q \in Procs : q # p => pc'[q] = pc[q] /\ previous'[q] = previous[q]
        /\ \/ root' = previous[p] /\ previous'[p] = NoDir
           \/ UNCHANGED <<root, previous>>
    BY <1>11 DEF PutBack, Complete, Typed, local
  <2>2. \A q \in Procs : q # p /\ Complete(q) => Complete(q)'
    BY <2>1 DEF Complete
  <2>3. root # p /\ \A q \in Procs : previous[q] # p
    BY <2>1 DEF PlacesInv
  <2>4. \A q \in Procs : pc'[q] \in {"checking", "moving", "swapout", "swapin"} => content'[q][wheel'[q].dist] # Absent
    BY <2>1 DEF PlacesInv
  <2>5. \A q \in Procs : root' = q => Complete(q)'
    BY <2>1, <2>2, <2>3 DEF PlacesInv
  <2>6. \A q, r \in Procs : previous'[r] = q => Complete(q)'
    BY <1>a, <2>1, <2>2, <2>3 DEF PlacesInv
  <2>7. \A q \in Procs : previous'[q] # NoDir => previous'[q] # root'
    BY <2>1 DEF PlacesInv
  <2>8. \A q, r \in Procs : q # r /\ previous'[q] # NoDir => previous'[q] # previous'[r]
    BY <2>1 DEF PlacesInv
  <2> QED BY <2>4, <2>5, <2>6, <2>7, <2>8 DEF PlacesInv
\* The staged route writes in the target, or makes it.
<1>12. ASSUME NEW p \in Procs, Fallback(p) PROVE PlacesInv'
  <2>1. /\ ~Complete(p) /\ UNCHANGED <<wheel, previous>> /\ pc'[p] = "ended"
        /\ \A q \in Procs : q # p => pc'[q] = pc[q] /\ result'[q] = result[q]
    BY <1>12 DEF Fallback, Complete, Typed
  <2>2. root # p /\ \A q \in Procs : previous[q] # p
    BY <2>1 DEF PlacesInv
  <2>3. CASE UNCHANGED <<root, content>>
    <3>1. \A q \in Procs : q # p /\ Complete(q) => Complete(q)'
      BY <2>1, <2>3 DEF Complete
    <3> QED BY <2>1, <2>2, <2>3, <3>1 DEF PlacesInv
  <2>4. CASE /\ root = NoDir /\ root' = p
             /\ content' = [content EXCEPT ![p] = [Empty EXCEPT ![wheel[p].dist] = wheel[p].version]]
    <3>1. content'[p][wheel[p].dist] # Absent /\ \A q \in Procs : q # p => content'[q] = content[q]
      BY <1>w, <2>4 DEF Typed, Dirs, Empty
    <3>2. Complete(p)'
      BY <2>1, <3>1 DEF Complete, Building
    <3>3. \A q \in Procs : q # p /\ Complete(q) => Complete(q)'
      BY <2>1, <3>1 DEF Complete
    <3> QED BY <1>a, <2>1, <2>2, <2>4, <3>1, <3>2, <3>3 DEF PlacesInv
  <2>5. CASE root # NoDir /\ root' = root /\ content' = [content EXCEPT ![root][wheel[p].dist] = wheel[p].version]
    <3>1. \A q \in Procs : content[q][wheel[q].dist] # Absent => content'[q][wheel[q].dist] # Absent
      <4> SUFFICES ASSUME NEW q \in Procs, content[q][wheel[q].dist] # Absent PROVE content'[q][wheel[q].dist] # Absent
        OBVIOUS
      <4>1. q # root => content'[q] = content[q]
        BY <2>5 DEF Typed, Dirs
      <4>2. q = root => content'[q] = [content[q] EXCEPT ![wheel[p].dist] = wheel[p].version]
        BY <2>5 DEF Typed, Dirs
      <4>3. q = root => content'[q][wheel[q].dist] # Absent
        BY <1>w, <4>2 DEF Typed, Dirs
      <4> QED BY <4>1, <4>3
    <3>2. \A q \in Procs : q # p /\ Complete(q) => Complete(q)'
      BY <2>1, <3>1 DEF Complete
    <3> QED BY <2>1, <2>2, <2>5, <3>1, <3>2 DEF PlacesInv
  <2> QED BY <1>12, <2>3, <2>4, <2>5 DEF Fallback
<1>13. CASE UNCHANGED vars \/ Terminated
  BY <1>13 DEF Terminated, vars, local, ghost, PlacesInv, Complete
<1> QED BY <1>2, <1>3, <1>4, <1>6, <1>7, <1>8, <1>9, <1>10, <1>11, <1>12, <1>13 DEF Next, Step, Fault

LEMMA PlacesHold == Spec => [](Typed /\ PlacesInv)
<1>1. Init => Typed /\ PlacesInv
  BY InitTyped, InitPlaces
<1>2. Typed /\ PlacesInv /\ [Next]_vars => (Typed /\ PlacesInv)'
  BY TypedStep, PlacesStep
<1> QED BY <1>1, <1>2, PTL DEF Spec

\* Every variable keeps its type, and no directory is at two places.
THEOREM Typing == Spec => []TypeOK
<1>1. Typed /\ PlacesInv => TypeOK
  BY DEF Typed, Pcs, PlacesInv, TypeOK
<1> QED BY <1>1, PlacesHold, PTL

\* However many processes install into one target, overlap, fail or are killed: the directory at its path
\* has been built to the end, and what its process was asked to install is in it (the two renames of
\* install_wheels_from_archive_cache).
THEOREM PathIsComplete == Spec => []NeverHalfBuilt
<1>1. Typed /\ PlacesInv => NeverHalfBuilt
  BY DEF PlacesInv, Complete, NeverHalfBuilt
<1> QED BY <1>1, PlacesHold, PTL

------------------------------------------------------------------------------------
(* Calls, and who is at work.                                                       *)

LEMMA AppendedSet ==
    ASSUME begun \in Seq(Procs), NEW p \in Procs, begun' = Append(begun, p)
    PROVE  ToSet(begun') = ToSet(begun) \cup {p}
<1>1. ToSet(begun) = {begun[i] : i \in 1..Len(begun)} /\ ToSet(begun') = {begun'[i] : i \in 1..Len(begun')}
  BY DEF ToSet
<1>2. Len(begun') = Len(begun) + 1 /\ begun'[Len(begun) + 1] = p /\ \A i \in 1..Len(begun) : begun'[i] = begun[i]
  OBVIOUS
<1>3. Len(begun) \in Nat
  OBVIOUS
<1> QED BY <1>1, <1>2, <1>3

\* A step of one process leaves the others where they are; only their first step adds a call.
LEMMA OneActs ==
    ASSUME Typed, NEW p \in Procs, Step(p) \/ Fault(p)
    PROVE  /\ \A q \in Procs : q # p => pc'[q] = pc[q] /\ previous'[q] = previous[q]
           /\ wheel' = wheel /\ origin' = origin /\ hit \subseteq hit' /\ (overlapped => overlapped')
           /\ pc[p] \notin {"ended", "crashed"} /\ pc'[p] # "idle"
           /\ ToSet(begun) \subseteq ToSet(begun')
           /\ \/ Begin(p)
              \/ AtWork(p) /\ begun' = begun /\ overlapped' = overlapped
<1> USE DEF Goes, Answers
<1>1. CASE Begin(p)
  BY <1>1, AppendedSet DEF Begin, Typed
<1>2. CASE CloneDone(p) \/ Discover(p) \/ AlreadyThere(p) \/ Decline(p) \/ RemoveOld(p) \/ Fill(p) \/ Check(p)
  BY <1>2 DEF CloneDone, Discover, AlreadyThere, Decline, RemoveOld, Fill, Check, AtWork, Typed, local, ghost
<1>3. CASE MoveNew(p) \/ SwapOut(p) \/ SwapIn(p) \/ PutBack(p) \/ Drop(p) \/ CleanUp(p) \/ Fallback(p)
  BY <1>3 DEF MoveNew, SwapOut, SwapIn, PutBack, Drop, CleanUp, Fallback, AtWork, Typed, local, ghost
<1>4. ASSUME NEW k \in Dists, CloneNext(p, k)
      PROVE  /\ \A q \in Procs : q # p => pc'[q] = pc[q]
             /\ AtWork(p) /\ UNCHANGED <<wheel, previous, origin, hit, begun, overlapped>> /\ pc'[p] # "idle"
  BY <1>4 DEF CloneNext, AtWork, Typed, ghost
<1>5. CASE Fault(p)
  BY <1>5 DEF Fault, CallFails, RestoreFails, Interrupt, InterruptInGap, Crash, Injected, Building, AtWork, Typed, local
<1>6. CASE \E k \in Dists : CloneNext(p, k)
  BY <1>4, <1>6 DEF AtWork
<1> QED BY <1>1, <1>2, <1>3, <1>5, <1>6 DEF Step

\* A process writes in its own directory while it builds it, and in the target on the staged route.
LEMMA WritesWhere ==
    ASSUME Typed, NEW p \in Procs, Step(p) \/ Fault(p)
    PROVE  \/ UNCHANGED content
           \/ /\ pc[p] \in {"cloning", "removing", "filling"} \/ (pc[p] = "fallback" /\ root = NoDir)
              /\ \A d \in Dirs : d # p => content'[d] = content[d]
           \/ /\ pc[p] = "fallback" /\ root # NoDir
              /\ content' = [content EXCEPT ![root][wheel[p].dist] = wheel[p].version]
<1> USE DEF Goes, Answers
<1>1. CASE UNCHANGED content
  BY <1>1
<1>2. ASSUME NEW k \in Dists, CloneNext(p, k), ~UNCHANGED content
      PROVE  pc[p] = "cloning" /\ \A d \in Dirs : d # p => content'[d] = content[d]
  BY <1>2 DEF CloneNext, Stages, Typed
<1>3. CASE (RemoveOld(p) \/ Fill(p)) /\ ~UNCHANGED content
  BY <1>3 DEF RemoveOld, Fill, Stages, Typed
<1>4. CASE Fallback(p) /\ ~UNCHANGED content
  BY <1>4 DEF Fallback, Typed
<1>5. CASE ~UNCHANGED content /\ ~RemoveOld(p) /\ ~Fill(p) /\ ~Fallback(p)
  <2>1. \E k \in Dists : CloneNext(p, k)
    BY <1>5 DEF Step, Fault, Begin, CloneDone, Discover, AlreadyThere, Decline, Check, MoveNew, SwapOut, SwapIn,
                PutBack, Drop, CleanUp, CallFails, RestoreFails, Interrupt, InterruptInGap, Crash
  <2> QED BY <1>2, <1>5, <2>1
<1> QED BY <1>1, <1>3, <1>4, <1>5

LEMMA InitCalls == ASSUME Init PROVE CallsInv
<1>1. \A p \in Procs : pc[p] = "idle" /\ p # Target /\ p \in Dirs
  BY ProcsAssumption DEF Init, Dirs
<1>2. \A p \in Procs : content[p] = Empty
  BY <1>1 DEF Init
<1> QED BY <1>1, <1>2 DEF CallsInv, AtWork

LEMMA CallsStep == ASSUME Typed, PlacesInv, CallsInv, [Next]_vars PROVE CallsInv'
<1>1. ASSUME NEW p \in Procs, Step(p) \/ Fault(p) PROVE CallsInv'
  <2>1. \A q \in Procs : q # p => pc'[q] = pc[q]
    BY <1>1, OneActs
  <2>2. \A q \in Procs : pc'[q] = "idle" => content'[q] = Empty
    <3> SUFFICES ASSUME NEW q \in Procs, pc'[q] = "idle" PROVE content'[q] = Empty
      OBVIOUS
    <3>1. q # p /\ pc[q] = "idle"
      BY <1>1, <2>1, OneActs
    <3>2. q # root /\ q \in Dirs
      BY <3>1 DEF PlacesInv, Complete, Dirs
    <3>3. content'[q] = content[q]
      BY <1>1, <3>1, <3>2, WritesWhere DEF Typed
    <3> QED BY <3>1, <3>3 DEF CallsInv
  <2>3. \A q \in Procs : pc'[q] # "idle" => q \in ToSet(begun')
    <3>1. pc'[p] # "idle" => p \in ToSet(begun')
      <4>1. CASE Begin(p)
        BY <4>1, AppendedSet DEF Begin, Typed
      <4>2. CASE AtWork(p) /\ begun' = begun
        BY <4>2 DEF AtWork, CallsInv
      <4> QED BY <1>1, <4>1, <4>2, OneActs
    <3> QED BY <1>1, <2>1, <3>1, OneActs DEF CallsInv
  <2>4. ~overlapped' => \A q, r \in Procs : AtWork(q)' /\ AtWork(r)' => q = r
    <3> SUFFICES ASSUME ~overlapped' PROVE \A q, r \in Procs : AtWork(q)' /\ AtWork(r)' => q = r
      OBVIOUS
    <3>1. \A q \in Procs : q # p => ~AtWork(q)
      <4>1. CASE Begin(p)
        BY <4>1 DEF Begin
      <4>2. CASE AtWork(p) /\ overlapped' = overlapped
        BY <4>2 DEF CallsInv
      <4> QED BY <1>1, <4>1, <4>2, OneActs
    <3> QED BY <2>1, <3>1 DEF AtWork
  <2> QED BY <2>2, <2>3, <2>4 DEF CallsInv
<1>2. CASE UNCHANGED vars \/ Terminated
  BY <1>2 DEF Terminated, vars, ghost, CallsInv, AtWork
<1> QED BY <1>1, <1>2 DEF Next

------------------------------------------------------------------------------------
(* Where the target is.                                                             *)

\* A directory that holds what was there at first but for what calls install still does when more calls
\* are made, and when a call writes its wheel in it.
LEMMA StillKept ==
    ASSUME Typed, NEW d \in Dirs, Kept(d), origin' = origin, wheel' = wheel, ToSet(begun) \subseteq ToSet(begun'),
           content'[d] = content[d]
    PROVE  Kept(d)'
BY DEF Kept, Before

LEMMA KeptWithWheel ==
    ASSUME Typed, NEW p \in Procs, p \in ToSet(begun), NEW d \in Dirs, NEW c \in Dirs, Kept(c),
           origin' = origin, wheel' = wheel, ToSet(begun) \subseteq ToSet(begun'),
           content'[d] = [content[c] EXCEPT ![wheel[p].dist] = wheel[p].version]
    PROVE  Kept(d)'
<1>1. wheel[p] = [dist |-> wheel[p].dist, version |-> wheel[p].version] /\ wheel[p].dist \in Dists
  BY DEF Typed, Wheels
<1>2. content[c] \in [Dists -> Held]
  BY DEF Typed
<1> SUFFICES ASSUME NEW k \in Dists
             PROVE  \/ content'[d][k] = Before(k)
                    \/ \E q \in ToSet(begun') : wheel[q] = [dist |-> k, version |-> content'[d][k]]
  BY DEF Kept, Before
<1>3. CASE k = wheel[p].dist
  <2>1. content'[d][k] = wheel[p].version
    BY <1>2, <1>3
  <2> QED BY <1>1, <1>3, <2>1
<1>4. CASE k # wheel[p].dist
  <2>1. content'[d][k] = content[c][k]
    BY <1>2, <1>4
  <2> QED BY <2>1 DEF Kept
<1> QED BY <1>3, <1>4

LEMMA InitKept == ASSUME Init PROVE KeptInv
<1> SUFFICES ASSUME Calm PROVE InPlace
  BY DEF KeptInv
<1>1. PICK c \in [Dists -> Held] :
          /\ content = [d \in Dirs |-> IF d = Target THEN c ELSE Empty]
          /\ origin = IF root = NoDir THEN NoDir ELSE c
  BY DEF Init
<1>2. root = Target /\ origin = c /\ content[root] = c /\ root # NoDir
  BY <1>1, ProcsAssumption DEF Init, Calm, Dirs
<1>3. \A p \in Procs : ~AtWork(p)
  BY DEF Init, AtWork
<1> QED BY <1>2, <1>3 DEF InPlace, Kept, Before, Calm

\* Nobody touches what a killed process has left.
LEMMA LeftStep ==
    ASSUME Typed, PlacesInv, NEW p \in Procs, Step(p) \/ Fault(p), LeftBehind PROVE LeftBehind'
<1>1. PICK q \in Procs, d \in Dirs : pc[q] = "crashed" /\ previous[q] = d /\ d # NoDir /\ Kept(d)
  BY DEF LeftBehind, Typed
<1>2. q # p /\ pc'[q] = "crashed" /\ previous'[q] = d
  BY <1>1, OneActs
<1>3. content'[d] = content[d]
  <2>1. d # root
    BY <1>1 DEF PlacesInv
  <2>2. d = p => Complete(p)
    BY <1>1 DEF PlacesInv
  <2> QED BY <2>1, <2>2, WritesWhere DEF Complete, Building, Typed
<1>4. Kept(d)'
  BY <1>1, <1>3, OneActs, StillKept
<1> QED BY <1>1, <1>2, <1>4 DEF LeftBehind

\* A step of a process that follows the target, or begins to.
LEMMA InPlaceStep ==
    ASSUME Typed, PlacesInv, CallsInv, NEW p \in Procs, Step(p) \/ Fault(p), Calm, Calm', InPlace
    PROVE  InPlace' \/ MovedAway'
<1> USE DEF Goes, Answers
<1>1. PICK d \in Dirs : root = d /\ d # NoDir /\ Kept(d)
  BY DEF InPlace, Typed
<1>2. d # p \/ Complete(p)
  BY <1>1 DEF PlacesInv
<1>3. \A q \in Procs : q # p => ~AtWork(q)'
  <2>1. \A q \in Procs : q # p => ~AtWork(q)
    <3>1. CASE Begin(p)
      BY <3>1 DEF Begin, Calm
    <3>2. CASE AtWork(p)
      BY <3>2 DEF CallsInv, Calm
    <3> QED BY <3>1, <3>2, OneActs
  <2> QED BY <2>1, OneActs DEF AtWork
<1>4. AtWork(p) => Follows(p)
  BY DEF InPlace
<1>5. AtWork(p) => p \in ToSet(begun)
  BY DEF AtWork, CallsInv
<1>6. content'[d] = content[d] => Kept(d)'
  BY <1>1, OneActs, StillKept
<1>7. ASSUME root' = d, content'[d] = content[d], AtWork(p)' => Follows(p)' PROVE InPlace'
  <2>1. root' # NoDir /\ Kept(root)'
    <3>1. Kept(d)' /\ root' = d
      BY <1>6, <1>7
    <3> QED BY <1>1, <3>1 DEF Kept
  <2> QED BY <1>3, <1>7, <2>1 DEF InPlace
<1>t. /\ content[p] \in [Dists -> Held] /\ content[d] \in [Dists -> Held] /\ p \in Dirs
      /\ wheel[p].dist \in Dists /\ wheel[p] \in Wheels /\ d # NoDir
  BY <1>1, WheelTyped DEF Typed
<1>8. CASE Begin(p)
  <2>1. /\ pc'[p] = "cloning" /\ existed'[p] /\ left'[p] = Listed(d) /\ content' = content /\ root' = d
        /\ content[p] = Empty
    BY <1>1, <1>8 DEF Begin, CallsInv, Typed
  <2>2. Follows(p)'
    BY <1>t, <2>1 DEF Follows, Listed, Empty, Building
  <2> QED BY <1>7, <2>1, <2>2
<1>9. ASSUME NEW k \in Dists, CloneNext(p, k) PROVE InPlace'
  <2>1. d # p /\ Follows(p) /\ root' = d
    BY <1>1, <1>2, <1>4, <1>9 DEF CloneNext, Complete, AtWork, Building
  <2>2. CASE InRoot(k) = Absent
    BY <1>7, <1>9, <2>1, <2>2 DEF CloneNext, Follows, Building, Typed
  <2>3. CASE InRoot(k) # Absent
    <3>1. /\ pc'[p] = "cloning" /\ existed' = existed /\ left'[p] = left[p] \ {k} /\ content'[d] = content[d]
          /\ content'[p] = [content[p] EXCEPT ![k] = content[d][k]]
      BY <1>1, <1>9, <1>t, <2>1, <2>3 DEF CloneNext, Stages, InRoot, Typed
    <3>2. Follows(p)'
      BY <1>1, <1>9, <1>t, <2>1, <3>1 DEF CloneNext, Follows, Building
    <3> QED BY <1>7, <2>1, <3>1, <3>2
  <2> QED BY <2>2, <2>3
<1>10. CASE CloneDone(p)
  <2>1. Follows(p)'
    <3>1. content[p] = content[d]
      BY <1>1, <1>4, <1>10, <1>t DEF CloneDone, Follows, AtWork
    <3> QED BY <1>1, <1>4, <1>10, <3>1 DEF CloneDone, Follows, AtWork, Building, Typed, local
  <2> QED BY <1>1, <1>7, <1>10, <2>1 DEF CloneDone
<1>11. CASE Discover(p)
  <2>1. Follows(p)'
    BY <1>1, <1>4, <1>11 DEF Discover, InRoot, Follows, AtWork, Building, Typed
  <2> QED BY <1>1, <1>7, <1>11, <2>1 DEF Discover
<1>12. CASE AlreadyThere(p) \/ Decline(p)
  BY <1>1, <1>7, <1>12 DEF AlreadyThere, Decline, Follows, Building, Typed
<1>13. CASE RemoveOld(p)
  <2>1. d # p /\ Follows(p) /\ root' = d /\ pc'[p] = "filling" /\ existed' = existed /\ wheel' = wheel
    BY <1>1, <1>2, <1>4, <1>13 DEF RemoveOld, Complete, AtWork, Building, Typed, local
  <2>2. content'[p] = [content[d] EXCEPT ![wheel[p].dist] = Absent] /\ content'[d] = content[d]
    <3>1. content[p] = content[d] /\ found[p] = content[d][wheel[p].dist]
      BY <1>1, <1>13, <2>1 DEF RemoveOld, Follows
    <3>2. content' = [content EXCEPT ![p][wheel[p].dist] = Absent]
      BY <1>13, <3>1 DEF RemoveOld, Stages
    <3>3. content'[p] = [content[p] EXCEPT ![wheel[p].dist] = Absent] /\ content'[d] = content[d]
      BY <1>t, <2>1, <3>2 DEF Typed
    <3> QED BY <3>1, <3>3
  <2>3. Follows(p)'
    BY <1>1, <1>13, <2>1, <2>2 DEF RemoveOld, Follows, Building
  <2> QED BY <1>7, <2>1, <2>2, <2>3
<1>14. CASE Fill(p)
  <2>1. d # p /\ Follows(p) /\ root' = d /\ wheel' = wheel /\ existed' = existed
    BY <1>1, <1>2, <1>4, <1>14 DEF Fill, Complete, AtWork, Building
  <2>2. content[p] = [content[d] EXCEPT ![wheel[p].dist] = Absent]
    BY <1>1, <1>14, <2>1 DEF Fill, Follows
  <2>3. /\ content'[p] = [content[d] EXCEPT ![wheel[p].dist] = wheel[p].version] /\ content'[d] = content[d]
        /\ pc'[p] = "checking"
    <3>1. content[p][wheel[p].dist] = Absent
      BY <1>t, <2>2
    <3>2. content' = [content EXCEPT ![p][wheel[p].dist] = wheel[p].version] /\ pc'[p] = "checking"
      BY <1>14, <3>1 DEF Fill, Stages, Typed
    <3>3. content'[p] = [content[p] EXCEPT ![wheel[p].dist] = wheel[p].version] /\ content'[d] = content[d]
      BY <1>t, <2>1, <3>2 DEF Typed
    <3>4. [content[p] EXCEPT ![wheel[p].dist] = wheel[p].version]
              = [content[d] EXCEPT ![wheel[p].dist] = wheel[p].version]
      BY <1>t, <2>2
    <3> QED BY <3>2, <3>3, <3>4
  <2>4. Kept(p)'
    BY <1>1, <1>5, <1>14, <1>t, <2>3, OneActs, KeptWithWheel DEF Fill, AtWork
  <2>5. Follows(p)'
    BY <1>14, <2>1, <2>3, <2>4 DEF Fill, Follows, Building
  <2> QED BY <1>7, <2>1, <2>3, <2>5
<1>15. CASE Check(p)
  <2>1. pc'[p] = "swapout" /\ Kept(p)
    BY <1>1, <1>4, <1>15 DEF Check, Follows, AtWork, Building, Typed
  <2>2. Kept(p)'
    BY <1>15, <1>t, <2>1, OneActs, StillKept DEF Check
  <2>3. Follows(p)'
    BY <2>1, <2>2 DEF Follows, Building
  <2> QED BY <1>1, <1>7, <1>15, <2>3 DEF Check
<1>16. CASE SwapOut(p)
  <2>1. Kept(p) /\ pc'[p] = "swapin" /\ previous'[p] = d /\ root' = NoDir /\ content' = content
    BY <1>1, <1>4, <1>16 DEF SwapOut, Follows, AtWork, Typed
  <2>2. Kept(p)' /\ Kept(d)'
    BY <1>6, <1>t, <2>1, OneActs, StillKept
  <2>3. Kept(previous[p])'
    BY <2>1, <2>2 DEF Kept
  <2> QED BY <1>1, <2>1, <2>2, <2>3 DEF MovedAway
<1>17. ~MoveNew(p) /\ ~SwapIn(p) /\ ~PutBack(p) /\ ~RestoreFails(p) /\ ~InterruptInGap(p)
  BY <1>4 DEF MoveNew, SwapIn, PutBack, RestoreFails, InterruptInGap, Injected, Calm, Unrecovered, Follows, AtWork
<1>18. CASE Drop(p) \/ CleanUp(p)
  BY <1>1, <1>7, <1>18 DEF Drop, CleanUp, Follows, Building, AtWork, Typed
<1>19. CASE Fallback(p)
  <2>1. root' = d /\ pc'[p] = "ended"
    BY <1>1, <1>19 DEF Fallback, Typed
  <2>2. CASE content' = content
    BY <1>7, <2>1, <2>2 DEF AtWork
  <2>3. CASE content' = [content EXCEPT ![d][wheel[p].dist] = wheel[p].version]
    <3>1. content'[d] = [content[d] EXCEPT ![wheel[p].dist] = wheel[p].version]
      BY <2>3 DEF Typed
    <3>2. Kept(d)'
      BY <1>1, <1>5, <1>19, <3>1, OneActs, KeptWithWheel DEF Fallback, AtWork
    <3>3. Kept(root)'
      BY <2>1, <3>2 DEF Kept
    <3> QED BY <1>1, <1>3, <2>1, <3>3 DEF InPlace, AtWork
  <2> QED BY <1>1, <1>19, <2>2, <2>3 DEF Fallback
<1>20. CASE CallFails(p) \/ Interrupt(p) \/ Crash(p)
  <2>1. pc'[p] \in {"leaving", "crashed"} /\ root' = d /\ content' = content
    BY <1>1, <1>4, <1>20 DEF CallFails, Interrupt, Crash, Follows, AtWork, Building, Typed
  <2>2. Follows(p)'
    BY <2>1 DEF Follows, Building
  <2> QED BY <1>7, <2>1, <2>2
<1> QED BY <1>8, <1>9, <1>10, <1>11, <1>12, <1>13, <1>14, <1>15, <1>16, <1>17, <1>18, <1>19, <1>20 DEF Step, Fault

\* Between the renames only the process that has moved the target goes on.
LEMMA MovedAwayStep ==
    ASSUME Typed, PlacesInv, CallsInv, NEW p \in Procs, Step(p) \/ Fault(p), Calm, Calm', MovedAway
    PROVE  LeftBehind' \/ InPlace' \/ MovedAway'
<1> USE DEF Goes, Answers
<1>1. PICK q \in Procs, d \in Dirs :
          pc[q] \in {"swapin", "restoring"} /\ previous[q] = d /\ d # NoDir /\ Kept(d) /\ (pc[q] = "swapin" => Kept(q))
  BY DEF MovedAway, Typed
<1>2. AtWork(q) /\ root = NoDir
  BY <1>1 DEF MovedAway, AtWork
<1>3. p = q
  <2>1. ~Begin(p)
    BY <1>2 DEF Begin, Calm
  <2> QED BY <1>2, <2>1, OneActs DEF CallsInv, Calm
<1>4. \A r \in Procs : r # p => ~AtWork(r)'
  BY <1>2, <1>3, OneActs DEF CallsInv, Calm, AtWork
<1>5. content' = content
  BY <1>1, <1>3, WritesWhere
<1>6. Kept(d)' /\ (pc[p] = "swapin" => Kept(p)')
  BY <1>1, <1>3, <1>5, OneActs, StillKept, WheelTyped
<1>7. CASE SwapIn(p)
  <2>1. root' = p /\ pc'[p] = "dropping" /\ Kept(p)' /\ p # NoDir
    BY <1>1, <1>2, <1>3, <1>6, <1>7, ProcsAssumption DEF SwapIn, Vacant, Typed
  <2>2. Kept(root)'
    BY <2>1 DEF Kept
  <2> QED BY <1>4, <2>1, <2>2 DEF InPlace, Follows, Building
<1>8. CASE PutBack(p)
  <2>1. root' = d /\ pc'[p] = "leaving"
    BY <1>1, <1>2, <1>3, <1>8 DEF PutBack, Vacant, Typed
  <2>2. Kept(root)'
    BY <1>6, <2>1 DEF Kept
  <2> QED BY <1>1, <1>4, <2>1, <2>2 DEF InPlace, Follows, Building
<1>9. CASE CallFails(p) \/ Interrupt(p) \/ Crash(p)
  <2>1. root' = root /\ previous'[p] = d /\ pc'[p] \in {"restoring", "crashed"}
    BY <1>1, <1>3, <1>9 DEF CallFails, Interrupt, Crash, Building, Typed
  <2>2. Kept(previous[p])'
    BY <1>6, <2>1 DEF Kept
  <2> QED BY <1>1, <1>2, <2>1, <2>2 DEF LeftBehind, MovedAway
<1>10. SwapIn(p) \/ PutBack(p) \/ CallFails(p) \/ Interrupt(p) \/ Crash(p)
  <2>1. ~RestoreFails(p) /\ ~InterruptInGap(p)
    BY DEF RestoreFails, InterruptInGap, Injected, Calm, Unrecovered
  <2> QED BY <1>1, <1>3, <2>1 DEF Step, Fault, Begin, CloneDone, Discover, AlreadyThere, Decline, RemoveOld, Fill,
             Check, MoveNew, SwapOut, Drop, CleanUp, Fallback, CloneNext
<1> QED BY <1>7, <1>8, <1>9, <1>10

LEMMA KeptStep == ASSUME Typed, PlacesInv, CallsInv, KeptInv, [Next]_vars PROVE KeptInv'
<1> SUFFICES ASSUME Calm' PROVE LeftBehind' \/ InPlace' \/ MovedAway'
  BY DEF KeptInv
<1>1. ASSUME NEW p \in Procs, Step(p) \/ Fault(p) PROVE LeftBehind' \/ InPlace' \/ MovedAway'
  <2>1. Calm
    BY <1>1, OneActs DEF Calm, Unrecovered, Typed
  <2> QED BY <1>1, <2>1, LeftStep, InPlaceStep, MovedAwayStep DEF KeptInv
<1>2. CASE UNCHANGED vars \/ Terminated
  BY <1>2 DEF Terminated, vars, local, ghost, KeptInv, Calm, Unrecovered, LeftBehind, InPlace, MovedAway, Kept, Before, Follows, AtWork
<1> QED BY <1>1, <1>2 DEF Next

\* Whatever call fails, is interrupted or is killed, also between the two renames, but for the recovery
\* itself (line 811 raises, or is never reached): as long as calls do not overlap, the target is at its path
\* or kept as "previous", with nothing but what it held and what the calls install (the `try` of
\* install_wheels_from_archive_cache).
THEOREM TargetIsKept == Spec => []TargetKept
<1>1. Typed /\ KeptInv => TargetKept
  <2> SUFFICES ASSUME KeptInv, Calm
               PROVE  \E d \in {root} \cup {previous[p] : p \in Procs} : d # NoDir /\ Kept(d)
    BY DEF TargetKept, Calm
  <2> QED BY DEF KeptInv, LeftBehind, InPlace, MovedAway
<1>2. Init => CallsInv /\ KeptInv
  BY InitCalls, InitKept
<1>3. Typed /\ PlacesInv /\ CallsInv /\ KeptInv /\ [Next]_vars => (CallsInv /\ KeptInv)'
  BY CallsStep, KeptStep
<1> QED BY <1>1, <1>2, <1>3, PlacesHold, PTL DEF Spec

------------------------------------------------------------------------------------
(* Calls one after the other.                                                       *)

\* What is proved of calls one after the other, of which none is killed or interrupted.
Regular == Orderly /\ "interrupt" \notin hit

\* How the stage of a process at work relates to the target, also when there is none.
Mirrors(p) ==
    /\ pc[p] \notin {"swapin", "restoring", "crashed"}
    /\ pc[p] = "cloning" => \A k \in Dists : content[p][k] = IF k \in left[p] THEN Absent ELSE InRoot(k)
    /\ pc[p] \in {"discovering", "removing"} => \A k \in Dists : content[p][k] = InRoot(k)
    /\ pc[p] = "removing" => found[p] = InRoot(wheel[p].dist)
    /\ pc[p] = "filling" => \A k \in Dists : content[p][k] = IF k = wheel[p].dist THEN Absent ELSE InRoot(k)
    /\ pc[p] \in {"checking", "moving", "swapout"} =>
            \A k \in Dists : content[p][k] = IF k = wheel[p].dist THEN wheel[p].version ELSE InRoot(k)

Exact == (\A k \in Dists : InRoot(k) = After(k)) /\ \A p \in Procs : AtWork(p) => Mirrors(p)

\* Between the renames: what is kept, and what takes its place.
ExactAway ==
    /\ root = NoDir
    /\ \E p \in Procs, d \in Dirs :
          /\ pc[p] \in {"swapin", "restoring"} /\ previous[p] = d
          /\ \A k \in Dists : content[d][k] = After(k)
          /\ pc[p] = "swapin" =>
                \A k \in Dists : content[p][k] = IF k = wheel[p].dist THEN wheel[p].version ELSE After(k)

\* Of the calls that returned there is a last one, also when there is no bound on the calls.
IsLast(k, i) == i \in Returned(k) /\ \A j \in Returned(k) : i >= j
HasLast == \A k \in Dists : Returned(k) = {} \/ \E i \in Nat : IsLast(k, i)

ExactInv ==
    /\ \A p \in Procs : pc[p] \in Building \cup {"idle", "moving", "swapout", "swapin", "restoring", "fallback"}
                            => result[p] # "returned"
    /\ ~overlapped => \A p \in Procs : AtWork(p) => begun # <<>> /\ begun[Len(begun)] = p
    /\ Regular => HasLast /\ (Exact \/ ExactAway)

LEMMA LastIsMax ==
    ASSUME begun \in Seq(Procs), NEW k \in Dists, NEW i \in Nat, IsLast(k, i) PROVE Max(Returned(k)) = i
<1>1. Returned(k) \subseteq Nat
  BY DEF Returned
<1>2. \A j \in Returned(k) : (\A l \in Returned(k) : j >= l) => j = i
  BY <1>1 DEF IsLast
<1> QED BY <1>2 DEF IsLast, Max

\* A step that makes no call return changes nothing.
LEMMA AfterSame ==
    ASSUME Typed, HasLast, wheel' = wheel, origin' = origin,
           begun' = begun \/ (\E p \in Procs : begun' = Append(begun, p) /\ result'[p] # "returned"),
           \A p \in Procs : result'[p] = "returned" <=> result[p] = "returned"
    PROVE  HasLast' /\ \A k \in Dists : After(k)' = After(k)
<1>1. begun \in Seq(Procs) /\ \A i \in DOMAIN begun : begun[i] \in Procs
  BY DEF Typed
<1>2. \A i \in DOMAIN begun : i \in DOMAIN begun' /\ begun'[i] = begun[i] /\ i \in Nat
  BY <1>1
<1>3. \A i \in DOMAIN begun' : i \in DOMAIN begun \/ (begun'[i] \in Procs /\ result'[begun'[i]] # "returned")
  BY <1>1
<1> SUFFICES ASSUME NEW k \in Dists
             PROVE  (Returned(k)' = {} \/ \E i \in Nat : IsLast(k, i)') /\ After(k)' = After(k)
  BY DEF HasLast
<1>4. Returned(k)' = Returned(k)
  BY <1>1, <1>2, <1>3 DEF Returned
<1>5. CASE Returned(k) = {}
  BY <1>4, <1>5 DEF After, Before
<1>6. CASE Returned(k) # {}
  <2>1. PICK i \in Nat : IsLast(k, i)
    BY <1>6 DEF HasLast
  <2>2. IsLast(k, i)'
    BY <1>4, <2>1 DEF IsLast
  <2>3. Max(Returned(k)) = i
    BY <1>1, <2>1, LastIsMax
  <2>4. begun'[i] = begun[i]
    BY <1>2, <2>1 DEF IsLast, Returned
  <2> QED BY <1>4, <1>6, <2>2, <2>3, <2>4 DEF After
<1> QED BY <1>5, <1>6

\* The return of the last call.
LEMMA AfterReturn ==
    ASSUME Typed, HasLast, wheel' = wheel, origin' = origin, begun' = begun, NEW p \in Procs,
           begun # <<>>, begun[Len(begun)] = p, result' = [result EXCEPT ![p] = "returned"]
    PROVE  /\ HasLast'
           /\ \A k \in Dists : After(k)' = IF k = wheel[p].dist THEN wheel[p].version ELSE After(k)
<1> DEFINE n == Len(begun)
<1>1. /\ begun \in Seq(Procs) /\ \A i \in DOMAIN begun : begun[i] \in Procs /\ i \in Nat /\ n >= i
      /\ n \in DOMAIN begun /\ n \in Nat /\ begun' \in Seq(Procs)
  BY DEF Typed
<1>2. \A q \in Procs : result'[q] = IF q = p THEN "returned" ELSE result[q]
  BY DEF Typed
<1> SUFFICES ASSUME NEW k \in Dists
             PROVE  /\ Returned(k)' = {} \/ \E i \in Nat : IsLast(k, i)'
                    /\ After(k)' = IF k = wheel[p].dist THEN wheel[p].version ELSE After(k)
  BY DEF HasLast
<1>3. CASE k = wheel[p].dist
  <2>1. n \in Returned(k)'
    BY <1>1, <1>2, <1>3 DEF Returned
  <2>2. \A j \in Returned(k)' : n >= j
    BY <1>1 DEF Returned
  <2>3. n \in Nat /\ n \in Returned(k)' /\ n = n'
    BY <1>1, <2>1
  <2>4. PICK m \in Nat : m = n
    BY <1>1
  <2>5. IsLast(k, m)'
    BY <2>1, <2>2, <2>4 DEF IsLast
  <2>6. Max(Returned(k))' = m
    <3>1. Returned(k)' \subseteq Nat
      BY <1>1 DEF Returned
    <3>2. \A j \in Returned(k)' : (\A l \in Returned(k)' : j >= l) => j = m
      BY <2>5, <3>1 DEF IsLast
    <3> QED BY <2>5, <3>2 DEF IsLast, Max
  <2> QED BY <1>3, <2>1, <2>4, <2>5, <2>6 DEF After
<1>4. CASE k # wheel[p].dist
  <2>1. Returned(k)' = Returned(k)
    BY <1>1, <1>2, <1>4 DEF Returned
  <2> QED BY <1>4, <2>1 DEF After, Before, HasLast, IsLast
<1> QED BY <1>3, <1>4

LEMMA InitExact == ASSUME Init PROVE ExactInv
<1>1. PICK c \in [Dists -> Held] :
          /\ content = [d \in Dirs |-> IF d = Target THEN c ELSE Empty]
          /\ origin = IF root = NoDir THEN NoDir ELSE c
          /\ root = NoDir => c = Empty
  BY DEF Init
<1>2. \A k \in Dists : Returned(k) = {} /\ InRoot(k) = After(k)
  <2> SUFFICES ASSUME NEW k \in Dists PROVE Returned(k) = {} /\ InRoot(k) = Before(k)
    BY DEF After
  <2>1. Returned(k) = {}
    BY DEF Init, Returned
  <2>2. root = NoDir \/ (root = Target /\ content[root] = c)
    <3>1. root \in {Target, NoDir} /\ Target \in Dirs
      BY DEF Init, Dirs
    <3> QED BY <1>1, <3>1
  <2>3. root # NoDir => origin # NoDir
    BY <1>1, NoDirAssumption
  <2> QED BY <1>1, <2>1, <2>2, <2>3 DEF InRoot, Before
<1>3. \A p \in Procs : ~AtWork(p) /\ result[p] # "returned"
  BY DEF Init, AtWork
<1> QED BY <1>2, <1>3 DEF ExactInv, Exact, HasLast

LEMMA ResultsStep ==
    ASSUME Typed, CallsInv, ExactInv, NEW p \in Procs, Step(p) \/ Fault(p)
    PROVE  /\ \A q \in Procs : pc'[q] \in Building \cup {"idle", "moving", "swapout", "swapin", "restoring", "fallback"}
                                   => result'[q] # "returned"
           /\ ~overlapped' => \A q \in Procs : AtWork(q)' => begun' # <<>> /\ begun'[Len(begun')] = q
<1> USE DEF Goes, Answers
<1>1. \A q \in Procs : q # p => pc'[q] = pc[q] /\ result'[q] = result[q]
  <2>1. \A q \in Procs : q # p => pc'[q] = pc[q]
    BY OneActs
  <2>2. ASSUME NEW k \in Dists, CloneNext(p, k) PROVE \A q \in Procs : q # p => result'[q] = result[q]
    BY <2>2 DEF CloneNext, Typed
  <2>3. CASE ~\E k \in Dists : CloneNext(p, k)
    BY <2>1, <2>3 DEF Step, Fault, Begin, CloneDone, Discover, AlreadyThere, Decline, RemoveOld, Fill, Check, MoveNew,
          SwapOut, SwapIn, PutBack, Drop, CleanUp, Fallback, CallFails, RestoreFails, Interrupt, InterruptInGap, Crash, Typed, local
  <2> QED BY <2>1, <2>2, <2>3
<1>2. pc'[p] \in Building \cup {"idle", "moving", "swapout", "swapin", "restoring", "fallback"} => result'[p] # "returned"
  <2>1. ASSUME NEW k \in Dists, CloneNext(p, k) PROVE pc[p] \in Building /\ result'[p] \in {result[p], "raised"}
    BY <2>1 DEF CloneNext, Building, Typed
  <2>2. CASE \E k \in Dists : CloneNext(p, k)
    BY <2>1, <2>2 DEF ExactInv
  <2>3. CASE Begin(p) \/ CloneDone(p) \/ Discover(p) \/ AlreadyThere(p) \/ Decline(p) \/ RemoveOld(p) \/ Fill(p)
             \/ Check(p)
    BY <2>3 DEF Begin, CloneDone, Discover, AlreadyThere, Decline, RemoveOld, Fill, Check, ExactInv, Building, Typed,
               local
  <2>4. CASE MoveNew(p) \/ SwapOut(p) \/ SwapIn(p) \/ PutBack(p) \/ Drop(p) \/ CleanUp(p) \/ Fallback(p)
    BY <2>4 DEF MoveNew, SwapOut, SwapIn, PutBack, Drop, CleanUp, Fallback, ExactInv, Building, Typed, local
  <2>5. CASE Fault(p)
    BY <2>5 DEF Fault, CallFails, RestoreFails, Interrupt, InterruptInGap, Crash, ExactInv, Building, Typed, local
  <2> QED BY <2>2, <2>3, <2>4, <2>5 DEF Step
<1>3. ~overlapped' => \A q \in Procs : AtWork(q)' => begun' # <<>> /\ begun'[Len(begun')] = q
  <2> SUFFICES ASSUME ~overlapped', NEW q \in Procs, AtWork(q)' PROVE begun' # <<>> /\ begun'[Len(begun')] = q
    OBVIOUS
  <2>1. CASE Begin(p)
    <3>1. begun' = Append(begun, p) /\ begun \in Seq(Procs)
      BY <2>1 DEF Begin, Typed
    <3>2. \A r \in Procs : r # p => ~AtWork(r)
      BY <2>1 DEF Begin
    <3>3. q = p
      BY <1>1, <3>2 DEF AtWork
    <3> QED BY <3>1, <3>3
  <2>2. CASE AtWork(p) /\ begun' = begun /\ overlapped' = overlapped
    <3>1. \A r \in Procs : r # p => ~AtWork(r)
      BY <2>2 DEF CallsInv
    <3>2. q = p
      BY <1>1, <3>1 DEF AtWork
    <3> QED BY <2>2, <3>2 DEF ExactInv
  <2> QED BY <2>1, <2>2, OneActs
<1> QED BY <1>1, <1>2, <1>3 DEF ExactInv

\* A step of a process at work at the target, or of one that begins.
LEMMA ExactStep ==
    ASSUME Typed, PlacesInv, CallsInv, ExactInv, NEW p \in Procs, Step(p) \/ Fault(p), Regular, Regular', HasLast, Exact
    PROVE  HasLast' /\ (Exact' \/ ExactAway')
<1> USE DEF Goes, Answers
<1>0. ~overlapped /\ ~overlapped' /\ hit' \cap {"gap", "restore", "crash", "interrupt"} = {}
  BY DEF Regular, Orderly, Unrecovered
<1>1. \A q \in Procs : q # p => ~AtWork(q)'
  <2>1. \A q \in Procs : q # p => ~AtWork(q)
    <3>1. CASE Begin(p)
      BY <1>0, <3>1 DEF Begin
    <3>2. CASE AtWork(p)
      BY <1>0, <3>2 DEF CallsInv
    <3> QED BY <3>1, <3>2, OneActs
  <2> QED BY <2>1, OneActs DEF AtWork
<1>2. AtWork(p) => Mirrors(p) /\ begun # <<>> /\ begun[Len(begun)] = p
  BY <1>0 DEF Exact, ExactInv
<1>3. \A k \in Dists : InRoot(k) = After(k)
  BY DEF Exact
<1>4. pc[p] \in Building \cup {"idle", "moving", "swapout", "swapin", "restoring", "fallback"} => result[p] # "returned"
  BY DEF ExactInv
<1>t. /\ content[p] \in [Dists -> Held] /\ p \in Dirs /\ p # NoDir
      /\ wheel[p].dist \in Dists /\ wheel[p].version \in Versions /\ wheel[p].version # Absent
      /\ wheel' = wheel /\ origin' = origin /\ (root # NoDir => root \in Dirs /\ content[root] \in [Dists -> Held])
  BY WheelTyped, OneActs, ProcsAssumption DEF Typed
\* A step after which the calls that have returned, and what the target holds, are as before.
<1>5. ASSUME begun' = begun \/ (begun' = Append(begun, p) /\ result'[p] # "returned"),
             \A q \in Procs : result'[q] = "returned" <=> result[q] = "returned"
      PROVE  HasLast' /\ \A k \in Dists : After(k)' = After(k)
  BY <1>5, <1>t, AfterSame
<1>6. ASSUME HasLast', \A k \in Dists : After(k)' = After(k), \A k \in Dists : InRoot(k)' = InRoot(k),
             AtWork(p)' => Mirrors(p)'
      PROVE  HasLast' /\ Exact'
  BY <1>1, <1>3, <1>6 DEF Exact
\* The return of the call that installs a wheel.
<1>7. ASSUME begun' = begun, AtWork(p), result' = [result EXCEPT ![p] = "returned"],
             \A k \in Dists : InRoot(k)' = IF k = wheel[p].dist THEN wheel[p].version ELSE InRoot(k),
             AtWork(p)' => Mirrors(p)'
      PROVE  HasLast' /\ Exact'
  <2>1. HasLast' /\ \A k \in Dists : After(k)' = IF k = wheel[p].dist THEN wheel[p].version ELSE After(k)
    BY <1>2, <1>7, <1>t, AfterReturn
  <2> QED BY <1>1, <1>3, <1>7, <2>1 DEF Exact
<1>8. CASE Begin(p)
  <2>1. /\ begun' = Append(begun, p) /\ result' = result /\ root' = root /\ content' = content /\ result[p] # "returned"
        /\ content[p] = Empty
    BY <1>4, <1>8 DEF Begin, CallsInv, Typed
  <2>2. HasLast' /\ (\A k \in Dists : After(k)' = After(k)) /\ \A k \in Dists : InRoot(k)' = InRoot(k)
    BY <1>5, <2>1 DEF InRoot
  <2>3. CASE root = NoDir
    <3>1. pc'[p] = "filling" /\ \A k \in Dists : content'[p][k] = Absent /\ InRoot(k)' = Absent
      BY <1>8, <2>1, <2>3 DEF Begin, Empty, InRoot, Typed
    <3>2. Mirrors(p)'
      BY <3>1 DEF Mirrors
    <3> QED BY <1>6, <2>2, <3>2
  <2>4. CASE root # NoDir
    <3>1. pc'[p] = "cloning" /\ left'[p] = {k \in Dists : InRoot(k) # Absent}
      BY <1>8, <2>4 DEF Begin, Listed, InRoot, Typed
    <3>2. \A k \in Dists : content'[p][k] = Absent
      BY <2>1 DEF Empty
    <3>3. Mirrors(p)'
      BY <2>2, <3>1, <3>2 DEF Mirrors
    <3> QED BY <1>6, <2>2, <3>3
  <2> QED BY <2>3, <2>4
<1>9. ASSUME NEW k \in Dists, CloneNext(p, k) PROVE HasLast' /\ Exact'
  <2>1. /\ Mirrors(p) /\ root # p /\ root' = root /\ begun' = begun /\ pc[p] = "cloning" /\ result[p] # "returned"
    BY <1>2, <1>4, <1>9 DEF CloneNext, AtWork, PlacesInv, Complete, Building, ghost
  <2>2. \A q \in Procs : result'[q] = "returned" <=> result[q] = "returned"
    BY <1>9, <2>1 DEF CloneNext, Typed
  <2>3. root # NoDir => content'[root] = content[root]
    BY <1>9, <1>t, <2>1 DEF CloneNext, Stages, Typed
  <2>4. \A j \in Dists : InRoot(j)' = InRoot(j)
    BY <2>1, <2>3 DEF InRoot
  <2>5. Mirrors(p)'
    <3>1. CASE InRoot(k) = Absent
      BY <1>9, <3>1 DEF CloneNext, Mirrors, Typed
    <3>2. CASE InRoot(k) # Absent
      <4>1. /\ pc'[p] = "cloning" /\ left'[p] = left[p] \ {k} /\ content'[p] = [content[p] EXCEPT ![k] = InRoot(k)]
        BY <1>9, <1>t, <2>1, <3>2 DEF CloneNext, Stages, Typed
      <4>2. \A j \in Dists : content'[p][j] = IF j \in left'[p] THEN Absent ELSE InRoot(j)
        BY <1>t, <2>1, <4>1 DEF Mirrors
      <4> QED BY <2>4, <4>1, <4>2 DEF Mirrors
    <3> QED BY <3>1, <3>2
  <2> QED BY <1>5, <1>6, <2>1, <2>2, <2>4, <2>5
<1>10. CASE CloneDone(p) \/ Discover(p)
  <2>1. Mirrors(p) /\ root' = root /\ begun' = begun /\ result' = result /\ content' = content
    BY <1>2, <1>10 DEF CloneDone, Discover, AtWork, local, ghost
  <2>2. \A k \in Dists : InRoot(k)' = InRoot(k)
    BY <2>1 DEF InRoot
  <2>3. Mirrors(p)'
    <3>1. CASE CloneDone(p)
      BY <1>t, <2>1, <2>2, <3>1 DEF CloneDone, Mirrors, Typed
    <3>2. CASE Discover(p)
      BY <1>t, <2>1, <2>2, <3>2 DEF Discover, Mirrors, Typed
    <3> QED BY <1>10, <3>1, <3>2
  <2> QED BY <1>5, <1>6, <2>1, <2>2, <2>3
<1>11. CASE AlreadyThere(p)
  <2>1. /\ AtWork(p) /\ begun' = begun /\ result' = [result EXCEPT ![p] = "returned"] /\ pc'[p] = "leaving"
        /\ root' = root /\ content' = content /\ InRoot(wheel[p].dist) = wheel[p].version
    BY <1>11 DEF AlreadyThere, AtWork, Typed, ghost
  <2>2. \A k \in Dists : InRoot(k)' = IF k = wheel[p].dist THEN wheel[p].version ELSE InRoot(k)
    BY <2>1 DEF InRoot
  <2>3. Mirrors(p)'
    BY <2>1 DEF Mirrors
  <2> QED BY <1>7, <2>1, <2>2, <2>3
<1>12. CASE RemoveOld(p)
  <2>1. /\ Mirrors(p) /\ root # p /\ root' = root /\ begun' = begun /\ result' = result /\ pc'[p] = "filling"
    BY <1>2, <1>12 DEF RemoveOld, AtWork, PlacesInv, Complete, Building, Typed, local, ghost
  <2>2. content' = [content EXCEPT ![p][wheel[p].dist] = Absent]
    BY <1>12, <1>t, <2>1 DEF RemoveOld, Stages, Mirrors
  <2>3. content'[p] = [content[p] EXCEPT ![wheel[p].dist] = Absent] /\ (root # NoDir => content'[root] = content[root])
    BY <1>t, <2>1, <2>2 DEF Typed
  <2>4. \A k \in Dists : InRoot(k)' = InRoot(k)
    BY <2>1, <2>3 DEF InRoot
  <2>5. \A k \in Dists : content[p][k] = InRoot(k)
    BY <1>12, <2>1 DEF RemoveOld, Mirrors
  <2>6. Mirrors(p)'
    <3>1. \A k \in Dists : content'[p][k] = IF k = wheel[p].dist THEN Absent ELSE InRoot(k)
      BY <1>t, <2>3, <2>5
    <3> QED BY <1>t, <2>1, <2>4, <3>1 DEF Mirrors
  <2> QED BY <1>5, <1>6, <2>1, <2>4, <2>6
<1>13. CASE Fill(p)
  <2>1. /\ Mirrors(p) /\ root # p /\ root' = root /\ begun' = begun /\ content[p][wheel[p].dist] = Absent
    BY <1>2, <1>13, <1>t DEF Fill, AtWork, PlacesInv, Complete, Building, Mirrors, ghost
  <2>2. pc'[p] = "checking" /\ result' = result /\ content' = [content EXCEPT ![p][wheel[p].dist] = wheel[p].version]
    BY <1>13, <2>1 DEF Fill, Stages, Typed
  <2>3. /\ content'[p] = [content[p] EXCEPT ![wheel[p].dist] = wheel[p].version]
        /\ root # NoDir => content'[root] = content[root]
    BY <1>t, <2>1, <2>2 DEF Typed
  <2>4. \A k \in Dists : InRoot(k)' = InRoot(k)
    BY <2>1, <2>3 DEF InRoot
  <2>5. \A k \in Dists : content[p][k] = IF k = wheel[p].dist THEN Absent ELSE InRoot(k)
    BY <1>13, <2>1 DEF Fill, Mirrors
  <2>6. Mirrors(p)'
    <3>1. \A k \in Dists : content'[p][k] = IF k = wheel[p].dist THEN wheel[p].version ELSE InRoot(k)
      BY <1>t, <2>3, <2>5
    <3> QED BY <1>t, <2>2, <2>4, <3>1 DEF Mirrors
  <2> QED BY <1>5, <1>6, <2>1, <2>2, <2>4, <2>6
<1>14. CASE Check(p) \/ Decline(p) \/ CallFails(p)
  <2>1. /\ root' = root /\ begun' = begun /\ content' = content /\ AtWork(p) /\ Mirrors(p) /\ result[p] # "returned"
    BY <1>2, <1>4, <1>14 DEF Check, Decline, CallFails, Injected, Building, AtWork, ghost
  <2>2. \A q \in Procs : result'[q] = "returned" <=> result[q] = "returned"
    BY <1>14, <2>1 DEF Check, Decline, CallFails, Typed
  <2>3. \A k \in Dists : InRoot(k)' = InRoot(k)
    BY <2>1 DEF InRoot
  <2>4. Mirrors(p)'
    BY <1>14, <1>t, <2>1, <2>3 DEF Check, Decline, CallFails, Building, Mirrors, Typed
  <2> QED BY <1>5, <1>6, <2>1, <2>2, <2>3, <2>4
<1>15. CASE MoveNew(p)
  <2>1. /\ AtWork(p) /\ Mirrors(p) /\ content' = content /\ begun' = begun /\ pc'[p] = "leaving" /\ result[p] # "returned"
        /\ \A k \in Dists : content[p][k] = IF k = wheel[p].dist THEN wheel[p].version ELSE InRoot(k)
    BY <1>2, <1>4, <1>15 DEF MoveNew, AtWork, Mirrors, Typed, ghost
  <2>2. Mirrors(p)'
    BY <2>1 DEF Mirrors
  <2>3. CASE root' = p /\ result' = [result EXCEPT ![p] = "returned"]
    <3>1. \A k \in Dists : InRoot(k)' = IF k = wheel[p].dist THEN wheel[p].version ELSE InRoot(k)
      BY <1>t, <2>1, <2>3 DEF InRoot
    <3> QED BY <1>7, <2>1, <2>2, <2>3, <3>1
  <2>4. CASE root' = root /\ result' = [result EXCEPT ![p] = "raised"]
    <3>1. \A k \in Dists : InRoot(k)' = InRoot(k)
      BY <2>1, <2>4 DEF InRoot
    <3>2. \A q \in Procs : result'[q] = "returned" <=> result[q] = "returned"
      BY <2>1, <2>4 DEF Typed
    <3> QED BY <1>5, <1>6, <2>1, <2>2, <3>1, <3>2
  <2> QED BY <1>15, <2>3, <2>4 DEF MoveNew
<1>16. CASE SwapOut(p)
  <2>1. /\ AtWork(p) /\ Mirrors(p) /\ content' = content /\ begun' = begun /\ result[p] # "returned"
        /\ \A k \in Dists : content[p][k] = IF k = wheel[p].dist THEN wheel[p].version ELSE InRoot(k)
    BY <1>2, <1>4, <1>16 DEF SwapOut, AtWork, Mirrors, ghost
  <2>2. CASE root # NoDir
    <3>1. pc'[p] = "swapin" /\ previous'[p] = root /\ root' = NoDir /\ result' = result /\ root \in Dirs
      BY <1>16, <1>t, <2>2 DEF SwapOut, Typed
    <3>2. HasLast' /\ \A k \in Dists : After(k)' = After(k)
      BY <1>5, <2>1, <3>1
    <3>3. \A k \in Dists : content'[root][k] = After(k)' /\ content'[p][k] = IF k = wheel[p].dist THEN wheel[p].version ELSE After(k)'
      BY <1>3, <2>1, <2>2, <3>2 DEF InRoot
    <3>4. PICK d \in Dirs : d = root
      BY <3>1
    <3>5. previous'[p] = d /\ \A k \in Dists : content'[d][k] = After(k)'
      BY <3>1, <3>3, <3>4
    <3>6. ExactAway'
      BY <1>t, <3>1, <3>3, <3>5 DEF ExactAway
    <3> QED BY <3>2, <3>6
  <2>3. CASE root = NoDir
    <3>1. pc'[p] = "leaving" /\ root' = root /\ result' = [result EXCEPT ![p] = "raised"]
      BY <1>16, <2>3 DEF SwapOut, Typed
    <3>2. \A q \in Procs : result'[q] = "returned" <=> result[q] = "returned"
      BY <2>1, <3>1 DEF Typed
    <3>3. \A k \in Dists : InRoot(k)' = InRoot(k)
      BY <2>1, <3>1 DEF InRoot
    <3>4. Mirrors(p)'
      BY <3>1 DEF Mirrors
    <3> QED BY <1>5, <1>6, <2>1, <3>2, <3>3, <3>4
  <2> QED BY <2>2, <2>3
<1>17. ~SwapIn(p) /\ ~PutBack(p) /\ ~RestoreFails(p) /\ ~Interrupt(p) /\ ~InterruptInGap(p) /\ ~Crash(p)
  BY <1>0, <1>2 DEF SwapIn, PutBack, RestoreFails, Interrupt, InterruptInGap, Crash, Injected, Mirrors, AtWork
<1>18. CASE Drop(p) \/ CleanUp(p)
  <2>1. /\ root' = root /\ begun' = begun /\ content' = content /\ result' = result
        /\ pc'[p] \in {"leaving", "fallback", "ended"}
    BY <1>18 DEF Drop, CleanUp, Typed, local, ghost
  <2>2. \A k \in Dists : InRoot(k)' = InRoot(k)
    BY <2>1 DEF InRoot
  <2>3. Mirrors(p)'
    BY <2>1 DEF Mirrors
  <2> QED BY <1>5, <1>6, <2>1, <2>2, <2>3
<1>19. CASE Fallback(p)
  <2>1. AtWork(p) /\ pc'[p] = "ended" /\ begun' = begun /\ result[p] # "returned"
    BY <1>4, <1>19 DEF Fallback, AtWork, Typed, ghost
  <2>2. Mirrors(p)'
    BY <2>1 DEF Mirrors
  <2>3. CASE UNCHANGED <<root, content>> /\ result' = [result EXCEPT ![p] = "raised"]
    <3>1. \A k \in Dists : InRoot(k)' = InRoot(k)
      BY <2>3 DEF InRoot
    <3>2. \A q \in Procs : result'[q] = "returned" <=> result[q] = "returned"
      BY <2>1, <2>3 DEF Typed
    <3> QED BY <1>5, <1>6, <2>1, <2>2, <3>1, <3>2
  <2>4. CASE /\ root = NoDir /\ root' = p /\ result' = [result EXCEPT ![p] = "returned"]
             /\ content' = [content EXCEPT ![p] = [Empty EXCEPT ![wheel[p].dist] = wheel[p].version]]
    <3>1. content'[p] = [Empty EXCEPT ![wheel[p].dist] = wheel[p].version]
      BY <1>t, <2>4 DEF Typed
    <3>2. \A k \in Dists : InRoot(k)' = IF k = wheel[p].dist THEN wheel[p].version ELSE InRoot(k)
      BY <1>t, <2>4, <3>1 DEF InRoot, Empty
    <3> QED BY <1>7, <2>1, <2>2, <2>4, <3>2
  <2>5. CASE /\ root # NoDir /\ root' = root /\ result' = [result EXCEPT ![p] = "returned"]
             /\ content' = [content EXCEPT ![root][wheel[p].dist] = wheel[p].version]
    <3>1. content'[root] = [content[root] EXCEPT ![wheel[p].dist] = wheel[p].version]
      BY <1>t, <2>5 DEF Typed
    <3>2. \A k \in Dists : InRoot(k)' = IF k = wheel[p].dist THEN wheel[p].version ELSE InRoot(k)
      BY <1>t, <2>5, <3>1 DEF InRoot
    <3> QED BY <1>7, <2>1, <2>2, <2>5, <3>2
  <2> QED BY <1>19, <2>3, <2>4, <2>5 DEF Fallback
<1> QED BY <1>8, <1>9, <1>10, <1>11, <1>12, <1>13, <1>14, <1>15, <1>16, <1>17, <1>18, <1>19 DEF Step, Fault

\* The process that has moved the target goes on.
LEMMA ExactAwayStep ==
    ASSUME Typed, PlacesInv, CallsInv, ExactInv, NEW p \in Procs, Step(p) \/ Fault(p), Regular, Regular', HasLast, ExactAway
    PROVE  HasLast' /\ (Exact' \/ ExactAway')
<1> USE DEF Goes, Answers
<1>0. ~overlapped /\ ~overlapped' /\ hit' \cap {"gap", "restore", "crash", "interrupt"} = {}
  BY DEF Regular, Orderly, Unrecovered
<1>1. PICK q \in Procs, d \in Dirs :
          /\ pc[q] \in {"swapin", "restoring"} /\ previous[q] = d
          /\ \A k \in Dists : content[d][k] = After(k)
          /\ pc[q] = "swapin" =>
                \A k \in Dists : content[q][k] = IF k = wheel[q].dist THEN wheel[q].version ELSE After(k)
  BY DEF ExactAway
<1>2. AtWork(q) /\ root = NoDir
  BY <1>1 DEF ExactAway, AtWork
<1>3. p = q
  <2>1. ~Begin(p)
    BY <1>0, <1>2 DEF Begin
  <2> QED BY <1>0, <1>2, <2>1, OneActs DEF CallsInv
<1>4. \A r \in Procs : r # p => ~AtWork(r)'
  BY <1>0, <1>2, <1>3, OneActs DEF CallsInv, AtWork
<1>5. content' = content
  BY <1>1, <1>3, WritesWhere
<1>6. /\ wheel' = wheel /\ origin' = origin /\ begun # <<>> /\ begun[Len(begun)] = p /\ result[p] # "returned"
      /\ p # NoDir /\ d # NoDir /\ p \in Dirs
  BY <1>0, <1>1, <1>2, <1>3, OneActs, ProcsAssumption DEF ExactInv, Dirs
<1>7. ASSUME begun' = begun, \A r \in Procs : result'[r] = "returned" <=> result[r] = "returned"
      PROVE  HasLast' /\ \A k \in Dists : After(k)' = After(k)
  BY <1>6, <1>7, AfterSame
<1>8. CASE SwapIn(p)
  <2>1. root' = p /\ pc'[p] = "dropping" /\ result' = [result EXCEPT ![p] = "returned"] /\ begun' = begun
    BY <1>2, <1>8 DEF SwapIn, Vacant, Typed, ghost
  <2>2. HasLast' /\ \A k \in Dists : After(k)' = IF k = wheel[p].dist THEN wheel[p].version ELSE After(k)
    BY <1>6, <2>1, AfterReturn
  <2>3. \A k \in Dists : content'[p][k] = IF k = wheel[p].dist THEN wheel[p].version ELSE After(k)
    BY <1>1, <1>3, <1>5, <1>8 DEF SwapIn
  <2>4. \A k \in Dists : InRoot(k)' = After(k)'
    BY <1>6, <2>1, <2>2, <2>3 DEF InRoot
  <2>5. Mirrors(p)'
    BY <2>1 DEF Mirrors
  <2> QED BY <1>4, <2>2, <2>4, <2>5 DEF Exact
<1>9. CASE PutBack(p)
  <2>1. root' = d /\ pc'[p] = "leaving" /\ result' = result /\ begun' = begun
    BY <1>1, <1>2, <1>3, <1>9 DEF PutBack, Vacant, Typed, local, ghost
  <2>2. HasLast' /\ \A k \in Dists : After(k)' = After(k)
    BY <1>7, <2>1
  <2>3. \A k \in Dists : InRoot(k)' = After(k)'
    BY <1>1, <1>5, <1>6, <2>1, <2>2 DEF InRoot
  <2>4. Mirrors(p)'
    BY <2>1 DEF Mirrors
  <2> QED BY <1>4, <2>2, <2>3, <2>4 DEF Exact
<1>10. CASE CallFails(p)
  <2>1. /\ root' = root /\ previous'[p] = d /\ pc'[p] = "restoring" /\ begun' = begun
        /\ result' = [result EXCEPT ![p] = "raised"]
    BY <1>1, <1>3, <1>10 DEF CallFails, Injected, Building, Typed
  <2>2. \A r \in Procs : result'[r] = "returned" <=> result[r] = "returned"
    BY <1>6, <2>1 DEF Typed
  <2>3. HasLast' /\ \A k \in Dists : After(k)' = After(k)
    BY <1>7, <2>1, <2>2
  <2>4. \A k \in Dists : content'[d][k] = After(k)'
    BY <1>1, <1>5, <2>3
  <2>5. ExactAway'
    BY <1>2, <2>1, <2>4 DEF ExactAway
  <2> QED BY <2>3, <2>5
<1>11. SwapIn(p) \/ PutBack(p) \/ CallFails(p)
  <2>1. ~RestoreFails(p) /\ ~Interrupt(p) /\ ~InterruptInGap(p) /\ ~Crash(p)
    BY <1>0 DEF RestoreFails, Interrupt, InterruptInGap, Crash, Injected
  <2> QED BY <1>1, <1>3, <2>1 DEF Step, Fault, Begin, CloneDone, Discover, AlreadyThere, Decline, RemoveOld, Fill,
             Check, MoveNew, SwapOut, Drop, CleanUp, Fallback, CloneNext
<1> QED BY <1>8, <1>9, <1>10, <1>11

LEMMA ExactInvStep == ASSUME Typed, PlacesInv, CallsInv, ExactInv, [Next]_vars PROVE ExactInv'
<1>1. ASSUME NEW p \in Procs, Step(p) \/ Fault(p) PROVE ExactInv'
  <2>1. Regular' => Regular
    BY <1>1, OneActs DEF Regular, Orderly, Unrecovered, Typed
  <2>2. Regular' => HasLast' /\ (Exact' \/ ExactAway')
    BY <1>1, <2>1, ExactStep, ExactAwayStep DEF ExactInv
  <2> QED BY <1>1, <2>2, ResultsStep DEF ExactInv
<1>2. CASE UNCHANGED vars \/ Terminated
  <2>1. UNCHANGED <<root, content, previous, pc, wheel, existed, found, left, result, origin, begun, overlapped, hit>>
    BY <1>2 DEF Terminated, vars, local, ghost
  <2>2. \A k \in Dists : Returned(k)' = Returned(k) /\ After(k)' = After(k) /\ InRoot(k)' = InRoot(k)
    BY <2>1 DEF Returned, After, Before, InRoot
  <2>3. Regular' = Regular /\ (HasLast => HasLast')
    BY <2>1, <2>2 DEF Regular, Orderly, Unrecovered, HasLast, IsLast
  <2>4. ExactAway => ExactAway'
    <3>1. \A k \in Dists : After(k)' = After(k)
      BY <2>2
    <3> QED BY <2>1, <3>1 DEF ExactAway
  <2>5. \A p \in Procs : AtWork(p)' = AtWork(p)
    BY <2>1 DEF AtWork
  <2>6. \A p \in Procs : wheel[p].dist \in Dists => (Mirrors(p) => Mirrors(p)')
    BY <2>1, <2>2 DEF Mirrors
  <2>7. Exact => Exact'
    BY <2>2, <2>5, <2>6, WheelTyped DEF Exact
  <2> QED BY <2>1, <2>3, <2>4, <2>5, <2>7 DEF ExactInv
<1> QED BY <1>1, <1>2 DEF Next

\* Calls made one after the other, of any number of processes for any distributions: when none is killed or
\* interrupted and no rename back has raised, the target holds what was there and what those that returned
\* installed, whichever of them declined, went on to the staged route or raised
\* (install_wheels_from_archive_cache).
THEOREM ExactCalls == Spec => []CallsAreExact
<1>1. ExactInv => CallsAreExact
  <2> SUFFICES ASSUME ExactInv, Orderly, Quiet, "interrupt" \notin hit PROVE \A k \in Dists : InRoot(k) = After(k)
    BY DEF CallsAreExact
  <2>1. ~ExactAway
    BY DEF ExactAway, Quiet
  <2> QED BY <2>1 DEF ExactInv, Regular, Exact
<1>2. Init => CallsInv /\ ExactInv
  BY InitCalls, InitExact
<1>3. Typed /\ PlacesInv /\ CallsInv /\ ExactInv /\ [Next]_vars => (CallsInv /\ ExactInv)'
  BY CallsStep, ExactInvStep
<1> QED BY <1>1, <1>2, <1>3, PlacesHold, PTL DEF Spec
====
