--------------------------- MODULE ArtifactStoreProofs ---------------------------
(* Proofs about ArtifactStore: bodies stay whole and hashes are true, for any number *)
(* of processes, URLs, contents and calls, where a read-only file cannot be opened    *)
(* for writing.                                                                       *)
EXTENDS ArtifactStore, TLAPS

USE DEF IsThere, HasItsSize, Target, Fresh, NoFile, File, Go, Finds, world, store, call

------------------------------------------------------------------------------------
(* The inductive invariant.                                                         *)

\* What is in the store is whole and read-only.
BodyInv == \A d \in Contents :
    /\ body[d].linked = None
    /\ IsThere(body[d]) => body[d].content = d /\ body[d].readonly

\* A target that is another name of a body is read-only, and so never the one that is written.
LinkInv ==
    /\ \A p \in Processes, u \in Urls : target[p][u].linked # None => target[p][u].readonly
    /\ \A p \in Processes : pc[p] = "writing" => ~Target(p).readonly

\* A call knows its URL.
UrlInv == \A p \in Processes : pc[p] # "idle" => url[p] \in Urls

IInv == TypeOK /\ UrlInv /\ BodyInv /\ LinkInv

\* Receipts name what the URL serves.
ReceiptInv == \A u \in Urls : receipt[u] \in {None, served[u]}

\* A call that has found something has found what it was asked for, and what the URL serves when
\* the index is right.
FoundInv == \A p \in Processes :
    /\ pc[p] = "idle" \/ expected[p] \in {None, indexed[url[p]]}
    /\ pc[p] \in {"staged", "replacing", "stating"} => expected[p] \in {None, Fresh(p)}
    /\ pc[p] \in {"receipting", "linking"} =>
        /\ found[p] \in Contents
        /\ expected[p] # None => found[p] = expected[p]
        /\ served[url[p]] = indexed[url[p]] => found[p] = Fresh(p)
    /\ pc[p] = "receipting" => found[p] = Fresh(p)

\* Only the store makes read-only targets.
TargetInv == \A p \in Processes, u \in Urls :
    target[p][u].readonly /\ served[u] = indexed[u] => target[p][u].content = served[u]

\* The last call's hash is kept until the next call begins.
ReturnedInv == \A p \in Processes :
    LET r == returned[p] IN
    /\ pc[p] # "idle" => r = Nothing
    /\ r.hash # None =>
        /\ r.url \in Urls
        /\ r.expected \in {None, r.hash}
        /\ served[r.url] = indexed[r.url] => r.hash = served[r.url]

HashInv == ReceiptInv /\ FoundInv /\ TargetInv /\ ReturnedInv

------------------------------------------------------------------------------------
\* A file with one field changed.
LEMMA Changed ==
    ASSUME NEW f \in File
    PROVE  /\ \A x : [f EXCEPT !.content = x] =
                [content |-> x, readonly |-> f.readonly, linked |-> f.linked]
           /\ \A d : [f EXCEPT !.linked = d] =
                [content |-> f.content, readonly |-> f.readonly, linked |-> d]
           /\ [f EXCEPT !.readonly = TRUE] =
                [content |-> f.content, readonly |-> TRUE, linked |-> f.linked]
<1>1. ASSUME NEW x PROVE [f EXCEPT !.content = x] =
                [content |-> x, readonly |-> f.readonly, linked |-> f.linked]
  OBVIOUS
<1>2. ASSUME NEW d PROVE [f EXCEPT !.linked = d] =
                [content |-> f.content, readonly |-> f.readonly, linked |-> d]
  OBVIOUS
<1>3. ASSUME NEW b \in BOOLEAN
      PROVE  [f EXCEPT !.readonly = b] =
                [content |-> f.content, readonly |-> b, linked |-> f.linked]
  OBVIOUS
<1> QED BY <1>1, <1>2, <1>3

\* A target that is not read-only is written under its own name only.
LEMMA OwnName ==
    ASSUME IInv, NEW p \in Processes, pc[p] # "idle", ~Target(p).readonly, NEW x, Overwrite(p, x)
    PROVE  /\ url[p] \in Urls /\ body' = body
           /\ target' = [target EXCEPT ![p][url[p]] =
                             [content |-> x, readonly |-> FALSE, linked |-> None]]
<1>1. url[p] \in Urls /\ Target(p).linked = None
  BY DEF IInv, UrlInv, LinkInv
<1>2. None \notin Contents
  BY DistinctAssumption
<1>3. \A c \in Contents : body'[c] = body[c]
  BY <1>1, <1>2 DEF Overwrite
<1>4. body' = body
  BY <1>3 DEF Overwrite, IInv, TypeOK
<1>5. target' = [q \in Processes |-> [u \in Urls |->
           IF q = p /\ u = url[p] THEN [target[q][u] EXCEPT !.content = x] ELSE target[q][u]]]
  BY <1>1 DEF Overwrite
<1>6. [Target(p) EXCEPT !.content = x] = [content |-> x, readonly |-> FALSE, linked |-> None]
  <2>1. Target(p) \in File /\ Target(p).readonly = FALSE
    BY <1>1 DEF IInv, TypeOK
  <2> HIDE DEF File, Target
  <2> QED BY <1>1, <2>1, Changed
<1>7. target' = [target EXCEPT ![p][url[p]] = [Target(p) EXCEPT !.content = x]]
  BY <1>1, <1>5 DEF IInv, TypeOK
<1> QED BY <1>1, <1>4, <1>6, <1>7

LEMMA InvInit == Init => IInv
BY DistinctAssumption, CallsAssumption
   DEF Init, IInv, TypeOK, UrlInv, BodyInv, LinkInv, Nothing, Result, Steps

\* What an action does to a target: names of a body that goes away stay what they are.
LEMMA UnlinkedKeeps ==
    ASSUME IInv, NEW d \in Contents, target' = Unlinked(d)
    PROVE  /\ target' \in [Processes -> [Urls -> File]]
           /\ \A p \in Processes, u \in Urls :
                /\ target'[p][u].content = target[p][u].content
                /\ target'[p][u].readonly = target[p][u].readonly
                /\ target'[p][u].linked \in {None, target[p][u].linked}
<1>1. \A p \in Processes, u \in Urls : target[p][u] \in File
  BY DEF IInv, TypeOK
<1>2. ASSUME NEW p \in Processes, NEW u \in Urls
      PROVE  /\ target'[p][u] \in File
             /\ target'[p][u].content = target[p][u].content
             /\ target'[p][u].readonly = target[p][u].readonly
             /\ target'[p][u].linked \in {None, target[p][u].linked}
  <2>1. target'[p][u] = IF target[p][u].linked = d THEN [target[p][u] EXCEPT !.linked = None]
                        ELSE target[p][u]
    BY DEF Unlinked
  <2> HIDE DEF File
  <2>2. CASE target[p][u].linked = d
    <3>1. target'[p][u] = [content |-> target[p][u].content, readonly |-> target[p][u].readonly,
                           linked |-> None]
      BY <1>1, <2>1, <2>2, Changed
    <3> QED BY <1>1, <3>1 DEF File
  <2>3. CASE target[p][u].linked # d
    BY <1>1, <2>1, <2>3
  <2> QED BY <2>2, <2>3
<1>3. target' \in [Processes -> [Urls -> File]]
  <2> HIDE DEF File
  <2> QED BY <1>2 DEF Unlinked
<1> QED BY <1>2, <1>3

LEMMA InvStep == ASSUME ~Superuser PROVE IInv /\ [Next]_vars => IInv'
<1> SUFFICES ASSUME IInv, [Next]_vars PROVE IInv'
  OBVIOUS
<1> USE DistinctAssumption DEF IInv, Steps
<1>1. ASSUME NEW p \in Processes, NEW u \in Urls, NEW e \in Contents \cup {None}, Begin(p, u, e)
      PROVE  IInv'
  BY <1>1 DEF Begin, TypeOK, UrlInv, BodyInv, LinkInv, Nothing, Result
<1>2. ASSUME NEW p \in Processes, Get(p) PROVE IInv'
  <2>1. url[p] \in Urls /\ found' \in [Processes -> Contents \cup {None}]
    BY <1>2 DEF Get, Known, TypeOK, UrlInv
  <2> QED BY <1>2, <2>1 DEF Get, TypeOK, UrlInv, BodyInv, LinkInv
<1>3. ASSUME NEW p \in Processes, Refuse(p) \/ LinkFails(p) \/ RefuseAgain(p) \/ WriteFails(p)
      PROVE  IInv'
  <2>1. \E s \in Steps : Raises(p, s) /\ UNCHANGED <<store, target>>
    BY <1>3 DEF Refuse, LinkFails, RefuseAgain, WriteFails
  <2> QED BY <2>1 DEF Raises, Return, Nothing, Result, TypeOK, UrlInv, BodyInv, LinkInv
<1>4. ASSUME NEW p \in Processes,
             Stream(p) \/ StoreFails(p) \/ Keep(p) \/ Replaces(p) \/ StatBody(p) \/ StatFails(p)
      PROVE  IInv'
  <2>1. pc[p] # "idle" /\ url[p] \in Urls
    BY <1>4 DEF Stream, StoreFails, Keep, Replaces, StatBody, StatFails, UrlInv
  <2>2. PICK s \in Steps \ {"idle", "writing"} : pc' = [pc EXCEPT ![p] = s]
    BY <1>4 DEF Stream, StoreFails, Keep, Replaces, StatBody, StatFails
  <2>3. /\ found' \in [Processes -> Contents \cup {None}]
        /\ UNCHANGED <<world, store, target, call, returned>>
    BY <1>4, <2>1 DEF Stream, StoreFails, Keep, Replaces, StatBody, StatFails, TypeOK
  <2>4. TypeOK'
    BY <2>2, <2>3 DEF TypeOK
  <2>5. UrlInv' /\ LinkInv'
    BY <2>1, <2>2, <2>3 DEF TypeOK, UrlInv, LinkInv
  <2>6. BodyInv'
    BY <2>3 DEF BodyInv
  <2> QED BY <2>4, <2>5, <2>6
<1>5. ASSUME NEW p \in Processes, ReplaceBody(p) PROVE IInv'
  <2>1. url[p] \in Urls /\ Fresh(p) \in Contents
    BY <1>5 DEF ReplaceBody, TypeOK, UrlInv
  <2>2. target' = Unlinked(Fresh(p))
    BY <1>5 DEF ReplaceBody
  <2> QED BY <1>5, <2>1, <2>2, UnlinkedKeeps DEF ReplaceBody, TypeOK, UrlInv, BodyInv, LinkInv
<1>6. ASSUME NEW p \in Processes, PublishReceipt(p) PROVE IInv'
  BY <1>6 DEF PublishReceipt, TypeOK, UrlInv, BodyInv, LinkInv
<1>7. ASSUME NEW p \in Processes, TakeExisting(p) PROVE IInv'
  BY <1>7 DEF TakeExisting, StillThere, Return, Nothing, Result, TypeOK, UrlInv, BodyInv, LinkInv
<1>8. ASSUME NEW p \in Processes, Link(p) PROVE IInv'
  <2>1. url[p] \in Urls /\ found[p] \in Contents
    BY <1>8 DEF Link, Return, StillThere, TypeOK, UrlInv
  <2>2. PICK f \in File : target' = [target EXCEPT ![p][url[p]] = f] /\ f.readonly
    <3>1. body[found[p]] \in File /\ body[found[p]].readonly
      BY <1>8, <2>1 DEF Link, StillThere, BodyInv, TypeOK
    <3> DEFINE b == body[found[p]]
               f1 == [content |-> b.content, readonly |-> b.readonly, linked |-> found[p]]
               f2 == [content |-> b.content, readonly |-> TRUE, linked |-> b.linked]
    <3>2. [b EXCEPT !.linked = found[p]] = f1 /\ [b EXCEPT !.readonly = TRUE] = f2
      <4> HIDE DEF File
      <4> QED BY <3>1, Changed
    <3>3. f1 \in File /\ f1.readonly /\ f2 \in File /\ f2.readonly
      BY <2>1, <3>1
    <3> HIDE DEF f1, f2
    <3> QED BY <1>8, <3>2, <3>3 DEF Link
  <2> QED BY <1>8, <2>1, <2>2 DEF Link, Return, Nothing, Result, TypeOK, UrlInv, BodyInv, LinkInv
<1>9. ASSUME NEW p \in Processes, ~Superuser, Truncate(p) PROVE IInv'
  <2>1. ~Target(p).readonly /\ pc[p] # "idle" /\ url[p] \in Urls
    BY <1>9 DEF Truncate, TypeOK, UrlInv
  <2>2. body' = body /\ target' = [target EXCEPT ![p][url[p]] =
                                      [content |-> Torn, readonly |-> FALSE, linked |-> None]]
    BY <1>9, <2>1, OwnName DEF Truncate
  <2> QED BY <1>9, <2>1, <2>2 DEF Truncate, TypeOK, UrlInv, BodyInv, LinkInv
<1>10. ASSUME NEW p \in Processes, WriteTarget(p) PROVE IInv'
  <2>1. ~Target(p).readonly /\ pc[p] # "idle" /\ url[p] \in Urls /\ Fresh(p) \in Contents
    BY <1>10 DEF WriteTarget, Return, TypeOK, UrlInv, LinkInv
  <2>2. body' = body /\ target' = [target EXCEPT ![p][url[p]] =
                                      [content |-> Fresh(p), readonly |-> FALSE, linked |-> None]]
    BY <1>10, <2>1, OwnName DEF WriteTarget
  <2> QED BY <1>10, <2>1, <2>2
          DEF WriteTarget, Return, Nothing, Result, TypeOK, UrlInv, BodyInv, LinkInv
<1>11. ASSUME NEW p \in Processes, Kill(p) PROVE IInv'
  BY <1>11 DEF Kill, TypeOK, UrlInv, BodyInv, LinkInv
<1>12. ASSUME NEW d \in Contents, PurgeBody(d) PROVE IInv'
  <2>1. target' = Unlinked(d)
    BY <1>12 DEF PurgeBody
  <2> QED BY <1>12, <2>1, UnlinkedKeeps DEF PurgeBody, TypeOK, UrlInv, BodyInv, LinkInv
<1>13. ASSUME NEW u \in Urls, PurgeReceipt(u) PROVE IInv'
  BY <1>13 DEF PurgeReceipt, TypeOK, UrlInv, BodyInv, LinkInv
<1>14. CASE UNCHANGED vars
  BY <1>14 DEF vars, TypeOK, UrlInv, BodyInv, LinkInv
<1> QED BY <1>1, <1>2, <1>3, <1>4, <1>5, <1>6, <1>7, <1>8, <1>9, <1>10, <1>11, <1>12, <1>13, <1>14
        DEF Next, Step

LEMMA Invariance == ASSUME ~Superuser PROVE Spec => []IInv
<1>1. Init => IInv
  BY InvInit
<1>2. IInv /\ [Next]_vars => IInv'
  BY InvStep
<1> QED BY <1>1, <1>2, PTL DEF Spec

\* _publish_body, materialize_cached_artifact and ensure_local_text: the store's bodies are whole
\* whatever fails, is killed or purged, because a target that shares its file with one is read-only.
THEOREM StoreStaysWhole == ASSUME ~Superuser PROVE Spec => []BodiesAreWhole
<1>1. IInv => BodiesAreWhole
  BY DEF IInv, BodyInv, BodiesAreWhole
<1> QED BY <1>1, Invariance, PTL

------------------------------------------------------------------------------------
LEMMA HashInit == Init => HashInv
BY DistinctAssumption
   DEF Init, HashInv, ReceiptInv, FoundInv, TargetInv, ReturnedInv, Nothing

\* Steps that leave targets alone and neither begin nor end a call.
LEMMA QuietStep ==
    ASSUME IInv, HashInv, NEW p \in Processes,
           Get(p) \/ Stream(p) \/ StoreFails(p) \/ Keep(p) \/ Replaces(p) \/ StatBody(p)
           \/ StatFails(p) \/ PublishReceipt(p)
    PROVE  HashInv'
<1> USE DistinctAssumption DEF IInv, HashInv
<1>1. pc[p] # "idle" /\ url[p] \in Urls /\ Fresh(p) \in Contents
  BY DEF Get, Stream, StoreFails, Keep, Replaces, StatBody, StatFails, PublishReceipt, TypeOK, UrlInv
<1>2. PICK s \in Steps \ {"idle"} : pc' = [pc EXCEPT ![p] = s]
  BY DEF Get, Stream, StoreFails, Keep, Replaces, StatBody, StatFails, PublishReceipt, Steps
<1>3. UNCHANGED <<world, target, call, returned>>
  BY DEF Get, Stream, StoreFails, Keep, Replaces, StatBody, StatFails, PublishReceipt
<1>4. TargetInv' /\ ReturnedInv'
  BY <1>1, <1>2, <1>3 DEF TargetInv, ReturnedInv, TypeOK
<1>5. ReceiptInv'
  <2>1. CASE PublishReceipt(p)
    BY <1>1, <2>1 DEF PublishReceipt, ReceiptInv, FoundInv, TypeOK
  <2>2. CASE ~PublishReceipt(p)
    BY <2>2 DEF Get, Stream, StoreFails, Keep, Replaces, StatBody, StatFails, ReceiptInv
  <2> QED BY <2>1, <2>2
<1>6. FoundInv'
  <2>1. CASE Get(p)
    <3>1. /\ found' = [found EXCEPT ![p] = Known(url[p], expected[p])]
          /\ pc'[p] = IF Known(url[p], expected[p]) = None THEN "streaming" ELSE "linking"
          /\ expected[p] \in {None, indexed[url[p]]}
      BY <2>1 DEF Get, TypeOK, FoundInv
    <3>2. LET d == Known(url[p], expected[p]) IN
            /\ d \in Contents \cup {None}
            /\ d # None => /\ expected[p] # None => d = expected[p]
                           /\ served[url[p]] = indexed[url[p]] => d = Fresh(p)
      BY <1>1, <3>1 DEF Known, TypeOK, ReceiptInv
    <3> HIDE DEF Known
    <3> QED BY <2>1, <3>1, <3>2, <1>1, <1>2, <1>3 DEF FoundInv, TypeOK
  <2>2. CASE Stream(p) \/ StoreFails(p) \/ Keep(p) \/ Replaces(p) \/ StatFails(p)
    BY <2>2, <1>1, <1>3 DEF Stream, StoreFails, Keep, Replaces, StatFails, FoundInv, TypeOK
  <2>3. CASE StatBody(p)
    BY <2>3, <1>1, <1>3 DEF StatBody, FoundInv, TypeOK
  <2>4. CASE PublishReceipt(p)
    BY <2>4, <1>1, <1>3 DEF PublishReceipt, FoundInv, TypeOK
  <2> QED BY <2>1, <2>2, <2>3, <2>4
<1> QED BY <1>4, <1>5, <1>6

\* A call ends: with nothing, or with a hash that was found for a target that has it.
LEMMA EndStep ==
    ASSUME IInv, HashInv, NEW p \in Processes, NEW s \in Steps \ {"idle"},
           NEW hash \in Contents \cup {None}, Return(p, s, hash), UNCHANGED receipt,
           TargetInv',
           hash # None => s = "linking" /\ hash = found[p]
    PROVE  HashInv'
<1> USE DistinctAssumption DEF IInv, HashInv
<1>1. pc[p] = s /\ url[p] \in Urls /\ expected[p] \in {None, indexed[url[p]]}
  BY DEF Return, TypeOK, UrlInv, FoundInv
<1>2. ReceiptInv'
  BY DEF Return, ReceiptInv
<1>3. FoundInv'
  BY DEF Return, FoundInv, TypeOK
<1>4. ReturnedInv'
  <2>1. hash # None => /\ expected[p] \in {None, hash}
                       /\ served[url[p]] = indexed[url[p]] => hash = served[url[p]]
    BY <1>1 DEF FoundInv
  <2>2. returned'[p] = IF hash = None THEN Nothing
                       ELSE [url |-> url[p], expected |-> expected[p], hash |-> hash]
    BY DEF Return, TypeOK
  <2>3. pc'[p] = "idle" /\ UNCHANGED world
    BY DEF Return, TypeOK
  <2>4. \A q \in Processes : q # p => pc'[q] = pc[q] /\ returned'[q] = returned[q]
    BY DEF Return, TypeOK
  <2> QED BY <1>1, <2>1, <2>2, <2>3, <2>4 DEF ReturnedInv, Nothing
<1> QED BY <1>2, <1>3, <1>4

LEMMA HashStep == ASSUME ~Superuser PROVE IInv /\ HashInv /\ [Next]_vars => HashInv'
<1> SUFFICES ASSUME IInv, HashInv, [Next]_vars PROVE HashInv'
  OBVIOUS
<1> USE DistinctAssumption
<1>1. ASSUME NEW p \in Processes, NEW u \in Urls, NEW e \in Contents \cup {None}, Begin(p, u, e)
      PROVE  HashInv'
  BY <1>1 DEF Begin, IInv, TypeOK, HashInv, ReceiptInv, FoundInv, TargetInv, ReturnedInv, Nothing
<1>2. ASSUME NEW p \in Processes, Refuse(p) \/ LinkFails(p) \/ RefuseAgain(p) \/ WriteFails(p)
      PROVE  HashInv'
  <2>1. PICK s \in Steps \ {"idle"} : Return(p, s, None) /\ UNCHANGED <<store, target>>
    BY <1>2 DEF Refuse, LinkFails, RefuseAgain, WriteFails, Raises, Steps
  <2>2. TargetInv'
    BY <2>1 DEF Return, HashInv, TargetInv
  <2> QED BY <2>1, <2>2, EndStep
<1>3. ASSUME NEW p \in Processes, ReplaceBody(p) PROVE HashInv'
  <2>1. url[p] \in Urls /\ Fresh(p) \in Contents
    BY <1>3 DEF ReplaceBody, IInv, TypeOK, UrlInv
  <2>2. \A q \in Processes, u \in Urls :
            /\ target'[q][u].content = target[q][u].content
            /\ target'[q][u].readonly = target[q][u].readonly
    BY <1>3, <2>1, UnlinkedKeeps DEF ReplaceBody
  <2> QED BY <1>3, <2>1, <2>2
          DEF ReplaceBody, IInv, TypeOK, HashInv, ReceiptInv, FoundInv, TargetInv, ReturnedInv
<1>4. ASSUME NEW p \in Processes, TakeExisting(p) PROVE HashInv'
  <2>1. Return(p, "linking", found[p]) /\ UNCHANGED <<store, target>> /\ found[p] \in Contents
    BY <1>4 DEF TakeExisting, Return, HashInv, FoundInv
  <2>2. TargetInv'
    BY <2>1 DEF Return, HashInv, TargetInv
  <2> QED BY <2>1, <2>2, EndStep DEF Steps
<1>5. ASSUME NEW p \in Processes, Link(p) PROVE HashInv'
  <2>1. /\ Return(p, "linking", found[p]) /\ UNCHANGED store /\ url[p] \in Urls
        /\ found[p] \in Contents
        /\ served[url[p]] = indexed[url[p]] => found[p] = served[url[p]]
        /\ body[found[p]].content = found[p] /\ body[found[p]] \in File
    BY <1>5 DEF Link, StillThere, Return, HashInv, FoundInv, IInv, UrlInv, BodyInv, TypeOK
  <2>2. PICK f : target' = [target EXCEPT ![p][url[p]] = f] /\ f.content = found[p]
    <3> DEFINE b == body[found[p]]
               f1 == [content |-> b.content, readonly |-> b.readonly, linked |-> found[p]]
               f2 == [content |-> b.content, readonly |-> TRUE, linked |-> b.linked]
    <3>1. [b EXCEPT !.linked = found[p]] = f1 /\ [b EXCEPT !.readonly = TRUE] = f2
      <4> HIDE DEF File
      <4> QED BY <2>1, Changed
    <3>2. f1.content = found[p] /\ f2.content = found[p]
      BY <2>1
    <3> HIDE DEF f1, f2
    <3> QED BY <1>5, <3>1, <3>2 DEF Link
  <2>3. TargetInv'
    BY <2>1, <2>2 DEF Return, HashInv, TargetInv, IInv, TypeOK
  <2> QED BY <2>1, <2>3, EndStep DEF Steps
<1>6. ASSUME NEW p \in Processes, Truncate(p) PROVE HashInv'
  <2>1. ~Target(p).readonly /\ pc[p] # "idle"
    BY <1>6 DEF Truncate
  <2>2. url[p] \in Urls /\ target' = [target EXCEPT ![p][url[p]] =
                                          [content |-> Torn, readonly |-> FALSE, linked |-> None]]
    BY <1>6, <2>1, OwnName DEF Truncate
  <2> QED BY <1>6, <2>2
          DEF Truncate, IInv, TypeOK, HashInv, ReceiptInv, FoundInv, TargetInv, ReturnedInv
<1>7. ASSUME NEW p \in Processes, WriteTarget(p) PROVE HashInv'
  <2>1. ~Target(p).readonly /\ pc[p] # "idle" /\ Return(p, "writing", None) /\ UNCHANGED receipt
    BY <1>7 DEF WriteTarget, Return, IInv, LinkInv
  <2>2. url[p] \in Urls /\ target' = [target EXCEPT ![p][url[p]] =
                                    [content |-> Fresh(p), readonly |-> FALSE, linked |-> None]]
    BY <1>7, <2>1, OwnName DEF WriteTarget
  <2>3. TargetInv'
    BY <2>1, <2>2 DEF Return, HashInv, TargetInv, IInv, TypeOK
  <2> QED BY <2>1, <2>3, EndStep DEF Steps
<1>8. ASSUME NEW p \in Processes, Kill(p) PROVE HashInv'
  BY <1>8 DEF Kill, IInv, TypeOK, HashInv, ReceiptInv, FoundInv, TargetInv, ReturnedInv, Nothing
<1>9. ASSUME NEW d \in Contents, PurgeBody(d) PROVE HashInv'
  <2>1. \A q \in Processes, u \in Urls :
            /\ target'[q][u].content = target[q][u].content
            /\ target'[q][u].readonly = target[q][u].readonly
    BY <1>9, UnlinkedKeeps DEF PurgeBody
  <2> QED BY <1>9, <2>1
          DEF PurgeBody, HashInv, ReceiptInv, FoundInv, TargetInv, ReturnedInv
<1>10. ASSUME NEW u \in Urls, PurgeReceipt(u) PROVE HashInv'
  BY <1>10 DEF PurgeReceipt, IInv, TypeOK, HashInv, ReceiptInv, FoundInv, TargetInv, ReturnedInv
<1>11. CASE UNCHANGED vars
  BY <1>11 DEF vars, HashInv, ReceiptInv, FoundInv, TargetInv, ReturnedInv
<1> QED BY <1>1, <1>2, <1>3, <1>4, <1>5, <1>6, <1>7, <1>8, <1>9, <1>10, <1>11, QuietStep
        DEF Next, Step

\* ensure_local_text and get: the hash that comes with a file is the one asked for, and, where the
\* index is right and the store made the target, that file's.
THEOREM HashesAreTrue == ASSUME ~Superuser PROVE Spec => []ReturnsWhatItSays
<1>1. Init => HashInv
  BY HashInit
<1>2. IInv /\ HashInv /\ [Next]_vars => HashInv'
  BY HashStep
<1>3. HashInv => ReturnsWhatItSays
  BY DEF HashInv, TargetInv, ReturnedInv, ReturnsWhatItSays
<1> QED BY <1>1, <1>2, <1>3, Invariance, PTL DEF Spec
====
