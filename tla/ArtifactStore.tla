------------------------------ MODULE ArtifactStore ------------------------------
(* Downloaded files: the content-addressed store that processes share               *)
(* (index/artifact_cache.py), and ArtifactLocator.ensure_local_text, which brings a   *)
(* URL's file into the process's own download directory. A body of the store and the  *)
(* targets made from it by os.link are one file under several names.                  *)
EXTENDS Naturals

CONSTANTS
    Processes, Urls,
    Contents,       \* of whole files; a digest is the content it is of
    None,           \* no file, no digest
    Torn,           \* what a write that stopped half way leaves
    Superuser,      \* a read-only file can be opened for writing
    Calls           \* of ensure_local_text: how many each process makes

ASSUME DistinctAssumption == None \notin Contents /\ Torn \notin Contents /\ None # Torn
ASSUME SuperuserAssumption == Superuser \in BOOLEAN
ASSUME CallsAssumption == Calls \in [Processes -> Nat]

VARIABLES
    served,         \* what each URL answers with; always the same
    indexed,        \* the digest that the index gives
    body,           \* sha256/<digest>/body
    receipt,        \* links/<url>: the digest that it names
    target,         \* the download directory of each process
    pc, left,
    url, expected,  \* of the call
    found,          \* the digest of the CachedArtifact it holds
    returned        \* by the last call: a hash in download_hashes, or None

world == <<served, indexed>>
store == <<body, receipt>>
call == <<left, url, expected>>
vars == <<world, store, target, pc, call, found, returned>>

\* linked: the body it is a second name of.
File == [content: Contents \cup {None, Torn}, readonly: BOOLEAN, linked: Contents \cup {None}]
NoFile == [content |-> None, readonly |-> FALSE, linked |-> None]
IsThere(f) == f.content # None

Steps == {"idle", "looking", "streaming", "staged", "replacing", "stating", "receipting",
          "linking", "opening", "writing"}

Target(p) == target[p][url[p]]
Fresh(p) == served[url[p]]

\* A body is always of the size its digest was made of, unless it is torn.
HasItsSize(d) == body[d].content \notin {None, Torn}

Go(p, from, to) == pc[p] = from /\ pc' = [pc EXCEPT ![p] = to]
Finds(p, d) == found' = [found EXCEPT ![p] = d]
StillThere(p) == found[p] # None /\ IsThere(body[found[p]])

Result == [url: Urls \cup {None}, expected: Contents \cup {None}, hash: Contents \cup {None}]
Nothing == [url |-> None, expected |-> None, hash |-> None]

\* The call returns the target, with a hash or none, or raises.
Return(p, from, hash) ==
    /\ Go(p, from, "idle")
    /\ returned' = [returned EXCEPT ![p] =
           IF hash = None THEN Nothing ELSE [url |-> url[p], expected |-> expected[p], hash |-> hash]]
    /\ url' = [url EXCEPT ![p] = None] /\ expected' = [expected EXCEPT ![p] = None]
    /\ Finds(p, None)
    /\ UNCHANGED <<world, left>>
Raises(p, from) == Return(p, from, None)

\* A file that is replaced or removed: its other names keep the old one.
Unlinked(d) == [p \in Processes |-> [u \in Urls |->
    IF target[p][u].linked = d THEN [target[p][u] EXCEPT !.linked = None] ELSE target[p][u]]]

\* A target is written in place, under all of its names.
Overwrite(p, x) ==
    LET d == Target(p).linked IN
    /\ target' = [q \in Processes |-> [u \in Urls |->
           IF (q = p /\ u = url[p]) \/ (d # None /\ target[q][u].linked = d)
           THEN [target[q][u] EXCEPT !.content = x] ELSE target[q][u]]]
    /\ body' = [c \in Contents |-> IF c = d THEN [body[c] EXCEPT !.content = x] ELSE body[c]]

------------------------------------------------------------------------------------
Init ==
    /\ served \in [Urls -> Contents] /\ indexed \in [Urls -> Contents]
    /\ body = [c \in Contents |-> NoFile]
    /\ receipt = [u \in Urls |-> None]
    /\ target = [p \in Processes |-> [u \in Urls |-> NoFile]]
    /\ pc = [p \in Processes |-> "idle"] /\ left = Calls
    /\ url = [p \in Processes |-> None] /\ expected = [p \in Processes |-> None]
    /\ found = [p \in Processes |-> None]
    /\ returned = [p \in Processes |-> Nothing]

\* ensure_local_text, by a locator that has not met this URL. The materializer passes the hashes
\* of the index, the download and lock commands pass none.
Begin(p, u, hashes) ==
    /\ left[p] > 0 /\ hashes \in {None, indexed[u]}
    /\ Go(p, "idle", "looking")
    /\ left' = [left EXCEPT ![p] = @ - 1]
    /\ url' = [url EXCEPT ![p] = u] /\ expected' = [expected EXCEPT ![p] = hashes]
    /\ returned' = [returned EXCEPT ![p] = Nothing]
    /\ UNCHANGED <<world, store, target, found>>

\* Mutant of Known: a receipt counts, whatever was expected.
KnownByReceipt(u, hash) ==
    IF hash # None /\ IsThere(body[hash]) THEN hash
    ELSE IF receipt[u] # None /\ HasItsSize(receipt[u]) THEN receipt[u]
    ELSE None

\* get: the body that is expected, of whatever size, or the one that the receipt names.
Known(u, hash) ==
    IF hash # None /\ IsThere(body[hash]) THEN hash
    ELSE IF receipt[u] # None /\ (hash # None => receipt[u] = hash) /\ HasItsSize(receipt[u])
    THEN receipt[u]
    ELSE None

Get(p) ==
    /\ pc[p] = "looking" /\ Finds(p, Known(url[p], expected[p]))
    /\ pc' = [pc EXCEPT ![p] = IF found'[p] = None THEN "streaming" ELSE "linking"]
    /\ UNCHANGED <<world, store, target, call, returned>>

------------------------------------------------------------------------------------
(* A request, and store_chunks with what it answers.                                 *)

\* The request fails, or hashes do not match.
Refuse(p) ==
    /\ Raises(p, "streaming")
    /\ UNCHANGED <<store, target>>

Stream(p) ==
    /\ Go(p, "streaming", "staged")
    /\ expected[p] \in {None, Fresh(p)}
    /\ UNCHANGED <<world, store, target, call, found, returned>>

\* The disk, or the connection: an OSError of requests too.
StoreFails(p) ==
    /\ \E s \in {"streaming", "staged", "replacing", "receipting"} : Go(p, s, "opening")
    /\ Finds(p, None)
    /\ UNCHANGED <<world, store, target, call, returned>>

\* _publish_body: a body that is there stays.
Keep(p) ==
    /\ Go(p, "staged", "stating")
    /\ IsThere(body[Fresh(p)])
    /\ UNCHANGED <<world, store, target, call, found, returned>>

Replaces(p) ==
    /\ Go(p, "staged", "replacing")
    /\ ~IsThere(body[Fresh(p)])
    /\ UNCHANGED <<world, store, target, call, found, returned>>

\* Mutant of ReplaceBody: without the chmod.
ReplaceWritable(p) ==
    LET c == Fresh(p) IN
    /\ Go(p, "replacing", "stating")
    /\ body' = [body EXCEPT ![c] = [content |-> c, readonly |-> FALSE, linked |-> None]]
    /\ target' = Unlinked(c)
    /\ UNCHANGED <<world, receipt, call, found, returned>>

\* Another process may have put one there since.
ReplaceBody(p) ==
    LET c == Fresh(p) IN
    /\ Go(p, "replacing", "stating")
    /\ body' = [body EXCEPT ![c] = [content |-> c, readonly |-> TRUE, linked |-> None]]
    /\ target' = Unlinked(c)
    /\ UNCHANGED <<world, receipt, call, found, returned>>

\* _body, with the size of what was streamed.
StatBody(p) ==
    /\ Go(p, "stating", "receipting")
    /\ HasItsSize(Fresh(p)) /\ Finds(p, Fresh(p))
    /\ UNCHANGED <<world, store, target, call, returned>>

\* It was purged since, or is torn.
StatFails(p) ==
    /\ Go(p, "stating", "opening")
    /\ ~HasItsSize(Fresh(p))
    /\ UNCHANGED <<world, store, target, call, found, returned>>

PublishReceipt(p) ==
    /\ Go(p, "receipting", "linking")
    /\ receipt' = [receipt EXCEPT ![url[p]] = found[p]]
    /\ UNCHANGED <<world, body, target, call, found, returned>>

------------------------------------------------------------------------------------
(* materialize_cached_artifact.                                                      *)

\* FileExistsError: what an earlier call left there is taken for it.
TakeExisting(p) ==
    /\ Return(p, "linking", found[p])
    /\ IsThere(Target(p)) /\ StillThere(p)
    /\ UNCHANGED <<store, target>>

\* os.link, or a read-only copy where a link cannot be made.
Link(p) ==
    /\ Return(p, "linking", found[p])
    /\ ~IsThere(Target(p)) /\ StillThere(p)
    /\ \E f \in {[body[found[p]] EXCEPT !.linked = found[p]], [body[found[p]] EXCEPT !.readonly = TRUE]} :
           target' = [target EXCEPT ![p][url[p]] = f]
    /\ UNCHANGED store

\* The copy fails too, as it does when the body is gone.
LinkFails(p) ==
    /\ Raises(p, "linking")
    /\ ~IsThere(Target(p)) \/ ~StillThere(p)
    /\ UNCHANGED <<store, target>>

------------------------------------------------------------------------------------
(* The except OSError: a second request, straight into the target.                   *)

\* The second request fails, or the target may not be opened.
RefuseAgain(p) ==
    /\ Raises(p, "opening")
    /\ UNCHANGED <<store, target>>

\* open(target, "wb").
Truncate(p) ==
    /\ Go(p, "opening", "writing")
    /\ Target(p).readonly => Superuser
    /\ Overwrite(p, Torn)
    /\ UNCHANGED <<world, receipt, call, found, returned>>

WriteTarget(p) ==
    /\ Return(p, "writing", None)
    /\ Overwrite(p, Fresh(p))
    /\ UNCHANGED receipt

\* The connection or the disk once more; the target stays as it is.
WriteFails(p) ==
    /\ Raises(p, "writing")
    /\ UNCHANGED <<store, target>>

------------------------------------------------------------------------------------
\* Killed; the process that runs next has a download directory of its own.
Kill(p) ==
    /\ pc[p] # "idle"
    /\ pc' = [pc EXCEPT ![p] = "idle"]
    /\ target' = [target EXCEPT ![p] = [u \in Urls |-> NoFile]]
    /\ url' = [url EXCEPT ![p] = None] /\ expected' = [expected EXCEPT ![p] = None]
    /\ Finds(p, None)
    /\ UNCHANGED <<world, store, left, returned>>

\* cpip cache purge removes one file after the other.
PurgeBody(d) ==
    /\ IsThere(body[d])
    /\ body' = [body EXCEPT ![d] = NoFile]
    /\ target' = Unlinked(d)
    /\ UNCHANGED <<world, receipt, pc, call, found, returned>>

PurgeReceipt(u) ==
    /\ receipt[u] # None
    /\ receipt' = [receipt EXCEPT ![u] = None]
    /\ UNCHANGED <<world, body, target, pc, call, found, returned>>

Step(p) ==
    \/ Get(p) \/ Refuse(p) \/ Stream(p) \/ StoreFails(p)
    \/ Keep(p) \/ Replaces(p) \/ ReplaceBody(p) \/ StatBody(p) \/ StatFails(p) \/ PublishReceipt(p)
    \/ TakeExisting(p) \/ Link(p) \/ LinkFails(p)
    \/ RefuseAgain(p) \/ Truncate(p) \/ WriteTarget(p) \/ WriteFails(p)

Next ==
    \/ \E p \in Processes, u \in Urls, hashes \in Contents \cup {None} : Begin(p, u, hashes)
    \/ \E p \in Processes : Step(p) \/ Kill(p)
    \/ \E d \in Contents : PurgeBody(d)
    \/ \E u \in Urls : PurgeReceipt(u)

Spec == Init /\ [][Next]_vars

------------------------------------------------------------------------------------
\* Every variable has its type.
TypeOK ==
    /\ served \in [Urls -> Contents] /\ indexed \in [Urls -> Contents]
    /\ body \in [Contents -> File]
    /\ receipt \in [Urls -> Contents \cup {None}]
    /\ target \in [Processes -> [Urls -> File]]
    /\ pc \in [Processes -> Steps] /\ left \in [Processes -> Nat]
    /\ url \in [Processes -> Urls \cup {None}] /\ expected \in [Processes -> Contents \cup {None}]
    /\ found \in [Processes -> Contents \cup {None}]
    /\ returned \in [Processes -> Result]

\* Bodies are immutable: what is at a digest's place is the whole file of that digest, although
\* targets are other names of it that later calls may open for writing, processes store the same
\* file at once, and processes, writes and purges stop or start between any two steps.
BodiesAreWhole == \A d \in Contents : body[d].content \in {None, d}

\* A call that gives a hash with its file gives the hash it was asked for, and the file has it: where
\* the index has the right hash, and unless an earlier call went without the store and wrote the file
\* that this one then takes for its own.
ReturnsWhatItSays == \A p \in Processes :
    LET r == returned[p] IN
    pc[p] = "idle" /\ r.hash # None =>
        /\ r.expected \in {None, r.hash}
        /\ served[r.url] = indexed[r.url] /\ target[p][r.url].readonly =>
               target[p][r.url].content = r.hash
====
