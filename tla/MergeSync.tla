------------------------------ MODULE MergeSync -----------------------------
(***************************************************************************)
(* GalgameMergeSync: the forum follows catalog's merges.  Every run first  *)
(* retries the folds that were parked, then reads catalog's redirect feed  *)
(* page by page; the catalog mirror parks folds of works it finds merged   *)
(* away.  Every call to catalog, every transaction and every write to      *)
(* Redis is a step, so that catalog changes, users write and the mirror    *)
(* runs in between.  Catalog is external: a forest of merges, and a feed   *)
(* with one record per merged id, at the place of its last change.         *)
(***************************************************************************)
EXTENDS MergeFold

CONSTANTS
    PageLimit,    \* records to a page of the feed
    MaxChanges,   \* bound on what catalog's moderators do
    MaxMade,      \* bound on rows made before works merge
    MaxRows,      \* bound on rows made while works merge
    MaxFailures   \* bound on errors, lost writes and restarts

ASSUME SyncBoundsOK ==
    /\ PageLimit \in Nat \ {0} /\ MaxChanges \in Nat
    /\ MaxMade \in Nat /\ MaxRows \in Nat /\ MaxFailures \in Nat

VARIABLES
    parent,     \* catalog: what a work was merged into, itself if live
    hidden,     \* catalog: works under a hidden claim
    turn,       \* catalog: place of a work's redirect in the feed, 0 for none
    forum,      \* the forum's rows and its fold ledger
    parked,     \* Redis: catalog:redirects:merge:deferred
    cursor,     \* Redis: catalog:redirects:merge:cursor
    sync,       \* the run, and what it has read
    mirror,     \* the mirror's settle, between its question and Enqueue
    changes, rows, failures

catalogVars == <<parent, hidden, turn>>
boundVars == <<changes, rows, failures>>
syncVars == <<catalogVars, forum, parked, cursor, sync, mirror, boundVars>>

-----------------------------------------------------------------------------
(* Catalog *)

CurrentIn(p, w) == FoldLeft(LAMBDA v, n : p[v], w, [n \in 1 .. Cardinality(Works) |-> n])
Current(w) == CurrentIn(parent, w)
Live(w) == parent[w] = w
Renderable(w) == Live(w) /\ w \notin hidden

(* The redirects a change touches come round again at the tail.            *)
CatalogChanges(p) ==
    LET touched == {w \in Works : CurrentIn(p, w) # Current(w)}
        tail == Max({0} \cup {turn[w] : w \in Works})
    IN
    /\ changes < MaxChanges
    /\ parent' = p
    /\ \E order \in SetToSeqs(touched) :
        turn' = [w \in Works |-> IF w \in touched
                                 THEN tail + (CHOOSE i \in DOMAIN order : order[i] = w) ELSE turn[w]]
    /\ changes' = changes + 1
    /\ UNCHANGED <<hidden, forum, parked, cursor, sync, mirror, rows, failures>>

MergesAway(x, y) == x # y /\ Live(x) /\ Live(y) /\ CatalogChanges([parent EXCEPT ![x] = y])
Unmerges(x) == ~Live(x) /\ CatalogChanges([parent EXCEPT ![x] = x])
Repoints(x, y) ==
    /\ ~Live(x) /\ Live(y) /\ Current(x) # y
    /\ CatalogChanges([parent EXCEPT ![x] = y])

HidesOrShows(w) ==
    /\ changes < MaxChanges
    /\ hidden' = IF w \in hidden THEN hidden \ {w} ELSE hidden \cup {w}
    /\ changes' = changes + 1
    /\ UNCHANGED <<parent, turn, forum, parked, cursor, sync, mirror, rows, failures>>

(* A page of the feed after c, and whether there is another.               *)
After(c) == {w \in Works : turn[w] > c}
PageAfter(c) ==
    LET n == Cardinality(After(c)) IN
    [i \in 1 .. (IF n < PageLimit THEN n ELSE PageLimit) |->
        CHOOSE w \in After(c) : Cardinality({v \in After(c) : turn[v] <= turn[w]}) = i]

-----------------------------------------------------------------------------
Nothing == [w \in Works |-> 0]

SyncIdle ==
    [pc |-> "idle", retry |-> FALSE,
     at |-> 0, next |-> 0,         \* cursor, and next_cursor, 0 for none
     page |-> <<>>,                \* records not yet applied
     undo |-> 0,                   \* work whose folds are being undone
     todo |-> {},                  \* parked works to ask about
     batch |-> Nothing,            \* survivorWork
     cand |-> {}, rend |-> {}]     \* candidates left, renderable survivors

NoQuestion == [work |-> 0, survivor |-> 0]

(* Rows are there before anything is merged, with their works' own rows or *)
(* without: a work nobody opened has none.                                 *)
SyncInit ==
    /\ parent = [w \in Works |-> w] /\ hidden = {} /\ turn = Nothing
    /\ \E made \in SUBSET Row, opened \in BOOLEAN :
        /\ Cardinality(made) <= MaxMade
        /\ forum = [table |-> "resource",
                    at    |-> [r \in Row |-> IF r \in made THEN Origin(r) ELSE 0],
                    count |-> [r \in Row |-> 0],
                    daily |-> [w \in Works |-> NoBucket],
                    local |-> [w \in Works |-> IF opened /\ \E r \in made : Origin(r) = w
                                 THEN [view |-> 0, published |-> FALSE] ELSE NoRow],
                    folds |-> <<>>]
    /\ parked = Nothing /\ cursor = 0
    /\ sync = SyncIdle /\ mirror = NoQuestion
    /\ changes = 0 /\ rows = 0 /\ failures = 0

(* A user writes to a page opened before its work was merged away, or to   *)
(* one that is live: the row it is local to is there then.                 *)
LeaveRow(r) ==
    /\ forum.at[r] = 0 /\ rows < MaxRows
    /\ \A i \in DOMAIN forum.folds : r \notin forum.folds[i].moved
    /\ forum' = [forum EXCEPT !.at[r] = Origin(r),
                              !.local[Origin(r)] = IF @ = NoRow THEN [view |-> 0, published |-> FALSE] ELSE @]
    /\ rows' = rows + 1
    /\ UNCHANGED <<catalogVars, parked, cursor, sync, mirror, changes, failures>>

-----------------------------------------------------------------------------
(* A run of the sync *)

(* Fault: a fold that cannot be made is not kept.                          *)
ParkNever(ws) == parked

Park(ws) == [w \in Works |-> IF w \in ws THEN sync.batch[w] ELSE parked[w]]
Unpark(ws) == [w \in Works |-> IF w \in ws THEN 0 ELSE parked[w]]
InBatch == {w \in Works : sync.batch[w] # 0}

RunBegins ==
    /\ sync.pc = "idle"
    /\ sync' = [SyncIdle EXCEPT !.at = cursor, !.batch = parked, !.retry = TRUE,
                    !.todo = {w \in Works : parked[w] # 0},
                    !.pc = IF parked = Nothing THEN "fetch" ELSE "refresh"]
    /\ UNCHANGED <<catalogVars, forum, parked, cursor, mirror, boundVars>>

(* A parked fold follows catalog's redirect, or is dropped when the work   *)
(* is live again; a question that fails leaves it as it was parked.        *)
RefreshSurvivor(w) ==
    /\ sync.pc = "refresh" /\ w \in sync.todo
    /\ sync' = [sync EXCEPT !.todo = @ \ {w}, !.batch[w] = IF Live(w) THEN 0 ELSE Current(w)]
    /\ parked' = IF Live(w) THEN Unpark({w}) ELSE parked
    /\ UNCHANGED <<catalogVars, forum, cursor, mirror, boundVars>>

RefreshFails(w) ==
    /\ sync.pc = "refresh" /\ w \in sync.todo /\ failures < MaxFailures
    /\ sync' = [sync EXCEPT !.todo = @ \ {w}]
    /\ failures' = failures + 1
    /\ UNCHANGED <<catalogVars, forum, parked, cursor, mirror, changes, rows>>

(* Fault: the candidates of a batch are left for the next.                 *)
BatchDoneKeeps(s) == [s EXCEPT !.pc = IF s.retry THEN "fetch" ELSE "advance", !.batch = Nothing]

BatchDone(s) == [s EXCEPT !.pc = IF s.retry THEN "fetch" ELSE "advance",
                          !.batch = Nothing, !.cand = {}, !.rend = {}]

ReadyToFold ==
    \/ sync.pc = "refresh" /\ sync.todo = {}
    \/ sync.pc = "apply" /\ sync.page = <<>> /\ sync.undo = 0

(* Works the forum holds nothing of are not folded, nor kept parked.       *)
FindCandidates ==
    LET cand == {w \in InBatch : Referenced(forum, w)} IN
    /\ ReadyToFold
    /\ sync' = IF cand = {} THEN BatchDone(sync)
               ELSE [sync EXCEPT !.pc = "lookup", !.cand = cand]
    /\ parked' = Unpark(InBatch \ cand)
    /\ UNCHANGED <<catalogVars, forum, cursor, mirror, boundVars>>

FindCandidatesFails ==
    /\ ReadyToFold /\ InBatch # {} /\ failures < MaxFailures
    /\ sync' = BatchDone(sync)
    /\ parked' = Park(InBatch)
    /\ failures' = failures + 1
    /\ UNCHANGED <<catalogVars, forum, cursor, mirror, changes, rows>>

LookUpSurvivors(ok) ==
    /\ sync.pc = "lookup"
    /\ ok \/ failures < MaxFailures
    /\ sync' = [sync EXCEPT !.pc = "fold",
                    !.rend = IF ok THEN {sync.batch[w] : w \in sync.cand} \cap {w \in Works : Renderable(w)}
                             ELSE {}]
    /\ failures' = IF ok THEN failures ELSE failures + 1
    /\ UNCHANGED <<catalogVars, forum, parked, cursor, mirror, changes, rows>>

(* The candidates in order of their id: parked when their survivor is not  *)
(* one to fold into, or when the fold fails.                               *)
FoldOne(ok) ==
    LET w == Min(sync.cand)
        new == sync.batch[w]
        fold == new \in sync.rend /\ new # w
    IN
    /\ sync.pc = "fold"
    /\ ok \/ (fold /\ failures < MaxFailures)
    /\ forum' = IF fold /\ ok THEN FoldTx(forum, w, new) ELSE forum
    /\ parked' = IF new = w \/ (fold /\ ok) THEN Unpark({w}) ELSE Park({w})
    /\ sync' = IF sync.cand = {w} THEN BatchDone(sync) ELSE [sync EXCEPT !.cand = @ \ {w}]
    /\ failures' = IF ok THEN failures ELSE failures + 1
    /\ UNCHANGED <<catalogVars, cursor, mirror, changes, rows>>

Fetch ==
    LET page == PageAfter(sync.at)
        more == Cardinality(After(sync.at)) > PageLimit
    IN
    /\ sync.pc = "fetch"
    /\ sync' = IF page = <<>> THEN SyncIdle
               ELSE [sync EXCEPT !.pc = "apply", !.retry = FALSE, !.batch = Nothing,
                        !.next = IF more THEN turn[Last(page)] ELSE 0,
                        !.page = [i \in DOMAIN page |-> [old |-> page[i], current |-> Current(page[i])]]]
    /\ UNCHANGED <<catalogVars, forum, parked, cursor, mirror, boundVars>>

(* Fault: a redirect that names another survivor is not followed.          *)
RepointedNever(w, current) == FALSE

(* The record names another survivor than the newest fold's, and no later  *)
(* fold has carried the rows there.                                        *)
Repointed(w, current) ==
    LET f == ActiveFold(forum, w) IN
    f # 0 /\ current \notin FoldChain(forum, forum.folds[f].new)

(* One record.  A revoked one undoes the work's folds, and so does one     *)
(* that names another survivor, for the fold that follows.                 *)
ApplyItem ==
    LET it == Head(sync.page)
        revoked == it.current = it.old
        undo == ActiveFold(forum, it.old) # 0 /\ (revoked \/ Repointed(it.old, it.current))
    IN
    /\ sync.pc = "apply" /\ sync.page # <<>> /\ sync.undo = 0
    /\ sync' = [sync EXCEPT !.page = Tail(@), !.undo = IF undo THEN it.old ELSE 0,
                            !.batch[it.old] = IF revoked THEN @ ELSE it.current]
    /\ parked' = IF revoked THEN Unpark({it.old}) ELSE parked
    /\ UNCHANGED <<catalogVars, forum, cursor, mirror, boundVars>>

UnfoldOne ==
    LET after == Unfold(forum, sync.undo) IN
    /\ sync.undo # 0
    /\ forum' = after
    /\ sync' = [sync EXCEPT !.undo = IF ActiveFold(after, @) = 0 THEN 0 ELSE @]
    /\ UNCHANGED <<catalogVars, parked, cursor, mirror, boundVars>>

(* The last page has no next_cursor and is read again by the next run.     *)
Advance ==
    /\ sync.pc = "advance"
    /\ sync' = IF sync.next = 0 THEN SyncIdle
               ELSE [SyncIdle EXCEPT !.pc = "fetch", !.at = sync.next]
    /\ cursor' = IF sync.next = 0 THEN cursor ELSE sync.next
    /\ UNCHANGED <<catalogVars, forum, parked, mirror, boundVars>>

(* A call or a transaction fails, the cursor cannot be written, fifteen    *)
(* minutes are over, or the process restarts.                              *)
RunStops ==
    /\ sync.pc # "idle" /\ failures < MaxFailures
    /\ sync' = SyncIdle
    /\ failures' = failures + 1
    /\ UNCHANGED <<catalogVars, forum, parked, cursor, mirror, changes, rows>>

-----------------------------------------------------------------------------
(* The mirror asks about a local row that catalog no longer lists.         *)
MirrorAsks(w) ==
    /\ mirror = NoQuestion /\ forum.local[w] # NoRow /\ ~Live(w)
    /\ Renderable(Current(w)) /\ parked[w] # Current(w)
    /\ mirror' = [work |-> w, survivor |-> Current(w)]
    /\ UNCHANGED <<catalogVars, forum, parked, cursor, sync, boundVars>>

Enqueue ==
    /\ mirror # NoQuestion
    /\ parked' = [parked EXCEPT ![mirror.work] = mirror.survivor]
    /\ mirror' = NoQuestion
    /\ UNCHANGED <<catalogVars, forum, cursor, sync, boundVars>>

-----------------------------------------------------------------------------
Catalog ==
    \/ \E x, y \in Works : MergesAway(x, y) \/ Repoints(x, y)
    \/ \E w \in Works : Unmerges(w) \/ HidesOrShows(w)

Run ==
    \/ RunBegins
    \/ \E w \in Works : RefreshSurvivor(w)
    \/ FindCandidates \/ LookUpSurvivors(TRUE) \/ FoldOne(TRUE)
    \/ Fetch \/ ApplyItem \/ UnfoldOne \/ Advance

RunFails ==
    \/ \E w \in Works : RefreshFails(w)
    \/ FindCandidatesFails \/ LookUpSurvivors(FALSE) \/ FoldOne(FALSE) \/ RunStops

Mirror == Enqueue \/ \E w \in Works : MirrorAsks(w)

SyncNext ==
    \/ Catalog
    \/ \E r \in Row : LeaveRow(r)
    \/ Run \/ RunFails \/ Mirror

(* The sync runs every thirty minutes, and the mirror goes round the local *)
(* rows; nothing makes works merge or calls fail.  Some step of a run can  *)
(* always be taken and changes sync, and failures are bounded: the first   *)
(* formula says WF_syncVars(Run).                                          *)
Fairness == []<><<TRUE>>_sync /\ WF_syncVars(Mirror)

SyncSpec == SyncInit /\ [][SyncNext]_syncVars /\ Fairness

-----------------------------------------------------------------------------
(* Properties *)

(* Every variable keeps its type; a run folds only what is in its batch,   *)
(* and undoes folds only while it applies a page.                          *)
TypeOK ==
    /\ parent \in [Works -> Works] /\ hidden \subseteq Works
    /\ turn \in [Works -> Nat] /\ cursor \in Nat
    /\ forum.at \in [Row -> Works \cup {0}]
    /\ parked \in [Works -> Works \cup {0}]
    /\ mirror \in [work : Works \cup {0}, survivor : Works \cup {0}]
    /\ sync.batch \in [Works -> Works \cup {0}]
    /\ sync.cand \subseteq InBatch /\ sync.rend \subseteq Works
    /\ sync.undo # 0 => sync.pc = "apply"

(* A row is where catalog says its work is.                                *)
Placed(r) == forum.at[r] = Current(Origin(r))

(* A fold still owed is remembered between runs: its redirect is in the    *)
(* feed after the cursor, or it is parked, or the mirror will ask about    *)
(* the local row.                                                          *)
OwedIsRemembered ==
    sync.pc = "idle" =>
        \A r \in Row : forum.at[r] # 0 /\ ~Placed(r) =>
            \E w \in {Origin(r), forum.at[r]} :
                turn[w] > cursor \/ parked[w] # 0 \/ (~Live(w) /\ forum.local[w] # NoRow)

(* Once catalog and the calls settle, every row comes to stand on the work *)
(* catalog names for the one it was made on, and stays there.              *)
Converges ==
    <>[](\A r \in Row : forum.at[r] # 0 /\ Renderable(Current(Origin(r))) => Placed(r))

=============================================================================
