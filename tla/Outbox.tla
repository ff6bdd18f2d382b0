------------------------------- MODULE Outbox -------------------------------
(***************************************************************************)
(* The outboxes through which the forum tells community what it shows:     *)
(* feed activities (Pusher) and anchor presentations (Presenter).  Both    *)
(* have a queue filled in the transaction that changes the row, a table of *)
(* the writes community accepted, a drain loop and a daily reconcile; they *)
(* differ in whether the reconcile records the tombstones it sends, in     *)
(* whether one row can fail to be read or sent, and in when sent is read.  *)
(*                                                                         *)
(* Every read of the database, every write of it and every call is a step, *)
(* so that rows change and the other loop runs in between.  Community's    *)
(* side is external: it takes a write of a higher revision and no other.   *)
(***************************************************************************)
EXTENDS Naturals, FiniteSetsExt

CONSTANTS
    Keys,        \* (type, source_id), or (anchor_kind, anchor_id)
    Values,      \* what community may be told of a row
    Unsendable,  \* values MapLive fails on
    Rejected,    \* values community answers 422 or "invalid" to
    Gone,        \* no row; as an item, a tombstone
    Nothing,     \* no item
    Outboxes,    \* "activity", "presentation"
    MaxChanges,  \* bound on changes of what the forum shows
    MaxOverlaps, \* bound on reconciles that begin while the drain is busy
    MaxFailures  \* bound on errors, lost answers and restarts

ASSUME OutboxConstantsOK ==
    /\ IsFiniteSet(Keys) /\ Keys # {}
    /\ Unsendable \subseteq Values /\ Rejected \subseteq Values
    /\ Gone \notin Values /\ Nothing \notin Values \cup {Gone}
    /\ Outboxes \subseteq {"activity", "presentation"}
    /\ MaxChanges \in Nat /\ MaxOverlaps \in Nat /\ MaxFailures \in Nat

VARIABLES
    outbox,     \* which of the two
    row,        \* feed_activity, or the work's or the thread's row
    shown,      \* does the row assemble into something to show?
    queue,      \* activity_push_queue.enqueued, 0 for no row
    sent,       \* activity_push_sent, rev 0 for no row
    stored,     \* what community holds, rev 0 for nothing
    drain,      \* RunOnce and what it has read
    recon,      \* Reconcile and what it has read
    due,        \* a reconcile may still find something
    silent,     \* something has changed where no trigger fires
    changes, overlaps, failures

loopVars  == <<drain, recon>>
boundVars == <<due, silent, changes, overlaps, failures>>
vars == <<outbox, row, shown, queue, sent, stored, loopVars, boundVars>>

-----------------------------------------------------------------------------
Absent == [rev |-> 0, removed |-> FALSE]
Unheld == [rev |-> 0, item |-> Gone]

DrainIdle ==
    [pc |-> "idle", rev |-> 0,
     claim |-> [k \in Keys |-> 0],          \* enqueued, of the rows claimed
     row   |-> [k \in Keys |-> Gone],       \* as feedByKeys found them
     told  |-> {},                          \* live, as sentByKeys found them
     item  |-> [k \in Keys |-> Nothing],    \* what is being sent
     left  |-> {}, accepted |-> {}]         \* to send still, to record still

ReconIdle ==
    [pc |-> "idle", orphanRev |-> 0, rev |-> 0,
     stored |-> [k \in Keys |-> Unheld],
     row    |-> [k \in Keys |-> Gone],
     tomb     |-> [k \in Keys |-> 0],       \* revision of a tombstone to send
     accepted |-> [k \in Keys |-> 0]]       \* revision of one to record

IsLive(s)  == s.rev # 0 /\ ~s.removed
Held(s)    == s.rev # 0 /\ s.item # Gone
Visible(k) == IF shown[k] THEN row[k] ELSE Gone

(* MapLive fails on a value; the Presenter has nothing like it.            *)
NotSendable(v) == outbox = "activity" /\ v \in Unsendable

(* The time is later than every time and revision still remembered.        *)
Now == 1 + Max(UNION {{queue[k], sent[k].rev, stored[k].rev, drain.rev, drain.claim[k],
                       recon.orphanRev, recon.rev, recon.stored[k].rev,
                       recon.tomb[k], recon.accepted[k]} : k \in Keys})

(* The migration enqueues every row there is; nothing has been sent yet.   *)
Init ==
    /\ outbox \in Outboxes
    /\ row \in [Keys -> Values \cup {Gone}]
    /\ shown = [k \in Keys |-> TRUE]
    /\ queue = [k \in Keys |-> IF row[k] = Gone THEN 0 ELSE 1]
    /\ sent = [k \in Keys |-> Absent] /\ stored = [k \in Keys |-> Unheld]
    /\ drain = DrainIdle /\ recon = ReconIdle
    /\ due = TRUE /\ silent = FALSE
    /\ changes = 0 /\ overlaps = 0 /\ failures = 0

-----------------------------------------------------------------------------
(* The forum *)

(* A row is written or deleted; the trigger enqueues its key, or refreshes *)
(* enqueued on the row that is there.                                      *)
Change(k, v) ==
    /\ changes < MaxChanges /\ v # row[k]
    /\ row' = [row EXCEPT ![k] = v]
    /\ queue' = [queue EXCEPT ![k] = Now]
    /\ due' = TRUE /\ changes' = changes + 1
    /\ UNCHANGED <<outbox, shown, sent, stored, loopVars, silent, overlaps, failures>>

(* What a row shows as changes elsewhere, and no trigger fires.            *)
ChangeSilently(k) ==
    /\ changes < MaxChanges
    /\ shown' = [shown EXCEPT ![k] = ~shown[k]]
    /\ due' = TRUE /\ silent' = TRUE /\ changes' = changes + 1
    /\ UNCHANGED <<outbox, row, queue, sent, stored, loopVars, overlaps, failures>>

-----------------------------------------------------------------------------
(* The drain loop *)

Claim ==
    /\ drain.pc = "idle" /\ \E k \in Keys : queue[k] # 0
    /\ drain' = [DrainIdle EXCEPT !.pc = "claimed", !.claim = queue]
    /\ UNCHANGED <<outbox, row, shown, queue, sent, stored, recon, boundVars>>

Stamp ==
    /\ drain.pc = "claimed"
    /\ drain' = [drain EXCEPT !.pc = "stamped", !.rev = Now]
    /\ UNCHANGED <<outbox, row, shown, queue, sent, stored, recon, boundVars>>

ReadRows ==
    /\ drain.pc = "stamped"
    /\ drain' = [drain EXCEPT !.pc = "read", !.row = row,
                               !.told = IF outbox = "activity"
                                        THEN {k \in Keys : IsLive(sent[k])} ELSE {}]
    /\ UNCHANGED <<outbox, row, shown, queue, sent, stored, recon, boundVars>>

(* A live item, a tombstone for what community was told before, or nothing. *)
ItemFor(k) ==
    IF drain.row[k] # Gone /\ shown[k]
    THEN IF NotSendable(drain.row[k]) THEN Nothing ELSE drain.row[k]
    ELSE IF IF outbox = "activity" THEN k \in drain.told ELSE IsLive(sent[k])
         THEN Gone ELSE Nothing

(* The batch is assembled and compared with sent.  A row that does not     *)
(* assemble goes to the back of the queue.  (If no row assembles the tick  *)
(* fails; Keys are some of the rows, so that all of them may fail here.)   *)
Prepare(failed) ==
    LET claimed == {k \in Keys : drain.claim[k] # 0}
        item    == [k \in Keys |-> IF k \in claimed \ failed THEN ItemFor(k) ELSE Nothing]
    IN
    /\ drain.pc = "read"
    /\ failed \subseteq {k \in claimed : drain.row[k] # Gone /\ outbox = "activity"}
    /\ failures + Cardinality(failed) <= MaxFailures
    /\ failures' = failures + Cardinality(failed)
    /\ queue' = [k \in Keys |-> IF k \in failed /\ queue[k] # 0 THEN Now ELSE queue[k]]
    /\ drain' = [drain EXCEPT !.pc = "sending", !.item = item, !.row = DrainIdle.row, !.told = {},
                     !.claim = [k \in Keys |-> IF k \in failed THEN 0 ELSE @[k]],
                     !.left = {k \in Keys : item[k] # Nothing}]
    /\ UNCHANGED <<outbox, row, shown, sent, stored, recon, due, silent, changes, overlaps>>

(* Community on a write: created, updated, removed or restored, or stale,  *)
(* or refused.                                                             *)
Accepts(k, rev, item) == rev > stored[k].rev /\ item \notin Rejected

(* One item of WriteActivities: a batch refused as a whole is bisected, so *)
(* that an error may leave any part of it delivered.                       *)
Deliver(k) ==
    LET ok == Accepts(k, drain.rev, drain.item[k]) IN
    /\ drain.pc = "sending" /\ k \in drain.left
    /\ stored' = IF ok THEN [stored EXCEPT ![k] =
                                [rev |-> drain.rev, item |-> drain.item[k]]]
                 ELSE stored
    /\ drain' = [drain EXCEPT !.left = @ \ {k},
                     !.accepted = IF ok THEN @ \cup {k} ELSE @,
                     !.item[k] = IF ok THEN @ ELSE Nothing]
    /\ UNCHANGED <<outbox, row, shown, queue, sent, recon, boundVars>>

(* Fault: an older write recorded last replaces a newer one.               *)
UpsertSentAlways(k, rev, removed) == [sent EXCEPT ![k] = [rev |-> rev, removed |-> removed]]

UpsertSent(k, rev, removed) ==
    IF sent[k].rev < rev
    THEN [sent EXCEPT ![k] = [rev |-> rev, removed |-> removed]] ELSE sent

(* Fault: what was sent is recorded where the flag belongs.                *)
RecordItem(k) ==
    /\ drain.pc = "sending" /\ drain.left = {} /\ k \in drain.accepted
    /\ sent' = UpsertSent(k, drain.rev, drain.item[k])
    /\ drain' = [drain EXCEPT !.accepted = @ \ {k}, !.item[k] = Nothing]
    /\ UNCHANGED <<outbox, row, shown, queue, stored, recon, boundVars>>

Record(k) ==
    /\ drain.pc = "sending" /\ drain.left = {} /\ k \in drain.accepted
    /\ sent' = UpsertSent(k, drain.rev, drain.item[k] = Gone)
    /\ drain' = [drain EXCEPT !.accepted = @ \ {k}, !.item[k] = Nothing]
    /\ UNCHANGED <<outbox, row, shown, queue, stored, recon, boundVars>>

(* DELETE ... WHERE enqueued = the time claimed.                           *)
Acked(k) == IF queue[k] = drain.claim[k] THEN 0 ELSE queue[k]

Ack(k) ==
    /\ drain.pc = "sending" /\ drain.left = {} /\ drain.accepted = {}
    /\ drain.claim[k] # 0
    /\ queue' = [queue EXCEPT ![k] = Acked(k)]
    /\ drain' = [drain EXCEPT !.claim[k] = 0, !.rev = 0]
    /\ UNCHANGED <<outbox, row, shown, sent, stored, recon, boundVars>>

DrainEnds ==
    /\ drain.pc = "sending" /\ drain.left = {} /\ drain.accepted = {}
    /\ \A k \in Keys : drain.claim[k] = 0
    /\ drain' = DrainIdle
    /\ UNCHANGED <<outbox, row, shown, queue, sent, stored, recon, boundVars>>

(* A query or a call fails, an answer is lost, two minutes are over, or    *)
(* the process restarts: the rest of the tick is dropped.                  *)
DrainFails ==
    /\ drain.pc # "idle" /\ failures < MaxFailures
    /\ drain' = DrainIdle
    /\ due' = TRUE /\ failures' = failures + 1
    /\ UNCHANGED <<outbox, row, shown, queue, sent, stored, recon, silent, changes, overlaps>>

-----------------------------------------------------------------------------
(* The daily reconcile *)

(* One that begins when nothing has changed since the last one began, and  *)
(* the drain was at rest then, finds nothing: due leaves it out.           *)
ReconStarts ==
    LET quiet == drain.pc = "idle" /\ \A k \in Keys : queue[k] = 0 IN
    /\ recon.pc = "idle" /\ due
    /\ ~quiet => overlaps < MaxOverlaps
    /\ recon' = [ReconIdle EXCEPT !.pc = "started", !.orphanRev = Now]
    /\ due' = ~quiet
    /\ overlaps' = IF quiet THEN overlaps ELSE overlaps + 1
    /\ UNCHANGED <<outbox, row, shown, queue, sent, stored, drain, silent, changes, failures>>

ReconLists ==
    /\ recon.pc = "started"
    /\ recon' = [recon EXCEPT !.pc = "listed", !.stored = stored]
    /\ UNCHANGED <<outbox, row, shown, queue, sent, stored, drain, boundVars>>

ReconStamps ==
    /\ recon.pc = "listed"
    /\ recon' = [recon EXCEPT !.pc = "stamped", !.rev = Now]
    /\ UNCHANGED <<outbox, row, shown, queue, sent, stored, drain, boundVars>>

ReconReads ==
    /\ recon.pc = "stamped"
    /\ recon' = [recon EXCEPT !.pc = "read", !.row = row]
    /\ UNCHANGED <<outbox, row, shown, queue, sent, stored, drain, boundVars>>

(* Fault: a tombstone carries the time it is sent.                         *)
TombRevisionLate(k) == Now

(* Fault: what the forum has no row for is left alone.                     *)
TombRevisionLocal(k) == IF recon.row[k] = Gone THEN 0 ELSE recon.rev

(* The revision of a tombstone is the time before its row was looked for.  *)
TombRevision(k) == IF recon.row[k] = Gone THEN recon.orphanRev ELSE recon.rev

(* Rows community holds otherwise are enqueued, unless they are already;   *)
(* what it holds and the forum does not show is to be removed.             *)
ReconCompares(failed) ==
    LET here(k) == recon.row[k] # Gone
        enqueued == {k \in Keys \ failed :
                        /\ here(k) /\ shown[k] /\ ~NotSendable(recon.row[k])
                        /\ queue[k] = 0
                        /\ recon.stored[k].item # recon.row[k]}
        removed  == {k \in Keys \ failed :
                        Held(recon.stored[k]) /\ ~(here(k) /\ shown[k])}
    IN
    /\ recon.pc = "read"
    /\ failed \subseteq {k \in Keys : here(k) /\ outbox = "activity"}
    /\ failures + Cardinality(failed) <= MaxFailures
    /\ failures' = failures + Cardinality(failed)
    /\ due' = (due \/ failed # {})
    /\ queue' = [k \in Keys |-> IF k \in enqueued THEN Now ELSE queue[k]]
    /\ recon' = [ReconIdle EXCEPT !.pc = "removing",
                     !.tomb = [k \in Keys |-> IF k \in removed THEN TombRevision(k) ELSE 0]]
    /\ UNCHANGED <<outbox, row, shown, sent, stored, drain, silent, changes, overlaps>>

(* The Presenter records what community accepted of these, the Pusher does *)
(* not.                                                                    *)
ReconRemoves(k) ==
    LET ok == Accepts(k, recon.tomb[k], Gone) IN
    /\ recon.pc = "removing" /\ recon.tomb[k] # 0
    /\ stored' = IF ok THEN [stored EXCEPT ![k] = [rev |-> recon.tomb[k], item |-> Gone]]
                 ELSE stored
    /\ recon' = [recon EXCEPT !.tomb[k] = 0,
                     !.accepted[k] = IF ok /\ outbox = "presentation"
                                     THEN recon.tomb[k] ELSE 0]
    /\ UNCHANGED <<outbox, row, shown, queue, sent, drain, boundVars>>

ReconRecords(k) ==
    /\ recon.pc = "removing" /\ recon.accepted[k] # 0
    /\ \A j \in Keys : recon.tomb[j] = 0
    /\ sent' = UpsertSent(k, recon.accepted[k], TRUE)
    /\ recon' = [recon EXCEPT !.accepted[k] = 0]
    /\ UNCHANGED <<outbox, row, shown, queue, stored, drain, boundVars>>

ReconEnds ==
    /\ recon.pc = "removing"
    /\ \A k \in Keys : recon.tomb[k] = 0 /\ recon.accepted[k] = 0
    /\ recon' = ReconIdle
    /\ UNCHANGED <<outbox, row, shown, queue, sent, stored, drain, boundVars>>

ReconFails ==
    /\ recon.pc # "idle" /\ failures < MaxFailures
    /\ recon' = ReconIdle
    /\ due' = TRUE /\ failures' = failures + 1
    /\ UNCHANGED <<outbox, row, shown, queue, sent, stored, drain, silent, changes, overlaps>>

-----------------------------------------------------------------------------
Drain ==
    \/ Claim \/ Stamp \/ ReadRows
    \/ \E failed \in SUBSET Keys : Prepare(failed)
    \/ \E k \in Keys : Deliver(k) \/ Record(k) \/ Ack(k)
    \/ DrainEnds

Reconcile ==
    \/ ReconStarts \/ ReconLists \/ ReconStamps \/ ReconReads
    \/ \E failed \in SUBSET Keys : ReconCompares(failed)
    \/ \E k \in Keys : ReconRemoves(k) \/ ReconRecords(k)
    \/ ReconEnds

Next ==
    \/ \E k \in Keys, v \in Values \cup {Gone} : Change(k, v)
    \/ \E k \in Keys : ChangeSilently(k)
    \/ Drain \/ DrainFails
    \/ Reconcile \/ ReconFails

(* The drain loop polls every five seconds and the reconcile runs daily;   *)
(* nothing makes rows change or calls fail.                                *)
Spec == Init /\ [][Next]_vars /\ WF_vars(Drain) /\ WF_vars(Reconcile)

-----------------------------------------------------------------------------
(* Properties *)

(* Every variable keeps its type.                                          *)
TypeOK ==
    /\ outbox \in Outboxes
    /\ row \in [Keys -> Values \cup {Gone}] /\ shown \in [Keys -> BOOLEAN]
    /\ queue \in [Keys -> Nat]
    /\ sent \in [Keys -> [rev : Nat, removed : BOOLEAN]]
    /\ stored \in [Keys -> [rev : Nat, item : Values \cup {Gone}]]
    /\ drain \in [pc : {"idle", "claimed", "stamped", "read", "sending"},
                  rev : Nat, claim : [Keys -> Nat],
                  row : [Keys -> Values \cup {Gone}], told : SUBSET Keys,
                  item : [Keys -> Values \cup {Gone, Nothing}],
                  left : SUBSET Keys, accepted : SUBSET Keys]
    /\ recon \in [pc : {"idle", "started", "listed", "stamped", "read", "removing"},
                  orphanRev : Nat, rev : Nat,
                  stored : [Keys -> [rev : Nat, item : Values \cup {Gone}]],
                  row : [Keys -> Values \cup {Gone}],
                  tomb : [Keys -> Nat], accepted : [Keys -> Nat]]
    /\ due \in BOOLEAN /\ silent \in BOOLEAN
    /\ changes \in 0 .. MaxChanges /\ overlaps \in 0 .. MaxOverlaps
    /\ failures \in 0 .. MaxFailures

(* Community shows of a row what the forum shows.                          *)
Mirrors(k) ==
    \/ stored[k].item = Visible(k)
    \/ Visible(k) \in Rejected \/ NotSendable(Visible(k))

(* No loop has k in hand.                                                  *)
Settled(k) ==
    /\ queue[k] = 0 /\ drain.claim[k] = 0
    /\ recon.tomb[k] = 0 /\ recon.accepted[k] = 0

(* Community holds what the forum does not know it holds: the answer to an *)
(* accepted write was lost, and the row was deleted before the retry.      *)
Forgotten(k) == failures > 0 /\ Visible(k) = Gone /\ ~IsLive(sent[k])

(* A key nobody is working on is shown by community as the forum shows it, *)
(* but for what changed where no trigger fires and for a forgotten write:  *)
(* a tombstone never outranks a live write made after the row was read, an *)
(* acknowledgement never drops a change.                                   *)
SettledIsMirrored ==
    ~silent => \A k \in Keys : Settled(k) => Mirrors(k) \/ Forgotten(k)

(* While community shows a row, the forum knows that it sent it and can    *)
(* withdraw it, though the reconcile records its older tombstones late.    *)
ShownIsWithdrawable ==
    failures = 0 => \A k \in Keys :
        Settled(k) /\ Held(stored[k]) => IsLive(sent[k])

(* However rows changed and calls failed, once they no longer do community *)
(* comes to show what the forum shows, and keeps showing it.               *)
Converges == <>[](\A k \in Keys : Mirrors(k))

=============================================================================
