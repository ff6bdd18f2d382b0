--------------------------------- MODULE Inbox ---------------------------------
(***************************************************************************)
(* The notices of the community service, mirrored into the forum's message *)
(* table by a poller in every process of the forum.                        *)
(*                                                                         *)
(* The service is external.  It keeps one row for each notice, folds later *)
(* events into it and gives it a new sequence number when it grows or, for *)
(* the activities of a followee, when nothing is left of it.  Its feed     *)
(* lists the rows as they are now, in the order of their numbers.          *)
(*                                                                         *)
(* The poller keeps the last number it handled in Redis, and starts from   *)
(* the highest number in the message table when Redis has none.  What a    *)
(* notice says is left out, as are the posts it shows a preview of: a page *)
(* whose posts cannot be had is held, which is PageFails.                  *)
(***************************************************************************)
EXTENDS Integers, FiniteSets

CONSTANTS
    Notes,          \* notices
    Folding,        \* those that may be retracted (followee activity)
    Walls,          \* those on a website's wall, whose page is looked up
    Pollers,        \* processes of the forum
    PageSize,       \* notices in a page of the feed
    MaxSeq,         \* bound on sequence numbers
    MaxFaults       \* bound on failed calls, lost cursors and restarts

ASSUME InboxBoundsOK ==
    /\ Folding \subseteq Notes /\ Walls \subseteq Notes
    /\ PageSize \in Nat \ {0} /\ MaxSeq \in Nat /\ MaxFaults \in Nat

VARIABLES
    feed,       \* the service: seq (0: no such notice yet), gone, read
    seqno,      \* the service: the last sequence number
    inbox,      \* message: seq (0: no such row), read
    cursor,     \* Redis: community:notification:feed:after
    poller,     \* the runs of the pollers
    seen,       \* history: the highest number of a notice that was handled
    dropped,    \* history: the highest number of it that was passed over
    faults

inboxVars == <<feed, seqno, inbox, cursor, poller, seen, dropped, faults>>

NoCursor == -1
NoRow == [seq |-> 0, read |-> FALSE]
Idle == [pc |-> "idle", after |-> 0, page |-> {}, next |-> 0]

InboxInit ==
    /\ feed = [n \in Notes |-> [seq |-> 0, gone |-> FALSE, read |-> FALSE]]
    /\ seqno = 0
    /\ inbox = [n \in Notes |-> NoRow]
    /\ cursor = NoCursor
    /\ poller = [p \in Pollers |-> Idle]
    /\ seen = [n \in Notes |-> 0] /\ dropped = [n \in Notes |-> 0]
    /\ faults = 0

Fails == faults < MaxFaults /\ faults' = faults + 1

-----------------------------------------------------------------------------
(* The service and the reader *)

Grow(n) ==
    /\ seqno < MaxSeq /\ seqno' = seqno + 1
    /\ feed' = [feed EXCEPT ![n] = [seq |-> seqno + 1, gone |-> FALSE, read |-> FALSE]]
    /\ UNCHANGED <<inbox, cursor, poller, seen, dropped, faults>>

Retract(n) ==
    /\ n \in Folding /\ feed[n].seq # 0 /\ ~feed[n].gone
    /\ seqno < MaxSeq /\ seqno' = seqno + 1
    /\ feed' = [feed EXCEPT ![n].seq = seqno + 1, ![n].gone = TRUE]
    /\ UNCHANGED <<inbox, cursor, poller, seen, dropped, faults>>

(* The service is told which rows were read, if it can be reached.         *)
MarkRead(n) ==
    /\ inbox[n].seq # 0 /\ ~inbox[n].read
    /\ inbox' = [inbox EXCEPT ![n].read = TRUE]
    /\ \E told \in BOOLEAN : feed' = [feed EXCEPT ![n].read = @ \/ told]
    /\ UNCHANGED <<seqno, cursor, poller, seen, dropped, faults>>

(* By the reader, or, of read rows, by age.                                *)
DeleteRow(n) ==
    /\ inbox[n].seq # 0
    /\ inbox' = [inbox EXCEPT ![n] = NoRow]
    /\ \E told \in BOOLEAN :
        feed' = [feed EXCEPT ![n].read = @ \/ (told /\ ~inbox[n].read)]
    /\ UNCHANGED <<seqno, cursor, poller, seen, dropped, faults>>

-----------------------------------------------------------------------------
(* RunOnce *)

(* Fault: without a cursor the poller starts at the head of the feed.      *)
FeedHead == {seqno}

(* Fault: the highest number of no rows is NULL.                           *)
MaxOrNull ==
    IF \A n \in Notes : inbox[n].seq = 0 THEN {NoCursor}
    ELSE {s \in 0..MaxSeq : /\ \E n \in Notes : inbox[n].seq = s
                            /\ \A n \in Notes : inbox[n].seq <= s}

(* MaxCommunitySeq, as the set of its one value.                           *)
MaxCommunitySeq ==
    {s \in 0..MaxSeq : /\ s = 0 \/ \E n \in Notes : inbox[n].seq = s
                       /\ \A n \in Notes : inbox[n].seq <= s}

Saved(s) == (cursor' = s /\ UNCHANGED faults) \/ (Fails /\ UNCHANGED cursor)

(* The number found in the table is written to Redis, if that succeeds.    *)
ReadCursor(p) ==
    /\ poller[p].pc = "idle"
    /\ \/ /\ cursor # NoCursor
          /\ poller' = [poller EXCEPT ![p].pc = "fetch", ![p].after = cursor]
          /\ UNCHANGED <<cursor, faults>>
       \/ /\ cursor = NoCursor
          /\ \E s \in MaxCommunitySeq :
              /\ poller' = [poller EXCEPT ![p].pc = "fetch", ![p].after = s]
              /\ Saved(s)
    /\ UNCHANGED <<feed, seqno, inbox, seen, dropped>>

Entry(n) == [note |-> n, seq |-> feed[n].seq, gone |-> feed[n].gone, read |-> feed[n].read]
Ahead(p) == {n \in Notes : feed[n].seq > poller[p].after}

(* The first rows of the feed after a number.  A notice whose wall is not  *)
(* found is passed over, and none is found when the lookup fails.          *)
Fetch(p) ==
    /\ poller[p].pc = "fetch"
    /\ \E first \in SUBSET Ahead(p), found \in BOOLEAN :
        /\ first # {} /\ Cardinality(first) <= PageSize
        /\ \A n \in first, m \in Ahead(p) : feed[m].seq <= feed[n].seq => m \in first
        /\ LET kept == IF found THEN first ELSE first \ Walls IN
           /\ found \/ first \cap Walls # {}
           /\ \E last \in first :
               /\ \A n \in first : feed[n].seq <= feed[last].seq
               /\ poller' = [poller EXCEPT ![p].pc = "write", ![p].next = feed[last].seq,
                                           ![p].page = {Entry(n) : n \in kept}]
           /\ dropped' = [n \in Notes |-> IF n \in first \ kept THEN feed[n].seq ELSE dropped[n]]
        /\ IF found THEN UNCHANGED faults ELSE Fails
    /\ UNCHANGED <<feed, seqno, inbox, cursor, seen>>

FeedIsEmpty(p) ==
    /\ poller[p].pc = "fetch" /\ Ahead(p) = {}
    /\ poller' = [poller EXCEPT ![p] = Idle]
    /\ UNCHANGED <<feed, seqno, inbox, cursor, seen, dropped, faults>>

(* Fault: the upsert does not compare the numbers.                         *)
MirroredAlways(e) ==
    IF e.gone THEN IF inbox[e.note].seq < e.seq THEN NoRow ELSE inbox[e.note]
    ELSE [seq |-> e.seq, read |-> e.read]

(* UpsertCommunityMirror, DeleteCommunityMirror: a row with this number or *)
(* a later one is left alone.                                              *)
Mirrored(e) ==
    IF inbox[e.note].seq >= e.seq THEN inbox[e.note]
    ELSE IF e.gone THEN NoRow
    ELSE [seq |-> e.seq, read |-> e.read]

Write(p) ==
    /\ poller[p].pc = "write"
    /\ \E e \in poller[p].page :
        /\ \A f \in poller[p].page : e.seq <= f.seq
        /\ inbox' = [inbox EXCEPT ![e.note] = Mirrored(e)]
        /\ seen' = [seen EXCEPT ![e.note] = IF @ < e.seq THEN e.seq ELSE @]
        /\ poller' = [poller EXCEPT ![p].page = @ \ {e}]
    /\ UNCHANGED <<feed, seqno, cursor, dropped, faults>>

(* Fault: the next page is asked for after the same number.                *)
Stays(p) == poller[p].after

NextAfter(p) == poller[p].next

(* The next page, or the end of the run after twenty pages or two minutes. *)
Advance(p) ==
    /\ poller[p].pc = "write" /\ poller[p].page = {}
    /\ \E pc \in {"fetch", "idle"} :
        poller' = [poller EXCEPT ![p] = [Idle EXCEPT !.pc = pc, !.after = NextAfter(p)]]
    /\ Saved(NextAfter(p))
    /\ UNCHANGED <<feed, seqno, inbox, seen, dropped>>

(* A call fails, or the process restarts: the run is over.                 *)
RunFails(p) ==
    /\ poller[p].pc # "idle" /\ Fails
    /\ poller' = [poller EXCEPT ![p] = Idle]
    /\ UNCHANGED <<feed, seqno, inbox, cursor, seen, dropped>>

CursorLost ==
    /\ cursor # NoCursor /\ Fails /\ cursor' = NoCursor
    /\ UNCHANGED <<feed, seqno, inbox, poller, seen, dropped>>

-----------------------------------------------------------------------------
RunOnce(p) == ReadCursor(p) \/ Fetch(p) \/ FeedIsEmpty(p) \/ Write(p) \/ Advance(p)

InboxNext ==
    \/ \E n \in Notes : Grow(n) \/ Retract(n) \/ MarkRead(n) \/ DeleteRow(n)
    \/ \E p \in Pollers : RunOnce(p) \/ RunFails(p)
    \/ CursorLost

(* A ticker starts a run every fifteen seconds, and each ends.             *)
Fairness == \A p \in Pollers : WF_inboxVars(RunOnce(p))

InboxSpec == InboxInit /\ [][InboxNext]_inboxVars /\ Fairness

-----------------------------------------------------------------------------
(* Properties *)

Seqs == 0..MaxSeq
Entries == [note : Notes, seq : Seqs, gone : BOOLEAN, read : BOOLEAN]

(* Every variable keeps its type; a poller reads on from a number.         *)
InboxTypeOK ==
    /\ feed \in [Notes -> [seq : Seqs, gone : BOOLEAN, read : BOOLEAN]]
    /\ seqno \in Seqs
    /\ inbox \in [Notes -> [seq : Seqs, read : BOOLEAN]]
    /\ cursor \in Seqs \cup {NoCursor}
    /\ poller \in [Pollers -> [pc : {"idle", "fetch", "write"}, after : Seqs,
                               page : SUBSET Entries, next : Seqs]]
    /\ seen \in [Notes -> Seqs] /\ dropped \in [Notes -> Seqs]
    /\ faults \in Nat

Handled(n) == seen[n] >= feed[n].seq \/ dropped[n] >= feed[n].seq

(* However pages are repeated, cut short or shared between processes, a    *)
(* notice no run will ask for again was handled: there is none before the  *)
(* cursor, nor before the highest number in the table, from which a lost   *)
(* cursor is found again.                                                  *)
NothingIsSkipped ==
    \A n \in Notes :
        feed[n].seq <= cursor \/ (\E m \in Notes : feed[n].seq <= inbox[m].seq)
            => Handled(n)

(* "so it cannot flip a read row back to unread": a row that was read is   *)
(* unread again only when the notice has grown.                            *)
ReadStaysRead ==
    [][\A n \in Notes :
        inbox[n].read /\ inbox'[n].seq # 0 /\ ~inbox'[n].read =>
            inbox'[n].seq > inbox[n].seq]_inboxVars

(* Whatever is raised is handled, in this version or in a later one.       *)
EveryNoticeArrives ==
    \A n \in Notes, s \in 1..MaxSeq :
        feed[n].seq = s ~> seen[n] >= s \/ dropped[n] >= s

(* "The seq guard makes a replayed page (cursor lost, two replicas) a      *)
(* no-op": a poller inserts a row only for a version nobody handled.       *)
ReplayIsNoOp ==
    [][\A n \in Notes :
        inbox[n].seq = 0 /\ inbox'[n].seq # 0 => inbox'[n].seq > seen[n]]_inboxVars

=============================================================================
