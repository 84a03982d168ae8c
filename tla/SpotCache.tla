----------------------------- MODULE SpotCache -----------------------------
(***************************************************************************)
(* One cached spot of src/srule/trule (type spotCache, struct.go) and the  *)
(* two operations on its occupation: askToGet and askToRelease.  Both run  *)
(* under wait_line_lock, so each is one function of the record.            *)
(*                                                                         *)
(* A spot's content is abstracted to who wrote it last: a transaction, or  *)
(* Orig for what the store held before any transaction ran.  Nil is Go's   *)
(* nil pointer (and, on disk, the absence of the file).                    *)
(***************************************************************************)
EXTENDS Naturals, Sequences

CONSTANTS
    Trans,      \* the transactions (their ids are random and never reused)
    NoTran,     \* the empty tran_id
    Orig,       \* content nobody in Trans wrote
    Nil         \* no content

ASSUME TransAssumption ==
    /\ NoTran \notin Trans
    /\ Orig \notin Trans
    /\ Nil \notin Trans \cup {Orig}

Content == Trans \cup {Orig}

\* A place in the queue (cacheAskSpot).  Its approved channel is the waiting
\* goroutine itself, found again through tran: a transaction has at most one
\* call in progress.
Ticket == [tran : Trans, forwrite : BOOLEAN]

SpotCaches ==
    [ exist     : BOOLEAN,
      spot      : Content \cup {Nil},
      be_delete : {"no", "yes", "commit"},
      be_change : BOOLEAN,
      forwrite  : BOOLEAN,
      tran_id   : Trans \cup {NoTran},
      wait_line : Seq(Ticket) ]

InitSpotC ==
    [ exist |-> FALSE, spot |-> Nil, be_delete |-> "no", be_change |-> FALSE,
      forwrite |-> FALSE, tran_id |-> NoTran, wait_line |-> << >> ]

----------------------------------------------------------------------------

\* Faulty variant of Grants: a writer is never made to wait.
GrantsAnyWriter(c, w) == w.forwrite \/ (c.tran_id = NoTran /\ ~c.forwrite)

\* A writer gets a free spot, or one it occupies already; a reader only a
\* free one (a spot the reader's own transaction occupies is not free).
Grants(c, w) ==
    IF w.forwrite THEN c.tran_id \in {NoTran, w.tran}
                  ELSE c.tran_id = NoTran /\ ~c.forwrite

\* askToGet: a granted writer occupies the spot, a granted reader leaves no
\* trace, anybody else joins the queue.
AskToGet(c, w) ==
    IF ~Grants(c, w)   THEN [c EXCEPT !.wait_line = Append(@, w)]
    ELSE IF w.forwrite THEN [c EXCEPT !.tran_id = w.tran, !.forwrite = TRUE]
    ELSE c

\* Faulty variants of AskToRelease: the one that is given the spot stays in the
\* queue, and the whole queue goes with the one that is given the spot.
AskToReleaseKeepsHead(c) ==
    IF c.wait_line = << >>
    THEN [c EXCEPT !.tran_id = NoTran, !.forwrite = FALSE]
    ELSE LET next == Head(c.wait_line)
         IN  [c EXCEPT !.tran_id  = IF next.forwrite THEN next.tran ELSE NoTran,
                       !.forwrite = next.forwrite]

AskToReleaseDropsQueue(c) ==
    [AskToReleaseKeepsHead(c) EXCEPT !.wait_line = << >>]

\* askToRelease: free the spot and pass it on to the first in the queue only.
AskToRelease(c) ==
    IF c.wait_line = << >>
    THEN [c EXCEPT !.tran_id = NoTran, !.forwrite = FALSE]
    ELSE LET next == Head(c.wait_line)
         IN  [c EXCEPT !.tran_id   = IF next.forwrite THEN next.tran ELSE NoTran,
                       !.forwrite  = next.forwrite,
                       !.wait_line = Tail(@)]

\* Faulty variant of Woken: nobody is told that the spot is now theirs.
WokenNobody(c) == NoTran

\* The transaction whose goroutine askToRelease wakes through thenext.approved.
Woken(c) == IF c.wait_line = << >> THEN NoTran ELSE Head(c.wait_line).tran
=============================================================================
