----------------------------- MODULE LogSearch ------------------------------
(***************************************************************************)
(* The keyword search of the audit trail (app/admin/service.py). The text  *)
(* is encrypted, so the rows are read in batches, newest first, and looked *)
(* at one by one. Every batch is a SELECT of its own that sees the table   *)
(* as it is by then: turns add rows and purges take some away in between.  *)
(***************************************************************************)
EXTENDS Integers, FiniteSets

CONSTANTS
    Owners,     \* the users whose rows there are
    MaxId,      \* bound on the ids
    BatchSize,  \* _LOG_SEARCH_BATCH
    PageSizes,  \* values of limit
    Offsets     \* values of offset

ASSUME SearchAssumption ==
    /\ MaxId \in Nat /\ BatchSize \in Nat \ {0}
    /\ PageSizes \subseteq Nat \ {0} /\ Offsets \subseteq Nat

VARIABLES
    log,     \* action_logs: the rows, of which hit says that the text has the keyword
    search,  \* the search under way, or the last one
    \* history
    first,   \* the log as the first batch of it saw it, until rows are taken away
    purged   \* whether rows have been taken away during the search

searchVars == <<log, search, first, purged>>

Ids == 1..MaxId
Row == [id : Ids, owner : Owners, hit : BOOLEAN]

\* What is found is the list of its ids, as a set of <<place, id>>.
NoSearch == [at |-> "none", last |-> MaxId + 1, skipped |-> 0, found |-> {},
             limit |-> 1, offset |-> 0]

SearchTypeOK ==
    /\ log \subseteq Row /\ first \subseteq Row
    /\ search \in [at : {"none", "reading", "read"}, last : 1..MaxId + 1, skipped : Nat,
                   found : SUBSET (Nat \X Ids), limit : PageSizes \cup {1}, offset : Offsets \cup {0}]
    /\ purged \in BOOLEAN

SearchInit == log = {} /\ search = NoSearch /\ first = {} /\ purged = FALSE

\* ORDER BY id DESC: the newest row has the first place; LIMIT n.
Place(rows, r)  == Cardinality({s \in rows : s.id > r.id}) + 1
Newest(rows, n) == {r \in rows : Place(rows, r) <= n}
Hits(rows)      == {r \in rows : r.hit}

\* A turn writes an entry. An id is one more than the highest in the table.
Log(owner, hit) ==
    \E id \in Ids :
        /\ \A r \in log : r.id < id
        /\ id = 1 \/ \E r \in log : r.id = id - 1
        /\ log' = log \cup {[id |-> id, owner |-> owner, hit |-> hit]}
        /\ UNCHANGED <<search, first, purged>>

\* delete_user with purge.
PurgeRows(owner) ==
    /\ log' = {r \in log : r.owner # owner}
    /\ purged' = (search.at # "none") /\ first' = {}
    /\ UNCHANGED search

BeginSearch(limit, offset) ==
    /\ search' = [NoSearch EXCEPT !.at = "reading", !.limit = limit, !.offset = offset]
    /\ UNCHANGED <<log, first, purged>>

\* The loop over a batch: matches are skipped up to the offset, then taken up to the limit.
ToSkip == search.offset - search.skipped
Room   == search.limit - Cardinality(search.found)
Taken(hits) == {r \in hits : Place(hits, r) - ToSkip \in 1..Room}
Found(hits) ==
    search.found \cup {<<Cardinality(search.found) + Place(hits, r) - ToSkip, r.id>> : r \in Taken(hits)}
Skipped(hits) ==
    IF Cardinality(hits) <= ToSkip THEN search.skipped + Cardinality(hits) ELSE search.offset

Looks(batch) ==
    LET found == Found(Hits(batch))
        over  == Cardinality(batch) < BatchSize \/ Cardinality(found) = search.limit
    IN  /\ search.at = "reading"
        /\ \E last \in 1..MaxId + 1 :
              /\ IF batch = {} THEN last = search.last
                 ELSE /\ \E r \in batch : r.id = last
                      /\ \A r \in batch : last <= r.id
              /\ search' = [search EXCEPT
                   !.at = IF over THEN "read" ELSE "reading",
                   !.last = last, !.skipped = Skipped(Hits(batch)), !.found = found]
        /\ IF search.last > MaxId THEN first' = log /\ purged' = FALSE
                                  ELSE UNCHANGED <<first, purged>>
        /\ UNCHANGED log

BugBatch ==
    LET seen == IF search.last > MaxId THEN {} ELSE {r \in first : r.id >= search.last}
    IN  Looks(Newest(log, Cardinality(seen) + BatchSize) \ Newest(log, Cardinality(seen)))
\* One batch: the rows below the last one seen.
Batch == Looks(Newest({r \in log : r.id < search.last}, BatchSize))

\* A search is answered or given up.
DropSearch == search' = NoSearch /\ first' = {} /\ purged' = FALSE /\ UNCHANGED log

----------------------------------------------------------------------------
\* Whatever is written while it runs, a search answers what the log held at its first batch:
\* the matching rows from the offset on, newest first, each once, and as many as were asked
\* for (#39). Only a purge in between takes rows out of it; even then nothing is repeated and
\* nothing comes out of order.
SearchIsASnapshot ==
    search.at = "read" =>
        LET hits   == Hits(first)
            Wanted == {r \in hits : Place(hits, r) - search.offset \in 1..search.limit}
        IN  /\ ~purged =>
                 search.found = {<<Place(hits, r) - search.offset, r.id>> : r \in Wanted}
            /\ \A p, q \in search.found : p[1] < q[1] <=> p[2] > q[2]
=============================================================================
