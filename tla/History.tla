------------------------------ MODULE History ------------------------------
(***************************************************************************)
(* The lists of matches that have been played: pages of the server         *)
(* (rewards-history.service.ts), each continued after the last match of    *)
(* the one before, and the pages of the client that put them together      *)
(* (my-matches, recent-matches and match-detail.component.ts).             *)
(*                                                                         *)
(* Matches are saved in any order: the save of one that ended earlier may  *)
(* have failed and been repeated.  A match is its id, in the order of the  *)
(* ids; what a list shows of it and its reward is left out.                *)
(***************************************************************************)
EXTENDS Naturals, Sequences, FiniteSets, SequencesExt, Ordering

CONSTANTS
    EndedAt,     \* when each match ended, two of them maybe in one millisecond
    PublicOnes,  \* the matches of public rooms
    OwnOnes,     \* the matches the user took part in
    PageSize     \* PAGE_SIZE

VARIABLES
    saved,    \* the rows of Match
    listing,  \* MyMatchesComponent or RecentMatchesComponent
    asked,    \* the request of the page under way: its cursor, or the server's answer
    detail,   \* MatchDetailComponent
    sawFirst  \* history: the matches saved when the list's first page was read

historyVars == <<saved, listing, asked, detail, sawFirst>>

ASSUME HistoryAssumption == EndedAt \in Seq(Nat) /\ PageSize \in Nat \ {0}

MatchIds == DOMAIN EndedAt
NoMatch  == 0

NewList(kind) == [kind |-> kind, items |-> << >>, next |-> NoMatch,
                  loading |-> TRUE, error |-> FALSE]
NoDetail == [id |-> NoMatch, from |-> "recent", state |-> "none"]
NoQuery  == [state |-> "none"]
\* A cursor is the end and the id of a match.
Query(cursor) == [state |-> "asked", cursor |-> cursor]

HistoryInit ==
    /\ saved = {} /\ detail = NoDetail /\ sawFirst = {}
    /\ \E kind \in {"recent", "own"} : listing = NewList(kind)
    /\ asked = Query(NoMatch)

-----------------------------------------------------------------------------
(* The server. *)

\* orderBy: the end, and the id where two matches ended together.
NewerMatch(a, b) == EndedAt[a] > EndedAt[b] \/ (EndedAt[a] = EndedAt[b] /\ a > b)

\* Mutant: matches that ended together with the last one of a page are forgotten.
CursorWhereMutant(cursor, m) == cursor = NoMatch \/ EndedAt[m] < EndedAt[cursor]

\* cursorWhere.
CursorWhere(cursor, m) ==
    \/ cursor = NoMatch
    \/ EndedAt[m] < EndedAt[cursor]
    \/ EndedAt[m] = EndedAt[cursor] /\ m < cursor

PersonalHistory(cursor) == {m \in saved \cap OwnOnes : CursorWhere(cursor, m)}
RecentMatches(cursor)   == {m \in saved \cap PublicOnes : CursorWhere(cursor, m)}
PersonalMatchDetail(m)  == m \in saved /\ m \in PublicOnes \cup OwnOnes

\* nextCursor: one match more than fits the page was read.
NextCursor(found) == IF Len(found) > PageSize THEN found[PageSize] ELSE NoMatch

\* The rows are read at one moment, whenever the request arrives.
ReadPage ==
    /\ asked.state = "asked"
    /\ LET rows  == IF listing.kind = "own" THEN PersonalHistory(asked.cursor)
                                            ELSE RecentMatches(asked.cursor)
           found == InOrderOf(rows, {p \in rows \X rows : NewerMatch(p[1], p[2])})
       IN asked' = [state |-> "read", next |-> NextCursor(found),
                    items |-> SubSeq(found, 1, IF Len(found) > PageSize THEN PageSize
                                                                        ELSE Len(found))]
    /\ sawFirst' = IF asked.cursor = NoMatch THEN saved ELSE sawFirst
    /\ UNCHANGED <<saved, listing, detail>>

\* persistCompleted.
SaveMatch ==
    /\ \E m \in MatchIds \ saved : saved' = saved \cup {m}
    /\ UNCHANGED <<listing, asked, detail, sawFirst>>

-----------------------------------------------------------------------------
(* The client. *)

\* load: by "load more", which is shown while there is a next page and no error, or by
\* "retry".
LoadPage ==
    /\ detail = NoDetail /\ ~listing.loading
    /\ listing.error \/ listing.next # NoMatch
    /\ listing' = [listing EXCEPT !.loading = TRUE, !.error = FALSE]
    /\ asked' = Query(listing.next)
    /\ UNCHANGED <<saved, detail, sawFirst>>

PageComes ==
    /\ asked.state = "read"
    /\ listing' = [listing EXCEPT !.items = @ \o asked.items, !.next = asked.next,
                                  !.loading = FALSE]
    /\ asked' = NoQuery
    /\ UNCHANGED <<saved, detail, sawFirst>>

\* The request fails, or its answer is lost.
PageFails ==
    /\ asked # NoQuery
    /\ listing' = [listing EXCEPT !.error = TRUE, !.loading = FALSE]
    /\ asked' = NoQuery
    /\ UNCHANGED <<saved, detail, sawFirst>>

\* ngOnInit of the list: another list, or back from a match by its link.
OpenList ==
    /\ \E kind \in IF detail = NoDetail THEN {"recent", "own"} \ {listing.kind}
                                        ELSE {detail.from} :
         listing' = NewList(kind)
    /\ detail' = NoDetail /\ asked' = Query(NoMatch) /\ sawFirst' = {}
    /\ UNCHANGED saved

\* ngOnInit and reload of a match.  The list is gone with its page.
OpenDetail ==
    /\ \/ detail = NoDetail /\ ~listing.error
          /\ \E i \in DOMAIN listing.items :
               detail' = [id |-> listing.items[i], from |-> listing.kind, state |-> "loading"]
       \/ detail.state \in {"failed", "missing"} /\ detail' = [detail EXCEPT !.state = "loading"]
    /\ asked' = NoQuery /\ listing' = [listing EXCEPT !.items = << >>, !.next = NoMatch]
    /\ UNCHANGED <<saved, sawFirst>>

\* fetchDetail.
DetailComes ==
    /\ detail.state = "loading"
    /\ \E s \in {"failed", IF PersonalMatchDetail(detail.id) THEN "shown" ELSE "missing"} :
         detail' = [detail EXCEPT !.state = s]
    /\ UNCHANGED <<saved, listing, asked, sawFirst>>

HistoryNext ==
    SaveMatch \/ ReadPage \/ LoadPage \/ PageComes \/ PageFails \/ OpenList \/ OpenDetail \/ DetailComes

-----------------------------------------------------------------------------
\* A list shows each match once, the newest first, and only those that may be shown;
\* it misses none that was saved when it was begun, up to the last match it shows, or
\* at all when there is no next page; and each of them can be opened.  Pages are read at
\* different moments, matches are saved meanwhile, and several end at one moment.
HistoryIsWhole ==
    LET items == listing.items
        mayShow == IF listing.kind = "own" THEN OwnOnes ELSE PublicOnes
        begun == ~listing.error /\ (items # << >> \/ ~listing.loading)
    IN /\ \A i, j \in DOMAIN items : i < j => NewerMatch(items[i], items[j])
       /\ \A i \in DOMAIN items : items[i] \in mayShow \cap saved
       /\ detail = NoDetail /\ begun =>
            \A m \in sawFirst \cap mayShow :
               \/ m \in ToSet(items)
               \/ listing.next # NoMatch /\ NewerMatch(listing.next, m)
       /\ detail.state # "missing"
=============================================================================
