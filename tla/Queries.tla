------------------------------ MODULE Queries ------------------------------
(***************************************************************************)
(* The agent-facing queries of the ledger (src/src/lib.rs), as operators   *)
(* over the tables of Store.tla, and an agent that follows the ledger by   *)
(* paging through Events with since_sequence while the store goes on       *)
(* recording, failing, restarting and compacting.                          *)
(*                                                                         *)
(* Optional parameters are sets with at most one element.  Names, object   *)
(* identifiers, paths and timestamps are numbered in their string order.   *)
(***************************************************************************)
EXTENDS Store, Integers, SequencesExt

CONSTANTS
  Limit,     \* the limits a query asks for
  Found      \* pairs <<text, search>>: the lower-cased search occurs in it

ASSUME QueriesAssumption ==
  /\ Limit \subseteq Nat
  /\ Repository \subseteq Nat
  /\ \A c \in CommitObservation :
        /\ c.object \in Nat
        /\ c.ref \in Nat
        /\ c.files \subseteq Nat
        /\ IsFiniteSet(c.files)

VARIABLES
  cursor,    \* since_sequence of the agent's next Events query
  received   \* history: the events of its pages so far, in order

feedVars == <<cursor, received>>

----------------------------------------------------------------------------
(* Listings.                                                               *)

(* Vec::truncate.                                                          *)
Truncate(list, limit) == SubSeq(list, 1, Min({limit, Len(list)}))

(* Keys are compared by their first component that differs.                *)
Precedes(left, right) ==
  \E i \in DOMAIN left :
    /\ left[i] < right[i]
    /\ \A j \in 1..(i - 1) : left[j] = right[j]

(* The rows in DOMAIN key, sorted by their keys, which all differ.         *)
Sorted(key) ==
  [i \in 1..Cardinality(DOMAIN key) |->
     CHOOSE row \in DOMAIN key :
       Cardinality({r \in DOMAIN key : Precedes(key[r], key[row])}) = i - 1]

(* repository_events with an inclusive since_sequence.                     *)
EventRowsInclusive(repository, since) ==
  {e \in events :
     /\ \A r \in repository : e.notification.repository = r
     /\ \A s \in since : e.sequence >= s}

(* The rows that pass the filters of repository_events.                    *)
EventRows(repository, since) ==
  {e \in events :
     /\ \A r \in repository : e.notification.repository = r
     /\ \A s \in since : e.sequence > s}

(* repository_events sorted by received_at, as the other listings are.     *)
EventListingByTime(repository, since, limit) ==
  Truncate(Sorted([e \in EventRows(repository, since) |->
                     <<e.notification.receivedAt, e.sequence>>]),
           limit)

(* Store::repository_events.                                               *)
EventListing(repository, since, limit) ==
  Truncate(Sorted([e \in EventRows(repository, since) |-> <<e.sequence>>]),
           limit)

(* Not counting the event that opens the entry.                            *)
OpenEntryUncounted(e) ==
  [repository       |-> e.notification.repository,
   latestReceivedAt |-> e.notification.receivedAt,
   latestSequence   |-> e.sequence,
   pushCount        |-> 0]

(* The entry of one repository: recent_repositories opens it at the first  *)
(* of its rows in key order and updates it at each of the others.          *)
OpenEntry(e) ==
  [repository       |-> e.notification.repository,
   latestReceivedAt |-> e.notification.receivedAt,
   latestSequence   |-> e.sequence,
   pushCount        |-> 1]

UpdateEntry(entry, e) ==
  LET newer == \/ e.notification.receivedAt > entry.latestReceivedAt
               \/ e.sequence > entry.latestSequence
  IN  [repository       |-> entry.repository,
       latestReceivedAt |-> IF newer THEN e.notification.receivedAt
                                     ELSE entry.latestReceivedAt,
       latestSequence   |-> IF newer THEN e.sequence
                                     ELSE entry.latestSequence,
       pushCount        |-> entry.pushCount + 1]

RecentEntry(rows) ==
  LET entry[i \in DOMAIN rows] ==
        IF i = 1 THEN OpenEntry(rows[1])
                 ELSE UpdateEntry(entry[i - 1], rows[i])
  IN  entry[Len(rows)]

(* Store::recent_repositories.                                             *)
RecentRows(since) ==
  {e \in events : \A s \in since : ~(e.notification.receivedAt < s)}

RecentEntries(since) ==
  LET RowsOf(r) == {e \in RecentRows(since) : e.notification.repository = r}
  IN  {RecentEntry(Sorted([e \in RowsOf(r) |-> <<e.sequence>>])) :
         r \in {e.notification.repository : e \in RecentRows(since)}}

RecentRepositories(since, limit) ==
  Truncate(Sorted([entry \in RecentEntries(since) |->
                     <<-entry.latestReceivedAt, -entry.latestSequence,
                       entry.repository>>]),
           limit)

(* Both ends of the window exclusive.                                      *)
InWindowExclusive(row, repository, since, until) ==
  /\ \A r \in repository : row.repository = r
  /\ \A s \in since : row.receivedAt > s
  /\ \A u \in until : row.receivedAt < u

(* Store::commit_matches_common_filters.                                   *)
InWindow(row, repository, since, until) ==
  /\ \A r \in repository : row.repository = r
  /\ \A s \in since : ~(row.receivedAt < s)
  /\ \A u \in until : ~(row.receivedAt > u)

(* The order of commit_messages: newest first, then by object; what ties,  *)
(* the sort being stable, in key order.                                    *)
CommitOrder(c) ==
  <<-c.receivedAt, -c.sequence, c.commit.object, c.commit.ref>>

CommitRows(repository, since, until, search) ==
  {c \in commits :
     /\ InWindow(c, repository, since, until)
     /\ \A t \in search : <<c.commit.message, t>> \in Found}

(* The limit applied before the sort.                                      *)
CommitMessagesUnsorted(repository, since, until, search, limit) ==
  LET rows == CommitRows(repository, since, until, search)
  IN  Truncate(Sorted([c \in rows |-> CommitKey(c)]), limit)

(* Store::commit_messages.                                                 *)
CommitMessages(repository, since, until, search, limit) ==
  LET rows == CommitRows(repository, since, until, search)
  IN  Truncate(Sorted([c \in rows |-> CommitOrder(c)]), limit)

ChangedFile(row, path) ==
  [repository |-> row.repository, receivedAt |-> row.receivedAt,
   sequence |-> row.sequence, object |-> row.commit.object,
   ref |-> row.commit.ref, path |-> path]

(* The order of changed_files: newest first, then by path, then in key     *)
(* order.                                                                  *)
FileOrder(f) ==
  <<-f.receivedAt, -f.sequence, f.path, f.object, f.ref>>

(* The search tested once per commit, against its first path.              *)
ChangedFilesOfFoundCommits(repository, since, until, search, limit) ==
  LET rows == {c \in commits :
                 /\ InWindow(c, repository, since, until)
                 /\ \A t \in search : <<Min(c.commit.files), t>> \in Found}
      files == UNION {{ChangedFile(c, p) : p \in c.commit.files} : c \in rows}
  IN  Truncate(Sorted([f \in files |-> FileOrder(f)]), limit)

(* Store::changed_files.                                                   *)
FileRows(repository, since, until, search) ==
  UNION {{ChangedFile(c, p) : p \in {p \in c.commit.files :
                                       \A t \in search : <<p, t>> \in Found}} :
         c \in {c \in commits : InWindow(c, repository, since, until)}}

ChangedFiles(repository, since, until, search, limit) ==
  LET files == FileRows(repository, since, until, search)
  IN  Truncate(Sorted([f \in files |-> FileOrder(f)]), limit)

----------------------------------------------------------------------------
(* An agent that follows the ledger.                                       *)

FeedInit ==
  /\ Init
  /\ cursor = 0
  /\ received = <<>>

(* One Events query, served between two methods of the store actor.        *)
Poll(limit) ==
  /\ Ready
  /\ LET page == EventListing({}, {cursor}, limit)
     IN  /\ page # <<>>
         /\ received' = received \o page
         /\ cursor' = Last(page).sequence
  /\ UNCHANGED vars

FeedNext ==
  \/ Next /\ UNCHANGED feedVars
  \/ \E limit \in Limit : Poll(limit)

FeedSpec == FeedInit /\ [][FeedNext]_<<vars, feedVars>>

----------------------------------------------------------------------------
(* Properties.                                                             *)

(* A limit that cuts no listing short.                                     *)
All == Cardinality(events) + Cardinality(commits)
         + Cardinality(FileRows({}, {}, {}, {}))

(* The agent receives each event at most once, in sequence order.          *)
FeedInOrder ==
  \A i, j \in DOMAIN received :
    i < j => received[i].sequence < received[j].sequence

(* The agent misses no event that is still retained: nothing is recorded   *)
(* behind its cursor, and a page that the limit cuts short loses nothing.  *)
FeedMissesNothing ==
  \A e \in events : e.sequence <= cursor => e \in ToSet(received)

(* Paging with since_sequence and a limit, over a store that compacts,     *)
(* fails and restarts, is the feed of the abstract ledger.                 *)
Feed == INSTANCE EventFeed
          WITH retained <- events, delivered <- ToSet(received)
FeedRefinement == Feed!PagesSpec

(* RecentRepositories and Events tell the same story: an entry counts the  *)
(* events of its repository and names the last one.                        *)
RecentAgreesWithEvents ==
  Ready =>
    \A r \in Repository :
      LET listing == EventListing({r}, {}, All)
          entries == {entry \in ToSet(RecentRepositories({}, All)) :
                        entry.repository = r}
      IN  IF listing = <<>> THEN entries = {}
          ELSE \E entry \in entries :
                 /\ entries = {entry}
                 /\ entry.pushCount = Len(listing)
                 /\ entry.latestSequence = Last(listing).sequence

(* What a commit query shows for a time window, a query for the recent     *)
(* repositories of that window accounts for, even after an observation or  *)
(* a compaction that was cut short.                                        *)
CommitsOfRecentRepositories ==
  Ready =>
    \A s \in Timestamp :
      LET recent == {entry.repository :
                       entry \in ToSet(RecentRepositories({s}, All))}
      IN  /\ \A c \in ToSet(CommitMessages({}, {s}, {}, {}, All)) :
                c.repository \in recent
          /\ \A f \in ToSet(ChangedFiles({}, {s}, {}, {}, All)) :
                f.repository \in recent

(* A limit keeps the newest rows: what CommitMessages leaves out was       *)
(* received no later than anything it shows.                               *)
LimitKeepsNewest ==
  Ready =>
    \A limit \in Limit :
      LET shown == ToSet(CommitMessages({}, {}, {}, {}, limit))
      IN  \A c \in shown, d \in commits \ shown :
            d.receivedAt <= c.receivedAt

(* Two windows that meet at a timestamp show every commit between them,    *)
(* and only those received at that very timestamp twice.                   *)
WindowsCover ==
  Ready =>
    \A t \in Timestamp :
      LET before == ToSet(CommitMessages({}, {}, {t}, {}, All))
          after == ToSet(CommitMessages({}, {t}, {}, {}, All))
      IN  /\ before \cup after = commits
          /\ before \cap after = {c \in commits : c.receivedAt = t}

Search == {f[2] : f \in Found}

(* The paths of the rows that a search finds.                              *)
FoundFiles(rows, search) ==
  UNION {{ChangedFile(c, p) :
            p \in {p \in c.commit.files : <<p, search>> \in Found}} :
         c \in rows}

SameFilesShown(r, s, search) ==
  ToSet(ChangedFiles({r}, {s}, {}, {search}, All)) =
    FoundFiles(ToSet(CommitMessages({r}, {s}, {}, {}, All)), search)

(* ChangedFiles lists the files of the commits that CommitMessages shows   *)
(* for the same repository and window: each path that is searched for, of  *)
(* each of them, also when several commits change it.                      *)
FilesOfShownCommits ==
  Ready =>
    \A r \in Repository, s \in Timestamp, t \in Search :
      SameFilesShown(r, s, t)

(* ARCHITECTURE.md, "Pseudo-NOTA Entry And Query Shape": the query answers *)
(* which repositories were edited recently.  So the latest_received_at of  *)
(* an entry is the latest received_at among the pushes it counts.          *)
LatestIsLatest ==
  Ready =>
    \A entry \in ToSet(RecentRepositories({}, All)) :
      \A e \in events :
        e.notification.repository = entry.repository =>
          e.notification.receivedAt <= entry.latestReceivedAt

============================================================================
