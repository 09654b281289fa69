------------------------------- MODULE PullHandler -----------------------------
(***************************************************************************)
(* What the device learns from the server: the pull of PullHandler.ts and  *)
(* the rules of ConflictResolver.ts, between local edits (ChangeTracker.ts)*)
(* and the watermark lastSyncAt, which a sync sets to the time at its end  *)
(* (SyncService.ts).                                                       *)
(*                                                                         *)
(* The clocks of device and server agree, and every write has a time of    *)
(* its own, which stands for what was written.  One pull runs at a time.   *)
(***************************************************************************)
EXTENDS Integers, Sequences, FiniteSets, Functions

CONSTANTS
  Entities,       \* SYNCABLE_ENTITIES, a sequence in pull order
  Rows,           \* the records the server may have
  EntityOf,       \* the entity type of each
  Strategy,       \* ENTITY_STRATEGIES
  Slots,          \* ids of local records
  Nobody,         \* the remoteId of a record that has none
  PageSize,       \* SYNC_BATCH_SIZE
  MaxPages,       \* pages of an entity that one pull asks for, 1000 in the code
  MaxClock,       \* bound: writes of device and server
  MaxPulls        \* bound: pulls

ASSUME PullAssumption ==
  /\ Entities \in Seq(Range(Entities)) /\ Entities # <<>>
  /\ IsFiniteSet(Rows)
  /\ EntityOf \in [Rows -> Range(Entities)]
  /\ Strategy \in [Range(Entities) -> {"server-wins", "client-wins", "last-write-wins"}]
  /\ Nobody \notin Rows
  /\ PageSize \in Nat \ {0} /\ MaxPages \in Nat \ {0}
  /\ MaxClock \in Nat /\ MaxPulls \in Nat

VARIABLES
  clock,          \* the time of the last write
  server,         \* rows of the server
  device,         \* local records
  lastSyncAt,     \* the watermark, which only the memory of the app holds
  pull,           \* the pull that runs
  pulls,          \* pulls begun
  \* What the properties remember.
  excused,        \* rows that something kept from the device
  doubled,        \* rows whose lookup has failed
  unsent          \* local records with an edit the server does not have

vars == <<clock, server, device, lastSyncAt, pull, pulls, excused, doubled, unsent>>

\* version: when what the row holds was written; updatedAt: when the row was.
ServerRow == [exists : BOOLEAN, version : Nat, updatedAt : Nat]

\* version: when what its columns with a name of one word hold was written;
\* compound: the same of the others (cost_price, category_id).  The updatedAt of
\* a record with an edit is the time of that edit, its version.
LocalRow == [exists : BOOLEAN, remoteId : Rows \cup {Nobody}, version : Nat, compound : Nat,
             isDirty : BOOLEAN]

Change == [id : Rows, action : {"update", "delete"}, version : Nat, updated_at : Nat]

Pull == [at : {"idle", "fetch", "apply", "finish"}, since : Nat, entity : 1 .. Len(Entities) + 1,
         page : Nat, changes : Seq(Change), hasMore : BOOLEAN]

NoRecord == [exists |-> FALSE, remoteId |-> Nobody, version |-> 0, compound |-> 0,
             isDirty |-> FALSE]

NoPull == [at |-> "idle", since |-> 0, entity |-> 1, page |-> 1, changes |-> <<>>, hasMore |-> FALSE]

Init ==
  /\ clock = 0
  /\ server = [r \in Rows |-> [exists |-> FALSE, version |-> 0, updatedAt |-> 0]]
  /\ device = [s \in Slots |-> NoRecord]
  /\ lastSyncAt = 0
  /\ pull = NoPull
  /\ pulls = 0
  /\ excused = {} /\ doubled = {} /\ unsent = {}

Tick == clock < MaxClock /\ clock' = clock + 1

Live(s) == device[s].exists

CopiesOf(r) == {s \in Slots : Live(s) /\ device[s].remoteId = r}

-----------------------------------------------------------------------------
\* A write to a row while a pull runs may come too late for it, and may move
\* other rows of the entity from one page to another.
Disturbed(r) ==
  IF pull.at = "idle" THEN {}
  ELSE {r} \cup {q \in Rows : EntityOf[q] = EntityOf[r] /\ pull.entity <= Len(Entities)
                                /\ EntityOf[r] = Entities[pull.entity]}

WriteServer(r, row) ==
  /\ server' = [server EXCEPT ![r] = row]
  /\ excused' = excused \cup Disturbed(r)

\* Someone else creates or changes a record.
ServerWrite(r) ==
  /\ Tick
  /\ WriteServer(r, [exists |-> TRUE, version |-> clock + 1, updatedAt |-> clock + 1])
  /\ UNCHANGED <<device, lastSyncAt, pull, pulls, doubled, unsent>>

\* A deleted record is announced as such.
ServerDelete(r) ==
  /\ server[r].exists
  /\ Tick
  /\ WriteServer(r, [exists |-> FALSE, version |-> clock + 1, updatedAt |-> clock + 1])
  /\ UNCHANGED <<device, lastSyncAt, pull, pulls, doubled, unsent>>

\* A local edit.
TrackedUpdate(s) ==
  /\ Live(s)
  /\ Tick
  /\ device' = [device EXCEPT ![s].version = clock + 1, ![s].compound = clock + 1,
                              ![s].isDirty = TRUE]
  /\ unsent' = unsent \cup {s}
  /\ UNCHANGED <<server, lastSyncAt, pull, pulls, excused, doubled>>

\* A local deletion leaves nothing behind that a pull could find.
TrackedDelete(s) ==
  /\ Live(s)
  /\ device' = [device EXCEPT ![s] = NoRecord]
  /\ unsent' = unsent \ {s}
  /\ excused' = excused \cup {device[s].remoteId}
  /\ UNCHANGED <<clock, server, lastSyncAt, pull, pulls, doubled>>

\* An edit reaches the server.  isDirty is not cleared.
PushDelivered(s) ==
  LET r == device[s].remoteId IN
  /\ s \in unsent /\ r \in Rows
  /\ Tick
  /\ WriteServer(r, [exists |-> TRUE, version |-> device[s].version, updatedAt |-> clock + 1])
  /\ unsent' = unsent \ {s}
  /\ UNCHANGED <<device, lastSyncAt, pull, pulls, doubled>>

-----------------------------------------------------------------------------
PullChanges ==
  /\ pull.at = "idle"
  /\ pulls < MaxPulls /\ pulls' = pulls + 1
  /\ pull' = [NoPull EXCEPT !.at = "fetch", !.since = lastSyncAt]
  /\ UNCHANGED <<clock, server, device, lastSyncAt, excused, doubled, unsent>>

\* Changes, the oldest write first.
InOrder(changes) ==
  CHOOSE s \in [1 .. Cardinality(changes) -> changes] :
    \A i, j \in DOMAIN s : i < j => s[i].updated_at < s[j].updated_at

\* What the server has to tell of an entity.
ChangesSince(e, since) ==
  InOrder({[id |-> r, action |-> IF server[r].exists THEN "update" ELSE "delete",
            version |-> server[r].version, updated_at |-> server[r].updatedAt] :
             r \in {q \in Rows : EntityOf[q] = e /\ server[q].updatedAt > since}})

FetchPage ==
  LET all == ChangesSince(Entities[pull.entity], pull.since)
      first == (pull.page - 1) * PageSize + 1
  IN
  /\ pull.at = "fetch"
  /\ pull' = [pull EXCEPT !.at = "apply", !.hasMore = Len(all) >= first + PageSize,
       !.changes = SubSeq(all, first, IF Len(all) < first + PageSize
                                      THEN Len(all) ELSE first + PageSize - 1)]
  /\ UNCHANGED <<clock, server, device, lastSyncAt, pulls, excused, doubled, unsent>>

\* The server has more to tell, and is asked for it.
MorePages(p) == p.hasMore /\ p.page < MaxPages

\* Broken variant of AfterPage: only the first page is asked for.
AfterPageOnce(p) ==
  [p EXCEPT !.page = 1, !.entity = @ + 1,
            !.at = IF p.entity = Len(Entities) THEN "finish" ELSE "fetch",
            !.changes = <<>>, !.hasMore = FALSE]

\* Broken variant of AfterPage: the entity is advanced twice.
AfterPageTwice(p) ==
  IF MorePages(p)
  THEN [p EXCEPT !.at = "fetch", !.page = @ + 1, !.changes = <<>>, !.hasMore = FALSE]
  ELSE [p EXCEPT !.page = 1, !.entity = @ + 2,
                 !.at = IF p.entity = Len(Entities) THEN "finish" ELSE "fetch",
                 !.changes = <<>>, !.hasMore = FALSE]

\* The next page, or the next entity: after MaxPages pages as well.
AfterPage(p) ==
  IF MorePages(p)
  THEN [p EXCEPT !.at = "fetch", !.page = @ + 1, !.changes = <<>>, !.hasMore = FALSE]
  ELSE [p EXCEPT !.page = 1, !.entity = @ + 1,
                 !.at = IF p.entity = Len(Entities) THEN "finish" ELSE "fetch",
                 !.changes = <<>>, !.hasMore = FALSE]

\* The rows behind the last page that is asked for: what changed later than the
\* changes of that page.
Beyond ==
  IF pull.hasMore /\ pull.page = MaxPages
  THEN {r \in Rows : /\ EntityOf[r] = Entities[pull.entity]
                     /\ \A k \in DOMAIN pull.changes :
                          server[r].updatedAt > pull.changes[k].updated_at}
  ELSE {}

\* A page cannot be fetched, with all retries, or its write fails: the error is
\* noted and the pull goes on with the next entity.
EntityFails ==
  /\ pull.at \in {"fetch", "apply"}
  /\ pull' = AfterPage([pull EXCEPT !.hasMore = FALSE])
  /\ excused' = excused \cup {r \in Rows : EntityOf[r] = Entities[pull.entity]}
  /\ UNCHANGED <<clock, server, device, lastSyncAt, pulls, doubled, unsent>>

\* resolveConflict: the server's version is taken.
ServerWins(e, local, c) ==
  \/ Strategy[e] = "server-wins"
  \/ Strategy[e] = "last-write-wins" /\ local.version < c.updated_at

\* applyDataToRecord assigns to the names of the server.  The properties of a
\* record are in camelCase: where the two differ, nothing reaches its column.
WithData(local, c) == [local EXCEPT !.version = c.version, !.isDirty = FALSE]

\* Broken variant of Resolved: whatever was edited, the server's version is taken.
ResolvedForServer(local, c) == WithData(local, c)

\* An existing record after a change of the server.
Resolved(local, c) ==
  IF local.isDirty /\ ~ServerWins(EntityOf[c.id], local, c) THEN local ELSE WithData(local, c)

\* Broken variant of Lookups: an existing record may always be overlooked.
LookupsOverlook(d, c) == {{s \in Slots : d[s].exists /\ d[s].remoteId = c.id /\ ~d[s].isDirty}}

\* findByRemoteId: all copies, of which the first is taken, or nothing, which is
\* also what a failed query is taken for.
Lookups(d, c) == {{s \in Slots : d[s].exists /\ d[s].remoteId = c.id}}

\* The local records one change can lead to, given what the lookup found.
Applied(d, c, found) ==
  IF found # {}
  THEN {[d EXCEPT ![s] = IF c.action = "delete" THEN NoRecord ELSE Resolved(@, c)] : s \in found}
  ELSE IF c.action = "delete" THEN {d}
  ELSE {[d EXCEPT ![s] = WithData([NoRecord EXCEPT !.exists = TRUE, !.remoteId = c.id], c)] :
          s \in {q \in Slots : ~d[q].exists}}

\* What a change can make of the local records and of the history.  It may
\* throw, and is then skipped.
Outcomes(o, c) ==
  {[o EXCEPT !.excused = @ \cup {c.id}]}
  \cup {[device |-> d, doubled |-> o.doubled,
         excused |-> IF server[c.id].updatedAt = c.updated_at THEN o.excused \ {c.id}
                     ELSE o.excused] :
         d \in UNION {Applied(o.device, c, found) : found \in Lookups(o.device, c)}}
  \cup {[device |-> d, doubled |-> o.doubled \cup {c.id}, excused |-> o.excused] :
         d \in Applied(o.device, c, {})}

\* The first n changes of the page, one after the other.
PageOutcomes(n) ==
  LET upTo[k \in 0 .. n] ==
        IF k = 0 THEN {[device |-> device, doubled |-> doubled, excused |-> excused]}
        ELSE UNION {Outcomes(o, pull.changes[k]) : o \in upTo[k - 1]}
  IN  upTo[n]

\* They reach the device; the rows in missed are among those that do not.
Reached(n, missed) ==
  /\ \E o \in PageOutcomes(n) : /\ device' = o.device
                                /\ doubled' = o.doubled
                                /\ excused' = o.excused \cup missed
  /\ unsent' = {s \in unsent : device'[s] = device[s]}

\* The changes of a page are applied while no one else writes.
ApplyRemoteChanges ==
  /\ pull.at = "apply"
  /\ pull' = AfterPage(pull)
  /\ Reached(Len(pull.changes), Beyond)
  /\ UNCHANGED <<clock, server, lastSyncAt, pulls>>

\* The sync that pulled sets the watermark to now, whatever failed.
FinishSync ==
  /\ pull.at = "finish"
  /\ lastSyncAt' = clock
  /\ pull' = NoPull
  /\ UNCHANGED <<clock, server, device, pulls, excused, doubled, unsent>>

\* The app dies, and forgets how far it was: each change of a page is a batch of
\* its own, so that the first of them may have been applied.
Crash ==
  /\ pull' = NoPull
  /\ lastSyncAt' = 0
  /\ \E n \in 0 .. Len(pull.changes) : Reached(n, {})
  /\ UNCHANGED <<clock, server, pulls>>

Next ==
  \/ \E r \in Rows : ServerWrite(r) \/ ServerDelete(r)
  \/ \E s \in Slots : TrackedUpdate(s) \/ TrackedDelete(s) \/ PushDelivered(s)
  \/ PullChanges \/ FetchPage \/ EntityFails \/ ApplyRemoteChanges
  \/ FinishSync \/ Crash

Spec == Init /\ [][Next]_vars

\* Types of server, device and pull.
TypeOK ==
  /\ clock \in Nat /\ lastSyncAt \in Nat /\ pulls \in Nat
  /\ server \in [Rows -> ServerRow]
  /\ device \in [Slots -> LocalRow]
  /\ pull \in Pull
  /\ excused \subseteq Rows /\ doubled \subseteq Rows
  /\ unsent \subseteq Slots

-----------------------------------------------------------------------------
\* isDirty keeps a local version: for client-wins always, although it may have
\* been synchronised long ago, and for last-write-wins against an older write.
Kept(s, r) ==
  /\ device[s].isDirty
  /\ \/ Strategy[EntityOf[r]] = "client-wins"
     \/ Strategy[EntityOf[r]] = "last-write-wins" /\ device[s].version >= server[r].updatedAt

\* What is older than the watermark has arrived: in the columns a pull writes the
\* device holds the server's version, or an edit that is still to be sent or that
\* the rules prefer, and nothing of what was deleted.  Excused are rows that a
\* failed entity, a change that threw, a local deletion, a write while the pull
\* ran or their place behind the last page kept from it.
WatermarkCovers ==
  \A r \in Rows \ (excused \cup doubled) :
    server[r].updatedAt <= lastSyncAt =>
      IF server[r].exists
      THEN \E s \in CopiesOf(r) :
             device[s].version = server[r].version \/ s \in unsent \/ Kept(s, r)
      ELSE CopiesOf(r) = {}

\* A row of the server has one local record at the most, whatever is fetched
\* again, conflicts or is restarted, unless its lookup has failed.
OneCopy == \A r \in Rows \ doubled : Cardinality(CopiesOf(r)) <= 1

\* An edit that the server does not have is only overwritten if the rules for
\* its entity prefer what the server has: never for client-wins, and for
\* last-write-wins only by a later write.
EditsKept ==
  [][\A s \in unsent \ unsent' :
       LET r == device[s].remoteId
           overwritten == /\ device'[s].exists /\ device'[s].remoteId = r
                          /\ device'[s].version # device[s].version
       IN  overwritten => \/ Strategy[EntityOf[r]] = "server-wins"
                          \/ /\ Strategy[EntityOf[r]] = "last-write-wins"
                             /\ device[s].version < server[r].updatedAt]_vars
=============================================================================
