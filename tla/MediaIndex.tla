----------------------------- MODULE MediaIndex -----------------------------
(***************************************************************************)
(* The media index that follows Jellyfin's library (src/src/media/mod.rs): *)
(* the task run with its full comparison and its live updates, the task    *)
(* listen with the WebSocket, and the pair of files on disk.  The library  *)
(* changes at any time, the connection breaks, calls and saves fail, and   *)
(* the hub is killed between any two steps.                                *)
(*                                                                         *)
(* Series, movies and episodes are one list; an item without a name is no  *)
(* item.  Jellyfin lists items in the order of their numbers.              *)
(***************************************************************************)
EXTENDS IndexStore

CONSTANTS
    Page,         \* PAGE: items of one answer
    Batch,        \* BATCH: items of one call of the embedding thread
    SaveEvery,    \* SAVE_EVERY
    MaxChanges,   \* bound: changes of the library
    MaxTrouble    \* bound: breaks, failures and kills together

Absent == "absent"

ASSUME SizesAssumption == {Page, Batch, SaveEvery} \subseteq Nat \ {0}
ASSUME TextsAssumption == Texts # {} /\ Absent \notin Texts
ASSUME BoundsAssumption == {MaxChanges, MaxTrouble} \subseteq Nat

VARIABLES
    lib,       \* Jellyfin's library: the text of each item, or Absent
    ws,        \* the WebSocket: down, up, or broken and not yet noticed
    tried,     \* ~first of listen: there was a first attempt to connect
    events,    \* the channel from listen to run
    task,      \* where run is
    due,       \* next_full has passed
    pending,   \* changes that wait for the quiet time
    job,       \* the full comparison or live update at work
    ix,        \* the index in memory
    disk,      \* the files: entries and vectors
    state,     \* MediaIndex::state
    excuse,    \* history: what only a later full comparison repairs
    torn,      \* history: files of two different saves were loaded
    unsaved,   \* history: no save has ended well since one failed, or the load did
    changes, trouble    \* counters of the bounds

jellyfin == <<lib, changes>>
listener == <<ws, tried>>
history  == <<excuse, torn, unsaved>>
vars     == <<jellyfin, listener, events, task, due, pending, job, ix, disk, state,
              history, trouble>>

Changes     == [changed: SUBSET Items, removed: SUBSET Items]
NoChanges   == [changed |-> {}, removed |-> {}]
(* listen sends no empty changes: they stand for WsEvent::Reconnected. *)
Reconnected == NoChanges

(* full: full_sync, else apply.  since: since_save.  last: the save at work *)
(* is the one after all batches.                                           *)
Job  == [full: BOOLEAN, docs: Seq(Doc), todo: Seq(Doc), changes: Changes,
         since: Nat, last: BOOLEAN]
Idle == [full |-> FALSE, docs |-> <<>>, todo |-> <<>>, changes |-> NoChanges,
         since |-> 0, last |-> FALSE]

TypeOK ==
    /\ lib \in [Items -> Texts \cup {Absent}]
    /\ ws \in {"down", "up", "broken"} /\ tried \in BOOLEAN
    /\ events \in Seq(Changes)
    /\ task \in {"load", "off", "loop", "wait", "pages", "lookup", "embed",
                 "vectors", "entries", "finish"}
    /\ due \in BOOLEAN
    /\ pending \in Changes
    /\ job \in Job
    /\ {ix.entries, ix.vectors, disk.entries, disk.vectors} \subseteq Seq(Doc)
    /\ \A i \in Items : Cardinality(Position(ix, i)) <= 1 /\ Cardinality(Position(disk, i)) <= 1
    /\ state \in {"LoadingModel", "Indexing", "Ready", "Failed"}
    /\ excuse \subseteq {"failed", "unannounced", "shifted", "outdated"}
    /\ torn \in BOOLEAN /\ unsaved \in BOOLEAN
    /\ changes \in 0..MaxChanges /\ trouble \in 0..MaxTrouble

(* At most n elements of s from position k on. *)
Slice(s, k, n) == SubSeq(s, k, Min({Len(s), k + n - 1}))

Present == {i \in Items : lib[i] # Absent}

Listed(ids) ==
    [n \in 1..Cardinality(ids) |->
        [id |-> Ascending[ids][n], text |-> lib[Ascending[ids][n]]]]

(* A new process.  Its first full comparison is due at once. *)
Started ==
    /\ ws' = "down" /\ tried' = FALSE /\ events' = <<>>
    /\ task' = "load" /\ due' = TRUE /\ pending' = NoChanges /\ job' = Idle
    /\ ix' = Empty /\ state' = "LoadingModel" /\ excuse' = {}

AnyText == CHOOSE t \in Texts : TRUE

(* On disk: nothing, or the index of the library as it is.  Texts are      *)
(* alike, so all items begin with the same one.                            *)
Init ==
    /\ lib \in [Items -> {AnyText, Absent}]
    /\ ws = "down" /\ tried = FALSE /\ events = <<>>
    /\ task = "load" /\ due = TRUE /\ pending = NoChanges /\ job = Idle
    /\ ix = Empty /\ state = "LoadingModel" /\ excuse = {}
    /\ disk \in {Empty, [entries |-> Listed(Present), vectors |-> Listed(Present)]}
    /\ torn = FALSE /\ unsaved = FALSE
    /\ changes = 0 /\ trouble = 0

Trouble == trouble < MaxTrouble /\ trouble' = trouble + 1

-----------------------------------------------------------------------------
(* run: the start, the loop and its select. *)

(* The saved index, or an empty one: a file cannot be read, or another     *)
(* model is configured for this start.                                     *)
Load ==
    /\ task = "load"
    /\ \/ ix' = Loaded(disk) /\ UNCHANGED trouble
       \/ ix' = Empty /\ Trouble
    /\ torn' = (torn \/ ~Matched(ix'))
    /\ unsaved' = (unsaved \/ ix' # disk)
    /\ task' = "loop"
    /\ UNCHANGED <<jellyfin, listener, events, due, pending, job, disk, state, excuse>>

(* The model cannot be loaded: the task ends. *)
ModelFails ==
    /\ task = "load" /\ Trouble
    /\ task' = "off" /\ state' = "Failed"
    /\ UNCHANGED <<jellyfin, listener, events, due, pending, job, ix, disk, history>>

(* What went wrong before a full comparison begins is repaired by it. *)
Loop ==
    /\ task = "loop"
    /\ IF due
       THEN task' = "pages" /\ job' = [Idle EXCEPT !.full = TRUE] /\ excuse' = {}
       ELSE task' = "wait" /\ UNCHANGED <<job, excuse>>
    /\ UNCHANGED <<jellyfin, listener, events, due, pending, ix, disk, state, torn, unsaved, trouble>>

Extend(p, c) == [changed |-> p.changed \cup c.changed, removed |-> p.removed \cup c.removed]

DueAfter(e) == due \/ e = Reconnected

Receive ==
    /\ task = "wait" /\ events # <<>>
    /\ task' = "loop" /\ events' = Tail(events)
    /\ due' = DueAfter(Head(events))
    /\ pending' = Extend(pending, Head(events))
    /\ UNCHANGED <<jellyfin, listener, job, ix, disk, state, history, trouble>>

(* The sleep ends: the quiet time, or the time to the full comparison. *)
QuietOver ==
    /\ task = "wait" /\ pending # NoChanges
    /\ task' = "lookup"
    /\ job' = [Idle EXCEPT !.changes = pending]
    /\ pending' = NoChanges
    /\ UNCHANGED <<jellyfin, listener, events, due, ix, disk, state, history, trouble>>

WakeUp ==
    /\ task = "wait" /\ pending = NoChanges /\ due
    /\ task' = "loop"
    /\ UNCHANGED <<jellyfin, listener, events, due, pending, job, ix, disk, state, history, trouble>>

SixHours ==
    /\ ~due /\ due' = TRUE
    /\ UNCHANGED <<jellyfin, listener, events, task, pending, job, ix, disk, state, history, trouble>>

-----------------------------------------------------------------------------
(* full_sync and apply up to embed_and_store. *)

(* embed_and_store begins with the first batch; without one, only a        *)
(* removal is saved.                                                       *)
Proceed(todo, gone) ==
    /\ job' = [job EXCEPT !.todo = todo, !.docs = <<>>, !.changes = NoChanges, !.last = todo = <<>>]
    /\ task' = IF todo # <<>> THEN "embed" ELSE IF gone THEN "vectors" ELSE "finish"
    /\ state' = IF todo # <<>> THEN "Indexing" ELSE state

(* Mutants: the comparison comes before the removal; a removal alone is    *)
(* not saved.                                                              *)
CompareFirst(docs, ids) ==
    /\ ix' = RemoveIds(ix, ids)
    /\ \E todo \in {Changed(ix, docs)} : Proceed(todo, Removed(ix, ids))
CompareUnsaved(docs, ids) ==
    /\ ix' = RemoveIds(ix, ids)
    /\ \E todo \in {Changed(ix', docs)} : Proceed(todo, FALSE)

(* Removes under the lock, then compares by hash. *)
Compare(docs, ids) ==
    /\ ix' = RemoveIds(ix, ids)
    /\ \E todo \in {Changed(ix', docs)} : Proceed(todo, Removed(ix, ids))

Indexed == {e.id : e \in ToSet(ix.entries)}

(* Mutant: entries of items that are gone stay. *)
GoneNever(docs) == {}

Gone(docs) == Indexed \ {d.id : d \in ToSet(docs)}

(* A page of fetch_all, by offset.  The last one is the end of the list as *)
(* Jellyfin has it now.                                                    *)
FetchPage ==
    /\ task = "pages"
    /\ LET list == Listed(Present)
           page == Slice(list, Len(job.docs) + 1, Page)
           docs == job.docs \o page
       IN  IF page = <<>> \/ Len(docs) >= Len(list)
           THEN Compare(docs, Gone(docs))
           ELSE job' = [job EXCEPT !.docs = docs] /\ UNCHANGED <<task, ix, state>>
    /\ UNCHANGED <<jellyfin, listener, events, due, pending, disk, history, trouble>>

(* An announced removal of an item that is back, and not announced again.  *)
Outdated ==
    LET announced == {e.changed : e \in ToSet(events)}
    IN  (job.changes.removed \cap Present)
            \ (job.changes.changed \cup pending.changed \cup UNION announced) # {}

Lookup ==
    /\ task = "lookup"
    /\ Compare(Listed(job.changes.changed \cap Present), job.changes.removed)
    /\ excuse' = IF Outdated THEN excuse \cup {"outdated"} ELSE excuse
    /\ UNCHANGED <<jellyfin, listener, events, due, pending, disk, torn, unsaved, trouble>>

-----------------------------------------------------------------------------
(* embed_and_store and save. *)

Embed ==
    /\ task = "embed"
    /\ LET batch == Slice(job.todo, 1, Batch)
           rest  == SubSeq(job.todo, Batch + 1, Len(job.todo))
           since == job.since + Len(batch)
       IN  /\ ix' = UpsertAll(ix, batch)
           /\ IF since >= SaveEvery
              THEN job' = [job EXCEPT !.todo = rest, !.since = 0] /\ task' = "vectors"
              ELSE /\ job' = [job EXCEPT !.todo = rest, !.since = since, !.last = rest = <<>>]
                   /\ task' = IF rest = <<>> THEN "vectors" ELSE "embed"
    /\ state' = "Indexing"
    /\ UNCHANGED <<jellyfin, listener, events, due, pending, disk, history, trouble>>

(* The two renames of Index::save. *)
RenameVectors ==
    /\ task = "vectors"
    /\ disk' = [disk EXCEPT !.vectors = ix.vectors]
    /\ task' = "entries"
    /\ UNCHANGED <<jellyfin, listener, events, due, pending, job, ix, state, history, trouble>>

RenameEntries ==
    /\ task = "entries"
    /\ disk' = [disk EXCEPT !.entries = ix.entries]
    /\ unsaved' = FALSE
    /\ task' = IF job.todo # <<>> THEN "embed" ELSE IF job.last THEN "finish" ELSE "vectors"
    /\ job' = [job EXCEPT !.last = job.todo = <<>>]
    /\ state' = IF job.todo # <<>> THEN "Indexing" ELSE state
    /\ UNCHANGED <<jellyfin, listener, events, due, pending, ix, excuse, torn, trouble>>

Finish ==
    /\ task = "finish"
    /\ task' = "loop" /\ job' = Idle
    /\ IF job.full THEN state' = "Ready" /\ due' = FALSE ELSE UNCHANGED <<state, due>>
    /\ UNCHANGED <<jellyfin, listener, events, pending, ix, disk, history, trouble>>

StateAfterFailure == IF job.full /\ ix.entries = <<>> THEN "Failed" ELSE state

(* A call, the embedding thread or the save fails.  run logs the error: a  *)
(* live update is gone, a full comparison comes again in six hours.        *)
Fails ==
    /\ task \in {"pages", "lookup", "embed", "vectors", "entries"}
    /\ task = "lookup" => job.changes.changed # {}
    /\ Trouble
    /\ task' = "loop" /\ job' = Idle
    /\ state' = StateAfterFailure
    /\ due' = (due /\ ~job.full)
    /\ excuse' = excuse \cup {"failed"}
    /\ unsaved' = (unsaved \/ task \notin {"pages", "lookup"})
    /\ UNCHANGED <<jellyfin, listener, events, pending, ix, disk, torn>>

-----------------------------------------------------------------------------
(* listen, the library and the end of the process. *)

Connect ==
    /\ task \notin {"load", "off"} /\ ws = "down"
    /\ ws' = "up" /\ tried' = TRUE
    /\ events' = IF tried THEN Append(events, Reconnected) ELSE events
    /\ UNCHANGED <<jellyfin, task, due, pending, job, ix, disk, state, history, trouble>>

ConnectFails ==
    /\ task \notin {"load", "off"} /\ ws = "down" /\ ~tried
    /\ tried' = TRUE
    /\ UNCHANGED <<jellyfin, ws, events, task, due, pending, job, ix, disk, state, history, trouble>>

(* What Jellyfin sends on a broken connection is lost. *)
Break ==
    /\ ws = "up" /\ Trouble
    /\ ws' = "broken"
    /\ UNCHANGED <<jellyfin, tried, events, task, due, pending, job, ix, disk, state, history>>

Notice ==
    /\ ws = "broken"
    /\ ws' = "down"
    /\ UNCHANGED <<jellyfin, tried, events, task, due, pending, job, ix, disk, state, history, trouble>>

Announce(i, text) ==
    [changed |-> IF text = Absent THEN {} ELSE {i},
     removed |-> IF text = Absent THEN {i} ELSE {}]

(* An item is added, changed or removed.  If it is removed in front of the *)
(* offset of a fetch, the items behind it move up.                         *)
LibraryChanges ==
    /\ changes < MaxChanges /\ changes' = changes + 1
    /\ \E i \in Items, text \in Texts \cup {Absent} :
           /\ lib[i] # text
           /\ lib' = [lib EXCEPT ![i] = text]
           /\ events' = IF ws = "up" THEN Append(events, Announce(i, text)) ELSE events
           /\ excuse' = excuse
                  \cup (IF ws = "up" \/ tried THEN {} ELSE {"unannounced"})
                  \cup (IF /\ text = Absent /\ task = "pages"
                           /\ Cardinality({j \in Present : j <= i}) <= Len(job.docs)
                        THEN {"shifted"} ELSE {})
    /\ UNCHANGED <<listener, task, due, pending, job, ix, disk, state, torn, unsaved, trouble>>

(* A kill at any moment, or the end of run at its select, and a new start. *)
Restart ==
    /\ Trouble /\ Started
    /\ UNCHANGED <<jellyfin, disk, torn, unsaved>>

-----------------------------------------------------------------------------
Run    == \/ Load \/ Loop \/ Receive \/ QuietOver \/ WakeUp \/ FetchPage \/ Lookup
          \/ Embed \/ RenameVectors \/ RenameEntries \/ Finish
Listen == Connect \/ Notice

Next ==
    \/ Run \/ SixHours \/ Listen
    \/ ModelFails \/ Fails \/ ConnectFails \/ Break \/ LibraryChanges \/ Restart

Spec == Init /\ [][Next]_vars

(* The tasks of tokio run, its timers fire, TCP reports a dead connection  *)
(* and Jellyfin answers again.                                             *)
FairSpec == Spec /\ WF_vars(Run) /\ WF_vars(SixHours) /\ WF_vars(Listen)

-----------------------------------------------------------------------------
Mirrored == ToSet(ix.entries) = {[id |-> i, text |-> lib[i]] : i \in Present}

(* Nothing is on its way that would change the index. *)
Quiet == task = "wait" /\ ws = "up" /\ events = <<>> /\ pending = NoChanges /\ ~due

(* When nothing is left to do, the index is the library: no order of       *)
(* messages, comparisons, reconnects and restarts loses a change.  What    *)
(* the code does lose, until the next full comparison, are the four cases  *)
(* of excuse: a call or save failed (mod.rs:312, 332), the library changed *)
(* before the first connection (550), an item in front of the offset was   *)
(* removed during a fetch (345), and an announced removal was applied      *)
(* after a comparison that had found the item again (324).                 *)
Settled == Quiet /\ excuse = {} => Mirrored

(* Every entry has the vector of its own text, unless files of two saves   *)
(* were taken for one index.                                               *)
OwnVectors == torn \/ Matched(ix)

(* What the idle index holds is on disk, removals included: a restart has  *)
(* nothing to embed again (docs/media-index.md, "Later starts").           *)
SavedWhenIdle == task = "wait" /\ ~unsaved => disk = ix

(* Once the library and the faults are quiet, the index becomes the        *)
(* library and stays it, whatever was missed before (mod.rs:11-12); or the *)
(* model could not be loaded.                                              *)
Follows == <>[](task = "off" \/ Mirrored)

(* index.rs:197-198: "a crash between the renames leaves a length          *)
(* mismatch, which load detects": an index at rest has the right vectors.  *)
LoadDetects == Quiet => Matched(ix)
=============================================================================
