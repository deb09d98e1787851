---------------------------- MODULE FileStorage ----------------------------
(***************************************************************************)
(* Bundles kept as files on a card (storage_fatfs.c): a list in memory of  *)
(* what the card holds, saves that wait for room and for the file to be    *)
(* closed, the end of power at any time, and the list restored from the    *)
(* directory when the node starts again.                                   *)
(*                                                                         *)
(* Tasks are not preempted: another one runs only while a save waits for   *)
(* the semaphore or sleeps between two attempts to close a file, also one  *)
(* that could not be opened.                                               *)
(***************************************************************************)
EXTENDS Integers, Sequences, FiniteSets, SequencesExt

CONSTANTS
  Bundles, None,
  Tasks,      \* tasks that save bundles: the agent, the receivers of radio and UDP
  Comes,      \* the bundles a task may have to save
  Prio,       \* priority of a bundle
  Lifetime,   \* lifetime of a bundle, in seconds
  Reports,    \* bundles whose deletion is reported: they are read back first
  StoreSize,  \* BUNDLE_STORAGE_SIZE
  Wrap,       \* seconds after which the tick count begins again
  Tries,      \* attempts to close a file
  MaxOpen,    \* _FS_LOCK, the files that can be open at the same time
  Faults      \* what the environment does, see below

ASSUME BundleAssumption ==
  /\ Comes \in [Tasks -> SUBSET Bundles] /\ Prio \in [Bundles -> 0 .. 2]
  /\ Lifetime \in [Bundles -> Nat] /\ Reports \subseteq Bundles
ASSUME FiniteAssumption == IsFiniteSet(Bundles) /\ IsFiniteSet(Tasks)
ASSUME NumberAssumption ==
  /\ StoreSize \in Nat \ {0} /\ Wrap \in Nat \ {0} /\ Tries \in Nat \ {0} /\ MaxOpen \in Nat
  /\ None \notin Nat \cup Tasks
ASSUME FaultAssumption ==
  Faults \subseteq {"card_fails",      \* a file cannot be created or written
                    "close_fails",     \* an attempt to close a file fails
                    "close_gives_up",  \* so does the last one, and the content is discarded
                    "unlink_fails",    \* a file cannot be removed
                    "unreadable",      \* a file cannot be opened to be read, or not be read
                    "no_memory"}       \* there is no memory to read a file into

Entry == [num : Bundles, rec : 0 .. Wrap - 1, flags : BOOLEAN, locked : BOOLEAN]
Idle == [at |-> "idle"]

VARIABLES
  store,    \* [list : bundle_list, card : when a whole file's bundle came in,
            \*  freed : bundle_deleted_sem, fate : history, see Survives]
  task,     \* where each task is in storage_fatfs_save_bundle
  running,  \* the task that has the processor in the middle of a save, or None
  up,       \* the node has power
  stuck,    \* it deletes the same bundle again and again
  tick      \* xTaskGetTickCount, in seconds

vars == <<store, task, running, up, stuck, tick>>

(***************************************************************************)
(* The list and the card                                                   *)
(***************************************************************************)
Listed(s) == {s.list[i].num : i \in DOMAIN s.list}
FirstOf(list, b) == Min({i \in DOMAIN list : list[i].num = b})
EntryOf(s, b) == s.list[FirstOf(s.list, b)]

\* Bundles of which a restart finds a file that is long enough
Whole(s) == {b \in Bundles : s.card[b] # None}

\* Blocks of bundle_mem in use: those of the list, and of saves that are not over.
\* (Mutant: these are forgotten.)
HasBlockListed(s) == Len(s.list) < StoreSize
Saving == {t \in Tasks : task[t].at \in {"closing", "aborting", "discarding"}}
HasBlock(s) == Len(s.list) + Cardinality(Saving) < StoreSize

\* Files open for writing; no more than MaxOpen, and none twice
Writing == {t \in Tasks : task[t].at \in {"closing", "discarding"}}
CanOpen == Cardinality(Writing) < MaxOpen
IsOpen(b) == \E t \in Writing : task[t].num = b

\* The effect of storage_fatfs_delete_bundle: it goes by the number, and neither a lock
\* nor the result of f_unlink matters.  (Mutant: the file is not removed.)
Unlinks == {TRUE} \cup IF "unlink_fails" \in Faults THEN {FALSE} ELSE {}
Unlisted(s, b, fate) ==
  [s EXCEPT !.list = RemoveAt(@, FirstOf(@, b)), !.freed = TRUE,
            !.fate = [s.fate EXCEPT ![b] = fate]]
RemovedFileLeft(s, b, unlinked) == Unlisted(s, b, "gone")
Removed(s, b, unlinked) ==
  IF unlinked THEN [Unlisted(s, b, "gone") EXCEPT !.card = [s.card EXCEPT ![b] = None]]
  ELSE Unlisted(s, b, "left")

\* What becomes of reading a bundle back before its deletion, if its file is read at
\* all: it is there; the task sleeps, since the file could not be opened; or it fails
\* at once, without memory or with a file too short.
Reading == {"done", "sleeps", "fails"}
Reads(s, b) ==
  IF ~(EntryOf(s, b).flags /\ b \in Reports) THEN {"done"}
  ELSE (IF s.card[b] = None THEN {"sleeps", "fails"}
        ELSE IF CanOpen THEN {"done"} ELSE {"sleeps"})
       \cup (IF "unreadable" \in Faults THEN {"sleeps", "fails"} ELSE {})
       \cup (IF "no_memory" \in Faults THEN {"fails"} ELSE {})
Readings(s) == {read \in [Listed(s) -> Reading] : \A b \in Listed(s) : read[b] \in Reads(s, b)}

\* storage_fatfs_prune, of which the first deletion is the last
Overdue(e) == (tick - e.rec) % Wrap > Lifetime[e.num]
Expiring(s, read, how) == {i \in DOMAIN s.list : Overdue(s.list[i]) /\ read[s.list[i].num] = how}
Pruned(s, read, unlinked) ==
  LET gone == Expiring(s, read, "done")
  IN IF gone = {} THEN s ELSE Removed(s, s.list[Min(gone)].num, unlinked)
Sleeps(s, read) ==
  \E i \in Expiring(s, read, "sleeps") : \A j \in Expiring(s, read, "done") : i < j

\* Which of these has the shorter time to live is left open.
Urgency(e) == IF e.flags THEN Prio[e.num] ELSE 0
Victims(s, b) == {e \in Range(s.list) : ~e.locked /\ Urgency(e) <= Prio[b]}

\* storage_fatfs_make_room.  A victim that cannot be deleted is tried for ever: in a
\* loop that nobody interrupts, or with sleeps in between.
Room(s, outcome) == [store |-> s, outcome |-> outcome]
Evicted(s, b, read, unlinked) ==
  IF Len(s.list) < StoreSize THEN {Room(s, "room")}
  ELSE {Room(s, "full")}
       \cup {CASE read[e.num] = "done" -> Room(Removed(s, e.num, unlinked), "room")
               [] read[e.num] = "sleeps" -> Room(s, "sleeps")
               [] read[e.num] = "fails" -> Room(s, "stuck") : e \in Victims(s, b)}
MadeRoom(s, b, read, unlinked) ==
  IF Sleeps(s, read) THEN {Room(s, "sleeps")}
  ELSE Evicted(Pruned(s, read, unlinked), b, read, unlinked)

(***************************************************************************)
(* storage_fatfs_save_bundle, up to where the task waits or sleeps         *)
(***************************************************************************)
Goto(t, place) == task' = [task EXCEPT ![t] = place]
At(t, place) == up /\ ~stuck /\ running \in {None, t} /\ task[t].at = place
Free == up /\ ~stuck /\ running = None

Place(at, b, rec) == [at |-> at, num |-> b, rec |-> rec, tries |-> Tries]
Opened(s, b) ==
  [s EXCEPT !.card = [s.card EXCEPT ![b] = None], !.fate = [s.fate EXCEPT ![b] = "unknown"]]

\* The file is created, which empties it, and written; or it cannot be written; or it
\* cannot be opened, and the task sleeps until it has tried often enough to close it.
Write(t, s, b, rec) ==
  \/ /\ ~IsOpen(b) /\ CanOpen /\ store' = Opened(s, b) /\ running' = t
     /\ \E at \in {"closing"} \cup IF "card_fails" \in Faults THEN {"discarding"} ELSE {} :
          Goto(t, Place(at, b, rec))
  \/ /\ IsOpen(b) \/ ~CanOpen \/ "card_fails" \in Faults
     /\ store' \in {s} \cup IF IsOpen(b) \/ ~CanOpen THEN {} ELSE {Opened(s, b)}
     /\ Goto(t, Place("aborting", b, rec)) /\ running' = None

\* How the save goes on when make_room is over, or sleeps.
Proceed(t, r, b, rec) ==
  CASE r.outcome = "stuck" -> /\ stuck' = TRUE /\ store' = r.store
                              /\ Goto(t, Place("room", b, rec)) /\ running' = t
    [] r.outcome = "sleeps" -> /\ store' = r.store /\ UNCHANGED stuck
                               /\ Goto(t, Place("reading", b, rec)) /\ running' = None
    [] r.outcome = "full" -> /\ store' = r.store /\ UNCHANGED stuck
                             /\ Goto(t, Place("room", b, rec))
                             /\ running' = IF r.store.freed THEN t ELSE None
    [] r.outcome = "room" -> /\ UNCHANGED stuck
                             /\ IF HasBlock(r.store) THEN Write(t, r.store, b, rec)
                                ELSE store' = r.store /\ Goto(t, Idle) /\ running' = None

TryRoom(t, s, b, rec) ==
  \E read \in Readings(s), unlinked \in Unlinks :
    \E r \in MadeRoom(s, b, read, unlinked) : Proceed(t, r, b, rec)

\* What is listed is not saved again.
\* (Mutant: it is not looked for.)
SaveUnchecked(t, b) ==
  /\ Free /\ task[t] = Idle /\ b \in Comes[t]
  /\ TryRoom(t, store, b, tick)
  /\ UNCHANGED <<up, tick>>
Save(t, b) == b \notin Listed(store) /\ SaveUnchecked(t, b)

\* The semaphore is taken, whoever's deletion gave it; what was looked up before the
\* wait is not looked up again.
Woken(t) ==
  /\ At(t, "room") /\ store.freed
  /\ TryRoom(t, [store EXCEPT !.freed = FALSE], task[t].num, task[t].rec)
  /\ UNCHANGED <<up, tick>>

\* (Mutant: the semaphore is waited for without a timeout.)
TimedOutNever(t) == FALSE /\ UNCHANGED vars
TimedOut(t) ==
  /\ At(t, "room") /\ running = None /\ ~store.freed
  /\ Goto(t, Idle) /\ UNCHANGED <<store, running, up, stuck, tick>>

\* The victim's file is tried again, or the rest of the pruning done: by Prune.
Reread(t) ==
  /\ At(t, "reading")
  /\ \E read \in Readings(store), unlinked \in Unlinks :
       \E r \in Evicted(store, task[t].num, read, unlinked) :
         Proceed(t, r, task[t].num, task[t].rec)
  /\ UNCHANGED <<up, tick>>

\* The bundle is listed and its storage reported, whatever came of its file.
Closed(s, b, rec, whole) ==
  [s EXCEPT !.card = IF whole THEN [s.card EXCEPT ![b] = rec] ELSE s.card,
            !.fate = [s.fate EXCEPT ![b] = IF whole THEN "kept" ELSE "discarded"],
            !.list = Append(@, [num |-> b, rec |-> rec, flags |-> TRUE, locked |-> FALSE])]
GivesUp(t) == task[t].tries = 1 /\ "close_gives_up" \in Faults
Close(t) ==
  /\ At(t, "closing")
  /\ \E whole \in {TRUE} \cup IF GivesUp(t) THEN {FALSE} ELSE {} :
       store' = Closed(store, task[t].num, task[t].rec, whole)
  /\ Goto(t, Idle) /\ running' = None
  /\ UNCHANGED <<up, stuck, tick>>

\* vTaskDelay between two attempts
Delay(t) ==
  /\ At(t, "closing") \/ At(t, "discarding")
  /\ {"close_fails", "close_gives_up"} \cap Faults # {}
  /\ task[t].tries > 1
  /\ task' = [task EXCEPT ![t].tries = @ - 1] /\ running' = None
  /\ UNCHANGED <<store, up, stuck, tick>>

\* What could not be written is closed, or given up, and removed; a part of it that
\* cannot be removed may be long enough for a restart.
\* (Mutant: save_bundle goes on and lists the bundle.)
DiscardListed(t) ==
  /\ At(t, "discarding") /\ Goto(t, Idle) /\ running' = None
  /\ store' = [Closed(store, task[t].num, task[t].rec, TRUE) EXCEPT !.card = store.card]
  /\ UNCHANGED <<up, stuck, tick>>
Discard(t) ==
  /\ At(t, "discarding") /\ Goto(t, Idle) /\ running' = None
  /\ \E unlinked \in Unlinks :
       store' \in {store} \cup IF unlinked THEN {}
                               ELSE {[store EXCEPT !.card[task[t].num] = task[t].rec]}
  /\ UNCHANGED <<up, stuck, tick>>

Abort(t) ==
  /\ At(t, "aborting") /\ Goto(t, Idle) /\ running' = None
  /\ UNCHANGED <<store, up, stuck, tick>>

(***************************************************************************)
(* Other operations                                                        *)
(***************************************************************************)
\* What has been delivered is not read back.
Delete(b, delivered) ==
  /\ Free /\ b \in Listed(store)
  /\ delivered \/ "done" \in Reads(store, b)
  /\ \E unlinked \in Unlinks : store' = Removed(store, b, unlinked)
  /\ UNCHANGED <<task, running, up, stuck, tick>>

Lock(b, lock) ==
  /\ Free /\ b \in Listed(store) /\ EntryOf(store, b).locked # lock
  /\ store' = [store EXCEPT !.list[FirstOf(store.list, b)].locked = lock]
  /\ UNCHANGED <<task, running, up, stuck, tick>>

Prune ==
  /\ Free
  /\ \E read \in Readings(store), unlinked \in Unlinks : store' = Pruned(store, read, unlinked)
  /\ UNCHANGED <<task, running, up, stuck, tick>>

Second ==
  /\ up /\ tick' = (tick + 1) % Wrap
  /\ UNCHANGED <<store, task, running, up, stuck>>

\* Whatever is in memory is lost.  A file that was being closed is long enough or is not.
PowerOff ==
  /\ up /\ up' = FALSE
  /\ \E T \in SUBSET Writing :
       LET saved == [b \in {task[t].num : t \in T} |->
                       task[CHOOSE t \in T : task[t].num = b].rec]
       IN store' = [store EXCEPT !.list = <<>>, !.freed = FALSE,
                      !.card = [b \in Bundles |-> IF b \in DOMAIN saved THEN saved[b] ELSE @[b]]]
  /\ task' = [t \in Tasks |-> Idle] /\ running' = None /\ stuck' = FALSE /\ tick' = 0

\* storage_fatfs_reconstruct_bundles: in the order of the directory, as far as there
\* are blocks.  The flags are not restored.  (Mutant: the last block is not used.)
Orders(R) == {q \in [1 .. Cardinality(R) -> R] : Range(q) = R}
BlocksLess == StoreSize - 1
BlocksThere == StoreSize
Restored(s) ==
  {R \in SUBSET Whole(s) :
     /\ Cardinality(R) <= BlocksThere
     /\ \/ R = Whole(s) \/ Cardinality(R) = BlocksThere
        \/ {"no_memory", "unreadable"} \cap Faults # {}}
PowerOn ==
  /\ ~up /\ up' = TRUE
  /\ \E R \in Restored(store) : \E q \in Orders(R) :
       store' = [store EXCEPT !.list = [i \in DOMAIN q |->
                   [num |-> q[i], rec |-> store.card[q[i]], flags |-> FALSE, locked |-> FALSE]]]
  /\ UNCHANGED <<task, running, stuck, tick>>

-----------------------------------------------------------------------------
Init ==
  /\ store = [list |-> <<>>, card |-> [b \in Bundles |-> None], freed |-> FALSE,
              fate |-> [b \in Bundles |-> "unknown"]]
  /\ task = [t \in Tasks |-> Idle] /\ running = None /\ up = TRUE /\ stuck = FALSE
  /\ tick = 0

Goes(t) ==
  Woken(t) \/ TimedOut(t) \/ Reread(t) \/ Close(t) \/ Delay(t) \/ Discard(t) \/ Abort(t)
Next ==
  \/ \E t \in Tasks : Goes(t) \/ \E b \in Bundles : Save(t, b)
  \/ \E b \in Bundles, yes \in BOOLEAN : Delete(b, yes) \/ Lock(b, yes)
  \/ Prune \/ Second \/ PowerOff \/ PowerOn
Spec == Init /\ [][Next]_vars

\* A task that is ready gets the processor, and a wait for the semaphore times out.
FairSpec == Spec /\ \A t \in Tasks : SF_vars(Goes(t))

-----------------------------------------------------------------------------
(***************************************************************************)
(* Properties                                                              *)
(***************************************************************************)
\* The list never has more entries than bundle_mem has blocks.
Places == [at : {"room", "reading", "closing", "aborting", "discarding"}, num : Bundles,
           rec : 0 .. Wrap - 1, tries : 1 .. Tries]
Fates == {"unknown", "kept", "discarded", "gone", "left"}
Stores == [list : Seq(Entry), card : [Bundles -> (0 .. Wrap - 1) \cup {None}],
           freed : BOOLEAN, fate : [Bundles -> Fates]]
TypeOK ==
  /\ store \in Stores /\ Len(store.list) <= StoreSize
  /\ task \in [Tasks -> Places \cup {Idle}] /\ running \in Tasks \cup {None}
  /\ up \in BOOLEAN /\ stuck \in BOOLEAN /\ tick \in 0 .. Wrap - 1

\* "Look for duplicates in the storage": the list is the directory, each bundle once.
\* An entry without a file could not be read, a file without an entry not be removed.
ListedOnce == \A i, j \in DOMAIN store.list : store.list[i].num = store.list[j].num => i = j
ListIsDirectory == up => ListedOnce /\ Listed(store) = Whole(store)

\* Whatever happens to the power, and in the middle of whichever save: what was
\* reported as stored and has not been deleted is there, and what has been deleted is
\* not there again.
Survives ==
  \A b \in Bundles :
    /\ store.fate[b] \in {"kept", "discarded"} => b \in Whole(store) /\ (up => b \in Listed(store))
    /\ store.fate[b] \in {"gone", "left"} => b \notin Whole(store) \cup Listed(store)

\* On a card of which any access may fail each bundle is still listed once, and all that
\* are listed have their file but those that could not be closed.
ListedHasFile ==
  up => ListedOnce /\ \A b \in Listed(store) \ Whole(store) : store.fate[b] = "discarded"

\* Nor does another bundle's failed access, or a file left over, do away with a file that
\* was closed and whose bundle was not deleted, or bring a file back that was removed.
FilesKept ==
  \A b \in Bundles : /\ store.fate[b] = "kept" => b \in Whole(store)
                     /\ store.fate[b] = "gone" => b \notin Whole(store) \cup Listed(store)

\* Every save comes to an end, with the bundle or without, if the deletions that wake
\* it do.
Shrinks == Len(store'.list) < Len(store.list)
SaveReturns == <>[][~Shrinks]_vars => \A t \in Tasks : task[t] # Idle ~> task[t] = Idle
=============================================================================
