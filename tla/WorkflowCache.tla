--------------------------- MODULE WorkflowCache ----------------------------
(***************************************************************************)
(* The cache of active workflow rules of one business                      *)
(* (src/app/modules/workflows/triggers.py and routes.py).                  *)
(*                                                                         *)
(* Rules live in the database.  For every trigger type Redis may hold the  *)
(* list of rules that were active for it, for up to 24 hours.  A trigger   *)
(* evaluation (a reader) asks Redis first, on a miss or an error queries   *)
(* the database, and stores the result unless Redis failed the lookup.  A  *)
(* request that creates, updates or deletes a rule (an editor) commits the *)
(* change and then deletes one key; an update that names a trigger type    *)
(* also deletes the key of the old trigger, before it commits.  Redis      *)
(* errors are logged and swallowed everywhere.                             *)
(*                                                                         *)
(* Every await is a step of its own: readers and editors of all worker     *)
(* processes interleave at Redis and at the database.                      *)
(***************************************************************************)
EXTENDS FiniteSets

CONSTANTS
  Rules,        \* identities of rules, never reused after deletion
  Triggers,     \* trigger types
  Bodies,       \* what an active rule says: conditions, actions, log depth
  Off,          \* the content of a rule with is_active = False
  Readers, Editors,
  Unborn, Deleted,  \* a rule's id that is not in the table (yet, any more)
  Miss,         \* no entry under a key
  Keep,         \* a field the PATCH payload leaves out
  Faults        \* "redis": a Redis command may raise; "crash": a process may stop

ASSUME FaultAssumption == Faults \subseteq {"redis", "crash"}
ASSUME NullAssumption ==
  /\ Keep \notin Triggers /\ Keep \notin Bodies \cup {Off}
  /\ Off \notin Bodies
  /\ Unborn # Deleted

VARIABLES
  db,      \* the workflows table
  cache,   \* cache[t]: Miss, or the set of rules stored under t's key
  rd,      \* rd[w]: a reader's progress
  ed,      \* ed[e]: an editor's progress
  excused  \* history: stale keys that no editor is about to delete, and whose
           \* staleness has one of the causes that StaleHasCause lists

vars == <<db, cache, rd, ed, excused>>

Contents == Bodies \cup {Off}
Row      == [trigger : Triggers, content : Contents]
Patch    == [trigger : Triggers \cup {Keep}, content : Contents \cup {Keep}]
Live(r) == db[r] \notin {Unborn, Deleted}

\* Mutant: the query forgets is_active.
AllRules(table, t) ==
  {<<r, table[r].content>> : r \in {s \in Rules :
     table[s] \notin {Unborn, Deleted} /\ table[s].trigger = t}}

\* get_active_by_trigger: the active rules of a trigger.  A cached entry keeps
\* each rule's fields; trigger and is_active are the same for all of them.
ActiveRules(table, t) ==
  {<<r, table[r].content>> : r \in {s \in Rules :
     /\ table[s] \notin {Unborn, Deleted}
     /\ table[s].trigger = t /\ table[s].content # Off}}

Entries  == SUBSET (Rules \X Bodies)
NoReader == [pc |-> "idle"]
NoEditor == [pc |-> "idle"]

ReaderStates ==
  {NoReader} \cup [pc : {"get"}, key : Triggers]
             \cup [pc : {"query"}, key : Triggers, store : BOOLEAN]
             \cup [pc : {"store"}, key : Triggers, got : Entries, late : BOOLEAN]
EditorStates ==
  {NoEditor} \cup [pc : {"create"}, rule : Rules, new : Row]
             \cup [pc : {"early", "update"}, rule : Rules, old : Row, patch : Patch]
             \cup [pc : {"delete"}, rule : Rules, old : Triggers]
             \cup [pc : {"invalidate"}, key : Triggers]

TypeOK ==
  /\ db    \in [Rules -> Row \cup {Unborn, Deleted}]
  /\ cache \in [Triggers -> {Miss} \cup Entries]
  /\ rd    \in [Readers -> ReaderStates]
  /\ ed    \in [Editors -> EditorStates]
  /\ excused \subseteq Triggers

Init ==
  /\ db    \in [Rules -> Row \cup {Unborn}]
  /\ cache = [t \in Triggers |-> Miss]
  /\ rd    = [w \in Readers |-> NoReader]
  /\ ed    = [e \in Editors |-> NoEditor]
  /\ excused = {}

-----------------------------------------------------------------------------
(* Redis *)

Stale(t) == cache[t] # Miss /\ cache[t] # ActiveRules(db, t)

\* What is stale after the step and was excused, or is excused by it (more).
Excuse(more) ==
  excused' = {t \in excused \cup more : cache'[t] # Miss /\ cache'[t] # ActiveRules(db', t)}

\* invalidate_workflow_cache: the key is deleted, or the error is swallowed.
Invalidate(t) ==
  \/ cache' = [cache EXCEPT ![t] = Miss] /\ Excuse({})
  \/ "redis" \in Faults /\ UNCHANGED cache /\ Excuse({t})

\* The 24 hours are over (or Redis evicts the key).
Expire(t) ==
  /\ cache[t] # Miss
  /\ cache' = [cache EXCEPT ![t] = Miss]
  /\ UNCHANGED <<db, rd, ed>>
  /\ Excuse({})

-----------------------------------------------------------------------------
(* Readers: get_active_workflows_cached *)

ReaderAt(w, pc) == rd[w].pc = pc
ReaderTo(w, state) == rd' = [rd EXCEPT ![w] = state]

Trigger(w, t) ==
  /\ ReaderAt(w, "idle")
  /\ ReaderTo(w, [pc |-> "get", key |-> t])
  /\ UNCHANGED <<db, cache, ed, excused>>

\* A hit ends the lookup (an empty list is a hit too: "[]" is a true string).
GetHit(w) ==
  /\ ReaderAt(w, "get")
  /\ cache[rd[w].key] # Miss
  /\ ReaderTo(w, NoReader)
  /\ UNCHANGED <<db, cache, ed, excused>>

\* A miss; or a hit whose connection raises while it is closed, which the code
\* treats as a miss.
GetMiss(w) ==
  /\ ReaderAt(w, "get")
  /\ cache[rd[w].key] = Miss \/ "redis" \in Faults
  /\ ReaderTo(w, [pc |-> "query", key |-> rd[w].key, store |-> TRUE])
  /\ UNCHANGED <<db, cache, ed, excused>>

\* The lookup raises: redis_available stays False, so nothing will be stored.
GetRaises(w) ==
  /\ "redis" \in Faults
  /\ ReaderAt(w, "get")
  /\ ReaderTo(w, [pc |-> "query", key |-> rd[w].key, store |-> FALSE])
  /\ UNCHANGED <<db, cache, ed, excused>>

Query(w) ==
  /\ ReaderAt(w, "query")
  /\ ReaderTo(w, IF rd[w].store
                 THEN [pc |-> "store", key |-> rd[w].key,
                       got |-> ActiveRules(db, rd[w].key), late |-> FALSE]
                 ELSE NoReader)
  /\ UNCHANGED <<db, cache, ed, excused>>

\* setex overwrites whatever is there; a swallowed error leaves it.
Store(w) ==
  /\ ReaderAt(w, "store")
  /\ \/ cache' = [cache EXCEPT ![rd[w].key] = rd[w].got]
     \/ "redis" \in Faults /\ UNCHANGED cache
  /\ ReaderTo(w, NoReader)
  /\ UNCHANGED <<db, ed>>
  /\ Excuse(IF rd[w].late THEN {rd[w].key} ELSE {})

-----------------------------------------------------------------------------
(* Editors: the workflow routes *)

EditorAt(e, pc) == ed[e].pc = pc
EditorTo(e, state) == ed' = [ed EXCEPT ![e] = state]

\* Results that a reader holds and that the new table no longer supports.
Outdate(table) ==
  rd' = [w \in Readers |->
          IF ReaderAt(w, "store") /\ ActiveRules(table, rd[w].key) # rd[w].got
          THEN [rd[w] EXCEPT !.late = TRUE] ELSE rd[w]]

\* Flush and commit: the row is locked from the one to the other.  key is the
\* one to be deleted next, unkept a key the change affects but no one deletes.
Commit(e, table, key, unkept) ==
  /\ db' = table
  /\ Outdate(table)
  /\ EditorTo(e, [pc |-> "invalidate", key |-> key])
  /\ UNCHANGED cache
  /\ Excuse(unkept)

CreateRequest(e, r, row) ==
  /\ EditorAt(e, "idle")
  /\ db[r] = Unborn
  /\ \A f \in Editors : ed[f].pc = "create" => ed[f].rule # r
  /\ EditorTo(e, [pc |-> "create", rule |-> r, new |-> row])
  /\ UNCHANGED <<db, cache, rd, excused>>

CommitCreate(e) ==
  /\ EditorAt(e, "create")
  /\ Commit(e, [db EXCEPT ![ed[e].rule] = ed[e].new], ed[e].new.trigger, {})

\* The row is loaded: its trigger is the one invalidated early, and the one a
\* deletion will invalidate.
UpdateRequest(e, r, patch) ==
  /\ EditorAt(e, "idle")
  /\ Live(r)
  /\ EditorTo(e, [pc    |-> IF patch.trigger = Keep THEN "update" ELSE "early",
                  rule  |-> r, old |-> db[r], patch |-> patch])
  /\ UNCHANGED <<db, cache, rd, excused>>

InvalidateEarly(e) ==
  /\ EditorAt(e, "early")
  /\ EditorTo(e, [ed[e] EXCEPT !.pc = "update"])
  /\ UNCHANGED <<db, rd>>
  /\ Invalidate(ed[e].old.trigger)

\* Only attributes that differ from the loaded row are written; naming the
\* loaded trigger again therefore writes nothing.
Patched(row, old, patch) ==
  [trigger |-> IF patch.trigger \in {Keep, old.trigger} THEN row.trigger ELSE patch.trigger,
   content |-> IF patch.content \in {Keep, old.content} THEN row.content ELSE patch.content]

\* repo.update refreshes the row, so the late invalidation uses its trigger as
\* committed: the trigger the rule had until now is not deleted again.
CommitUpdate(e) ==
  /\ EditorAt(e, "update")
  /\ Live(ed[e].rule)
  /\ LET row == db[ed[e].rule]
         new == Patched(row, ed[e].old, ed[e].patch)
     IN Commit(e, [db EXCEPT ![ed[e].rule] = new], new.trigger,
               IF new.trigger # row.trigger THEN {row.trigger} ELSE {})

\* The row is gone by the time of the flush: StaleDataError, nothing committed.
UpdateLosesRow(e) ==
  /\ EditorAt(e, "update")
  /\ ~Live(ed[e].rule)
  /\ EditorTo(e, NoEditor)
  /\ UNCHANGED <<db, cache, rd, excused>>

DeleteRequest(e, r) ==
  /\ EditorAt(e, "idle")
  /\ Live(r)
  /\ EditorTo(e, [pc |-> "delete", rule |-> r, old |-> db[r].trigger])
  /\ UNCHANGED <<db, cache, rd, excused>>

\* Mutant: the delete route forgets to invalidate the cache.
CommitDeleteOnly(e) ==
  /\ EditorAt(e, "delete")
  /\ db' = [db EXCEPT ![ed[e].rule] = Deleted]
  /\ Outdate(db')
  /\ EditorTo(e, NoEditor)
  /\ UNCHANGED cache
  /\ Excuse({})

\* Deleting a row that is already gone is a warning, not an error.
CommitDelete(e) ==
  /\ EditorAt(e, "delete")
  /\ Commit(e, [db EXCEPT ![ed[e].rule] = Deleted], ed[e].old,
            IF Live(ed[e].rule) THEN {db[ed[e].rule].trigger} \ {ed[e].old} ELSE {})

InvalidateLate(e) ==
  /\ EditorAt(e, "invalidate")
  /\ EditorTo(e, NoEditor)
  /\ UNCHANGED <<db, rd>>
  /\ Invalidate(ed[e].key)

\* The worker process serving an editor or a reader stops.
EditorCrash(e) ==
  /\ "crash" \in Faults
  /\ ~EditorAt(e, "idle")
  /\ EditorTo(e, NoEditor)
  /\ UNCHANGED <<db, cache, rd>>
  /\ Excuse(IF EditorAt(e, "invalidate") THEN {ed[e].key} ELSE {})

ReaderCrash(w) ==
  /\ "crash" \in Faults
  /\ ~ReaderAt(w, "idle")
  /\ ReaderTo(w, NoReader)
  /\ UNCHANGED <<db, cache, ed, excused>>

-----------------------------------------------------------------------------
ReaderStep(w) == GetHit(w) \/ GetMiss(w) \/ GetRaises(w) \/ Query(w) \/ Store(w)

EditorStep(e) ==
  \/ CommitCreate(e) \/ InvalidateEarly(e) \/ CommitUpdate(e) \/ UpdateLosesRow(e)
  \/ CommitDelete(e) \/ InvalidateLate(e)

Request(e) ==
  \E r \in Rules :
    \/ \E row \in Row : CreateRequest(e, r, row)
    \/ \E patch \in Patch : UpdateRequest(e, r, patch)
    \/ DeleteRequest(e, r)

Next ==
  \/ \E w \in Readers : \/ \E t \in Triggers : Trigger(w, t)
                        \/ ReaderStep(w) \/ ReaderCrash(w)
  \/ \E e \in Editors : Request(e) \/ EditorStep(e) \/ EditorCrash(e)
  \/ \E t \in Triggers : Expire(t)

Spec == Init /\ [][Next]_vars

-----------------------------------------------------------------------------
(* Properties *)

\* An entry is out of date only for one of five reasons: an editor that has
\* committed is about to delete the key (transient), its deletion failed or its
\* process stopped, a reader stored what it had read before the commit, the
\* update moved the rule away after deleting the old key, or two editors
\* overlapped on one rule.  Anything else (a CRUD route that forgets its
\* invalidation, uses the wrong key, or deletes before it commits) shows here.
StaleHasCause ==
  \A t \in Triggers : Stale(t) =>
    t \in excused \/ \E e \in Editors : EditorAt(e, "invalidate") /\ ed[e].key = t

Quiet == \A e \in Editors : EditorAt(e, "idle")

Coherent == \A t \in Triggers : ~Stale(t)

\* "Should be triggered upon any rule CRUD mutations"
\* (src/app/modules/workflows/triggers.py:36), so that rules served after an
\* edit are the edited ones: when no edit is in progress the cache agrees with
\* the table, with a Redis that never fails.
CoherentWhenQuiet == Quiet => Coherent
=============================================================================
