----------------------------- MODULE RedisProofs ----------------------------
(***************************************************************************)
(* Proofs about what the processes keep in Redis.                          *)
(*                                                                         *)
(* WorkflowCache, for every number of rules, triggers, readers and         *)
(* editors, with and without faults: a cached list of rules is out of date *)
(* only for a reason that the code leaves open.                            *)
(*                                                                         *)
(* RateLimiter, for every number of workers and concurrent requests, limit *)
(* and window: no store lets more than the limit through.                  *)
(***************************************************************************)
EXTENDS WorkflowCache, RateLimiter, FiniteSetTheorems, TLAPS

-----------------------------------------------------------------------------
(* Which rules a trigger has *)

\* The row is an active rule of trigger t.
Lists(row, t) == row \notin {Unborn, Deleted} /\ row.trigger = t /\ row.content # Off

\* A change of one row changes the list of a trigger only if the row is, or was, on it.
LEMMA ActiveChange ==
  ASSUME TypeOK, NEW r \in Rules, NEW row, NEW t, ~Lists(db[r], t), ~Lists(row, t)
  PROVE  ActiveRules([db EXCEPT ![r] = row], t) = ActiveRules(db, t)
<1> DEFINE new == [db EXCEPT ![r] = row]
           On(tab) == {s \in Rules : Lists(tab[s], t)}
<1>1. On(new) = On(db) /\ \A s \in On(db) : new[s] = db[s]
  BY DEF TypeOK
<1>2. {<<s, new[s].content>> : s \in On(new)} = {<<s, db[s].content>> : s \in On(db)}
  BY <1>1
<1>3. QED
  BY <1>2 DEF ActiveRules, Lists

\* Lists of rules are what the cache holds.
LEMMA ActiveEntries ==
  ASSUME TypeOK, NEW t \in Triggers
  PROVE  ActiveRules(db, t) \in Entries
<1>1. \A s \in Rules : db[s] \notin {Unborn, Deleted} /\ db[s].content # Off => db[s].content \in Bodies
  BY DEF TypeOK, Row, Contents
<1>2. QED
  BY <1>1 DEF ActiveRules, Entries

-----------------------------------------------------------------------------
(* Types *)

\* What a reader and an editor carry at each place.
LEMMA ReaderShape ==
  ASSUME TypeOK, NEW w \in Readers
  PROVE  /\ ReaderAt(w, "get") => rd[w].key \in Triggers
         /\ ReaderAt(w, "query") => rd[w].key \in Triggers /\ rd[w].store \in BOOLEAN
         /\ ReaderAt(w, "store") =>
              /\ rd[w] \in [pc : {"store"}, key : Triggers, got : Entries, late : BOOLEAN]
              /\ rd[w].key \in Triggers /\ rd[w].got \in Entries /\ rd[w].late \in BOOLEAN
<1>1. rd[w] \in ReaderStates
  BY DEF TypeOK
<1>2. QED
  BY <1>1 DEF ReaderStates, ReaderAt, NoReader

\* What an editor carries at each await.
LEMMA EditorShape ==
  ASSUME TypeOK, NEW e \in Editors
  PROVE  /\ EditorAt(e, "create") => ed[e].rule \in Rules /\ ed[e].new \in Row
         /\ EditorAt(e, "early") \/ EditorAt(e, "update") =>
              /\ ed[e] \in [pc : {"early", "update"}, rule : Rules, old : Row, patch : Patch]
              /\ ed[e].rule \in Rules /\ ed[e].old \in Row /\ ed[e].patch \in Patch
         /\ EditorAt(e, "delete") => ed[e].rule \in Rules /\ ed[e].old \in Triggers
         /\ EditorAt(e, "invalidate") => ed[e].key \in Triggers
<1>1. ed[e] \in EditorStates
  BY DEF TypeOK
<1>2. QED
  BY <1>1 DEF EditorStates, EditorAt, NoEditor

\* A reader and an editor that move on are readers and editors still.
LEMMA ReaderToTypes ==
  ASSUME TypeOK, NEW w \in Readers, NEW s \in ReaderStates, ReaderTo(w, s)
  PROVE  rd' \in [Readers -> ReaderStates]
BY DEF TypeOK, ReaderTo

\* An editor that moves on is an editor still.
LEMMA EditorToTypes ==
  ASSUME TypeOK, NEW e \in Editors, NEW s \in EditorStates, EditorTo(e, s)
  PROVE  ed' \in [Editors -> EditorStates]
BY DEF TypeOK, EditorTo

\* Marking results as outdated keeps the readers well typed.
LEMMA OutdateTypes ==
  ASSUME TypeOK, NEW table, Outdate(table)
  PROVE  rd' \in [Readers -> ReaderStates]
<1> SUFFICES ASSUME NEW w \in Readers
             PROVE  IF ReaderAt(w, "store") /\ ActiveRules(table, rd[w].key) # rd[w].got
                    THEN [rd[w] EXCEPT !.late = TRUE] \in ReaderStates ELSE rd[w] \in ReaderStates
  BY DEF Outdate
<1>1. CASE ReaderAt(w, "store")
  <2>1. [rd[w] EXCEPT !.late = TRUE] \in [pc : {"store"}, key : Triggers, got : Entries, late : BOOLEAN]
    BY <1>1, ReaderShape
  <2>2. QED
    BY <2>1 DEF ReaderStates, TypeOK
<1>2. QED
  BY <1>1 DEF TypeOK

\* Redis keeps its keys, and what is excused are keys.
LEMMA InvalidateTypes ==
  ASSUME TypeOK, NEW t \in Triggers, Invalidate(t)
  PROVE  cache' \in [Triggers -> {Miss} \cup Entries] /\ excused' \subseteq Triggers
<1>1. cache' \in [Triggers -> {Miss} \cup Entries]
  BY DEF Invalidate, TypeOK
<1>2. excused' \subseteq excused \cup {t}
  BY DEF Invalidate, Excuse
<1>3. QED
  BY <1>1, <1>2 DEF TypeOK

\* The commit of an editor keeps the types if what it commits and deletes is typed.
LEMMA CommitTypes ==
  ASSUME TypeOK, NEW e \in Editors, NEW table \in [Rules -> Row \cup {Unborn, Deleted}],
         NEW key \in Triggers, NEW unkept \in SUBSET Triggers, Commit(e, table, key, unkept)
  PROVE  TypeOK'
<1>1. [pc |-> "invalidate", key |-> key] \in EditorStates
  BY DEF EditorStates
<1>2. ed' \in [Editors -> EditorStates]
  BY <1>1, EditorToTypes DEF Commit
<1>3. rd' \in [Readers -> ReaderStates]
  BY OutdateTypes DEF Commit
<1>4. excused' \subseteq Triggers
  BY DEF Commit, Excuse, TypeOK
<1>5. QED
  BY <1>2, <1>3, <1>4 DEF Commit, TypeOK

\* What an update makes of a row is a row.
LEMMA PatchedRow ==
  ASSUME NEW row \in Row, NEW old \in Row, NEW patch \in Patch
  PROVE  Patched(row, old, patch) \in Row
BY DEF Patched, Row, Patch

\* Every step keeps the types.
LEMMA TypesStep ==
  ASSUME TypeOK, [Next]_vars
  PROVE  TypeOK'
<1>1. ASSUME NEW w \in Readers, NEW t \in Triggers, Trigger(w, t) PROVE TypeOK'
  <2>1. [pc |-> "get", key |-> t] \in ReaderStates
    BY DEF ReaderStates
  <2>2. QED
    BY <1>1, <2>1, ReaderToTypes DEF Trigger, TypeOK
<1>2. ASSUME NEW w \in Readers, GetHit(w) \/ ReaderCrash(w) PROVE TypeOK'
  <2>1. NoReader \in ReaderStates
    BY DEF ReaderStates
  <2>2. QED
    BY <1>2, <2>1, ReaderToTypes DEF GetHit, ReaderCrash, TypeOK
<1>3. ASSUME NEW w \in Readers, GetMiss(w) \/ GetRaises(w) PROVE TypeOK'
  <2>1. rd[w].key \in Triggers
    BY <1>3, ReaderShape DEF GetMiss, GetRaises
  <2>2. /\ [pc |-> "query", key |-> rd[w].key, store |-> TRUE] \in ReaderStates
        /\ [pc |-> "query", key |-> rd[w].key, store |-> FALSE] \in ReaderStates
    BY <2>1 DEF ReaderStates
  <2>3. rd' \in [Readers -> ReaderStates]
    BY <1>3, <2>2, ReaderToTypes DEF GetMiss, GetRaises
  <2>4. QED
    BY <1>3, <2>3 DEF GetMiss, GetRaises, TypeOK
<1>4. ASSUME NEW w \in Readers, Query(w) PROVE TypeOK'
  <2>1. rd[w].key \in Triggers /\ ActiveRules(db, rd[w].key) \in Entries
    BY <1>4, ReaderShape, ActiveEntries DEF Query
  <2>2. [pc |-> "store", key |-> rd[w].key, got |-> ActiveRules(db, rd[w].key), late |-> FALSE] \in ReaderStates
    BY <2>1 DEF ReaderStates
  <2>3. NoReader \in ReaderStates
    BY DEF ReaderStates
  <2>4. rd' \in [Readers -> ReaderStates]
    BY <1>4, <2>2, <2>3, ReaderToTypes DEF Query
  <2>5. QED
    BY <1>4, <2>4 DEF Query, TypeOK
<1>5. ASSUME NEW w \in Readers, Store(w) PROVE TypeOK'
  <2>1. rd[w].key \in Triggers /\ rd[w].got \in Entries
    BY <1>5, ReaderShape DEF Store
  <2>2. NoReader \in ReaderStates
    BY DEF ReaderStates
  <2>3. rd' \in [Readers -> ReaderStates]
    BY <1>5, <2>2, ReaderToTypes DEF Store
  <2>4. cache' \in [Triggers -> {Miss} \cup Entries]
    BY <1>5, <2>1 DEF Store, TypeOK
  <2>5. excused' \subseteq Triggers
    <3>1. excused' \subseteq excused \cup {rd[w].key}
      BY <1>5 DEF Store, Excuse
    <3>2. QED
      BY <2>1, <3>1 DEF TypeOK
  <2>6. QED
    BY <1>5, <2>3, <2>4, <2>5 DEF Store, TypeOK
<1>6. ASSUME NEW e \in Editors, Request(e) PROVE TypeOK'
  <2>1. PICK r \in Rules : \/ \E row \in Row : CreateRequest(e, r, row)
                           \/ \E patch \in Patch : UpdateRequest(e, r, patch)
                           \/ DeleteRequest(e, r)
    BY <1>6 DEF Request
  <2>2. Live(r) => db[r] \in Row /\ db[r].trigger \in Triggers
    BY DEF Live, TypeOK, Row
  <2>3. ASSUME NEW row \in Row, CreateRequest(e, r, row) PROVE TypeOK'
    <3>1. [pc |-> "create", rule |-> r, new |-> row] \in EditorStates
      BY DEF EditorStates
    <3>2. QED
      BY <2>3, <3>1, EditorToTypes DEF CreateRequest, TypeOK
  <2>4. ASSUME NEW patch \in Patch, UpdateRequest(e, r, patch) PROVE TypeOK'
    <3>1. [pc |-> IF patch.trigger = Keep THEN "update" ELSE "early",
           rule |-> r, old |-> db[r], patch |-> patch] \in EditorStates
      BY <2>2, <2>4 DEF EditorStates, UpdateRequest
    <3>2. QED
      BY <2>4, <3>1, EditorToTypes DEF UpdateRequest, TypeOK
  <2>5. ASSUME DeleteRequest(e, r) PROVE TypeOK'
    <3>1. [pc |-> "delete", rule |-> r, old |-> db[r].trigger] \in EditorStates
      BY <2>2, <2>5 DEF EditorStates, DeleteRequest
    <3>2. QED
      BY <2>5, <3>1, EditorToTypes DEF DeleteRequest, TypeOK
  <2>6. QED
    BY <2>1, <2>3, <2>4, <2>5
<1>7. ASSUME NEW e \in Editors, CommitCreate(e) PROVE TypeOK'
  <2>1. ed[e].rule \in Rules /\ ed[e].new \in Row /\ ed[e].new.trigger \in Triggers
    BY <1>7, EditorShape DEF CommitCreate, Row
  <2>2. [db EXCEPT ![ed[e].rule] = ed[e].new] \in [Rules -> Row \cup {Unborn, Deleted}]
    BY <2>1 DEF TypeOK
  <2>3. Commit(e, [db EXCEPT ![ed[e].rule] = ed[e].new], ed[e].new.trigger, {}) /\ {} \in SUBSET Triggers
    BY <1>7 DEF CommitCreate
  <2>4. QED
    BY <2>1, <2>2, <2>3, CommitTypes
<1>8. ASSUME NEW e \in Editors, InvalidateEarly(e) PROVE TypeOK'
  <2>1. /\ ed[e] \in [pc : {"early", "update"}, rule : Rules, old : Row, patch : Patch]
        /\ ed[e].old.trigger \in Triggers
    BY <1>8, EditorShape DEF InvalidateEarly, Row
  <2>2. [ed[e] EXCEPT !.pc = "update"] \in EditorStates
    BY <2>1 DEF EditorStates
  <2>3. QED
    BY <1>8, <2>1, <2>2, EditorToTypes, InvalidateTypes DEF InvalidateEarly, TypeOK
<1>9. ASSUME NEW e \in Editors, CommitUpdate(e) PROVE TypeOK'
  <2> DEFINE row == db[ed[e].rule]
             new == Patched(row, ed[e].old, ed[e].patch)
  <2>1. /\ ed[e].rule \in Rules /\ ed[e].old \in Row /\ ed[e].patch \in Patch
        /\ row \in Row
    BY <1>9, EditorShape DEF CommitUpdate, Live, TypeOK
  <2>2. new \in Row /\ new.trigger \in Triggers /\ row.trigger \in Triggers
    BY <2>1, PatchedRow DEF Row
  <2>3. [db EXCEPT ![ed[e].rule] = new] \in [Rules -> Row \cup {Unborn, Deleted}]
    BY <2>1, <2>2 DEF TypeOK
  <2>4. Commit(e, [db EXCEPT ![ed[e].rule] = new], new.trigger,
               IF new.trigger # row.trigger THEN {row.trigger} ELSE {})
    BY <1>9 DEF CommitUpdate
  <2>5. (IF new.trigger # row.trigger THEN {row.trigger} ELSE {}) \in SUBSET Triggers
    BY <2>2
  <2> HIDE DEF new, row
  <2>6. QED
    BY <2>2, <2>3, <2>4, <2>5, CommitTypes
<1>10. ASSUME NEW e \in Editors, UpdateLosesRow(e) PROVE TypeOK'
  <2>1. NoEditor \in EditorStates
    BY DEF EditorStates
  <2>2. QED
    BY <1>10, <2>1, EditorToTypes DEF UpdateLosesRow, TypeOK
<1>11. ASSUME NEW e \in Editors, CommitDelete(e) PROVE TypeOK'
  <2> DEFINE unkept == IF Live(ed[e].rule) THEN {db[ed[e].rule].trigger} \ {ed[e].old} ELSE {}
  <2>1. ed[e].rule \in Rules /\ ed[e].old \in Triggers
    BY <1>11, EditorShape DEF CommitDelete
  <2>2. [db EXCEPT ![ed[e].rule] = Deleted] \in [Rules -> Row \cup {Unborn, Deleted}]
    BY <2>1 DEF TypeOK
  <2>3. unkept \in SUBSET Triggers
    BY <2>1 DEF Live, TypeOK, Row
  <2>4. Commit(e, [db EXCEPT ![ed[e].rule] = Deleted], ed[e].old, unkept)
    BY <1>11 DEF CommitDelete
  <2> HIDE DEF unkept
  <2>5. QED
    BY <2>1, <2>2, <2>3, <2>4, CommitTypes
<1>12. ASSUME NEW e \in Editors, InvalidateLate(e) PROVE TypeOK'
  <2>1. ed[e].key \in Triggers
    BY <1>12, EditorShape DEF InvalidateLate
  <2>2. NoEditor \in EditorStates
    BY DEF EditorStates
  <2>3. QED
    BY <1>12, <2>1, <2>2, EditorToTypes, InvalidateTypes DEF InvalidateLate, TypeOK
<1>13. ASSUME NEW e \in Editors, EditorCrash(e) PROVE TypeOK'
  <2>1. NoEditor \in EditorStates
    BY DEF EditorStates
  <2>2. EditorAt(e, "invalidate") => ed[e].key \in Triggers
    BY EditorShape
  <2>3. excused' \subseteq excused \cup (IF EditorAt(e, "invalidate") THEN {ed[e].key} ELSE {})
    BY <1>13 DEF EditorCrash, Excuse
  <2>4. excused' \subseteq Triggers
    BY <2>2, <2>3 DEF TypeOK
  <2>5. QED
    BY <1>13, <2>1, <2>4, EditorToTypes DEF EditorCrash, TypeOK
<1>14. ASSUME NEW t \in Triggers, Expire(t) PROVE TypeOK'
  <2>1. excused' \subseteq excused
    BY <1>14 DEF Expire, Excuse
  <2>2. QED
    BY <1>14, <2>1 DEF Expire, TypeOK
<1>15. CASE UNCHANGED vars
  BY <1>15 DEF vars, TypeOK
<1>16. QED
  BY <1>1, <1>2, <1>3, <1>4, <1>5, <1>6, <1>7, <1>8, <1>9, <1>10, <1>11, <1>12, <1>13, <1>14, <1>15
     DEF Next, ReaderStep, EditorStep

\* Every state of the table, the cache, the readers and the editors is well typed.
THEOREM CacheTypeOK == Spec => []TypeOK
<1>1. Init => TypeOK
  BY DEF Init, TypeOK, ReaderStates, EditorStates
<1>2. TypeOK /\ [Next]_vars => TypeOK'
  BY TypesStep
<1>3. QED
  BY <1>1, <1>2, PTL DEF Spec

-----------------------------------------------------------------------------
(* What is stale has a cause *)

\* A result that no reader has been told is outdated is what the table says.
LateKnown ==
  \A w \in Readers : ReaderAt(w, "store") /\ ~rd[w].late => rd[w].got = ActiveRules(db, rd[w].key)

\* A rule that is being created is not in the table, and nobody else is creating it.
CreatesApart ==
  \A e \in Editors : EditorAt(e, "create") =>
    /\ ~Live(ed[e].rule)
    /\ \A f \in Editors \ {e} : EditorAt(f, "create") => ed[f].rule # ed[e].rule

\* Moving on changes nobody else.
LEMMA EditorToOthers ==
  ASSUME TypeOK, NEW e \in Editors, NEW s, EditorTo(e, s)
  PROVE  ed'[e] = s /\ \A f \in Editors \ {e} : ed'[f] = ed[f]
BY DEF TypeOK, EditorTo

\* A reader that moves on changes no other reader.
LEMMA ReaderToOthers ==
  ASSUME TypeOK, NEW w \in Readers, NEW s, ReaderTo(w, s)
  PROVE  rd'[w] = s /\ \A v \in Readers \ {w} : rd'[v] = rd[v]
BY DEF TypeOK, ReaderTo

\* An excuse lasts as long as the entry is stale.
LEMMA ExcuseKeeps ==
  ASSUME NEW more, Excuse(more), NEW t \in excused \cup more, cache'[t] # Miss, cache'[t] # ActiveRules(db', t)
  PROVE  t \in excused'
BY DEF Excuse

\* A commit leaves an excuse or an editor behind for every list that it changes.
LEMMA CommitCause ==
  ASSUME TypeOK, StaleHasCause, NEW e \in Editors, ~EditorAt(e, "invalidate"), NEW table, NEW key,
         NEW unkept, Commit(e, table, key, unkept),
         \A t \in Triggers : t # key /\ t \notin unkept => ActiveRules(table, t) = ActiveRules(db, t)
  PROVE  StaleHasCause'
<1> SUFFICES ASSUME NEW t \in Triggers, cache'[t] # Miss, cache'[t] # ActiveRules(db', t)
             PROVE  t \in excused' \/ \E f \in Editors : ed'[f].pc = "invalidate" /\ ed'[f].key = t
  BY DEF StaleHasCause, Stale, EditorAt
<1>1. db' = table /\ cache' = cache /\ Excuse(unkept)
  BY DEF Commit
<1>2. /\ ed'[e].pc = "invalidate" /\ ed'[e].key = key
      /\ \A f \in Editors \ {e} : ed'[f] = ed[f]
  BY EditorToOthers DEF Commit
<1>3. CASE t = key
  BY <1>2, <1>3
<1>4. CASE t \in unkept
  BY <1>1, <1>4, ExcuseKeeps
<1>5. CASE t # key /\ t \notin unkept
  <2>1. Stale(t)
    BY <1>1, <1>5 DEF Stale
  <2>2. CASE t \in excused
    BY <1>1, <2>2, ExcuseKeeps
  <2>3. CASE \E f \in Editors : EditorAt(f, "invalidate") /\ ed[f].key = t
    BY <1>2, <2>3 DEF EditorAt
  <2>4. QED
    BY <2>1, <2>2, <2>3 DEF StaleHasCause
<1>6. QED
  BY <1>3, <1>4, <1>5

\* A step that touches neither the table nor the editors about to delete a key keeps
\* the causes, if it stores nothing that is not excused.
LEMMA QuietCause ==
  ASSUME StaleHasCause, db' = db, NEW more, Excuse(more),
         \A t \in Triggers : cache'[t] = cache[t] \/ cache'[t] = Miss \/ cache'[t] = ActiveRules(db, t)
                             \/ t \in more,
         \A f \in Editors : EditorAt(f, "invalidate") =>
           \/ ed'[f] = ed[f]
           \/ ed[f].key \in more \/ cache'[ed[f].key] = Miss
  PROVE  StaleHasCause'
<1> SUFFICES ASSUME NEW t \in Triggers, cache'[t] # Miss, cache'[t] # ActiveRules(db', t)
             PROVE  t \in excused' \/ \E f \in Editors : ed'[f].pc = "invalidate" /\ ed'[f].key = t
  BY DEF StaleHasCause, Stale, EditorAt
<1>1. CASE t \in more
  BY <1>1, ExcuseKeeps
<1>2. CASE t \notin more
  <2>1. Stale(t)
    BY <1>2 DEF Stale
  <2>2. CASE t \in excused
    BY <2>2, ExcuseKeeps
  <2>3. ASSUME NEW f \in Editors, EditorAt(f, "invalidate"), ed[f].key = t
        PROVE  ed'[f].pc = "invalidate" /\ ed'[f].key = t
    BY <1>2, <2>3 DEF EditorAt
  <2>4. QED
    BY <2>1, <2>2, <2>3 DEF StaleHasCause
<1>3. QED
  BY <1>1, <1>2

\* Nothing stale comes or goes.
LEMMA StillCause ==
  ASSUME StaleHasCause, db' = db, cache' = cache, excused' = excused,
         \A f \in Editors : EditorAt(f, "invalidate") => ed'[f] = ed[f]
  PROVE  StaleHasCause'
<1> SUFFICES ASSUME NEW t \in Triggers, cache'[t] # Miss, cache'[t] # ActiveRules(db', t)
             PROVE  t \in excused' \/ \E f \in Editors : ed'[f].pc = "invalidate" /\ ed'[f].key = t
  BY DEF StaleHasCause, Stale, EditorAt
<1>1. Stale(t)
  BY DEF Stale
<1>2. QED
  BY <1>1 DEF StaleHasCause, EditorAt

\* Every step leaves a cause for everything stale.
LEMMA CauseStep ==
  ASSUME TypeOK, LateKnown, CreatesApart, StaleHasCause, [Next]_vars
  PROVE  StaleHasCause'
<1>1. ASSUME NEW w \in Readers,
             \/ \E t \in Triggers : Trigger(w, t)
             \/ GetHit(w) \/ GetMiss(w) \/ GetRaises(w) \/ Query(w) \/ ReaderCrash(w)
      PROVE  StaleHasCause'
  BY <1>1, StillCause DEF Trigger, GetHit, GetMiss, GetRaises, Query, ReaderCrash
<1>2. ASSUME NEW w \in Readers, Store(w) PROVE StaleHasCause'
  <2> DEFINE more == IF rd[w].late THEN {rd[w].key} ELSE {}
  <2>1. Excuse(more) /\ db' = db /\ ed' = ed
    BY <1>2 DEF Store
  <2>2. rd[w].key \in Triggers /\ (rd[w].late \/ rd[w].got = ActiveRules(db, rd[w].key))
    BY <1>2, ReaderShape DEF Store, LateKnown
  <2>3. cache' = cache \/ cache' = [cache EXCEPT ![rd[w].key] = rd[w].got]
    BY <1>2 DEF Store
  <2>4. \A t \in Triggers : cache'[t] = cache[t] \/ cache'[t] = Miss \/ cache'[t] = ActiveRules(db, t)
                            \/ t \in more
    BY <2>2, <2>3 DEF TypeOK
  <2> HIDE DEF more
  <2>5. QED
    BY <2>1, <2>4, QuietCause
<1>3. ASSUME NEW e \in Editors, Request(e) PROVE StaleHasCause'
  <2>1. ~EditorAt(e, "invalidate") /\ db' = db /\ cache' = cache /\ excused' = excused
    BY <1>3 DEF Request, CreateRequest, UpdateRequest, DeleteRequest, EditorAt
  <2>2. \A f \in Editors \ {e} : ed'[f] = ed[f]
    BY <1>3, EditorToOthers DEF Request, CreateRequest, UpdateRequest, DeleteRequest
  <2>3. QED
    BY <2>1, <2>2, StillCause
<1>4. ASSUME NEW e \in Editors, CommitCreate(e) PROVE StaleHasCause'
  <2>1. /\ ed[e].rule \in Rules /\ ed[e].new \in Row /\ ~Live(ed[e].rule) /\ ~EditorAt(e, "invalidate")
        /\ db \in [Rules -> Row \cup {Unborn, Deleted}]
    BY <1>4, EditorShape DEF CommitCreate, CreatesApart, EditorAt, TypeOK
  <2>2. Commit(e, [db EXCEPT ![ed[e].rule] = ed[e].new], ed[e].new.trigger, {})
    BY <1>4 DEF CommitCreate
  <2>3. \A t \in Triggers : t # ed[e].new.trigger =>
          ~Lists(db[ed[e].rule], t) /\ ~Lists(ed[e].new, t)
    BY <2>1 DEF Lists, Live
  <2>4. ASSUME NEW t \in Triggers, t # ed[e].new.trigger
        PROVE  ActiveRules([db EXCEPT ![ed[e].rule] = ed[e].new], t) = ActiveRules(db, t)
    BY <2>1, <2>3, <2>4, ActiveChange
  <2> DEFINE table == [db EXCEPT ![ed[e].rule] = ed[e].new]
             key == ed[e].new.trigger
  <2>5. \A t \in Triggers : t # key /\ t \notin {} => ActiveRules(table, t) = ActiveRules(db, t)
    BY <2>4
  <2>6. Commit(e, table, key, {})
    BY <2>2
  <2> HIDE DEF table, key
  <2>7. QED
    BY <2>1, <2>5, <2>6, CommitCause
<1>5. ASSUME NEW e \in Editors, CommitUpdate(e) PROVE StaleHasCause'
  <2> DEFINE row == db[ed[e].rule]
             new == Patched(row, ed[e].old, ed[e].patch)
             unkept == IF new.trigger # row.trigger THEN {row.trigger} ELSE {}
  <2>1. /\ ed[e].rule \in Rules /\ ~EditorAt(e, "invalidate")
        /\ db \in [Rules -> Row \cup {Unborn, Deleted}]
    BY <1>5, EditorShape DEF CommitUpdate, EditorAt, TypeOK
  <2>2. Commit(e, [db EXCEPT ![ed[e].rule] = new], new.trigger, unkept)
    BY <1>5 DEF CommitUpdate
  <2> HIDE DEF new
  <2>3. \A t \in Triggers : t # new.trigger /\ t \notin unkept =>
          ~Lists(db[ed[e].rule], t) /\ ~Lists(new, t)
    BY DEF Lists
  <2>4. ASSUME NEW t \in Triggers, t # new.trigger, t \notin unkept
        PROVE  ActiveRules([db EXCEPT ![ed[e].rule] = new], t) = ActiveRules(db, t)
    BY <2>1, <2>3, <2>4, ActiveChange
  <2> HIDE DEF unkept
  <2>5. QED
    BY <2>1, <2>2, <2>4, CommitCause
<1>6. ASSUME NEW e \in Editors, CommitDelete(e) PROVE StaleHasCause'
  <2> DEFINE unkept == IF Live(ed[e].rule) THEN {db[ed[e].rule].trigger} \ {ed[e].old} ELSE {}
  <2>1. /\ ed[e].rule \in Rules /\ ~EditorAt(e, "invalidate")
        /\ db \in [Rules -> Row \cup {Unborn, Deleted}]
    BY <1>6, EditorShape DEF CommitDelete, EditorAt, TypeOK
  <2>2. Commit(e, [db EXCEPT ![ed[e].rule] = Deleted], ed[e].old, unkept)
    BY <1>6 DEF CommitDelete
  <2>3. \A t \in Triggers : t # ed[e].old /\ t \notin unkept =>
          ~Lists(db[ed[e].rule], t) /\ ~Lists(Deleted, t)
    BY DEF Lists, Live
  <2>4. ASSUME NEW t \in Triggers, t # ed[e].old, t \notin unkept
        PROVE  ActiveRules([db EXCEPT ![ed[e].rule] = Deleted], t) = ActiveRules(db, t)
    BY <2>1, <2>3, <2>4, ActiveChange
  <2> HIDE DEF unkept
  <2>5. QED
    BY <2>1, <2>2, <2>4, CommitCause
<1>7. ASSUME NEW e \in Editors, InvalidateEarly(e) \/ InvalidateLate(e) PROVE StaleHasCause'
  <2>1. PICK t \in Triggers : /\ Invalidate(t) /\ db' = db
                              /\ EditorAt(e, "invalidate") => ed[e].key = t
    BY <1>7, EditorShape DEF InvalidateEarly, InvalidateLate, Row, EditorAt
  <2>2. PICK more : /\ Excuse(more) /\ more \subseteq {t}
                    /\ \/ cache' = [cache EXCEPT ![t] = Miss]
                       \/ cache' = cache /\ more = {t}
    BY <2>1 DEF Invalidate
  <2>3. \A f \in Editors \ {e} : ed'[f] = ed[f]
    BY <1>7, EditorToOthers DEF InvalidateEarly, InvalidateLate
  <2>4. \A u \in Triggers : cache'[u] = cache[u] \/ cache'[u] = Miss
    BY <2>2 DEF TypeOK
  <2>5. \A f \in Editors : EditorAt(f, "invalidate") =>
           ed'[f] = ed[f] \/ ed[f].key \in more \/ cache'[ed[f].key] = Miss
    BY <2>1, <2>2, <2>3 DEF TypeOK
  <2>6. QED
    BY <2>1, <2>2, <2>4, <2>5, QuietCause
<1>8. ASSUME NEW e \in Editors, UpdateLosesRow(e) PROVE StaleHasCause'
  <2>1. ~EditorAt(e, "invalidate") /\ db' = db /\ cache' = cache /\ excused' = excused
    BY <1>8 DEF UpdateLosesRow, EditorAt
  <2>2. \A f \in Editors \ {e} : ed'[f] = ed[f]
    BY <1>8, EditorToOthers DEF UpdateLosesRow
  <2>3. QED
    BY <2>1, <2>2, StillCause
<1>9. ASSUME NEW e \in Editors, EditorCrash(e) PROVE StaleHasCause'
  <2> DEFINE more == IF EditorAt(e, "invalidate") THEN {ed[e].key} ELSE {}
  <2>1. Excuse(more) /\ db' = db /\ cache' = cache
    BY <1>9 DEF EditorCrash
  <2>2. \A f \in Editors \ {e} : ed'[f] = ed[f]
    BY <1>9, EditorToOthers DEF EditorCrash
  <2>3. \A f \in Editors : EditorAt(f, "invalidate") => ed'[f] = ed[f] \/ ed[f].key \in more
    BY <2>2
  <2> HIDE DEF more
  <2>4. QED
    BY <2>1, <2>3, QuietCause
<1>10. ASSUME NEW t \in Triggers, Expire(t) PROVE StaleHasCause'
  <2>1. Excuse({}) /\ db' = db /\ ed' = ed
    BY <1>10 DEF Expire
  <2>2. \A u \in Triggers : cache'[u] = cache[u] \/ cache'[u] = Miss
    BY <1>10 DEF Expire, TypeOK
  <2>3. QED
    BY <2>1, <2>2, QuietCause
<1>11. CASE UNCHANGED vars
  BY <1>11, StillCause DEF vars
<1>12. QED
  BY <1>1, <1>2, <1>3, <1>4, <1>5, <1>6, <1>7, <1>8, <1>9, <1>10, <1>11 DEF Next, ReaderStep, EditorStep

\* A commit tells the readers whose result it outdates.
LEMMA LateStep ==
  ASSUME TypeOK, LateKnown, [Next]_vars
  PROVE  LateKnown'
<1> SUFFICES ASSUME NEW w \in Readers, rd'[w].pc = "store", ~rd'[w].late
             PROVE  rd'[w].got = ActiveRules(db', rd'[w].key)
  BY DEF LateKnown, ReaderAt
<1>1. CASE db' = db /\ rd'[w] = rd[w]
  BY <1>1 DEF LateKnown, ReaderAt
<1>2. ASSUME NEW table, db' = table, Outdate(table) PROVE rd'[w].got = ActiveRules(db', rd'[w].key)
  <2>1. rd'[w] = IF ReaderAt(w, "store") /\ ActiveRules(table, rd[w].key) # rd[w].got
                 THEN [rd[w] EXCEPT !.late = TRUE] ELSE rd[w]
    BY <1>2 DEF Outdate
  <2>2. CASE ReaderAt(w, "store") /\ ActiveRules(table, rd[w].key) # rd[w].got
    <3>1. rd'[w].late = TRUE
      BY <2>1, <2>2, ReaderShape
    <3>2. QED
      BY <3>1
  <2>3. CASE ~(ReaderAt(w, "store") /\ ActiveRules(table, rd[w].key) # rd[w].got)
    BY <1>2, <2>1, <2>3 DEF ReaderAt
  <2>4. QED
    BY <2>2, <2>3
<1>3. ASSUME NEW e \in Editors, CommitCreate(e) \/ CommitUpdate(e) \/ CommitDelete(e)
      PROVE  rd'[w].got = ActiveRules(db', rd'[w].key)
  <2>1. \E table : db' = table /\ Outdate(table)
    BY <1>3 DEF CommitCreate, CommitUpdate, CommitDelete, Commit
  <2>2. QED
    BY <1>2, <2>1
<1>4. ASSUME NEW v \in Readers,
             \/ \E t \in Triggers : Trigger(v, t)
             \/ GetHit(v) \/ GetMiss(v) \/ GetRaises(v) \/ Query(v) \/ Store(v) \/ ReaderCrash(v)
      PROVE  rd'[w].got = ActiveRules(db', rd'[w].key)
  <2>1. db' = db
    BY <1>4 DEF Trigger, GetHit, GetMiss, GetRaises, Query, Store, ReaderCrash
  <2>2. CASE v # w
    <3>1. rd'[w] = rd[w]
      BY <1>4, <2>2, ReaderToOthers
         DEF Trigger, GetHit, GetMiss, GetRaises, Query, Store, ReaderCrash
    <3>2. QED
      BY <1>1, <2>1, <3>1
  <2>3. CASE v = w
    <3>1. ASSUME Query(w) PROVE rd'[w].got = ActiveRules(db', rd'[w].key)
      <4>1. rd'[w] = IF rd[w].store
                     THEN [pc |-> "store", key |-> rd[w].key,
                           got |-> ActiveRules(db, rd[w].key), late |-> FALSE]
                     ELSE NoReader
        BY <3>1, ReaderToOthers DEF Query
      <4>2. QED
        BY <2>1, <4>1 DEF NoReader
    <3>2. ASSUME \/ \E t \in Triggers : Trigger(w, t)
                 \/ GetHit(w) \/ GetMiss(w) \/ GetRaises(w) \/ Store(w) \/ ReaderCrash(w)
          PROVE  FALSE
      BY <3>2 DEF Trigger, GetHit, GetMiss, GetRaises, Store, ReaderCrash, ReaderTo, NoReader, TypeOK
    <3>3. QED
      BY <1>4, <2>3, <3>1, <3>2
  <2>4. QED
    BY <2>2, <2>3
<1>5. ASSUME NEW e \in Editors,
             Request(e) \/ InvalidateEarly(e) \/ UpdateLosesRow(e) \/ InvalidateLate(e) \/ EditorCrash(e)
      PROVE  db' = db /\ rd' = rd
  BY <1>5 DEF Request, CreateRequest, UpdateRequest, DeleteRequest, InvalidateEarly, UpdateLosesRow,
              InvalidateLate, EditorCrash
<1>6. ASSUME NEW t \in Triggers, Expire(t) PROVE db' = db /\ rd' = rd
  BY <1>6 DEF Expire
<1>7. CASE UNCHANGED vars
  BY <1>1, <1>7 DEF vars
<1>8. QED
  BY <1>1, <1>3, <1>4, <1>5, <1>6, <1>7 DEF Next, ReaderStep, EditorStep

\* Only the editor that creates a rule puts it into the table.
LEMMA CreatesStep ==
  ASSUME TypeOK, CreatesApart, [Next]_vars
  PROVE  CreatesApart'
<1>1. ASSUME NEW e \in Editors, NEW s, EditorTo(e, s), s.pc # "create",
             \A f \in Editors \ {e} : EditorAt(f, "create") => db'[ed[f].rule] = db[ed[f].rule]
                                                      \/ db'[ed[f].rule] = Deleted
      PROVE  CreatesApart'
  <2>1. ed'[e] = s /\ \A f \in Editors \ {e} : ed'[f] = ed[f]
    BY <1>1, EditorToOthers
  <2>2. QED
    BY <1>1, <2>1 DEF CreatesApart, EditorAt, Live
<1>2. CASE db' = db /\ ed' = ed
  BY <1>2 DEF CreatesApart, EditorAt, Live
<1>3. ASSUME NEW w \in Readers,
             (\E t \in Triggers : Trigger(w, t)) \/ ReaderStep(w) \/ ReaderCrash(w)
      PROVE  db' = db /\ ed' = ed
  BY <1>3 DEF Trigger, ReaderStep, GetHit, GetMiss, GetRaises, Query, Store, ReaderCrash
<1>4. ASSUME NEW e \in Editors, NEW r \in Rules, NEW row \in Row, CreateRequest(e, r, row)
      PROVE  CreatesApart'
  <2>1. /\ ed'[e] = [pc |-> "create", rule |-> r, new |-> row]
        /\ \A f \in Editors \ {e} : ed'[f] = ed[f]
    BY <1>4, EditorToOthers DEF CreateRequest
  <2>2. db' = db /\ ~Live(r) /\ \A f \in Editors : EditorAt(f, "create") => ed[f].rule # r
    BY <1>4 DEF CreateRequest, Live, EditorAt
  <2>3. QED
    BY <2>1, <2>2 DEF CreatesApart, EditorAt, Live
<1>5. ASSUME NEW e \in Editors, NEW r \in Rules,
             (\E patch \in Patch : UpdateRequest(e, r, patch)) \/ DeleteRequest(e, r)
      PROVE  CreatesApart'
  <2>1. \E s : EditorTo(e, s) /\ s.pc # "create" /\ db' = db
    BY <1>5 DEF UpdateRequest, DeleteRequest
  <2>2. QED
    BY <1>1, <2>1
<1>6. ASSUME NEW e \in Editors, CommitCreate(e) \/ CommitUpdate(e) \/ CommitDelete(e)
      PROVE  CreatesApart'
  <2>1. ed[e].rule \in Rules /\ db \in [Rules -> Row \cup {Unborn, Deleted}]
    BY <1>6, EditorShape DEF CommitCreate, CommitUpdate, CommitDelete, TypeOK
  <2>2. PICK row, key : /\ EditorTo(e, [pc |-> "invalidate", key |-> key])
                        /\ db' = [db EXCEPT ![ed[e].rule] = row]
                        /\ CommitDelete(e) => row = Deleted
    BY <1>6 DEF CommitCreate, CommitUpdate, CommitDelete, Commit
  <2>3. ASSUME NEW f \in Editors \ {e}, EditorAt(f, "create")
        PROVE  db'[ed[f].rule] = db[ed[f].rule] \/ db'[ed[f].rule] = Deleted
    <3>1. ed[f].rule \in Rules
      BY <2>3, EditorShape
    <3>2. CASE CommitDelete(e)
      BY <2>1, <2>2, <3>1, <3>2
    <3>3. CASE CommitCreate(e)
      <4>1. ed[f].rule # ed[e].rule
        BY <2>3, <3>3 DEF CommitCreate, CreatesApart
      <4>2. QED
        BY <2>1, <2>2, <3>1, <4>1
    <3>4. CASE CommitUpdate(e)
      <4>1. ed[f].rule # ed[e].rule
        BY <2>3, <3>4 DEF CommitUpdate, CreatesApart
      <4>2. QED
        BY <2>1, <2>2, <3>1, <4>1
    <3>5. QED
      BY <1>6, <3>2, <3>3, <3>4
  <2>4. [pc |-> "invalidate", key |-> key].pc # "create"
    OBVIOUS
  <2>5. QED
    BY <1>1, <2>2, <2>3, <2>4
<1>7. ASSUME NEW e \in Editors,
             InvalidateEarly(e) \/ UpdateLosesRow(e) \/ InvalidateLate(e) \/ EditorCrash(e)
      PROVE  CreatesApart'
  <2>1. db' = db
    BY <1>7 DEF InvalidateEarly, UpdateLosesRow, InvalidateLate, EditorCrash
  <2>2. CASE InvalidateEarly(e)
    <3>1. [ed[e] EXCEPT !.pc = "update"].pc # "create"
      BY <2>2, EditorShape DEF InvalidateEarly
    <3>2. EditorTo(e, [ed[e] EXCEPT !.pc = "update"])
      BY <2>2 DEF InvalidateEarly
    <3>3. QED
      BY <1>1, <2>1, <3>1, <3>2
  <2>3. CASE UpdateLosesRow(e) \/ InvalidateLate(e) \/ EditorCrash(e)
    <3>1. EditorTo(e, NoEditor) /\ NoEditor.pc # "create"
      BY <2>3 DEF UpdateLosesRow, InvalidateLate, EditorCrash, NoEditor
    <3>2. QED
      BY <1>1, <2>1, <3>1
  <2>4. QED
    BY <1>7, <2>2, <2>3
<1>8. ASSUME NEW t \in Triggers, Expire(t) PROVE db' = db /\ ed' = ed
  BY <1>8 DEF Expire
<1>9. CASE UNCHANGED vars
  BY <1>2, <1>9 DEF vars
<1>10. QED
  BY <1>2, <1>3, <1>4, <1>5, <1>6, <1>7, <1>8, <1>9 DEF Next, EditorStep, Request

\* An entry of the cache is out of date only for one of the five reasons, however many
\* readers and editors of however many processes overlap.
THEOREM CacheStaleHasCause == Spec => []StaleHasCause
<1> DEFINE Inv == TypeOK /\ LateKnown /\ CreatesApart /\ StaleHasCause
<1>1. Init => Inv
  <2> SUFFICES ASSUME Init PROVE Inv
    OBVIOUS
  <2>1. TypeOK
    BY DEF Init, TypeOK, ReaderStates, EditorStates
  <2>2. LateKnown /\ CreatesApart /\ StaleHasCause
    BY DEF Init, LateKnown, CreatesApart, StaleHasCause, Stale, ReaderAt, EditorAt, NoReader, NoEditor
  <2>3. QED
    BY <2>1, <2>2
<1>2. Inv /\ [Next]_vars => Inv'
  BY TypesStep, LateStep, CreatesStep, CauseStep
<1>3. QED
  BY <1>1, <1>2, PTL DEF Spec

-----------------------------------------------------------------------------
(* The rate limiter *)

\* A request takes part in a check at most MaxDelay after its stamp.
StampsRecent == \A r \in Requests : pending[r].on => pending[r].stamp \in now - MaxDelay .. now

\* Nothing that was let through has been forgotten before its window is over.
AdmittedKept == \A s \in Stores, u \in Times : u > now - Window => admitted[s][u] <= stamps[s][u]

LimiterInv == LimiterTypeOK /\ StampsRecent /\ AdmittedKept /\ WindowRespected

-----------------------------------------------------------------------------
(* Counting stamps *)

\* The entries of a store are finitely many.
LEMMA ScoredFinite ==
  ASSUME NEW f \in [Times -> Nat], NEW S \in SUBSET Times
  PROVE  IsFiniteSet(Scored(f, S))
<1> DEFINE Of(t) == {t} \X (1 .. f[t])
           All   == {Of(t) : t \in S}
           of    == [t \in S |-> Of(t)]
<1>1. IsFiniteSet(S)
  <2>1. IsFiniteSet(Times)
    BY FS_Interval, RateLimiterAssumption DEF Times
  <2>2. QED
    BY <2>1, FS_Subset
<1>2. IsFiniteSet(All)
  <2>1. of \in Surjection(S, All)
    BY DEF Surjection
  <2>2. QED
    BY <1>1, <2>1, FS_Surjection
<1>3. \A t \in S : IsFiniteSet(Of(t))
  <2>1. SUFFICES ASSUME NEW t \in S PROVE IsFiniteSet(Of(t))
    OBVIOUS
  <2>2. f[t] \in Int
    OBVIOUS
  <2>3. IsFiniteSet({t}) /\ IsFiniteSet(1 .. f[t])
    <3>1. IsFiniteSet({t})
      BY FS_Singleton
    <3>2. IsFiniteSet(1 .. f[t])
      <4> DEFINE n == f[t]
      <4>1. 1 \in Int /\ n \in Int
        BY <2>2
      <4> HIDE DEF n
      <4>2. IsFiniteSet(1 .. n)
        BY <4>1, FS_Interval
      <4>3. QED
        BY <4>2 DEF n
    <3>3. QED
      BY <3>1, <3>2
  <2>4. QED
    BY <2>3, FS_Product
<1>4. IsFiniteSet(UNION All)
  <2>1. \A T \in All : IsFiniteSet(T)
    BY <1>3
  <2> HIDE DEF All
  <2>2. QED
    BY <2>1, <1>2, FS_UNION
<1>5. QED
  BY <1>4 DEF Scored

\* A store has no more entries than one that has as many at each of more times.
LEMMA CardMonotone ==
  ASSUME NEW f \in [Times -> Nat], NEW g \in [Times -> Nat],
         NEW S \in SUBSET Times, NEW T \in SUBSET Times,
         S \subseteq T, \A u \in S : f[u] <= g[u]
  PROVE  /\ Card(f, S) \in Nat /\ Card(g, T) \in Nat
         /\ Card(f, S) <= Card(g, T)
<1>1. Scored(f, S) \subseteq Scored(g, T)
  <2>1. \A u \in S : 1 .. f[u] \subseteq 1 .. g[u]
    BY DEF Times
  <2>2. \A u \in S : {u} \X (1 .. f[u]) \subseteq {u} \X (1 .. g[u])
    BY <2>1
  <2>3. QED
    BY <2>2 DEF Scored
<1>2. IsFiniteSet(Scored(f, S)) /\ IsFiniteSet(Scored(g, T))
  BY ScoredFinite
<1>3. QED
  BY <1>1, <1>2, FS_Subset, FS_CardinalityType DEF Card

\* One more stamp is one more entry.
LEMMA CardAdds ==
  ASSUME NEW f \in [Times -> Nat], NEW S \in SUBSET Times, NEW t \in S
  PROVE  Card([f EXCEPT ![t] = @ + 1], S) = Card(f, S) + 1
<1> DEFINE g == [f EXCEPT ![t] = @ + 1]
           x == <<t, f[t] + 1>>
<1>1. Scored(g, S) = Scored(f, S) \cup {x}
  <2>1. \A u \in S : g[u] = IF u = t THEN f[u] + 1 ELSE f[u]
    OBVIOUS
  <2>2. 1 .. g[t] = (1 .. f[t]) \cup {f[t] + 1}
    BY <2>1 DEF Times
  <2>3. \A u \in S : {u} \X (1 .. g[u]) = ({u} \X (1 .. f[u])) \cup (IF u = t THEN {x} ELSE {})
    <3>1. SUFFICES ASSUME NEW u \in S
                   PROVE  {u} \X (1 .. g[u]) = ({u} \X (1 .. f[u])) \cup (IF u = t THEN {x} ELSE {})
      OBVIOUS
    <3>2. CASE u = t
      <4> HIDE DEF g
      <4>1. QED
        BY <3>2, <2>2
    <3>3. CASE u # t
      <4>1. g[u] = f[u]
        BY <3>3
      <4>2. QED
        BY <4>1, <3>3
    <3>4. QED
      BY <3>2, <3>3
  <2> HIDE DEF g, x
  <2>4. QED
    BY <2>3 DEF Scored
<1>2. x \notin Scored(f, S)
  BY DEF Scored
<1>3. IsFiniteSet(Scored(f, S))
  BY ScoredFinite
<1>4. QED
  BY <1>1, <1>2, <1>3, FS_AddElement DEF Card

-----------------------------------------------------------------------------
(* Types of the limiter *)

\* What a check leaves is a list of stamps again.
LEMMA SlideTyped ==
  ASSUME NEW f \in [Times -> Nat], NEW t \in Times
  PROVE  Recent(f, t) \in [Times -> Nat] /\ Slide(f, t) \in [Times -> Nat]
BY DEF Recent, Slide

\* Stores and requests keep their types (run rate_limiter checks the same on a small
\* instance).
LEMMA LimiterTypeStep == LimiterTypeOK /\ [LimiterNext]_limiterVars => LimiterTypeOK'
<1> SUFFICES ASSUME LimiterTypeOK, [LimiterNext]_limiterVars PROVE LimiterTypeOK'
  OBVIOUS
<1> USE DEF LimiterTypeOK
<1>1. ASSUME NEW r \in Requests, NEW w \in Workers, Arrive(r, w) PROVE LimiterTypeOK'
  BY <1>1 DEF Arrive
<1>2. ASSUME NEW r \in Requests, pending[r].on
      PROVE  pending[r].stamp \in Times /\ pending[r].worker \in Workers
  <2>1. pending[r] \in {NoRequest} \cup [on : {TRUE}, worker : Workers, stamp : Times]
    OBVIOUS
  <2>2. NoRequest.on = FALSE
    BY DEF NoRequest
  <2>3. pending[r] \in [on : {TRUE}, worker : Workers, stamp : Times]
    <3> HIDE DEF LimiterTypeOK
    <3>1. pending[r] # NoRequest
      BY <1>2, <2>2, Zenon
    <3>2. QED
      BY <2>1, <3>1
  <2>4. QED
    BY <2>3
<1>3. ASSUME NEW r \in Requests, Done(r) PROVE pending' \in [Requests -> {NoRequest} \cup [on : {TRUE}, worker : Workers, stamp : Times]]
  BY <1>3 DEF Done
<1>4. ASSUME NEW s \in Stores, NEW t \in Times, Admit(s, t) PROVE admitted' \in [Stores -> [Times -> Nat]]
  <2>1. [admitted EXCEPT ![s][t] = @ + 1] \in [Stores -> [Times -> Nat]]
    OBVIOUS
  <2>2. QED
    BY <2>1, <1>4 DEF Admit
<1>5. ASSUME NEW s \in Stores, NEW f \in [Times -> Nat]
      PROVE  [stamps EXCEPT ![s] = f] \in [Stores -> [Times -> Nat]]
  OBVIOUS
<1>6. ASSUME NEW r \in Requests, CheckRedis(r) PROVE LimiterTypeOK'
  <2>1. Redis \in Stores /\ stamps[Redis] \in [Times -> Nat]
    BY DEF Stores
  <2>2. QED
    BY <1>6, <2>1, <1>2, <1>3, <1>4, <1>5, SlideTyped DEF CheckRedis
<1>7. ASSUME NEW r \in Requests, CheckRedisSameMember(r) PROVE LimiterTypeOK'
  <2>1. Redis \in Stores /\ stamps[Redis] \in [Times -> Nat]
    BY DEF Stores
  <2>2. QED
    BY <1>7, <2>1, <1>2, <1>3, <1>5, SlideTyped DEF CheckRedisSameMember
<1>8. ASSUME NEW r \in Requests, CheckMemory(r) PROVE LimiterTypeOK'
  <2> DEFINE w == pending[r].worker
  <2>1. w \in Workers /\ w \in Stores /\ stamps[w] \in [Times -> Nat]
    BY <1>8, <1>2 DEF Stores, CheckMemory
  <2>2. QED
    BY <1>8, <2>1, <1>2, <1>3, <1>4, <1>5, SlideTyped DEF CheckMemory
<1>9. ASSUME NEW r \in Requests, AnswerLost(r) PROVE LimiterTypeOK'
  <2> DEFINE w == pending[r].worker
             f == Slide(stamps[Redis], pending[r].stamp)
             g == Slide(stamps[w], now)
  <2>1. w \in Workers /\ w \in Stores /\ Redis \in Stores /\ w # Redis
        /\ stamps[w] \in [Times -> Nat] /\ stamps[Redis] \in [Times -> Nat]
    BY <1>9, <1>2, RateLimiterAssumption DEF Stores, AnswerLost
  <2>2. f \in [Times -> Nat] /\ g \in [Times -> Nat]
    BY <1>9, <2>1, <1>2, SlideTyped DEF AnswerLost
  <2>3. stamps' = [[stamps EXCEPT ![Redis] = f] EXCEPT ![w] = g]
    BY <1>9, <2>1 DEF AnswerLost
  <2>4. stamps' \in [Stores -> [Times -> Nat]]
    <3> HIDE DEF f, g, w
    <3>1. QED
      BY <2>1, <2>2, <2>3
  <2>5. admitted' \in [Stores -> [Times -> Nat]]
    BY <1>9, <2>1, <1>4 DEF AnswerLost
  <2>6. QED
    BY <1>9, <2>4, <2>5, <1>3 DEF AnswerLost
<1>10. ASSUME NEW w \in Workers, WorkerRestarts(w) PROVE LimiterTypeOK'
  <2>1. [t \in Times |-> 0] \in [Times -> Nat] /\ w \in Stores
    BY DEF Stores
  <2>2. stamps' \in [Stores -> [Times -> Nat]] /\ admitted' \in [Stores -> [Times -> Nat]]
    BY <1>10, <2>1 DEF WorkerRestarts
  <2>3. pending' \in [Requests -> {NoRequest} \cup [on : {TRUE}, worker : Workers, stamp : Times]]
    BY <1>10 DEF WorkerRestarts
  <2>4. QED
    BY <1>10, <2>2, <2>3 DEF WorkerRestarts
<1>11. ASSUME Tick PROVE LimiterTypeOK'
  <2>1. now' \in Times
    BY <1>11, RateLimiterAssumption DEF Tick, Times
  <2>2. QED
    BY <1>11, <2>1 DEF Tick
<1>12. ASSUME UNCHANGED limiterVars PROVE LimiterTypeOK'
  BY <1>12 DEF limiterVars
<1>13. QED
  BY <1>1, <1>6, <1>7, <1>8, <1>9, <1>10, <1>11, <1>12 DEF LimiterNext

-----------------------------------------------------------------------------
(* The window *)

\* The shorter window.
Span == Window - MaxDelay

\* One more request let through does not fill a window above Limit, if the entries that
\* its check counted include all that were let through in the windows of its stamp.
LEMMA AdmitInWindow ==
  ASSUME LimiterTypeOK, WindowRespected, AdmittedKept,
         NEW s \in Stores, NEW t0 \in Times, t0 \in now - MaxDelay .. now,
         Room(stamps[s], t0), NEW t \in Times
  PROVE  Within([admitted[s] EXCEPT ![t0] = @ + 1], t, Span) <= Limit
<1> DEFINE W == {u \in Times : t - Span < u /\ u <= t}
           a == admitted[s]
           f == Recent(stamps[s], t0)
<1>1. a \in [Times -> Nat] /\ stamps[s] \in [Times -> Nat] /\ f \in [Times -> Nat] /\ W \in SUBSET Times
  <2>1. a \in [Times -> Nat] /\ stamps[s] \in [Times -> Nat]
    BY DEF LimiterTypeOK
  <2>2. QED
    BY <2>1, SlideTyped
<1>2. CASE t0 \in W
  <2>1. \A u \in W : a[u] <= f[u]
    <3>1. SUFFICES ASSUME NEW u \in W PROVE a[u] <= f[u]
      OBVIOUS
    <3>2. u > now - Window /\ u > t0 - Window
      BY <1>2, RateLimiterAssumption DEF Times, Span, LimiterTypeOK
    <3>3. f[u] = stamps[s][u]
      BY <3>2, RateLimiterAssumption DEF Recent, Times
    <3>4. QED
      BY <3>2, <3>3 DEF AdmittedKept
  <2>2. /\ Card(a, W) \in Nat /\ Card(f, Times) \in Nat /\ Card(a, W) <= Card(f, Times)
    <3> HIDE DEF a, f, W
    <3>1. QED
      BY <1>1, <2>1, CardMonotone
  <2>3. Card(f, Times) < Limit
    BY DEF Room
  <2>4. Card([a EXCEPT ![t0] = @ + 1], W) = Card(a, W) + 1
    <3> HIDE DEF a, W
    <3>1. QED
      BY <1>1, <1>2, CardAdds
  <2>5. Card([a EXCEPT ![t0] = @ + 1], W) <= Limit
    <3> HIDE DEF a, f, W
    <3>1. QED
      BY <2>2, <2>3, <2>4, RateLimiterAssumption
  <2>6. QED
    BY <2>5 DEF Within
<1>3. CASE t0 \notin W
  <2>1. \A u \in W : [a EXCEPT ![t0] = @ + 1][u] <= a[u]
    BY <1>1, <1>3
  <2>2. [a EXCEPT ![t0] = @ + 1] \in [Times -> Nat]
    <3> HIDE DEF a, W
    <3>1. QED
      BY <1>1
  <2>3. /\ Card([a EXCEPT ![t0] = @ + 1], W) <= Card(a, W)
        /\ Card([a EXCEPT ![t0] = @ + 1], W) \in Nat /\ Card(a, W) \in Nat
    <3> DEFINE b == [a EXCEPT ![t0] = @ + 1]
    <3>1. b \in [Times -> Nat] /\ \A u \in W : b[u] <= a[u]
      BY <2>1, <2>2
    <3> HIDE DEF b, a, W
    <3>2. Card(b, W) <= Card(a, W) /\ Card(b, W) \in Nat /\ Card(a, W) \in Nat
      BY <1>1, <3>1, CardMonotone
    <3>3. QED
      BY <3>2 DEF b
  <2>4. Card(a, W) <= Limit
    BY DEF WindowRespected, Within, Span
  <2>5. QED
    <3> HIDE DEF a, W
    <3>1. Card([a EXCEPT ![t0] = @ + 1], W) <= Limit
      BY <2>3, <2>4, RateLimiterAssumption
    <3>2. QED
      BY <3>1 DEF Within, a, W
<1>4. QED
  BY <1>2, <1>3

\* A check forgets only what no window can still need.
LEMMA SlideKeeps ==
  ASSUME LimiterTypeOK, AdmittedKept, NEW s \in Stores, NEW t0 \in Times,
         t0 \in now - MaxDelay .. now, NEW u \in Times, u > now - Window
  PROVE  /\ admitted[s][u] <= Recent(stamps[s], t0)[u]
         /\ admitted[s][u] <= Slide(stamps[s], t0)[u]
         /\ Room(stamps[s], t0) => [admitted[s] EXCEPT ![t0] = @ + 1][u] <= Slide(stamps[s], t0)[u]
<1>1. admitted[s] \in [Times -> Nat] /\ stamps[s] \in [Times -> Nat] /\ admitted[s][u] <= stamps[s][u]
  BY DEF LimiterTypeOK, AdmittedKept
<1>2. Recent(stamps[s], t0)[u] = stamps[s][u]
  <2>1. ~(u <= t0 - Window)
    BY RateLimiterAssumption DEF Times, LimiterTypeOK
  <2>2. QED
    BY <2>1 DEF Recent
<1> DEFINE f == Recent(stamps[s], t0)
<1>3. f \in [Times -> Nat] /\ admitted[s][u] <= f[u]
  BY <1>1, <1>2, SlideTyped
<1>4. QED
  <2> HIDE DEF f
  <2>1. Slide(stamps[s], t0) = IF Room(stamps[s], t0) THEN [f EXCEPT ![t0] = @ + 1] ELSE f
    BY DEF Slide, f
  <2>2. admitted[s][u] \in Nat /\ f[u] \in Nat
    BY <1>1, <1>3
  <2>3. admitted[s][u] <= Slide(stamps[s], t0)[u]
    BY <1>3, <2>1, <2>2
  <2>4. Room(stamps[s], t0) => [admitted[s] EXCEPT ![t0] = @ + 1][u] <= Slide(stamps[s], t0)[u]
    BY <1>1, <1>3, <2>1, <2>2
  <2>5. QED
    BY <1>3, <2>3, <2>4 DEF f

\* A check at store s with stamp t0, seen from that store.
Checked(s, t0) == stamps'[s] = Slide(stamps[s], t0)

\* What a check with a recent stamp does to its store.
LEMMA StoreStep ==
  ASSUME LimiterInv, LimiterTypeOK', now' = now, NEW s \in Stores, NEW t0 \in Times,
         t0 \in now - MaxDelay .. now, Checked(s, t0), Admit(s, t0)
  PROVE  /\ \A u \in Times : u > now - Window => admitted'[s][u] <= stamps'[s][u]
         /\ \A t \in Times : Within(admitted'[s], t, Span) <= Limit
         /\ \A x \in Stores \ {s} : admitted'[x] = admitted[x]
<1>1. /\ Room(stamps[s], t0) => admitted'[s] = [admitted[s] EXCEPT ![t0] = @ + 1]
      /\ ~Room(stamps[s], t0) => admitted'[s] = admitted[s]
      /\ \A x \in Stores \ {s} : admitted'[x] = admitted[x]
  BY DEF Admit, LimiterInv, LimiterTypeOK
<1>2. \A u \in Times : u > now - Window => admitted'[s][u] <= stamps'[s][u]
  BY <1>1, SlideKeeps DEF LimiterInv, Checked
<1>3. \A t \in Times : Within(admitted[s], t, Span) <= Limit
  BY DEF LimiterInv, WindowRespected, Span
<1>4. \A t \in Times : Room(stamps[s], t0) => Within([admitted[s] EXCEPT ![t0] = @ + 1], t, Span) <= Limit
  BY AdmitInWindow DEF LimiterInv
<1>5. QED
  BY <1>1, <1>2, <1>3, <1>4

\* A stamp that is counted is recent.
LEMMA StampChecked ==
  ASSUME LimiterInv, NEW r \in Requests, pending[r].on
  PROVE  /\ pending[r].stamp \in Times /\ pending[r].stamp \in now - MaxDelay .. now
         /\ pending[r].worker \in Stores /\ pending[r].worker # Redis
         /\ now \in Times /\ now \in now - MaxDelay .. now /\ Redis \in Stores
<1>1. pending[r] \in [on : {TRUE}, worker : Workers, stamp : Times]
  <2>1. NoRequest.on = FALSE
    BY DEF NoRequest
  <2>2. pending[r] # NoRequest
    BY <2>1, Zenon
  <2>3. QED
    BY <2>2 DEF LimiterInv, LimiterTypeOK
<1>2. pending[r].stamp \in now - MaxDelay .. now
  BY DEF LimiterInv, StampsRecent
<1>3. now \in Times
  BY DEF LimiterInv, LimiterTypeOK
<1>4. now \in now - MaxDelay .. now
  BY <1>3, RateLimiterAssumption DEF Times
<1>5. QED
  BY <1>1, <1>2, <1>3, <1>4, RateLimiterAssumption DEF Stores

\* While the clock stands, only requests that arrive bring a stamp, and theirs is now.
LEMMA StampsRecentStep ==
  ASSUME LimiterInv, [LimiterNext]_limiterVars
  PROVE  StampsRecent'
<1>1. now \in now - MaxDelay .. now /\ now \in Int
  BY RateLimiterAssumption DEF Times, LimiterInv, LimiterTypeOK
<1>2. NoRequest.on = FALSE
  BY DEF NoRequest
<1> USE DEF LimiterInv, LimiterTypeOK, StampsRecent
<1>3. ASSUME NEW r \in Requests, NEW w \in Workers, Arrive(r, w) PROVE StampsRecent'
  BY <1>3, <1>1 DEF Arrive
<1>4. ASSUME NEW r \in Requests, Done(r), now' = now PROVE StampsRecent'
  BY <1>4, <1>2 DEF Done
<1>5. ASSUME NEW r \in Requests,
             CheckRedis(r) \/ CheckRedisSameMember(r) \/ CheckMemory(r) \/ AnswerLost(r)
      PROVE  StampsRecent'
  BY <1>4, <1>5 DEF CheckRedis, CheckRedisSameMember, CheckMemory, AnswerLost
<1>6. ASSUME NEW w \in Workers, WorkerRestarts(w) PROVE StampsRecent'
  BY <1>6, <1>2 DEF WorkerRestarts
<1>7. ASSUME Tick PROVE StampsRecent'
  <2>1. SUFFICES ASSUME NEW r \in Requests, pending[r].on
                 PROVE  pending[r].stamp \in (now + 1) - MaxDelay .. now + 1
    BY <1>7 DEF Tick
  <2>2. pending[r].stamp \in now - MaxDelay .. now /\ now - pending[r].stamp < MaxDelay
    <3>1. pending[r].stamp \in now - MaxDelay .. now
      BY <2>1
    <3>2. now - pending[r].stamp < MaxDelay
      BY <1>7, <2>1 DEF Tick
    <3>3. QED
      BY <3>1, <3>2
  <2> DEFINE t == pending[r].stamp
  <2>3. t \in now - MaxDelay .. now /\ now - t < MaxDelay
    BY <2>2
  <2> HIDE DEF t, LimiterInv, LimiterTypeOK, StampsRecent
  <2>4. t \in (now + 1) - MaxDelay .. now + 1
    BY <2>3, <1>1, RateLimiterAssumption
  <2>5. QED
    BY <2>4 DEF t
<1>8. ASSUME UNCHANGED limiterVars PROVE StampsRecent'
  BY <1>8 DEF limiterVars
<1>9. QED
  BY <1>3, <1>5, <1>6, <1>7, <1>8 DEF LimiterNext

\* What the stores have let through and kept, store by store.
StoreOK(s) == /\ \A u \in Times : u > now - Window => admitted[s][u] <= stamps[s][u]
              /\ \A t \in Times : Within(admitted[s], t, Span) <= Limit

\* The two properties of the stores together.
LEMMA StoresOK == (\A s \in Stores : StoreOK(s)) <=> AdmittedKept /\ WindowRespected
BY DEF StoreOK, AdmittedKept, WindowRespected, Span

\* No step breaks what the stores promise.
LEMMA StoresStep ==
  ASSUME LimiterInv, LimiterTypeOK', [LimiterNext]_limiterVars
  PROVE  \A s \in Stores : StoreOK(s)'
<1>1. \A s \in Stores : StoreOK(s)
  BY StoresOK DEF LimiterInv
<1>2. ASSUME NEW s \in Stores, now' = now, stamps'[s] = stamps[s], admitted'[s] = admitted[s]
      PROVE  StoreOK(s)'
  BY <1>1, <1>2 DEF StoreOK, Within
<1>3. ASSUME NEW r \in Requests, NEW w \in Workers, Arrive(r, w) PROVE \A s \in Stores : StoreOK(s)'
  BY <1>2, <1>3 DEF Arrive
<1>4. stamps \in [Stores -> [Times -> Nat]] /\ admitted \in [Stores -> [Times -> Nat]]
  BY DEF LimiterInv, LimiterTypeOK
<1>5. ASSUME NEW r \in Requests, CheckRedis(r) PROVE \A s \in Stores : StoreOK(s)'
  <2> DEFINE t0 == pending[r].stamp
  <2>1. /\ t0 \in Times /\ t0 \in now - MaxDelay .. now /\ Redis \in Stores
    BY <1>5, StampChecked DEF CheckRedis
  <2>2. /\ Checked(Redis, t0) /\ Admit(Redis, t0) /\ now' = now
        /\ \A x \in Stores \ {Redis} : stamps'[x] = stamps[x]
    BY <1>5, <1>4, <2>1 DEF CheckRedis, Checked
  <2> HIDE DEF t0
  <2>3. /\ StoreOK(Redis)' /\ \A x \in Stores \ {Redis} : admitted'[x] = admitted[x]
    BY <2>1, <2>2, StoreStep DEF StoreOK
  <2>4. QED
    BY <1>2, <2>2, <2>3
<1>6. ASSUME NEW r \in Requests, CheckRedisSameMember(r) PROVE \A s \in Stores : StoreOK(s)'
  <2> DEFINE t0 == pending[r].stamp
  <2>1. /\ t0 \in Times /\ t0 \in now - MaxDelay .. now /\ Redis \in Stores
    BY <1>6, StampChecked DEF CheckRedisSameMember
  <2>2. /\ stamps'[Redis] = Recent(stamps[Redis], t0) /\ now' = now /\ admitted' = admitted
        /\ \A x \in Stores \ {Redis} : stamps'[x] = stamps[x]
    BY <1>6, <1>4, <2>1 DEF CheckRedisSameMember
  <2> HIDE DEF t0
  <2>3. StoreOK(Redis)'
    <3>1. \A u \in Times : u > now - Window => admitted[Redis][u] <= Recent(stamps[Redis], t0)[u]
      BY <2>1, SlideKeeps DEF LimiterInv
    <3>2. QED
      BY <1>1, <2>1, <2>2, <3>1 DEF StoreOK, Within
  <2>4. QED
    BY <1>2, <2>2, <2>3
<1>7. ASSUME NEW r \in Requests, CheckMemory(r) PROVE \A s \in Stores : StoreOK(s)'
  <2> PICK w \in Stores : w = pending[r].worker
    BY <1>7, StampChecked DEF CheckMemory
  <2>1. now \in Times /\ now \in now - MaxDelay .. now
    BY <1>7, StampChecked DEF CheckMemory
  <2>2. /\ Checked(w, now) /\ Admit(w, now) /\ now' = now
        /\ \A x \in Stores \ {w} : stamps'[x] = stamps[x]
    BY <1>7, <1>4, <2>1 DEF CheckMemory, Checked
  <2>3. /\ StoreOK(w)' /\ \A x \in Stores \ {w} : admitted'[x] = admitted[x]
    BY <2>1, <2>2, StoreStep DEF StoreOK
  <2>4. QED
    BY <1>2, <2>2, <2>3
<1>8. ASSUME NEW r \in Requests, AnswerLost(r) PROVE \A s \in Stores : StoreOK(s)'
  <2> DEFINE t0 == pending[r].stamp
  <2> PICK w \in Stores : w = pending[r].worker
    BY <1>8, StampChecked DEF AnswerLost
  <2>1. /\ t0 \in Times /\ t0 \in now - MaxDelay .. now /\ Redis \in Stores
        /\ w # Redis /\ now \in Times /\ now \in now - MaxDelay .. now
    BY <1>8, StampChecked DEF AnswerLost
  <2>2. /\ Checked(w, now) /\ Admit(w, now) /\ now' = now
        /\ stamps'[Redis] = Slide(stamps[Redis], t0)
        /\ \A x \in Stores \ {w, Redis} : stamps'[x] = stamps[x]
    BY <1>8, <1>4, <2>1 DEF AnswerLost, Checked
  <2> HIDE DEF t0
  <2>3. /\ StoreOK(w)' /\ \A x \in Stores \ {w} : admitted'[x] = admitted[x]
    BY <2>1, <2>2, StoreStep DEF StoreOK
  <2>4. StoreOK(Redis)'
    <3>1. \A u \in Times : u > now - Window => admitted[Redis][u] <= Slide(stamps[Redis], t0)[u]
      BY <2>1, SlideKeeps DEF LimiterInv
    <3>2. QED
      BY <1>1, <2>1, <2>2, <2>3, <3>1 DEF StoreOK, Within
  <2>5. QED
    BY <1>2, <2>2, <2>3, <2>4
<1>9. ASSUME NEW w \in Workers, WorkerRestarts(w) PROVE \A s \in Stores : StoreOK(s)'
  <2> DEFINE none == [t \in Times |-> 0]
  <2>1. /\ w \in Stores /\ now' = now /\ stamps'[w] = none /\ admitted'[w] = none
        /\ \A x \in Stores \ {w} : stamps'[x] = stamps[x] /\ admitted'[x] = admitted[x]
    BY <1>9, <1>4 DEF WorkerRestarts, Stores
  <2>2. \A t \in Times : Within(none, t, Span) <= Limit
    <3>1. \A t \in Times : Scored(none, {u \in Times : t - Span < u /\ u <= t}) = {}
      BY DEF Scored
    <3>2. QED
      BY <3>1, FS_EmptySet, RateLimiterAssumption DEF Within, Card
  <2>3. StoreOK(w)'
    <3>1. \A u \in Times : none[u] <= none[u]
      OBVIOUS
    <3> HIDE DEF none
    <3>2. QED
      BY <2>1, <2>2, <3>1 DEF StoreOK, Within
  <2>4. QED
    BY <1>2, <2>1, <2>3
<1>10. ASSUME Tick PROVE \A s \in Stores : StoreOK(s)'
  <2>1. now' = now + 1 /\ stamps' = stamps /\ admitted' = admitted /\ now \in Int
    BY <1>10 DEF Tick, LimiterInv, LimiterTypeOK, Times
  <2>2. \A u \in Times : u > (now + 1) - Window => u > now - Window
    BY <2>1, RateLimiterAssumption DEF Times
  <2>3. QED
    BY <1>1, <2>1, <2>2 DEF StoreOK, Within
<1>11. ASSUME UNCHANGED limiterVars PROVE \A s \in Stores : StoreOK(s)'
  BY <1>2, <1>11 DEF limiterVars
<1>12. QED
  BY <1>3, <1>5, <1>6, <1>7, <1>8, <1>9, <1>10, <1>11 DEF LimiterNext

\* At the start nothing has been let through.
LEMMA LimiterStarts == LimiterInit => LimiterInv
<1> SUFFICES ASSUME LimiterInit PROVE LimiterInv
  OBVIOUS
<1>1. LimiterTypeOK
  BY RateLimiterAssumption DEF LimiterInit, LimiterTypeOK, Times
<1>2. StampsRecent
  BY DEF LimiterInit, StampsRecent, NoRequest
<1>3. AdmittedKept
  BY DEF LimiterInit, AdmittedKept
<1>4. WindowRespected
  <2>1. \A s \in Stores, S \in SUBSET Times : Scored(admitted[s], S) = {}
    BY DEF LimiterInit, Scored
  <2>2. QED
    BY <2>1, FS_EmptySet, RateLimiterAssumption DEF WindowRespected, Within, Card
<1>5. QED
  BY <1>1, <1>2, <1>3, <1>4 DEF LimiterInv

\* The invariant is inductive.
LEMMA LimiterInvStep == LimiterInv /\ [LimiterNext]_limiterVars => LimiterInv'
<1> SUFFICES ASSUME LimiterInv, [LimiterNext]_limiterVars PROVE LimiterInv'
  OBVIOUS
<1>1. LimiterTypeOK'
  BY LimiterTypeStep DEF LimiterInv
<1>2. StampsRecent'
  BY StampsRecentStep
<1>3. (\A s \in Stores : StoreOK(s))'
  BY <1>1, StoresStep DEF Stores
<1>4. AdmittedKept' /\ WindowRespected'
  <2>1. ((\A s \in Stores : StoreOK(s)) <=> AdmittedKept /\ WindowRespected)'
    BY StoresOK, PTL
  <2>2. QED
    BY <1>3, <2>1
<1>5. QED
  BY <1>1, <1>2, <1>4 DEF LimiterInv

\* For every number of workers, concurrent requests, limit and window: the stores hold
\* what they should (src/app/middleware/rate_limit.py).
THEOREM LimiterTyped == LimiterSpec => []LimiterTypeOK
<1>1. LimiterInv => LimiterTypeOK
  BY DEF LimiterInv
<1>2. QED
  BY LimiterStarts, LimiterInvStep, <1>1, PTL DEF LimiterSpec

\* For every number of workers, concurrent requests, limit and window: however late a
\* script runs, at most MaxDelay after its stamp, and whatever answers are lost, neither
\* Redis nor a worker's own list lets more than Limit requests through in any interval
\* that is MaxDelay shorter than the window (_SLIDING_WINDOW_LUA, _check_memory).
THEOREM LimiterWindowRespected == LimiterSpec => []WindowRespected
<1>1. LimiterInv => WindowRespected
  BY DEF LimiterInv
<1>2. QED
  BY LimiterStarts, LimiterInvStep, <1>1, PTL DEF LimiterSpec
=============================================================================
