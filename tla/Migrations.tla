------------------------------ MODULE Migrations ------------------------------
(***************************************************************************)
(* The Alembic migrations (src/migrations/versions) as env.py runs them    *)
(* against PostgreSQL.                                                     *)
(*                                                                         *)
(* One alembic command runs all its migrations in one transaction, each    *)
(* followed by the update of alembic_version.  Migration 39ac1e823fed      *)
(* executes COMMIT in its midst: from there on the command is outside any  *)
(* transaction and every statement is durable by itself.                   *)
(*                                                                         *)
(* A schema is a set of objects; an object has a name, the table it        *)
(* belongs to (and is dropped with) and the objects that must outlive it.  *)
(* Columns are told apart where a migration adds or drops them.            *)
(***************************************************************************)
EXTENDS Integers, FiniteSets, Sequences, SequencesExt

CONSTANTS
  MaxInterrupts,  \* bound: crashes or lost connections during a command
  MaxDowngrades   \* bound: downgrade commands

ASSUME MigrationsAssumption == MaxInterrupts \in Nat /\ MaxDowngrades \in Nat

-----------------------------------------------------------------------------
(* Statements *)

Object(name, of, refs) == [name |-> name, of |-> of, refs |-> refs]

CreateObject(o)  == [op |-> "create", object |-> o]
DropObject(n)    == [op |-> "drop",   name |-> n]
Table(n, refs)   == CreateObject(Object(n, "", refs))
Column(t, c)     == CreateObject(Object(t \o "." \o c, t, {}))
Type(n)          == CreateObject(Object(n, "", {}))
Indexes(t, cs)   == [i \in DOMAIN cs |-> CreateObject(Object("ix_" \o t \o "_" \o cs[i], t, {}))]
NoIndexes(t, cs) == [i \in DOMAIN cs |-> DropObject("ix_" \o t \o "_" \o cs[i])]
NoTable(t, cs)   == NoIndexes(t, cs) \o <<DropObject(t)>>

CommitStatement == [op |-> "commit"]
Label(l)        == Object("user_role=" \o l, "user_role", {})

-----------------------------------------------------------------------------
(* The chain, oldest first.  upgrade() of the first migration, by table. *)

AuditLogs  == <<Table("audit_logs", {})>> \o Indexes("audit_logs", <<"action", "id">>)
Businesses == <<Type("subscription_plan"), Table("businesses", {"subscription_plan"})>>
              \o Indexes("businesses", <<"id", "slug">>)
UsersTable ==
  <<Type("user_role"), Table("users", {"user_role", "businesses"}),
    CreateObject(Object("fk_businesses_owner_id_users", "businesses", {"users"}))>>
  \o Indexes("users", <<"business_id", "email", "id">>)
AiLogs        == <<Table("ai_logs", {"businesses"})>>
                 \o Indexes("ai_logs", <<"business_id", "event_type", "id">>)
Customers     == <<Table("customers", {"businesses"})>>
                 \o Indexes("customers", <<"business_id", "id", "phone">>)
Notifications == <<Table("notifications", {"businesses", "users"})>>
                 \o Indexes("notifications", <<"business_id", "id", "user_id">>)
OrdersTable   == <<Type("order_status"), Table("orders", {"order_status", "businesses", "customers"})>>
                 \o Indexes("orders", <<"business_id", "customer_id", "id", "status">>)
PaymentsTable == <<Type("payment_provider"), Type("payment_status"),
                   Table("payments", {"payment_provider", "payment_status", "orders"})>>
                 \o Indexes("payments", <<"id", "order_id", "status", "tx_ref">>)

UpBase == AuditLogs \o Businesses \o UsersTable \o AiLogs \o Customers
          \o Notifications \o OrdersTable \o PaymentsTable

\* downgrade() of the first migration: neither the types nor the owner's key.
DownBase ==
  NoTable("payments", <<"tx_ref", "status", "order_id", "id">>)
  \o NoTable("orders", <<"status", "id", "customer_id", "business_id">>)
  \o NoTable("notifications", <<"user_id", "id", "business_id">>)
  \o NoTable("customers", <<"phone", "id", "business_id">>)
  \o NoTable("ai_logs", <<"id", "event_type", "business_id">>)
  \o NoTable("users", <<"id", "email", "business_id">>)
  \o NoTable("businesses", <<"slug", "id">>)
  \o NoTable("audit_logs", <<"id", "action">>)

UpWorkflows ==
  <<Table("workflows", {"businesses"})>> \o Indexes("workflows", <<"lookup", "business_id", "id">>)
  \o <<Table("workflow_execution_logs", {"workflows"})>>
  \o Indexes("workflow_execution_logs", <<"business_id", "id", "workflow_id">>)
DownWorkflows ==
  NoTable("workflow_execution_logs", <<"workflow_id", "id", "business_id">>)
  \o NoTable("workflows", <<"id", "business_id", "lookup">>)

UpSuperAdmin ==
  <<CommitStatement, CreateObject(Label("super_admin")), CreateObject(Label("SUPER_ADMIN")),
    Column("businesses", "is_active"), Column("businesses", "deleted_at"), Column("users", "deleted_at")>>
DownSuperAdmin ==
  <<DropObject("users.deleted_at"), DropObject("businesses.deleted_at"), DropObject("businesses.is_active")>>

AuditColumns == <<"business_id", "resource_type", "before_value", "after_value", "severity">>
UpAuditLog   == [i \in DOMAIN AuditColumns |-> Column("audit_logs", AuditColumns[i])]
                \o Indexes("audit_logs", <<"actor_id", "business_id", "module">>)
DownAuditLog == NoIndexes("audit_logs", <<"module", "business_id", "actor_id">>)
                \o Reverse([i \in DOMAIN AuditColumns |-> DropObject("audit_logs." \o AuditColumns[i])])

\* IF NOT EXISTS and IF EXISTS.
UpVector   == <<[op |-> "ensure", object |-> Object("vector", "", {})]>>
DownVector == <<[op |-> "discard", name |-> "vector"]>>

UpAiModels ==
  <<Table("ai_memories", {"vector"})>>
  \o Indexes("ai_memories", <<"business_id", "context_key", "id", "user_id">>)
  \o <<Table("prompt_templates", {})>> \o Indexes("prompt_templates", <<"id", "name">>)
DownAiModels ==
  NoTable("prompt_templates", <<"name", "id">>)
  \o NoTable("ai_memories", <<"user_id", "id", "context_key", "business_id">>)

UpBilling ==
  <<Table("subscription_tiers", {}), Table("feature_flags", {"subscription_tiers"}),
    Table("subscriptions", {"businesses", "subscription_tiers"}), Table("usage_meters", {"businesses"}),
    Table("business_feature_flags", {"businesses", "feature_flags"})>>
  \o Indexes("business_feature_flags", <<"id">>) \o <<Table("invoices", {"businesses", "subscriptions"})>>
DownBilling ==
  <<DropObject("invoices")>> \o NoTable("business_feature_flags", <<"id">>)
  \o <<DropObject("usage_meters"), DropObject("subscriptions"), DropObject("feature_flags"),
       DropObject("subscription_tiers")>>

UpInvoiceIndex   == Indexes("invoices", <<"business_id">>)
DownInvoiceIndex == NoIndexes("invoices", <<"business_id">>)

\* down_revision links the files to this order.
Upgrades   == <<UpBase, UpWorkflows, UpSuperAdmin, UpAuditLog, UpVector, UpAiModels, UpBilling, UpInvoiceIndex>>
Downgrades == <<DownBase, DownWorkflows, DownSuperAdmin, DownAuditLog, DownVector, DownAiModels, DownBilling,
                DownInvoiceIndex>>
HeadRevision == Len(Upgrades)
Revision     == 0 .. HeadRevision
SuperAdmin   == 3   \* the position of 39ac1e823fed, which commits

-----------------------------------------------------------------------------
(* Commands: alembic upgrade head, downgrade -1, downgrade base *)

Commands     == {"upgrade", "downgrade", "base"}
SetVersion(r) == [op |-> "version", version |-> r]

UpStep(r)   == Upgrades[r] \o <<SetVersion(r)>>
DownStep(r) == Downgrades[r] \o <<SetVersion(r - 1)>>

\* What a command executes when it finds the database at revision v.
Plan == [k \in Commands |-> [v \in Revision |->
  CASE k = "upgrade"   -> FlattenSeq([i \in 1 .. HeadRevision - v |-> UpStep(v + i)])
    [] k = "downgrade" -> IF v = 0 THEN <<>> ELSE DownStep(v)
    [] k = "base"      -> FlattenSeq([i \in 1 .. v |-> DownStep(v + 1 - i)])]]

ListShaped(k, v, s) ==
  /\ Len(s) \in Nat /\ DOMAIN s = 1 .. Len(s)
  /\ \A i \in DOMAIN s : s[i].op = "version" => s[i].version \in Revision
  /\ \A i \in DOMAIN s : s[i].op = "commit" => k = "upgrade" /\ v < SuperAdmin

\* What the proofs need of these lists, which TLC verifies, since they are constants: only an
\* upgrade through 39ac1e823fed has a COMMIT.
ASSUME PlanShape == \A k \in Commands, v \in Revision : ListShaped(k, v, Plan[k][v])

Names(schema) == {o.name : o \in schema}

\* PostgreSQL refuses to create what exists, or what refers to something that does
\* not, and to drop what is missing or what another object still refers to.
Allowed(st, schema) ==
  CASE st.op = "create" -> /\ st.object.name \notin Names(schema)
                           /\ (st.object.refs \cup {st.object.of}) \ {""} \subseteq Names(schema)
    [] st.op = "drop"    -> /\ st.name \in Names(schema)
                            /\ \A o \in schema : st.name \in o.refs => o.of = st.name \/ o.name = st.name
    [] st.op = "discard" -> \A o \in schema : st.name \notin o.refs
    [] OTHER -> TRUE

After(st, schema) ==
  CASE st.op \in {"create", "ensure"} -> schema \cup {st.object}
    [] st.op \in {"drop", "discard"}  -> {o \in schema : st.name \notin {o.name, o.of}}
    [] OTHER -> schema

-----------------------------------------------------------------------------
VARIABLES
  db,          \* what is committed: [schema, version]
  tx,          \* the same as the running command sees it
  command,     \* the running command, its next statement, and whether its transaction is open
  start,       \* history: db when the last command began
  outcome,     \* history: how the last command ended
  torn,        \* history: migrations interrupted outside any transaction
  interrupts, downgraded   \* counts, for the bounds

migrationVars == <<db, tx, command, start, outcome, torn, interrupts, downgraded>>

None == [kind |-> "none", at |-> 0, open |-> FALSE]
Statements(k, v) == Plan[k][v]

MigrationsTypeOK ==
  /\ db.version \in Revision /\ IsFiniteSet(db.schema)
  /\ command = None \/ /\ command.kind \in Commands
                       /\ command.at \in 1 .. Len(Statements(command.kind, start.version)) + 1
  /\ ~command.open => tx = db
  /\ outcome \in {"none", "running", "done", "failed", "interrupted"}
  /\ torn \subseteq Revision
  /\ interrupts \in 0 .. MaxInterrupts /\ downgraded \in 0 .. MaxDowngrades

MigrationsInit ==
  /\ db = [schema |-> {}, version |-> 0] /\ tx = db /\ start = db
  /\ command = None /\ outcome = "none" /\ torn = {}
  /\ interrupts = 0 /\ downgraded = 0

\* Mutant: no transaction around the migrations.
BeginAutocommit(k) ==
  /\ command = None
  /\ IF k = "upgrade" THEN UNCHANGED downgraded
     ELSE db.version > 0 /\ downgraded < MaxDowngrades /\ downgraded' = downgraded + 1
  /\ command' = [kind |-> k, at |-> 1, open |-> FALSE]
  /\ start' = db /\ tx' = db /\ outcome' = "running"
  /\ UNCHANGED <<db, torn, interrupts>>

\* The version table is read and one transaction is opened for all migrations.
Begin(k) ==
  /\ command = None
  /\ IF k = "upgrade" THEN UNCHANGED downgraded
     ELSE db.version > 0 /\ downgraded < MaxDowngrades /\ downgraded' = downgraded + 1
  /\ command' = [kind |-> k, at |-> 1, open |-> TRUE]
  /\ start' = db /\ tx' = db /\ outcome' = "running"
  /\ UNCHANGED <<db, torn, interrupts>>

Pending == command # None /\ command.at <= Len(Statements(command.kind, start.version))
Current == Statements(command.kind, start.version)[command.at]

\* COMMIT in a migration makes durable what was done so far; without a transaction
\* every statement does.
Execute ==
  /\ Pending /\ Allowed(Current, tx.schema)
  /\ tx' = [schema  |-> After(Current, tx.schema),
            version |-> IF Current.op = "version" THEN Current.version ELSE tx.version]
  /\ command' = [command EXCEPT !.at = @ + 1, !.open = @ /\ Current.op # "commit"]
  /\ db' = IF command'.open THEN db ELSE tx'
  /\ UNCHANGED <<start, outcome, torn, interrupts, downgraded>>

\* Mutant: what the failed transaction did is kept.
AbandonKeeps(how) ==
  /\ command' = None /\ UNCHANGED tx /\ outcome' = how
  /\ UNCHANGED <<db, start, downgraded>>

\* Mutant: a command that fails commits what it did.
AbandonCommits(how) ==
  /\ command' = None /\ db' = tx /\ outcome' = how
  /\ UNCHANGED <<tx, start, downgraded>>

\* The command ends without its COMMIT: what its transaction did is gone.
Abandon(how) ==
  /\ command' = None /\ tx' = db /\ outcome' = how
  /\ UNCHANGED <<db, start, downgraded>>

StatementFails ==
  /\ Pending /\ ~Allowed(Current, tx.schema)
  /\ Abandon("failed")
  /\ UNCHANGED <<torn, interrupts>>

Interrupt ==
  /\ command # None /\ interrupts < MaxInterrupts
  /\ Abandon("interrupted")
  /\ interrupts' = interrupts + 1
  /\ torn' = IF command.open THEN torn ELSE torn \cup ({db.version + 1} \cap Revision)

Finish ==
  /\ command # None /\ ~Pending
  /\ db' = tx /\ command' = None /\ outcome' = "done"
  /\ UNCHANGED <<tx, start, torn, interrupts, downgraded>>

CommandStep == Execute \/ StatementFails \/ Finish
MigrationsNext == (\E k \in Commands : Begin(k)) \/ CommandStep \/ Interrupt

\* Commands run to their end, and the deployment runs upgrade head again and again.
MigrationsSpec ==
  /\ MigrationsInit /\ [][MigrationsNext]_migrationVars
  /\ WF_migrationVars(CommandStep) /\ WF_migrationVars(Begin("upgrade"))

-----------------------------------------------------------------------------
(* Properties *)

\* The schema that the migrations up to v describe.
Described == [v \in Revision |->
  FoldLeft(LAMBDA schema, st : After(st, schema), {}, FlattenSeq([i \in 1 .. v |-> Upgrades[i]]))]

Labels         == {"user_role=super_admin", "user_role=SUPER_ADMIN"}
Unfinished == torn \cup IF command # None /\ ~command.open THEN {db.version + 1} \cap Revision ELSE {}
TouchedBy(R)   == UNION {Names({Upgrades[r][i].object : i \in
                    {j \in DOMAIN Upgrades[r] : Upgrades[r][j].op \in {"create", "ensure"}}}) : r \in R}

\* The committed version never claims an object that is not there, and what is there
\* beyond it comes from a migration interrupted after the COMMIT of 39ac1e823fed or
\* is an enum label, which no downgrade removes.
DriftHasCause ==
  LET extra == Names(db.schema) \ Names(Described[db.version]) IN
  /\ Names(Described[db.version]) \subseteq Names(db.schema)
  /\ extra \subseteq TouchedBy(Unfinished) \cup Labels

\* What the statements of a command make of the schema its revision describes: path[i] is
\* what statement i finds.
Path == [k \in Commands |-> [v \in Revision |->
  FoldLeft(LAMBDA path, st : Append(path,
             [schema  |-> After(st, Last(path).schema),
              version |-> IF st.op = "version" THEN st.version ELSE Last(path).version]),
           <<[schema |-> Described[v], version |-> v]>>, Plan[k][v])]]

FirstLabel == Label("super_admin")

\* A statement that PostgreSQL refuses whatever else is in the schema.
Refused(st, schema) ==
  st.op = "drop" /\ \E o \in schema : st.name \in o.refs /\ st.name \notin {o.of, o.name}

\* The course p of the statements s from revision v on.
Follows(v, s, p) ==
  /\ p[1].schema = Described[v] /\ p[1].version = v
  /\ \A i \in DOMAIN s : /\ p[i + 1].schema = After(s[i], p[i].schema)
                        /\ p[i + 1].version = IF s[i].op = "version" THEN s[i].version ELSE p[i].version

\* No statement drops the label.
SparesLabel(s) ==
  \A i \in DOMAIN s : s[i].op \in {"drop", "discard"} => s[i].name \notin {FirstLabel.name, FirstLabel.of}

\* An upgrade meets no refusal, and passes the described schemas one after the other.
Ascends(s, p) ==
  /\ p[Len(s) + 1].schema = Described[p[Len(s) + 1].version] /\ p[Len(s) + 1].version >= SuperAdmin
  /\ \A i \in DOMAIN s : Allowed(s[i], p[i].schema)
  /\ \A i \in 1 .. Len(s) + 1 :
       /\ Described[p[i].version] \subseteq p[i].schema
       /\ Names(p[i].schema \ Described[p[i].version]) \subseteq TouchedBy({p[i].version + 1} \cap Revision)

\* The statement after the COMMIT creates the label; it is there from then on.
LabelsNext(s, p) ==
  \A i \in DOMAIN s : s[i].op = "commit" =>
    /\ i + 1 \in DOMAIN s /\ s[i + 1].op = "create" /\ s[i + 1].object = FirstLabel
    /\ p[i + 1].schema = Described[p[i + 1].version]
    /\ \A j \in i + 1 .. Len(s) + 1 :
         /\ p[j].version >= SuperAdmin - 1
         /\ p[j].version >= SuperAdmin \/ j = i + 1 \/ FirstLabel \in p[j].schema

\* A downgrade ends with what its version describes and with labels, or is refused on the way.
Descends(v, s, p) ==
  \/ \E i \in DOMAIN s : Refused(s[i], p[i].schema)
  \/ /\ Described[p[Len(s) + 1].version] \subseteq p[Len(s) + 1].schema
     /\ Names(p[Len(s) + 1].schema \ Described[p[Len(s) + 1].version]) \subseteq Labels
     /\ v < SuperAdmin => p[Len(s) + 1].schema = Described[p[Len(s) + 1].version]

\* What the proofs need of the paths; TLC verifies it too.
ASSUME PathShape ==
  /\ Described[0] = {}
  /\ \A v \in Revision : v >= SuperAdmin => FirstLabel \in Described[v]
  /\ \A k \in Commands, v \in Revision :
       /\ Follows(v, Plan[k][v], Path[k][v]) /\ SparesLabel(Plan[k][v])
       /\ k = "upgrade" => Ascends(Plan[k][v], Path[k][v]) /\ LabelsNext(Plan[k][v], Path[k][v])
       /\ k # "upgrade" /\ v > 0 => Descends(v, Plan[k][v], Path[k][v])

\* A command that fails or is interrupted leaves no trace, except an upgrade that
\* runs 39ac1e823fed: it may stop anywhere from the revision before it on.
FailureAtomic ==
  outcome \in {"failed", "interrupted"} =>
    \/ db = start
    \/ db.version >= SuperAdmin - 1 /\ start.version < SuperAdmin

\* What is there already of what the next upgrade creates without IF NOT EXISTS.
InTheWay ==
  {n \in Names(db.schema) : \E r \in db.version + 1 .. HeadRevision :
     \E i \in DOMAIN Upgrades[r] : Upgrades[r][i].op = "create" /\ Upgrades[r][i].object.name = n}

\* Repeated upgrades reach the head from every state, unless a statement finds its object
\* in place, which an upgrade interrupted after that COMMIT has left there, or a downgrade
\* below it (the labels); no later command gets past it.
Stuck == command = None /\ InTheWay \cap (TouchedBy(torn) \cup Labels) # {}
UpgradeArrives == []<>(db.version = HeadRevision \/ Stuck)

=============================================================================
