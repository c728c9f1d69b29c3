--------------------------- MODULE DatabaseProofs ---------------------------
(***************************************************************************)
(* Proofs about what commits to the database leave behind.                 *)
(*                                                                         *)
(* Orders, for any number of payments, of concurrent verifications and of  *)
(* staff, and for every choice of faults: what is paid is completed and    *)
(* announced as often as it should be.                                     *)
(*                                                                         *)
(* Migrations, for any number of interruptions and downgrades: a command   *)
(* that does not succeed leaves no trace, but for the upgrade that commits *)
(* in its midst.                                                           *)
(***************************************************************************)
EXTENDS Orders, Migrations, FiniteSetTheorems, TLAPS

-----------------------------------------------------------------------------
(* Orders *)

USE OrdersAssumption

\* A payment refers to an order, and a verification to a payment.
Referential ==
  /\ \A p \in Payments : payment[p] # "none" => order # "none"
  /\ \A v \in Verifiers : ~Verifying(v, "free") => payment[vf[v].payment] # "none"

\* The inductive invariant.
IInv == TypeOK /\ Referential /\ AnnouncementsBounded /\ AnnouncementsFaithful

-----------------------------------------------------------------------------
(* Types *)

\* Rows refer to rows that exist: without that, TypeOK is not inductive, since a
\* verification reads the status of its payment's order.
LEMMA TypesStep ==
  ASSUME TypeOK, Referential, [Next]_vars
  PROVE  TypeOK' /\ Referential'
<1> USE DEF TypeOK, Referential, Free, VerifierTo, Verifying
<1>1. CASE CreateOrder
  BY <1>1 DEF CreateOrder
<1>2. ASSUME NEW p \in Payments, Initialize(p) PROVE TypeOK' /\ Referential'
  BY <1>2 DEF Initialize
<1>3. ASSUME NEW v \in Verifiers, NEW p \in Payments, ReadPayment(v, p)
      PROVE  TypeOK' /\ Referential'
  BY <1>3 DEF ReadPayment
<1>4. ASSUME NEW v \in Verifiers, ReadOrder(v) PROVE TypeOK' /\ Referential'
  BY <1>4 DEF ReadOrder
<1>5. ASSUME NEW v \in Verifiers, CommitVerify(v) PROVE TypeOK' /\ Referential'
  BY <1>5 DEF CommitVerify
<1>6. ASSUME NEW v \in Verifiers, EmitSuccessful(v) PROVE TypeOK' /\ Referential'
  BY <1>6 DEF EmitSuccessful
<1>7. ASSUME NEW v \in Verifiers, VerifierDies(v) PROVE TypeOK' /\ Referential'
  BY <1>7 DEF VerifierDies
<1>8. ASSUME NEW s \in Staff, NEW new \in OrderStatus, ReadStatus(s, new)
      PROVE  TypeOK' /\ Referential'
  BY <1>8 DEF ReadStatus
<1>9. ASSUME NEW s \in Staff, CommitStatus(s) PROVE TypeOK' /\ Referential'
  BY <1>9 DEF CommitStatus
<1>10. ASSUME NEW s \in Staff, EmitStatusChanged(s) \/ StaffDies(s)
       PROVE  TypeOK' /\ Referential'
  BY <1>10 DEF EmitStatusChanged, StaffDies
<1>11. CASE UNCHANGED vars
  BY <1>11 DEF vars
<1>12. QED
  BY <1>1, <1>2, <1>3, <1>4, <1>5, <1>6, <1>7, <1>8, <1>9, <1>10, <1>11
     DEF Next, VerifierStep, StaffStep

\* Every state of the order, its payments and the calls is well typed.
THEOREM OrdersTypeOK == Spec => []TypeOK
<1>1. Init => TypeOK /\ Referential
  BY DEF Init, TypeOK, Referential, Free, Verifying
<1>2. TypeOK /\ Referential /\ [Next]_vars => TypeOK' /\ Referential'
  BY TypesStep
<1>3. QED
  BY <1>1, <1>2, PTL DEF Spec

-----------------------------------------------------------------------------
(* Counting announcements and the calls that may still make one *)

Held(p) == Holding(p, {"reading", "deciding", "emitting"})

\* There are at most as many calls about a payment as there are calls.
LEMMA HeldFinite ==
  ASSUME NEW p \in Payments
  PROVE  /\ IsFiniteSet(Held(p))
         /\ Cardinality(Held(p)) \in Nat
         /\ Cardinality(Verifiers) \in Nat
         /\ Cardinality(Held(p)) <= Cardinality(Verifiers)
<1>1. Held(p) \in SUBSET Verifiers
  BY DEF Held, Holding
<1>2. QED
  BY <1>1, FS_Subset, FS_CardinalityType

\* What is to be kept for one payment.
Bounded(p) == announced[p] + Cardinality(Held(p)) <= Cardinality(Verifiers)

\* A step that leaves a payment's announcements alone, and its calls or fewer.
LEMMA QuietBounded ==
  ASSUME TypeOK, NEW p \in Payments, Bounded(p),
         announced'[p] = announced[p], Held(p)' \subseteq Held(p)
  PROVE  Bounded(p)'
<1>1. Held(p)' \in SUBSET Held(p)
  OBVIOUS
<1>2. Cardinality(Held(p)') <= Cardinality(Held(p)) /\ Cardinality(Held(p)') \in Nat
  BY <1>1, HeldFinite, FS_Subset, FS_CardinalityType
<1>3. announced[p] \in Nat
  BY DEF TypeOK
<1>4. QED
  BY <1>2, <1>3, HeldFinite DEF Bounded

\* A verification begins only while its payment is pending, and nothing has been
\* announced about that yet.
LEMMA ReadBounded ==
  ASSUME IInv, NEW v \in Verifiers, NEW p \in Payments, ReadPayment(v, p)
  PROVE  Bounded(p)'
<1>1. announced'[p] = 0
  BY DEF ReadPayment, IInv, TypeOK, AnnouncementsFaithful, AnnouncedIsPaid
<1>2. Held(p)' \in SUBSET Verifiers
  BY DEF Held, Holding
<1>3. Cardinality(Held(p)') \in Nat /\ Cardinality(Held(p)') <= Cardinality(Verifiers)
  BY <1>2, FS_Subset, FS_CardinalityType
<1>4. QED
  BY <1>1, <1>3 DEF Bounded

\* An announcement is made by a call that ends with it.
LEMMA EmitBounded ==
  ASSUME IInv, NEW v \in Verifiers, EmitSuccessful(v), NEW p \in Payments
  PROVE  Bounded(p)'
<1> USE DEF IInv, TypeOK, Free, EmitSuccessful, Verifying, VerifierTo
<1>1. Bounded(p)
  BY DEF AnnouncementsBounded, Bounded, Held
<1>2. Held(p)' = Held(p) \ {v}
  BY DEF Held, Holding
<1>3. CASE announced'[p] = announced[p]
  BY <1>1, <1>2, <1>3, QuietBounded
<1>4. CASE announced'[p] # announced[p]
  <2>1. vf[v].payment = p /\ announced'[p] = announced[p] + 1 /\ announced[p] \in Nat
    BY <1>4
  <2>2. v \in Held(p)
    BY <2>1 DEF Held, Holding
  <2>3. Cardinality(Held(p)') = Cardinality(Held(p)) - 1
    BY <1>2, <2>2, HeldFinite, FS_RemoveElement
  <2>4. QED
    BY <1>1, <2>1, <2>3, HeldFinite DEF Bounded
<1>5. QED
  BY <1>3, <1>4

\* The count of announcements and of calls that may make one is preserved.
LEMMA BoundedStep ==
  ASSUME IInv, [Next]_vars
  PROVE  AnnouncementsBounded'
<1> SUFFICES ASSUME NEW p \in Payments PROVE Bounded(p)'
  BY DEF AnnouncementsBounded, Bounded, Held
<1>0. Bounded(p) /\ TypeOK
  BY DEF IInv, AnnouncementsBounded, Bounded, Held
<1> USE DEF IInv, TypeOK, Free, Verifying, VerifierTo, Held, Holding
<1>1. ASSUME vf' = vf, announced' = announced PROVE Bounded(p)'
  BY <1>0, <1>1, QuietBounded
<1>2. CASE CreateOrder \/ UNCHANGED vars
  BY <1>1, <1>2 DEF CreateOrder, vars
<1>3. ASSUME NEW q \in Payments, Initialize(q) PROVE Bounded(p)'
  BY <1>1, <1>3 DEF Initialize
<1>4. ASSUME NEW v \in Verifiers, NEW q \in Payments, ReadPayment(v, q) PROVE Bounded(p)'
  <2>1. CASE p = q
    BY <1>4, <2>1, ReadBounded
  <2>2. CASE p # q
    <3>1. Held(p)' \subseteq Held(p) /\ announced' = announced
      BY <1>4, <2>2 DEF ReadPayment
    <3>2. QED
      BY <1>0, <3>1, QuietBounded
  <2>3. QED
    BY <2>1, <2>2
<1>5. ASSUME NEW v \in Verifiers, ReadOrder(v) \/ CommitVerify(v) \/ VerifierDies(v)
      PROVE  Bounded(p)'
  <2>1. Held(p)' \subseteq Held(p) /\ announced' = announced
    BY <1>5 DEF ReadOrder, CommitVerify, VerifierDies
  <2>2. QED
    BY <1>0, <2>1, QuietBounded
<1>6. ASSUME NEW v \in Verifiers, EmitSuccessful(v) PROVE Bounded(p)'
  BY <1>6, EmitBounded
<1>7. ASSUME NEW s \in Staff, NEW new \in OrderStatus, ReadStatus(s, new) PROVE Bounded(p)'
  BY <1>1, <1>7 DEF ReadStatus
<1>8. ASSUME NEW s \in Staff, StaffStep(s) \/ StaffDies(s) PROVE Bounded(p)'
  BY <1>1, <1>8 DEF StaffStep, CommitStatus, EmitStatusChanged, StaffDies
<1>9. QED
  BY <1>2, <1>3, <1>4, <1>5, <1>6, <1>7, <1>8 DEF Next, VerifierStep

-----------------------------------------------------------------------------
(* What is announced is paid, and the other way round *)

\* A success is never taken back, and a call that is to announce it has committed it.
LEMMA FaithfulStep ==
  ASSUME IInv, [Next]_vars
  PROVE  AnnouncementsFaithful'
<1> USE DEF IInv, TypeOK, Free, Verifying, VerifierTo, Holding,
            AnnouncementsFaithful, AnnouncedIsPaid, SuccessAnnounced
<1>1. CASE CreateOrder \/ UNCHANGED vars
  BY <1>1 DEF CreateOrder, vars
<1>2. ASSUME NEW p \in Payments, Initialize(p) PROVE AnnouncementsFaithful'
  BY <1>2 DEF Initialize
<1>3. ASSUME NEW v \in Verifiers, NEW p \in Payments, ReadPayment(v, p)
      PROVE  AnnouncementsFaithful'
  BY <1>3 DEF ReadPayment
<1>4. ASSUME NEW v \in Verifiers, ReadOrder(v) PROVE AnnouncementsFaithful'
  BY <1>4 DEF ReadOrder
<1>5. ASSUME NEW v \in Verifiers, CommitVerify(v) PROVE AnnouncementsFaithful'
  BY <1>5 DEF CommitVerify
<1>6. ASSUME NEW v \in Verifiers, EmitSuccessful(v) PROVE AnnouncementsFaithful'
  BY <1>6 DEF EmitSuccessful
<1>7. ASSUME NEW v \in Verifiers, VerifierDies(v) PROVE AnnouncementsFaithful'
  BY <1>7 DEF VerifierDies
<1>8. ASSUME NEW s \in Staff, NEW new \in OrderStatus, ReadStatus(s, new)
      PROVE  AnnouncementsFaithful'
  BY <1>8 DEF ReadStatus
<1>9. ASSUME NEW s \in Staff, StaffStep(s) \/ StaffDies(s) PROVE AnnouncementsFaithful'
  BY <1>9 DEF StaffStep, CommitStatus, EmitStatusChanged, StaffDies
<1>10. QED
  BY <1>1, <1>2, <1>3, <1>4, <1>5, <1>6, <1>7, <1>8, <1>9 DEF Next, VerifierStep

\* The inductive invariant holds.
LEMMA OrdersInvariant == Spec => []IInv
<1>1. Init => IInv
  <2> SUFFICES ASSUME Init PROVE IInv
    OBVIOUS
  <2>1. \A p \in Payments : Held(p) = {} /\ Holding(p, {"emitting"}) = {}
    BY DEF Init, Free, Held, Holding
  <2>2. AnnouncementsBounded
    <3>1. Cardinality({}) = 0 /\ Cardinality(Verifiers) \in Nat
      BY FS_EmptySet, FS_CardinalityType
    <3>2. \A p \in Payments : announced[p] = 0
      BY DEF Init
    <3>3. \A p \in Payments : announced[p] + Cardinality(Held(p)) <= Cardinality(Verifiers)
      BY <2>1, <3>1, <3>2
    <3>4. QED
      BY <3>3 DEF AnnouncementsBounded, Held
  <2>3. AnnouncementsFaithful
    BY <2>1 DEF Init, AnnouncementsFaithful, AnnouncedIsPaid, SuccessAnnounced
  <2>4. QED
    BY <2>2, <2>3 DEF Init, IInv, TypeOK, Referential, Free, Verifying
<1>2. IInv /\ [Next]_vars => IInv'
  BY TypesStep, BoundedStep, FaithfulStep DEF IInv
<1>3. QED
  BY <1>1, <1>2, PTL DEF Spec

\* However many verifications of a payment race, it is announced at most as often
\* as there can be concurrent calls.
THEOREM OrdersAnnouncementsBounded == Spec => []AnnouncementsBounded
<1>1. IInv => AnnouncementsBounded
  BY DEF IInv
<1>2. QED
  BY <1>1, OrdersInvariant, PTL

\* Only what is committed as paid is announced, and an announcement is lost only by
\* a failing handler or the end of a process after the commit.
THEOREM OrdersAnnouncementsFaithful == Spec => []AnnouncementsFaithful
<1>1. IInv => AnnouncementsFaithful
  BY DEF IInv
<1>2. QED
  BY <1>1, OrdersInvariant, PTL

\* The commit that makes a payment successful completes the order, unless its call
\* had seen the order completed before staff changed it.
THEOREM OrdersPaidCompletes == Spec => PaidCompletes
<1> DEFINE Paid ==
      \A p \in Payments : payment[p] = "pending" /\ payment'[p] = "success" =>
        \/ order' = "completed"
        \/ \E v \in Verifiers : Verifying(v, "deciding") /\ vf[v].payment = p
                                  /\ vf[v].order = "completed"
<1>1. TypeOK /\ [Next]_vars => [Paid]_vars
  <2> SUFFICES ASSUME TypeOK, Next, NEW p \in Payments,
                      payment[p] = "pending", payment'[p] = "success"
               PROVE  \/ order' = "completed"
                      \/ \E v \in Verifiers : Verifying(v, "deciding") /\ vf[v].payment = p
                                                /\ vf[v].order = "completed"
    BY DEF vars
  <2>1. PICK v \in Verifiers : CommitVerify(v) /\ vf[v].payment = p
    <3> USE DEF TypeOK
    <3>1. ASSUME NEW q \in Payments, Initialize(q) PROVE FALSE
      BY <3>1 DEF Initialize
    <3>2. payment' # payment
      OBVIOUS
    <3>3. PICK v \in Verifiers : CommitVerify(v)
      BY <3>1, <3>2 DEF Next, VerifierStep, StaffStep, CreateOrder, ReadPayment, ReadOrder,
           EmitSuccessful, VerifierDies, ReadStatus, CommitStatus, EmitStatusChanged, StaffDies
    <3>4. vf[v].payment = p
      BY <3>3 DEF CommitVerify
    <3>5. QED
      BY <3>3, <3>4
  <2>2. QED
    BY <2>1 DEF CommitVerify
<1>2. QED
  BY <1>1, OrdersTypeOK, PTL DEF Spec, PaidCompletes

-----------------------------------------------------------------------------
(* Migrations *)

\* The running command, and the list it works through.
CommandTyped == command \in [kind : Commands, at : Nat, open : BOOLEAN]
Steps        == Plan[command.kind][start.version]

TablesTyped ==
  /\ db.version \in Revision /\ IsFiniteSet(db.schema)
  /\ tx.version \in Revision /\ IsFiniteSet(tx.schema)
  /\ start.version \in Revision
  /\ command # None => CommandTyped /\ command.at \in 1 .. Len(Steps) + 1

\* What the next statement finds, if the command began with a schema as described.
Course   == Path[command.kind][start.version]
Expected == Course[command.at]

\* The command has come as far as its path: what it sees is what is expected and what was
\* there beyond its version's schema when it began.
OnPath ==
  command # None =>
    /\ command.kind # "upgrade" => start.version > 0
    /\ tx.version = Expected.version /\ Expected.schema \subseteq tx.schema
    /\ tx.schema \ Expected.schema \subseteq start.schema \ Described[start.version]
    /\ \A i \in DOMAIN Steps : i < command.at =>
         ~Refused(Steps[i], Course[i].schema)

\* Nothing is committed before the COMMIT of a migration, and whoever finds the label in
\* place gets no further.
PastCommit ==
  \E i \in DOMAIN Steps : /\ i < command.at /\ Steps[i].op = "commit"
                          /\ FirstLabel \in start.schema => command.at = i + 1

UntilCommit ==
  command # None => /\ command.open => db = start
                    /\ ~command.open => PastCommit

\* All that version describes is there, and what is beyond it has a cause; below
\* 39ac1e823fed there is nothing beyond it, or the label.
Explained(d, R) ==
  /\ Described[d.version] \subseteq d.schema
  /\ Names(d.schema \ Described[d.version]) \subseteq TouchedBy(R) \cup Labels
  /\ d.version < SuperAdmin /\ FirstLabel \notin d.schema => d.schema = Described[d.version]

DriftExplained ==
  /\ Explained(db, Unfinished)
  /\ command # None => /\ Explained(start, torn)
                       /\ FirstLabel \in start.schema => FirstLabel \in tx.schema

\* A command that has ended says so.
OutcomeTold == outcome \in {"failed", "interrupted"} => command = None

MigrationInv ==
  MigrationsTypeOK /\ TablesTyped /\ OnPath /\ UntilCommit /\ DriftExplained /\ OutcomeTold /\ FailureAtomic

-----------------------------------------------------------------------------
(* Schemas and courses *)

\* What PlanShape says of the list of the running command.
LEMMA StepsShape ==
  ASSUME TablesTyped, command # None
  PROVE  /\ command.kind \in Commands /\ command.at \in Nat /\ command.open \in BOOLEAN
         /\ start.version \in Revision
         /\ Len(Steps) \in Nat /\ DOMAIN Steps = 1 .. Len(Steps)
         /\ command.at \in 1 .. Len(Steps) + 1
         /\ \A i \in DOMAIN Steps : Steps[i].op = "version" => Steps[i].version \in Revision
         /\ \A i \in DOMAIN Steps : Steps[i].op = "commit" => command.kind = "upgrade" /\ start.version < SuperAdmin
<1>1. command.kind \in Commands /\ command.at \in Nat /\ command.open \in BOOLEAN /\ start.version \in Revision
  BY DEF TablesTyped, CommandTyped
<1>2. ListShaped(command.kind, start.version, Steps)
  BY <1>1, PlanShape DEF Steps
<1>3. command.at \in 1 .. Len(Steps) + 1
  BY DEF TablesTyped
<1>4. QED
  BY <1>1, <1>2, <1>3 DEF ListShaped

\* What PathShape says of its course.
LEMMA CourseShape ==
  ASSUME TablesTyped, command # None
  PROVE  /\ Follows(start.version, Steps, Course) /\ SparesLabel(Steps)
         /\ command.kind = "upgrade" => Ascends(Steps, Course) /\ LabelsNext(Steps, Course)
         /\ command.kind # "upgrade" /\ start.version > 0 => Descends(start.version, Steps, Course)
<1>1. command.kind \in Commands /\ start.version \in Revision
  BY StepsShape
<1>2. QED
  BY <1>1, PathShape DEF Steps, Course

\* Revisions are numbers.
LEMMA RevisionsNat == \A r \in Revision : r \in Nat
BY DEF Revision

\* A schema stays finite.
LEMMA AfterFinite ==
  ASSUME NEW stm, NEW schema, IsFiniteSet(schema)
  PROVE  IsFiniteSet(After(stm, schema))
<1>1. IsFiniteSet(schema \cup {stm.object})
  BY FS_AddElement
<1>2. IsFiniteSet({o \in schema : stm.name \notin {o.name, o.of}})
  <2>1. {o \in schema : stm.name \notin {o.name, o.of}} \in SUBSET schema
    OBVIOUS
  <2>2. QED
    BY <2>1, FS_Subset
<1>3. \/ After(stm, schema) = schema \cup {stm.object}
      \/ After(stm, schema) = {o \in schema : stm.name \notin {o.name, o.of}}
      \/ After(stm, schema) = schema
  BY DEF After
<1>4. QED
  BY <1>1, <1>2, <1>3

\* A statement adds or removes the same objects in a larger schema.
LEMMA AfterKeeps ==
  ASSUME NEW stm, NEW small, NEW large, small \subseteq large
  PROVE  /\ After(stm, small) \subseteq After(stm, large)
         /\ After(stm, large) \ After(stm, small) \subseteq large \ small
<1>1. CASE stm.op \in {"create", "ensure"}
  <2>1. After(stm, small) = small \cup {stm.object} /\ After(stm, large) = large \cup {stm.object}
    BY <1>1 DEF After
  <2>2. QED
    BY <2>1
<1>2. CASE stm.op \in {"drop", "discard"}
  <2>1. /\ After(stm, small) = {o \in small : stm.name \notin {o.name, o.of}}
        /\ After(stm, large) = {o \in large : stm.name \notin {o.name, o.of}}
    BY <1>2 DEF After
  <2>2. QED
    BY <2>1
<1>3. CASE stm.op \notin {"create", "ensure", "drop", "discard"}
  <2>1. After(stm, small) = small /\ After(stm, large) = large
    BY <1>3 DEF After
  <2>2. QED
    BY <2>1
<1>4. QED
  BY <1>1, <1>2, <1>3

\* An object stays unless it is dropped, or its table is.
LEMMA AfterSpares ==
  ASSUME NEW stm, NEW schema, NEW o \in schema,
         stm.op \in {"drop", "discard"} => stm.name \notin {o.name, o.of}
  PROVE  o \in After(stm, schema)
<1>1. CASE stm.op \in {"create", "ensure"}
  <2>1. After(stm, schema) = schema \cup {stm.object}
    BY <1>1 DEF After
  <2>2. QED
    BY <2>1
<1>2. CASE stm.op \in {"drop", "discard"}
  <2>1. After(stm, schema) = {q \in schema : stm.name \notin {q.name, q.of}}
    BY <1>2 DEF After
  <2>2. QED
    BY <1>2, <2>1
<1>3. CASE stm.op \notin {"create", "ensure", "drop", "discard"}
  BY <1>3 DEF After
<1>4. QED
  BY <1>1, <1>2, <1>3

\* What is refused in a schema is in no larger one allowed.
LEMMA RefusedStays ==
  ASSUME NEW stm, NEW small, NEW large, small \subseteq large, Refused(stm, small)
  PROVE  ~Allowed(stm, large)
<1>1. PICK o \in large : stm.name \in o.refs /\ stm.name \notin {o.of, o.name}
  BY DEF Refused
<1>2. stm.op = "drop"
  BY DEF Refused
<1>3. Allowed(stm, large) => \A q \in large : stm.name \in q.refs => q.of = stm.name \/ q.name = stm.name
  BY <1>2 DEF Allowed
<1>4. QED
  BY <1>1, <1>3

\* What is there is not created again.
LEMMA CreatedOnce ==
  ASSUME NEW stm, NEW schema, stm.op = "create", stm.object \in schema
  PROVE  ~Allowed(stm, schema)
<1>1. Allowed(stm, schema) => stm.object.name \notin Names(schema)
  BY DEF Allowed
<1>2. stm.object.name \in Names(schema)
  BY DEF Names
<1>3. QED
  BY <1>1, <1>2

\* A larger schema has more names.
LEMMA NamesMonotone ==
  ASSUME NEW small, NEW large, small \subseteq large
  PROVE  Names(small) \subseteq Names(large)
BY DEF Names

\* The names of a difference.
LEMMA NamesSplit ==
  ASSUME NEW small, NEW middle, NEW large
  PROVE  /\ Names(large \ small) \subseteq Names(large \ middle) \cup Names(middle \ small)
         /\ Names(large) \ Names(small) \subseteq Names(large \ small)
BY DEF Names

\* More migrations touch more.
LEMMA TouchedMonotone ==
  ASSUME NEW R, NEW Q, R \subseteq Q
  PROVE  TouchedBy(R) \subseteq TouchedBy(Q)
BY DEF TouchedBy

-----------------------------------------------------------------------------
(* What a command leaves *)

\* A command outside any transaction is an upgrade past the COMMIT of 39ac1e823fed.
LEMMA OpenEnded ==
  ASSUME TablesTyped, OnPath, NEW i \in DOMAIN Steps, command # None, i < command.at, Steps[i].op = "commit"
  PROVE  /\ command.kind = "upgrade" /\ start.version < SuperAdmin /\ tx.version >= SuperAdmin - 1
         /\ command.at \in i + 1 .. Len(Steps) + 1
<1>1. /\ command.kind = "upgrade" /\ start.version < SuperAdmin
      /\ Len(Steps) \in Nat /\ DOMAIN Steps = 1 .. Len(Steps) /\ command.at \in 1 .. Len(Steps) + 1
  BY StepsShape
<1>2. command.at \in i + 1 .. Len(Steps) + 1
  BY <1>1
<1>3. Course[command.at].version >= SuperAdmin - 1
  BY <1>1, <1>2, CourseShape DEF LabelsNext
<1>4. QED
  BY <1>1, <1>2, <1>3 DEF OnPath, Expected

\* A command past the COMMIT.
Committed ==
  /\ TablesTyped /\ OnPath /\ command # None /\ Explained(start, torn)
  /\ FirstLabel \in start.schema => FirstLabel \in tx.schema
  /\ \E i \in DOMAIN Steps : i < command.at /\ Steps[i].op = "commit"

\* After the COMMIT every statement leaves what is explained by the migration that it belongs to.
LEMMA CommittedExplained == Committed => Explained(tx, torn \cup ({tx.version + 1} \cap Revision))
<1> SUFFICES ASSUME TablesTyped, OnPath, command # None, Explained(start, torn),
                    FirstLabel \in start.schema => FirstLabel \in tx.schema,
                    \E i \in DOMAIN Steps : i < command.at /\ Steps[i].op = "commit"
             PROVE  Explained(tx, torn \cup ({tx.version + 1} \cap Revision))
  BY DEF Committed
<1>1. PICK i \in DOMAIN Steps : i < command.at /\ Steps[i].op = "commit"
  OBVIOUS
<1>2. /\ command.kind = "upgrade" /\ start.version < SuperAdmin
      /\ command.at \in i + 1 .. Len(Steps) + 1
  BY <1>1, OpenEnded
<1>3. command.at \in 1 .. Len(Steps) + 1
  BY StepsShape
<1>4. /\ tx.version = Expected.version /\ Expected.schema \subseteq tx.schema
      /\ tx.schema \ Expected.schema \subseteq start.schema \ Described[start.version]
  BY DEF OnPath
<1> DEFINE torn2 == torn \cup ({tx.version + 1} \cap Revision)
           D     == Described[tx.version]
<1>5. /\ D \subseteq Expected.schema
      /\ Names(Expected.schema \ D) \subseteq TouchedBy({tx.version + 1} \cap Revision)
  BY <1>2, <1>3, <1>4, CourseShape DEF Expected, Ascends
<1>6. Names(Expected.schema \ D) \subseteq TouchedBy(torn2)
  BY <1>5, TouchedMonotone
<1>7. Names(tx.schema \ Expected.schema) \subseteq TouchedBy(torn2) \cup Labels
  <2>1. Names(tx.schema \ Expected.schema) \subseteq Names(start.schema \ Described[start.version])
    BY <1>4, NamesMonotone
  <2>2. TouchedBy(torn) \subseteq TouchedBy(torn2)
    BY TouchedMonotone
  <2>3. QED
    BY <2>1, <2>2 DEF Explained
<1>8. Names(tx.schema \ D) \subseteq TouchedBy(torn2) \cup Labels
  BY <1>6, <1>7, NamesSplit
<1>9. ASSUME tx.version < SuperAdmin, FirstLabel \notin tx.schema
      PROVE  tx.schema = D
  <2>1. start.schema = Described[start.version]
    BY <1>2, <1>9 DEF Explained
  <2>2. tx.schema = Expected.schema
    BY <1>4, <2>1
  <2>3. Expected.version >= SuperAdmin \/ command.at = i + 1 \/ FirstLabel \in Expected.schema
    BY <1>1, <1>2, CourseShape DEF Expected, LabelsNext
  <2>4. Expected.version \in Int
    BY <1>4, RevisionsNat DEF TablesTyped
  <2>5. command.at = i + 1
    BY <1>4, <1>9, <2>2, <2>3, <2>4 DEF SuperAdmin
  <2>6. Course[i + 1].schema = Described[Course[i + 1].version]
    BY <1>1, <1>2, CourseShape DEF LabelsNext
  <2>7. QED
    BY <1>4, <2>2, <2>5, <2>6 DEF Expected
<1>10. QED
  BY <1>4, <1>5, <1>8, <1>9 DEF Explained

\* A statement fails after the COMMIT only if that has left nothing but what was there.
LEMMA FailureExplained ==
  ASSUME TablesTyped, OnPath, UntilCommit, Explained(start, torn),
         FirstLabel \in start.schema => FirstLabel \in tx.schema,
         command # None, ~command.open, command.at <= Len(Steps), ~Allowed(Steps[command.at], tx.schema)
  PROVE  Explained(tx, torn)
<1>1. PICK i \in DOMAIN Steps : /\ i < command.at /\ Steps[i].op = "commit"
                                /\ FirstLabel \in start.schema => command.at = i + 1
  BY DEF UntilCommit, PastCommit
<1>2. command.kind = "upgrade" /\ start.version < SuperAdmin
  BY <1>1, OpenEnded
<1>3. /\ tx.version = Expected.version /\ Expected.schema \subseteq tx.schema
      /\ tx.schema \ Expected.schema \subseteq start.schema \ Described[start.version]
  BY DEF OnPath
<1>4. command.at \in DOMAIN Steps
  BY StepsShape
<1>5. CASE FirstLabel \notin start.schema
  <2>1. start.schema = Described[start.version]
    BY <1>2, <1>5 DEF Explained
  <2>2. tx.schema = Expected.schema
    BY <1>3, <2>1
  <2>3. Allowed(Steps[command.at], Expected.schema)
    BY <1>2, <1>4, CourseShape DEF Expected, Ascends
  <2>4. QED
    BY <2>2, <2>3
<1>6. CASE FirstLabel \in start.schema
  <2>1. command.at = i + 1
    BY <1>1, <1>6
  <2>2. Course[i + 1].schema = Described[Course[i + 1].version]
    BY <1>1, <1>2, CourseShape DEF LabelsNext
  <2>3. Expected.schema = Described[tx.version]
    BY <1>3, <2>1, <2>2 DEF Expected
  <2>4. Names(tx.schema \ Described[tx.version]) \subseteq Names(start.schema \ Described[start.version])
    <3>1. tx.schema \ Described[tx.version] \subseteq start.schema \ Described[start.version]
      BY <1>3, <2>3
    <3>2. QED
      BY <3>1, NamesMonotone
  <2>5. FirstLabel \in tx.schema
    BY <1>6
  <2>6. QED
    BY <1>3, <2>3, <2>4, <2>5 DEF Explained
<1>7. QED
  BY <1>5, <1>6

\* A command that ends leaves what was beyond its schema, and labels.
LEMMA EndExplained ==
  ASSUME TablesTyped, OnPath, Explained(start, torn),
         FirstLabel \in start.schema => FirstLabel \in tx.schema,
         command # None, ~(command.at <= Len(Steps))
  PROVE  Explained(tx, torn)
<1>1. /\ tx.version = Expected.version /\ Expected.schema \subseteq tx.schema
      /\ tx.schema \ Expected.schema \subseteq start.schema \ Described[start.version]
  BY DEF OnPath
<1>2. /\ Len(Steps) \in Nat /\ DOMAIN Steps = 1 .. Len(Steps) /\ command.at = Len(Steps) + 1
      /\ start.version \in Revision
  BY StepsShape
<1> DEFINE D == Described[tx.version]
<1>3. Names(tx.schema \ Expected.schema) \subseteq TouchedBy(torn) \cup Labels
  <2>1. Names(tx.schema \ Expected.schema) \subseteq Names(start.schema \ Described[start.version])
    BY <1>1, NamesMonotone
  <2>2. QED
    BY <2>1 DEF Explained
<1>4. CASE command.kind = "upgrade"
  <2>1. Expected.schema = Described[Expected.version] /\ Expected.version >= SuperAdmin
    BY <1>2, <1>4, CourseShape DEF Expected, Ascends
  <2>2. ~(tx.version < SuperAdmin)
    <3>1. tx.version \in Int
      BY RevisionsNat DEF TablesTyped
    <3>2. QED
      BY <1>1, <2>1, <3>1 DEF SuperAdmin
  <2>3. QED
    BY <1>1, <1>3, <2>1, <2>2 DEF Explained
<1>5. CASE command.kind # "upgrade"
  <2>1. start.version > 0
    BY <1>5 DEF OnPath
  <2>2. \A i \in DOMAIN Steps : ~Refused(Steps[i], Course[i].schema)
    <3>1. \A i \in DOMAIN Steps : i < command.at
      BY <1>2
    <3>2. QED
      BY <3>1 DEF OnPath
  <2>3. /\ D \subseteq Expected.schema /\ Names(Expected.schema \ D) \subseteq Labels
        /\ start.version < SuperAdmin => Expected.schema = D
    BY <1>1, <1>2, <1>5, <2>1, <2>2, CourseShape DEF Expected, Descends
  <2>4. Names(tx.schema \ D) \subseteq TouchedBy(torn) \cup Labels
    BY <1>3, <2>3, NamesSplit
  <2>5. ASSUME FirstLabel \notin tx.schema PROVE tx.schema = D
    <3>1. FirstLabel \notin start.schema
      BY <2>5
    <3>2. start.version < SuperAdmin
      <4>1. ~(start.version >= SuperAdmin)
        BY <1>2, <3>1, PathShape DEF Explained
      <4>2. start.version \in Int
        BY <1>2, RevisionsNat
      <4>3. QED
        BY <4>1, <4>2 DEF SuperAdmin
    <3>3. start.schema = Described[start.version]
      BY <3>1, <3>2 DEF Explained
    <3>4. QED
      BY <1>1, <2>3, <3>2, <3>3
  <2>6. QED
    BY <1>1, <2>3, <2>4, <2>5 DEF Explained
<1>6. QED
  BY <1>4, <1>5

-----------------------------------------------------------------------------
(* Steps *)

\* The empty database satisfies the invariant.
LEMMA MigrationsStarts == MigrationsInit => MigrationInv
<1> SUFFICES ASSUME MigrationsInit PROVE MigrationInv
  OBVIOUS
<1>1. /\ db.version = 0 /\ db.schema = {} /\ tx = db /\ start = db /\ command = None
      /\ outcome = "none" /\ torn = {}
  BY DEF MigrationsInit
<1>2. 0 \in Revision
  BY DEF Revision, HeadRevision, Upgrades
<1>3. IsFiniteSet({})
  BY FS_EmptySet
<1>4. MigrationsTypeOK
  BY <1>1, <1>2, <1>3, MigrationsAssumption DEF MigrationsInit, MigrationsTypeOK
<1>5. TablesTyped
  BY <1>1, <1>2, <1>3 DEF TablesTyped
<1>6. Explained(db, Unfinished)
  <2>1. Described[0] = {}
    BY PathShape
  <2>2. Names({}) = {}
    BY DEF Names
  <2>3. QED
    BY <1>1, <2>1, <2>2 DEF Explained
<1>7. OnPath /\ UntilCommit /\ DriftExplained
  BY <1>1, <1>6 DEF OnPath, UntilCommit, DriftExplained
<1>8. QED
  BY <1>1, <1>4, <1>5, <1>7 DEF MigrationInv, OutcomeTold, FailureAtomic

\* A command opens its transaction on what is committed.
LEMMA BeginStep ==
  ASSUME MigrationInv, NEW k \in Commands, Begin(k)
  PROVE  MigrationInv'
<1>0. MigrationsTypeOK /\ TablesTyped /\ DriftExplained
  BY DEF MigrationInv
<1>1. /\ db' = db /\ start' = db /\ tx' = db /\ outcome' = "running"
      /\ torn' = torn /\ interrupts' = interrupts
      /\ command' = [kind |-> k, at |-> 1, open |-> TRUE]
      /\ command = None
  BY DEF Begin
<1>2. /\ command'.kind = k /\ command'.at = 1 /\ command'.open = TRUE
      /\ command' \in [kind : Commands, at : Nat, open : BOOLEAN]
  BY <1>1
<1>3. db.version \in Revision /\ IsFiniteSet(db.schema)
  BY <1>0 DEF TablesTyped
<1>4. /\ ListShaped(k, db.version, Plan[k][db.version])
      /\ Follows(db.version, Plan[k][db.version], Path[k][db.version])
  BY <1>3, PlanShape, PathShape
<1>5. /\ DOMAIN Plan[k][db.version] = 1 .. Len(Plan[k][db.version])
      /\ 1 \in 1 .. Len(Plan[k][db.version]) + 1
  BY <1>4 DEF ListShaped
<1>6. Plan[command.kind][start.version]' = Plan[k][db.version]
  BY <1>1, <1>2
<1>7. downgraded' \in 0 .. MaxDowngrades
  BY <1>0, MigrationsAssumption DEF Begin, MigrationsTypeOK
<1>8. MigrationsTypeOK'
  BY <1>0, <1>1, <1>2, <1>3, <1>5, <1>6, <1>7 DEF MigrationsTypeOK, Statements
<1>9. TablesTyped'
  BY <1>1, <1>2, <1>3, <1>5, <1>6 DEF TablesTyped, CommandTyped, Steps
<1>10. OnPath'
  <2>1. Course' = Path[k][db.version] /\ Expected' = Path[k][db.version][1] /\ Steps' = Plan[k][db.version]
    BY <1>1, <1>2 DEF Course, Expected, Steps
  <2>2. tx'.version = Expected'.version /\ Expected'.schema = Described[db.version]
    BY <1>1, <1>4, <2>1 DEF Follows
  <2>3. Described[db.version] \subseteq db.schema
    BY <1>0 DEF DriftExplained, Explained
  <2>4. k # "upgrade" => db.version > 0
    BY DEF Begin
  <2>5. \A i \in DOMAIN Plan[k][db.version] : ~(i < 1)
    BY <1>5
  <2>6. QED
    BY <1>1, <1>2, <2>1, <2>2, <2>3, <2>4, <2>5 DEF OnPath
<1>11. DriftExplained'
  <2>1. Unfinished = torn /\ Unfinished' = torn
    BY <1>1, <1>2 DEF Unfinished
  <2>2. Explained(db, torn)
    BY <1>0, <2>1 DEF DriftExplained
  <2>3. QED
    BY <1>1, <2>1, <2>2 DEF DriftExplained
<1>12. UntilCommit' /\ OutcomeTold' /\ FailureAtomic'
  BY <1>1, <1>2 DEF UntilCommit, OutcomeTold, FailureAtomic
<1>13. QED
  BY <1>8, <1>9, <1>10, <1>11, <1>12 DEF MigrationInv

\* However a command is abandoned, the database is as it was, or it is past the COMMIT.
LEMMA AbandonStep ==
  ASSUME MigrationInv, NEW how \in {"failed", "interrupted"}, command # None, Abandon(how),
         torn' \subseteq Revision, interrupts' \in 0 .. MaxInterrupts, Explained(db, torn')
  PROVE  MigrationInv'
<1>0. MigrationsTypeOK /\ TablesTyped /\ OnPath /\ UntilCommit
  BY DEF MigrationInv
<1>1. /\ db' = db /\ start' = start /\ tx' = db /\ command' = None /\ outcome' = how
      /\ downgraded' = downgraded
  BY DEF Abandon
<1>2. MigrationsTypeOK'
  BY <1>0, <1>1 DEF MigrationsTypeOK
<1>3. TablesTyped'
  BY <1>0, <1>1 DEF TablesTyped
<1>4. OnPath' /\ UntilCommit' /\ OutcomeTold'
  BY <1>1 DEF OnPath, UntilCommit, OutcomeTold
<1>5. DriftExplained'
  <2>1. Unfinished' = torn'
    BY <1>1 DEF Unfinished
  <2>2. QED
    BY <1>1, <2>1 DEF DriftExplained
<1>6. db = start \/ (db.version >= SuperAdmin - 1 /\ start.version < SuperAdmin)
  <2>1. CASE command.open
    BY <1>0, <2>1 DEF UntilCommit
  <2>2. CASE ~command.open
    <3>1. PICK i \in DOMAIN Steps : i < command.at /\ Steps[i].op = "commit"
      BY <1>0, <2>2 DEF UntilCommit, PastCommit
    <3>2. tx = db
      BY <1>0, <2>2 DEF MigrationsTypeOK
    <3>3. QED
      BY <1>0, <3>1, <3>2, OpenEnded
  <2>3. QED
    BY <2>1, <2>2
<1>7. FailureAtomic'
  BY <1>1, <1>6 DEF FailureAtomic
<1>8. QED
  BY <1>2, <1>3, <1>4, <1>5, <1>7 DEF MigrationInv

\* A command that ends commits its transaction.
LEMMA FinishStep ==
  ASSUME MigrationInv, Finish
  PROVE  MigrationInv'
<1>0. MigrationsTypeOK /\ TablesTyped /\ OnPath /\ DriftExplained
  BY DEF MigrationInv
<1>1. /\ db' = tx /\ tx' = tx /\ start' = start /\ command' = None /\ outcome' = "done"
      /\ torn' = torn /\ interrupts' = interrupts /\ downgraded' = downgraded
  BY DEF Finish
<1>2. MigrationsTypeOK' /\ TablesTyped'
  BY <1>0, <1>1 DEF MigrationsTypeOK, TablesTyped
<1>3. OnPath' /\ UntilCommit' /\ OutcomeTold' /\ FailureAtomic'
  BY <1>1 DEF OnPath, UntilCommit, OutcomeTold, FailureAtomic
<1>4. DriftExplained'
  <2>1. command # None /\ ~(command.at <= Len(Steps))
    BY DEF Finish, Pending, Statements, Steps
  <2>2. Explained(tx, torn)
    BY <1>0, <2>1, EndExplained DEF DriftExplained
  <2>3. Unfinished' = torn
    BY <1>1 DEF Unfinished
  <2>4. QED
    BY <1>1, <2>2, <2>3 DEF DriftExplained
<1>5. QED
  BY <1>2, <1>3, <1>4 DEF MigrationInv

\* A statement is one step further along the course.
LEMMA ExecuteStep ==
  ASSUME MigrationInv, Execute
  PROVE  MigrationInv'
<1>0. MigrationsTypeOK /\ TablesTyped /\ OnPath /\ UntilCommit /\ DriftExplained /\ OutcomeTold /\ FailureAtomic
  BY DEF MigrationInv
<1>1. command # None /\ command.at <= Len(Steps)
  BY DEF Execute, Pending, Statements, Steps
<1>2. Current = Steps[command.at]
  BY DEF Current, Statements, Steps
<1>3. PICK stm : stm = Current
  OBVIOUS
<1>4. /\ tx' = [schema |-> After(stm, tx.schema), version |-> IF stm.op = "version" THEN stm.version ELSE tx.version]
      /\ command' = [command EXCEPT !.at = command.at + 1, !.open = command.open /\ stm.op # "commit"]
      /\ start' = start /\ outcome' = outcome /\ torn' = torn /\ interrupts' = interrupts
      /\ downgraded' = downgraded
      /\ db' = IF command'.open THEN db ELSE tx'
      /\ Allowed(stm, tx.schema)
  BY <1>3 DEF Execute
<1>5. stm = Steps[command.at]
  BY <1>2, <1>3
<1>6. /\ command.at \in 1 .. Len(Steps) + 1
      /\ Len(Steps) \in Nat /\ DOMAIN Steps = 1 .. Len(Steps)
      /\ \A i \in DOMAIN Steps : Steps[i].op = "version" => Steps[i].version \in Revision
  BY <1>0, <1>1, StepsShape
<1>7. /\ command' \in [kind : Commands, at : Nat, open : BOOLEAN]
      /\ command'.kind = command.kind /\ command'.at = command.at + 1
      /\ command'.open = (command.open /\ stm.op # "commit")
  <2>1. PICK b \in BOOLEAN : b = (command.open /\ stm.op # "commit")
    OBVIOUS
  <2>2. command' = [command EXCEPT !.at = command.at + 1, !.open = b]
    BY <1>4, <2>1
  <2>3. PICK n \in Nat : n = command.at + 1
    BY <1>6
  <2>4. command \in [kind : Commands, at : Nat, open : BOOLEAN]
    BY <1>0, <1>1 DEF TablesTyped, CommandTyped
  <2>5. command' = [command EXCEPT !.at = n, !.open = b]
    BY <2>2, <2>3
  <2>6. /\ command' \in [kind : Commands, at : Nat, open : BOOLEAN]
        /\ command'.kind = command.kind /\ command'.at = n /\ command'.open = b
    BY <2>4, <2>5
  <2>7. QED
    BY <2>1, <2>3, <2>6
<1>8. Steps' = Steps /\ Course' = Course /\ Expected' = Course[command.at + 1]
  BY <1>4, <1>7 DEF Steps, Course, Expected
<1>9. command.at \in DOMAIN Steps
  BY <1>1, <1>6
<1>10. command'.at \in 1 .. Len(Steps) + 1
  BY <1>1, <1>6, <1>7
<1>11. command' # None
  BY <1>0, <1>1, <1>7 DEF Commands, None
<1>12. outcome \notin {"failed", "interrupted"}
  BY <1>0, <1>1 DEF OutcomeTold
<1>13. /\ tx'.schema = After(stm, tx.schema)
       /\ tx'.version = IF stm.op = "version" THEN stm.version ELSE tx.version
  BY <1>4
<1>14. TablesTyped'
  <2>1. /\ IsFiniteSet(tx.schema) /\ tx.version \in Revision /\ start.version \in Revision
        /\ IsFiniteSet(db.schema) /\ db.version \in Revision
    BY <1>0 DEF TablesTyped
  <2>2. IsFiniteSet(tx'.schema)
    BY <1>13, <2>1, AfterFinite
  <2>3. tx'.version \in Revision
    BY <1>5, <1>6, <1>9, <1>13, <2>1
  <2>4. IsFiniteSet(db'.schema) /\ db'.version \in Revision
    BY <1>4, <2>1, <2>2, <2>3
  <2>5. QED
    BY <1>4, <1>7, <1>8, <1>10, <2>1, <2>2, <2>3, <2>4 DEF TablesTyped, CommandTyped
<1>15. MigrationsTypeOK'
  <2>1. ~command'.open => tx' = db'
    BY <1>4
  <2>2. command'.kind \in Commands /\ Statements(command.kind, start.version)' = Steps
    BY <1>4, <1>7 DEF Statements, Steps
  <2>3. db'.version \in Revision /\ IsFiniteSet(db'.schema)
    BY <1>14 DEF TablesTyped
  <2>4. QED
    BY <1>0, <1>4, <1>10, <2>1, <2>2, <2>3 DEF MigrationsTypeOK
<1>16. OnPath'
  <2>1. /\ tx.version = Expected.version /\ Expected.schema \subseteq tx.schema
        /\ tx.schema \ Expected.schema \subseteq start.schema \ Described[start.version]
        /\ \A i \in DOMAIN Steps : i < command.at => ~Refused(Steps[i], Course[i].schema)
        /\ command.kind # "upgrade" => start.version > 0
    BY <1>0, <1>1 DEF OnPath
  <2>2. /\ Expected'.schema = After(stm, Expected.schema)
        /\ Expected'.version = IF stm.op = "version" THEN stm.version ELSE Expected.version
    BY <1>0, <1>1, <1>5, <1>8, <1>9, CourseShape DEF Follows, Expected
  <2>3. tx'.version = Expected'.version
    BY <1>13, <2>1, <2>2
  <2>4. /\ Expected'.schema \subseteq tx'.schema
        /\ tx'.schema \ Expected'.schema \subseteq tx.schema \ Expected.schema
    BY <1>13, <2>1, <2>2, AfterKeeps
  <2>5. ~Refused(stm, Expected.schema)
    BY <1>4, <2>1, RefusedStays
  <2>6. ASSUME NEW i \in DOMAIN Steps, i < command.at + 1
        PROVE  ~Refused(Steps[i], Course[i].schema)
    <3>1. i = command.at \/ i < command.at
      BY <1>6, <2>6
    <3>2. QED
      BY <1>5, <2>1, <2>5, <3>1 DEF Expected
  <2>7. tx'.schema \ Expected'.schema \subseteq start.schema \ Described[start.version]
    BY <2>1, <2>4
  <2>8. start'.version = start.version /\ start'.schema = start.schema
    BY <1>4
  <2>9. QED
    BY <1>7, <1>8, <2>1, <2>3, <2>4, <2>6, <2>7, <2>8 DEF OnPath
<1>17. FirstLabel \in start.schema => FirstLabel \in tx.schema
  BY <1>0, <1>1 DEF DriftExplained
<1>18. UntilCommit'
  <2>1. ASSUME command'.open PROVE db' = start'
    <3>1. db' = db /\ command.open /\ start' = start
      BY <1>4, <1>7, <2>1
    <3>2. QED
      BY <1>0, <1>1, <3>1 DEF UntilCommit
  <2>2. ASSUME ~command'.open PROVE PastCommit'
    <3>1. CASE stm.op = "commit"
      <4>1. command.at < command.at + 1
        BY <1>6
      <4>2. QED
        BY <1>5, <1>7, <1>8, <1>9, <3>1, <4>1 DEF PastCommit
    <3>2. CASE stm.op # "commit"
      <4>1. ~command.open
        BY <1>7, <2>2, <3>2
      <4>2. PICK i \in DOMAIN Steps : /\ i < command.at /\ Steps[i].op = "commit"
                                      /\ FirstLabel \in start.schema => command.at = i + 1
        BY <1>0, <1>1, <4>1 DEF UntilCommit, PastCommit
      <4>3. i < command.at + 1
        BY <1>6, <4>2
      <4>4. FirstLabel \notin start.schema
        <5>1. SUFFICES ASSUME FirstLabel \in start.schema PROVE FALSE
          OBVIOUS
        <5>2. stm = Steps[i + 1]
          BY <1>5, <4>2, <5>1
        <5>3. command.kind = "upgrade"
          BY <1>0, <1>1, <4>2, StepsShape
        <5>4. stm.op = "create" /\ stm.object = FirstLabel
          BY <1>0, <1>1, <4>2, <5>2, <5>3, CourseShape DEF LabelsNext
        <5>5. stm.object \in tx.schema
          BY <1>17, <5>1, <5>4
        <5>6. QED
          BY <1>4, <5>4, <5>5, CreatedOnce
      <4>5. start' = start
        BY <1>4
      <4>6. QED
        BY <1>7, <1>8, <4>2, <4>3, <4>4, <4>5 DEF PastCommit
    <3>3. QED
      BY <3>1, <3>2
  <2>3. QED
    BY <2>1, <2>2 DEF UntilCommit
<1>19. FirstLabel \in start'.schema => FirstLabel \in tx'.schema
  <2>1. SUFFICES ASSUME FirstLabel \in start.schema PROVE FirstLabel \in tx'.schema
    BY <1>4
  <2>2. FirstLabel \in tx.schema
    BY <1>17, <2>1
  <2>3. stm.op \in {"drop", "discard"} => stm.name \notin {FirstLabel.name, FirstLabel.of}
    BY <1>0, <1>1, <1>5, <1>9, CourseShape DEF SparesLabel
  <2>4. QED
    BY <1>13, <2>2, <2>3, AfterSpares
<1>20. Explained(start, torn)'
  BY <1>0, <1>1, <1>4 DEF DriftExplained
<1>21. Explained(db, Unfinished)'
  <2>1. CASE command'.open
    <3>1. command.open /\ db' = db
      BY <1>4, <1>7, <2>1
    <3>2. Unfinished' = torn /\ Unfinished = torn
      BY <1>4, <2>1, <3>1 DEF Unfinished
    <3>3. QED
      BY <1>0, <3>1, <3>2 DEF DriftExplained
  <2>2. CASE ~command'.open
    <3>1. (\E i \in DOMAIN Steps : i < command.at /\ Steps[i].op = "commit")'
      BY <1>11, <1>18, <2>2 DEF UntilCommit, PastCommit
    <3>2. Explained(tx, torn \cup ({tx.version + 1} \cap Revision))'
      <4>1. Committed'
        BY <1>11, <1>14, <1>16, <1>19, <1>20, <3>1 DEF Committed
      <4>2. QED
        BY <4>1, CommittedExplained, PTL
    <3>3. db' = tx' /\ Unfinished' = torn' \cup ({tx'.version + 1} \cap Revision)
      BY <1>4, <1>11, <2>2 DEF Unfinished
    <3>4. QED
      BY <3>2, <3>3
  <2>3. QED
    BY <2>1, <2>2
<1>22. DriftExplained'
  BY <1>19, <1>20, <1>21 DEF DriftExplained
<1>23. OutcomeTold' /\ FailureAtomic'
  BY <1>4, <1>12 DEF OutcomeTold, FailureAtomic
<1>24. QED
  BY <1>14, <1>15, <1>16, <1>18, <1>22, <1>23 DEF MigrationInv

\* Every step preserves the invariant.
LEMMA MigrationInvStep == MigrationInv /\ [MigrationsNext]_migrationVars => MigrationInv'
<1> SUFFICES ASSUME MigrationInv, [MigrationsNext]_migrationVars PROVE MigrationInv'
  OBVIOUS
<1>0. MigrationsTypeOK /\ TablesTyped /\ OnPath /\ UntilCommit /\ DriftExplained
  BY DEF MigrationInv
<1>1. ASSUME NEW k \in Commands, Begin(k) PROVE MigrationInv'
  BY <1>1, BeginStep
<1>2. CASE Execute
  BY <1>2, ExecuteStep
<1>3. CASE StatementFails
  <2>1. command # None /\ Abandon("failed") /\ torn' = torn /\ interrupts' = interrupts
    BY <1>3 DEF StatementFails, Pending
  <2>2. torn' \subseteq Revision /\ interrupts' \in 0 .. MaxInterrupts
    BY <1>0, <2>1 DEF MigrationsTypeOK
  <2>3. Explained(db, torn)
    <3>1. CASE command.open
      <4>1. Unfinished = torn
        BY <3>1 DEF Unfinished
      <4>2. QED
        BY <1>0, <4>1 DEF DriftExplained
    <3>2. CASE ~command.open
      <4>1. command.at <= Len(Steps) /\ ~Allowed(Steps[command.at], tx.schema)
        BY <1>3 DEF StatementFails, Pending, Current, Statements, Steps
      <4>2. Explained(start, torn) /\ (FirstLabel \in start.schema => FirstLabel \in tx.schema)
        BY <1>0, <2>1 DEF DriftExplained
      <4>3. Explained(tx, torn)
        BY <1>0, <2>1, <3>2, <4>1, <4>2, FailureExplained
      <4>4. tx = db
        BY <1>0, <3>2 DEF MigrationsTypeOK
      <4>5. QED
        BY <4>3, <4>4
    <3>3. QED
      BY <3>1, <3>2
  <2>4. Explained(db, torn')
    BY <2>1, <2>3
  <2>5. QED
    BY <2>1, <2>2, <2>4, AbandonStep
<1>4. CASE Interrupt
  <2>1. command # None /\ Abandon("interrupted")
    BY <1>4 DEF Interrupt
  <2>2. torn' \subseteq Revision
    BY <1>0, <1>4 DEF Interrupt, MigrationsTypeOK
  <2>3. interrupts' \in 0 .. MaxInterrupts
    BY <1>0, <1>4, MigrationsAssumption DEF Interrupt, MigrationsTypeOK
  <2>4. Explained(db, torn')
    <3>1. torn' = Unfinished
      BY <1>4, <2>1 DEF Interrupt, Unfinished
    <3>2. QED
      BY <1>0, <3>1 DEF DriftExplained
  <2>5. QED
    BY <2>1, <2>2, <2>3, <2>4, AbandonStep
<1>5. CASE Finish
  BY <1>5, FinishStep
<1>6. CASE UNCHANGED migrationVars
  <2>1. /\ db' = db /\ tx' = tx /\ command' = command /\ start' = start /\ outcome' = outcome
        /\ torn' = torn /\ interrupts' = interrupts /\ downgraded' = downgraded
    BY <1>6 DEF migrationVars
  <2>2. Steps' = Steps /\ Course' = Course /\ Expected' = Expected /\ Unfinished' = Unfinished
    BY <2>1 DEF Steps, Course, Expected, Unfinished
  <2>3. MigrationsTypeOK' /\ TablesTyped'
    BY <1>0, <2>1, <2>2 DEF MigrationsTypeOK, TablesTyped, CommandTyped, Statements
  <2>4. OnPath'
    BY <1>0, <2>1, <2>2 DEF OnPath
  <2>5. UntilCommit'
    BY <1>0, <2>1, <2>2 DEF UntilCommit, PastCommit
  <2>6. DriftExplained'
    BY <1>0, <2>1, <2>2 DEF DriftExplained
  <2>7. OutcomeTold' /\ FailureAtomic'
    BY <2>1 DEF MigrationInv, OutcomeTold, FailureAtomic
  <2>8. QED
    BY <2>3, <2>4, <2>5, <2>6, <2>7 DEF MigrationInv
<1>7. QED
  BY <1>1, <1>2, <1>3, <1>4, <1>5, <1>6 DEF MigrationsNext, CommandStep

\* The invariant holds in every reachable state.
LEMMA MigrationInvariant == MigrationsSpec => []MigrationInv
BY MigrationsStarts, MigrationInvStep, PTL DEF MigrationsSpec

-----------------------------------------------------------------------------
(* Theorems *)

\* The command, its place in its list and the tables keep their types, and outside a
\* transaction what the command sees is what is committed (alembic/env.py).
THEOREM MigrationsTyped == MigrationsSpec => []MigrationsTypeOK
<1>1. MigrationInv => MigrationsTypeOK
  BY DEF MigrationInv
<1>2. QED
  BY <1>1, MigrationInvariant, PTL

\* The version never claims what is not there, and what is there beyond it has its cause in
\* an interrupted 39ac1e823fed or is a label (versions/39ac1e823fed).
THEOREM MigrationsDriftHasCause == MigrationsSpec => []DriftHasCause
<1>1. MigrationInv => DriftHasCause
  <2>1. SUFFICES ASSUME Explained(db, Unfinished) PROVE DriftHasCause
    BY DEF MigrationInv, DriftExplained
  <2>2. Names(Described[db.version]) \subseteq Names(db.schema)
    BY <2>1, NamesMonotone DEF Explained
  <2>3. Names(db.schema) \ Names(Described[db.version]) \subseteq Names(db.schema \ Described[db.version])
    BY NamesSplit
  <2>4. QED
    BY <2>1, <2>2, <2>3 DEF Explained, DriftHasCause
<1>2. QED
  BY <1>1, MigrationInvariant, PTL

\* A command that fails or is interrupted leaves the database as it found it, unless it is
\* an upgrade that has passed the COMMIT of 39ac1e823fed.
THEOREM MigrationsFailureAtomic == MigrationsSpec => []FailureAtomic
<1>1. MigrationInv => FailureAtomic
  BY DEF MigrationInv
<1>2. QED
  BY <1>1, MigrationInvariant, PTL

=============================================================================
