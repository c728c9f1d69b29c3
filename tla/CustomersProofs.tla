--------------------------- MODULE CustomersProofs --------------------------
(***************************************************************************)
(* Proofs about Accounts and Customers, for every number of accounts,      *)
(* customers, orders and overlapping requests: the tables stay sound, the  *)
(* tenants stay apart, duplicates have a cause, nobody acts who was not    *)
(* entitled to, and a purge stays within its tenant.                       *)
(***************************************************************************)
EXTENDS Customers, FiniteSetTheorems, TLAPS

USE AccountsAssumption, CustomersAssumption

-----------------------------------------------------------------------------
(* Requests *)

Kinds  == {"register", "seed"} \cup AdminKinds \cup TenantKinds \cup ChatKinds
Phases == {"begun", "free", "user read", "authenticated", "loaded", "business", "customer"}

Requests ==
  [kind : Kinds, by : Accounts \cup {"public"}, on : Accounts \cup CustomerIds \cup {"none"},
   val : Emails \cup Roles \cup Phones \cup Senders \cup {"none"}, phase : Phases,
   self : {Unread} \cup User, seen : {Unread} \cup User \cup Business \cup Customer \cup CustomerIds,
   entitled : BOOLEAN, raced : BOOLEAN]

\* What a request carries, by its kind and its phase.
Formed(q) ==
  /\ q.kind \in {"register", "seed"} =>
       q.by = "public" /\ q.val \in Emails /\ q.phase \in {"begun", "free"}
  /\ q.kind \in AdminKinds =>
       /\ q.by \in Accounts /\ q.on \in Accounts
       /\ q.phase \in {"begun", "user read", "authenticated", "loaded"}
  /\ q.kind = "role" => q.val \in Roles
  /\ q.kind \in OnUsers /\ q.phase = "loaded" => q.seen \in User
  /\ q.kind \in OnBusinesses /\ q.phase = "loaded" => q.seen \in Business
  /\ q.kind \in TenantKinds =>
       q.by \in Accounts /\ q.phase \in {"begun", "user read", "authenticated", "loaded", "free"}
  /\ q.kind \in {"create customer", "update customer"} => q.val \in Phones
  /\ q.kind \in {"update customer", "create order"} => q.on \in CustomerIds
  /\ q.kind \in ChatKinds =>
       /\ q.by = "public" /\ q.val \in Senders
       /\ q.phase \in {"begun", "business", "free", "customer"}
       /\ q.phase # "begun" => q.on \in Accounts
       /\ q.phase = "customer" => q.seen \in CustomerIds
  /\ q.by # "public" /\ q.phase # "begun" => q.self \in User

ReqTypes ==
  /\ req \in [Slots -> {Idle} \cup Requests]
  /\ \A r \in Slots : req[r] # Idle => Formed(req[r])

\* The caller has been entitled, or is about to be turned away for the role.
Passed(q) == q.entitled \/ (q.kind \in AdminKinds /\ q.self.role # "super_admin")

\* What a request under way knows of its caller.  The business that was deleted when
\* the user was read and purged before the business was read does not keep the
\* request out, yet there is nothing left that it could write to.
CallerKnown(us, bs, q) ==
  q.by \in Accounts =>
    /\ us[q.by] # Unused
    /\ q.phase # "begun" => /\ q.self.member => q.self.role # "super_admin"
                            /\ us[q.by] \notin NoRow /\ us[q.by].member => q.self.member
    /\ q.phase = "user read" =>
         q.self.member /\ (bs[q.by] \notin NoRow /\ ~bs[q.by].deleted => Passed(q))
    /\ q.phase \in {"authenticated", "loaded", "free"} =>
         Passed(q) \/ (q.self.member /\ bs[q.by] \in NoRow)
    /\ q.kind \in AdminKinds /\ q.phase = "loaded" => q.self.role = "super_admin"

\* What it knows of the row it is about: a user who is in a business was in one when
\* the request loaded the row, and a customer stays with the business it had then.
TargetKnown(us, cs, q) ==
  /\ q.kind \in OnUsers /\ q.phase = "loaded" =>
       us[q.on] # Unused /\ (us[q.on] \notin NoRow /\ us[q.on].member => q.seen.member)
  /\ q.kind \in {"update customer", "create order"} =>
       /\ cs[q.on] # Unused
       /\ q.phase \in {"loaded", "free"} /\ cs[q.on] \notin NoRow => cs[q.on].business = q.by

\* The customers of business b with phone p.
Holders(cs, b, p) == {c \in CustomerIds : cs[c] \notin NoRow /\ cs[c].business = b /\ cs[c].phone = p}

\* A phone that was found free is free still, unless the request has been overtaken.
PhoneKnown(cs, q) ==
  q.kind \in {"create customer", "update customer"} \cup ChatKinds /\ q.phase = "free" /\ ~q.raced =>
    Holders(cs, Tenant(q), q.val) = {}

Known(us, bs, cs, q) == CallerKnown(us, bs, q) /\ TargetKnown(us, cs, q) /\ PhoneKnown(cs, q)

RequestsKnown == \A r \in Slots : req[r] # Idle => Known(users, business, customers, req[r])

TablesOK == AccountsTypeOK /\ customers \in [CustomerIds -> NoRow \cup Customer]
            /\ orders \in [OrderIds -> NoRow \cup Order]

IInv == /\ TablesOK /\ ReqTypes /\ RequestsKnown /\ CustomersOwned
        /\ AccountsSound /\ OrdersApart /\ DuplicatesHaveCause

-----------------------------------------------------------------------------
(* Steps *)

\* p is q, but for the flags that are history.
Same(p, q) ==
  /\ p.kind = q.kind /\ p.by = q.by /\ p.on = q.on /\ p.val = q.val
  /\ p.phase = q.phase /\ p.self = q.self /\ p.seen = q.seen

\* q is p with the entitlement of its caller noted.
Noted(us, bs, p, q) ==
  /\ q \in Requests /\ Same(q, p) /\ q.raced = p.raced
  /\ p.entitled => q.entitled
  /\ p.by # "public" /\ p.phase # "begun" /\ Entitled(us, bs, p) => q.entitled

\* The request in slot s stays what it is.
Kept(s) ==
  IF req[s] = Idle THEN req'[s] = Idle
  ELSE /\ req'[s] \in Requests /\ Same(req'[s], req[s])
       /\ (req[s].entitled => req'[s].entitled) /\ (req[s].raced => req'[s].raced)

\* What every step does to the rows: a used id is not used again, nobody joins a
\* business later, what is deleted stays deleted and a customer stays where it is.
Grown ==
  /\ \A a \in Accounts : users[a] # Unused =>
       /\ users'[a] # Unused
       /\ users'[a] \notin NoRow => users[a] \notin NoRow /\ (users'[a].member => users[a].member)
       /\ business'[a] \notin NoRow =>
            business[a] \notin NoRow /\ (business[a].deleted => business'[a].deleted)
  /\ \A c \in CustomerIds : customers[c] # Unused =>
       /\ customers'[c] # Unused
       /\ customers'[c] \notin NoRow =>
            customers[c] \notin NoRow /\ customers'[c].business = customers[c].business

\* No customer gets a phone.
Unphoned == \A c \in CustomerIds : customers'[c] = customers[c] \/ customers'[c] \in NoRow

\* Rows are told from the reasons why there is none, requests from idleness.
LEMMA Apart ==
  /\ \A u \in User : u \notin NoRow
  /\ \A b \in Business : b \notin NoRow
  /\ \A c \in Customer : c \notin NoRow
  /\ \A o \in Order : o \notin NoRow
  /\ Unused # Purged /\ Unused \in NoRow /\ Purged \in NoRow
  /\ Idle.kind = "idle" /\ \A q \in Requests : q # Idle /\ q.kind # "idle"
<1>1. \A u \in User : u \notin NoRow
  BY DEF User, NoRow, Unused, Purged
<1>2. \A b \in Business : b \notin NoRow
  BY DEF Business, NoRow, Unused, Purged
<1>3. \A c \in Customer : c \notin NoRow
  BY DEF Customer, NoRow, Unused, Purged
<1>4. \A o \in Order : o \notin NoRow
  BY DEF Order, NoRow, Unused, Purged
<1>5. Unused # Purged /\ Unused \in NoRow /\ Purged \in NoRow
  BY DEF NoRow, Unused, Purged
<1>6. Idle.kind = "idle"
  BY DEF Idle
<1>7. \A q \in Requests : q.kind # "idle"
  BY DEF Requests, Kinds, AdminKinds, OnUsers, OnBusinesses, TenantKinds, ChatKinds
<1>8. QED
  BY <1>1, <1>2, <1>3, <1>4, <1>5, <1>6, <1>7

\* What a step makes of the requests.
LEMMA BecomeNotes ==
  ASSUME NEW us, NEW bs, NEW q \in [Slots -> {Idle} \cup Requests], Become(us, bs, q)
  PROVE  /\ users' = us /\ business' = bs
         /\ req' \in [Slots -> {Idle} \cup Requests]
         /\ \A r \in Slots : IF q[r] = Idle THEN req'[r] = Idle ELSE Noted(us, bs, q[r], req'[r])
<1> DEFINE Next0(r) == IF q[r].kind = "idle" \/ q[r].by = "public" \/ q[r].phase = "begun" THEN q[r]
                       ELSE [q[r] EXCEPT !.entitled = q[r].entitled \/ Entitled(us, bs, q[r])]
<1>1. users' = us /\ business' = bs /\ req' = [r \in Slots |-> Next0(r)]
  BY DEF Become
<1>2. ASSUME NEW r \in Slots
      PROVE  /\ IF q[r] = Idle THEN Next0(r) = Idle ELSE Noted(us, bs, q[r], Next0(r))
             /\ Next0(r) \in {Idle} \cup Requests
  <2> DEFINE e == q[r].entitled \/ Entitled(us, bs, q[r])
  <2>1. CASE q[r] = Idle
    BY <2>1, Apart
  <2>2. CASE q[r] # Idle /\ (q[r].by = "public" \/ q[r].phase = "begun")
    BY <2>2 DEF Noted, Same
  <2>3. CASE q[r] # Idle /\ q[r].by # "public" /\ q[r].phase # "begun"
    <3>1. Next0(r) = [q[r] EXCEPT !.entitled = e] /\ q[r] \in Requests
      BY <2>3, Apart
    <3>2. e \in BOOLEAN
      OBVIOUS
    <3>3. (q[r].entitled => e) /\ (Entitled(us, bs, q[r]) => e)
      OBVIOUS
    <3> HIDE DEF e, Next0
    <3>4. /\ Next0(r) \in Requests /\ Same(Next0(r), q[r]) /\ Next0(r).raced = q[r].raced
          /\ Next0(r).entitled = e
      BY <3>1, <3>2 DEF Requests, Same
    <3>5. QED
      BY <2>3, <3>3, <3>4 DEF Noted
  <2>4. QED
    BY <2>1, <2>2, <2>3
<1> HIDE DEF Next0
<1>3. QED
  BY <1>1, <1>2

\* A request that stays what it is still knows what it knew.
LEMMA KeptKnown ==
  ASSUME NEW s \in Slots, req[s] \in Requests, Formed(req[s]), Known(users, business, customers, req[s]),
         Grown, Kept(s), req[s] # Idle
  PROVE  /\ req'[s] \in Requests /\ Formed(req'[s])
         /\ CallerKnown(users', business', req'[s]) /\ TargetKnown(users', customers', req'[s])
<1> DEFINE p == req[s]
           q == req'[s]
<1>1. /\ q \in Requests /\ Same(q, p) /\ (p.entitled => q.entitled) /\ (p.raced => q.raced)
      /\ p \in Requests
  BY DEF Kept
<1>2. CallerKnown(users, business, p) /\ TargetKnown(users, customers, p) /\ Formed(p)
  BY DEF Known
<1> HIDE DEF p, q
<1>3. Formed(q)
  BY <1>1, <1>2 DEF Same, Formed
<1>4. Passed(p) => Passed(q)
  BY <1>1 DEF Same, Passed
<1>5. CallerKnown(users', business', q)
  <2>1. SUFFICES ASSUME q.by \in Accounts
                 PROVE  CallerKnown(users', business', q)
    BY DEF CallerKnown
  <2>2. /\ p.by = q.by /\ p.phase = q.phase /\ p.self = q.self /\ p.kind = q.kind
    BY <1>1 DEF Same
  <2>3. users[q.by] # Unused
    BY <1>2, <2>1, <2>2 DEF CallerKnown
  <2>4. /\ users'[q.by] # Unused
        /\ users'[q.by] \notin NoRow => users[q.by] \notin NoRow /\ (users'[q.by].member => users[q.by].member)
        /\ business'[q.by] \notin NoRow =>
             business[q.by] \notin NoRow /\ (business[q.by].deleted => business'[q.by].deleted)
    BY <2>1, <2>3 DEF Grown
  <2>5. QED
    BY <1>2, <1>4, <2>1, <2>2, <2>4 DEF CallerKnown
<1>6. TargetKnown(users', customers', q)
  <2>1. p.by = q.by /\ p.on = q.on /\ p.phase = q.phase /\ p.seen = q.seen /\ p.kind = q.kind
    BY <1>1 DEF Same
  <2>2. ASSUME q.kind \in OnUsers, q.phase = "loaded"
        PROVE  users'[q.on] # Unused /\ (users'[q.on] \notin NoRow /\ users'[q.on].member => q.seen.member)
    <3>1. q.on \in Accounts
      BY <1>3, <2>2 DEF Formed, AdminKinds
    <3>2. users[q.on] # Unused /\ (users[q.on] \notin NoRow /\ users[q.on].member => q.seen.member)
      BY <1>2, <2>1, <2>2 DEF TargetKnown
    <3>3. QED
      BY <3>1, <3>2 DEF Grown
  <2>3. ASSUME q.kind \in {"update customer", "create order"}
        PROVE  /\ customers'[q.on] # Unused
               /\ q.phase \in {"loaded", "free"} /\ customers'[q.on] \notin NoRow =>
                    customers'[q.on].business = q.by
    <3>1. q.on \in CustomerIds
      BY <1>3, <2>3 DEF Formed
    <3>2. /\ customers[q.on] # Unused
          /\ q.phase \in {"loaded", "free"} /\ customers[q.on] \notin NoRow => customers[q.on].business = q.by
      BY <1>2, <2>1, <2>3 DEF TargetKnown
    <3>3. QED
      BY <3>1, <3>2 DEF Grown
  <2>4. QED
    BY <2>2, <2>3 DEF TargetKnown
<1>7. QED
  BY <1>1, <1>3, <1>5, <1>6 DEF q

\* As long as no customer gets a phone, a phone that was free is free.
LEMMA PhoneLeft ==
  ASSUME NEW cs, NEW ds, NEW p, NEW q, PhoneKnown(cs, p), Same(q, p), p.raced => q.raced,
         \A c \in CustomerIds : ds[c] = cs[c] \/ ds[c] \in NoRow
  PROVE  PhoneKnown(ds, q)
<1>1. SUFFICES ASSUME q.kind \in {"create customer", "update customer"} \cup ChatKinds,
                      q.phase = "free", ~q.raced
               PROVE  Holders(ds, Tenant(q), q.val) = {}
  BY DEF PhoneKnown
<1>2. Tenant(q) = Tenant(p) /\ q.val = p.val
  BY DEF Same, Tenant
<1>3. Holders(cs, Tenant(p), p.val) = {}
  BY <1>1 DEF PhoneKnown, Same
<1>4. QED
  BY <1>2, <1>3 DEF Holders

\* What the slot that takes the step has to show for the request p it leaves there.
Enters(us, bs, cs, p) ==
  p # Idle => Formed(p) /\ \A q \in Requests : Noted(us, bs, p, q) => Known(us, bs, cs, q)

\* A step of slot r that gives no customer a phone.
LEMMA Move ==
  ASSUME ReqTypes, RequestsKnown, NEW r \in Slots, NEW us, NEW bs, NEW p \in {Idle} \cup Requests,
         Become(us, bs, [req EXCEPT ![r] = p]), Grown, Unphoned, Enters(us, bs, customers', p)
  PROVE  ReqTypes' /\ RequestsKnown' /\ users' = us /\ business' = bs
<1> DEFINE next == [req EXCEPT ![r] = p]
<1>1. /\ next \in [Slots -> {Idle} \cup Requests]
      /\ next[r] = p /\ \A s \in Slots \ {r} : next[s] = req[s]
  BY DEF ReqTypes
<1>2. Become(us, bs, next)
  OBVIOUS
<1> HIDE DEF next
<1>3. /\ users' = us /\ business' = bs /\ req' \in [Slots -> {Idle} \cup Requests]
      /\ \A s \in Slots : IF next[s] = Idle THEN req'[s] = Idle ELSE Noted(us, bs, next[s], req'[s])
  BY <1>1, <1>2, BecomeNotes
<1>4. ASSUME NEW s \in Slots, req'[s] # Idle
      PROVE  Formed(req'[s]) /\ Known(users', business', customers', req'[s])
  <2>1. CASE s = r
    <3>1. p # Idle /\ Noted(us, bs, p, req'[r]) /\ req'[r] \in Requests
      BY <1>1, <1>3, <1>4, <2>1 DEF Noted
    <3>2. Formed(p) /\ Known(us, bs, customers', req'[r])
      BY <3>1 DEF Enters
    <3>3. Formed(req'[r])
      BY <3>1, <3>2 DEF Noted, Same, Formed
    <3>4. QED
      BY <1>3, <2>1, <3>2, <3>3
  <2>2. CASE s # r
    <3>1. req[s] # Idle /\ Noted(us, bs, req[s], req'[s])
      BY <1>1, <1>3, <1>4, <2>2
    <3>2. /\ Kept(s) /\ req[s] \in Requests /\ Formed(req[s])
          /\ Known(users, business, customers, req[s])
      BY <3>1 DEF Noted, Kept, ReqTypes, RequestsKnown
    <3>3. /\ Formed(req'[s]) /\ CallerKnown(users', business', req'[s])
          /\ TargetKnown(users', customers', req'[s])
      BY <3>1, <3>2, KeptKnown
    <3>4. PhoneKnown(customers', req'[s])
      BY <3>1, <3>2, PhoneLeft DEF Known, Noted, Unphoned
    <3>5. QED
      BY <3>3, <3>4 DEF Known
  <2>3. QED
    BY <2>1, <2>2
<1>5. ReqTypes' /\ RequestsKnown'
  BY <1>3, <1>4 DEF ReqTypes, RequestsKnown
<1>6. QED
  BY <1>3, <1>5

-----------------------------------------------------------------------------
(* Steps that write no row *)

\* A request that moves on without writing a row keeps the invariant if what it enters the
\* next phase with is known.
LEMMA Quiet ==
  ASSUME IInv, NEW r \in Slots, NEW p \in {Idle} \cup Requests,
         Become(users, business, [req EXCEPT ![r] = p]), UNCHANGED <<customers, orders>>,
         started' \in 0 .. MaxRequests, Enters(users, business, customers, p)
  PROVE  IInv'
<1>1. users' = users /\ business' = business /\ customers' = customers /\ orders' = orders
  BY DEF Become
<1>2. Grown /\ Unphoned
  BY <1>1 DEF Grown, Unphoned
<1>3. ReqTypes' /\ RequestsKnown'
  BY <1>1, <1>2, Move DEF IInv
<1>4. TablesOK' /\ CustomersOwned' /\ AccountsSound'
  BY <1>1 DEF IInv, TablesOK, AccountsTypeOK, CustomersOwned, AccountsSound, Lives, Exists, InUse
<1>5. OrdersApart' /\ DuplicatesHaveCause'
  BY <1>1 DEF IInv, OrdersApart, DuplicatesHaveCause, Lives, Exists
<1>6. QED
  BY <1>3, <1>4, <1>5 DEF IInv

\* A request that ends without writing keeps the invariant.
LEMMA Stops ==
  ASSUME IInv, NEW r \in Slots, End(r), UNCHANGED <<started, customers, orders>>
  PROVE  IInv'
<1>1. started' \in 0 .. MaxRequests
  BY DEF IInv, TablesOK, AccountsTypeOK
<1>2. Enters(users, business, customers, Idle)
  BY DEF Enters
<1>3. QED
  BY <1>1, <1>2, Quiet DEF End

\* A request goes on, from q to p.
GoesTo(q, p) ==
  /\ p \in Requests /\ p # Idle
  /\ p.kind = q.kind /\ p.by = q.by /\ p.val = q.val /\ p.entitled = q.entitled /\ p.raced = q.raced

\* What a request is after it has moved on to another phase.
LEMMA Goes ==
  ASSUME IInv, NEW r \in Slots, req[r] # Idle, NEW phase \in Phases, Go(r, phase)
  PROVE  \E p : /\ GoesTo(req[r], p) /\ p.phase = phase
                /\ p.self = req[r].self /\ p.seen = req[r].seen /\ p.on = req[r].on
                /\ Become(users, business, [req EXCEPT ![r] = p])
<1> DEFINE q == req[r]
           p == [q EXCEPT !.phase = phase]
<1>1. q \in Requests
  BY DEF IInv, ReqTypes
<1>2. [req EXCEPT ![r].phase = phase] = [req EXCEPT ![r] = p]
  OBVIOUS
<1>3. Become(users, business, [req EXCEPT ![r] = p])
  BY <1>2 DEF Go
<1>4. GoesTo(q, p) /\ p.phase = phase /\ p.self = q.self /\ p.seen = q.seen /\ p.on = q.on
  <2>1. /\ p \in Requests
        /\ p.kind = q.kind /\ p.by = q.by /\ p.on = q.on /\ p.val = q.val /\ p.phase = phase
        /\ p.self = q.self /\ p.seen = q.seen /\ p.entitled = q.entitled /\ p.raced = q.raced
    BY <1>1 DEF Requests
  <2>2. QED
    BY <2>1, Apart DEF GoesTo
<1>5. QED
  BY <1>3, <1>4

\* A request begins with a caller, a target and a value of its kind.
LEMMA Begins ==
  ASSUME IInv, NEW r \in Slots, NEW kind \in Kinds, NEW by \in Accounts \cup {"public"},
         NEW on \in Accounts \cup CustomerIds \cup {"none"},
         NEW val \in Emails \cup Roles \cup Phones \cup Senders \cup {"none"},
         Begin(r, kind, by, on, val), UNCHANGED <<customers, orders>>,
         kind \in {"register", "seed"} => by = "public" /\ val \in Emails,
         kind \in AdminKinds => by \in Accounts /\ on \in Accounts,
         kind = "role" => val \in Roles,
         kind \in TenantKinds => by \in Accounts,
         kind \in {"create customer", "update customer"} => val \in Phones,
         kind \in {"update customer", "create order"} => on \in CustomerIds /\ customers[on] # Unused,
         kind \in ChatKinds => by = "public" /\ val \in Senders,
         by \in Accounts => users[by] # Unused
  PROVE  IInv'
<1> DEFINE p == [kind |-> kind, by |-> by, on |-> on, val |-> val, phase |-> "begun",
                 self |-> Unread, seen |-> Unread, entitled |-> FALSE, raced |-> FALSE]
<1>1. Become(users, business, [req EXCEPT ![r] = p])
  BY DEF Begin
<1>2. p \in Requests
  BY DEF Requests, Phases
<1>3. started' \in 0 .. MaxRequests
  <2>1. started \in 0 .. MaxRequests /\ started < MaxRequests /\ started' = started + 1
    BY DEF IInv, TablesOK, AccountsTypeOK, Begin
  <2>2. MaxRequests \in Nat
    BY AccountsAssumption
  <2> HIDE DEF p
  <2>3. QED
    BY ONLY <2>1, <2>2
<1>4. Formed(p)
  BY DEF Formed, AdminKinds, OnUsers, OnBusinesses, TenantKinds, ChatKinds
<1>5. ASSUME NEW q \in Requests, Same(q, p)
      PROVE  Known(users, business, customers, q)
  <2>1. q.kind = kind /\ q.by = by /\ q.on = on /\ q.phase = "begun"
    BY <1>5 DEF Same
  <2>2. CallerKnown(users, business, q)
    BY <2>1 DEF CallerKnown
  <2>3. TargetKnown(users, customers, q)
    BY <2>1 DEF TargetKnown
  <2>4. PhoneKnown(customers, q)
    BY <2>1 DEF PhoneKnown
  <2>5. QED
    BY <2>2, <2>3, <2>4 DEF Known
<1> HIDE DEF p
<1>6. Enters(users, business, customers, p)
  BY <1>4, <1>5 DEF Enters, Noted
<1>7. QED
  BY <1>1, <1>2, <1>3, <1>6, Quiet

\* Requests of every kind begin knowing nothing.
LEMMA BeginKeeps ==
  ASSUME IInv, NEW r \in Slots, BeginAccount(r) \/ BeginTenant(r) \/ BeginChat(r), UNCHANGED shop
  PROVE  IInv'
<1> USE DEF Kinds, AdminKinds, OnUsers, OnBusinesses, TenantKinds, ChatKinds
<1>0. UNCHANGED <<customers, orders>>
  BY DEF shop
<1>1. CASE BeginRegister(r)
  <2>1. PICK e \in Emails : Begin(r, "register", "public", "none", e)
    BY <1>1 DEF BeginRegister
  <2>2. QED
    BY <1>0, <2>1, Begins
<1>2. CASE BeginSeed(r)
  BY <1>0, <1>2, Begins DEF BeginSeed
<1>3. CASE BeginAdmin(r)
  <2>1. PICK by \in Accounts, on \in Accounts :
          /\ InUse(by)
          /\ \/ \E role \in Roles : Begin(r, "role", by, on, role)
             \/ \E k \in AdminKinds \ {"role"} : Begin(r, k, by, on, "none")
    BY <1>3 DEF BeginAdmin
  <2>2. users[by] # Unused /\ by # "public"
    BY <2>1, Apart DEF InUse
  <2>3. CASE \E role \in Roles : Begin(r, "role", by, on, role)
    BY <1>0, <2>2, <2>3, Begins
  <2>4. CASE \E k \in AdminKinds \ {"role"} : Begin(r, k, by, on, "none")
    BY <1>0, <2>2, <2>4, Begins
  <2>5. QED
    BY <2>1, <2>3, <2>4
<1>4. CASE BeginTenant(r)
  <2>1. PICK by \in Accounts :
          /\ InUse(by)
          /\ \/ \E p \in Phones : Begin(r, "create customer", by, "none", p)
             \/ \E c \in CustomerIds, p \in Phones : Lives(c) /\ Begin(r, "update customer", by, c, p)
             \/ \E c \in CustomerIds : Lives(c) /\ Begin(r, "create order", by, c, "none")
    BY <1>4 DEF BeginTenant
  <2>2. /\ users[by] # Unused /\ by # "public"
        /\ \A c \in CustomerIds : Lives(c) => customers[c] # Unused
    BY <2>1, Apart DEF InUse, Lives
  <2>3. CASE \E p \in Phones : Begin(r, "create customer", by, "none", p)
    BY <1>0, <2>2, <2>3, Begins
  <2>4. CASE \E c \in CustomerIds, p \in Phones : Lives(c) /\ Begin(r, "update customer", by, c, p)
    BY <1>0, <2>2, <2>4, Begins
  <2>5. CASE \E c \in CustomerIds : Lives(c) /\ Begin(r, "create order", by, c, "none")
    BY <1>0, <2>2, <2>5, Begins
  <2>6. QED
    BY <2>1, <2>3, <2>4, <2>5
<1>5. CASE BeginChat(r)
  <2>1. PICK k \in ChatKinds, p \in Senders : Begin(r, k, "public", "none", p)
    BY <1>5 DEF BeginChat
  <2>2. QED
    BY <1>0, <2>1, Begins
<1>6. QED
  BY <1>1, <1>2, <1>3, <1>4, <1>5 DEF BeginAccount

\* What is known of p is known of p with an entitlement noted.
LEMMA NotedKnown ==
  ASSUME NEW us, NEW bs, NEW cs, NEW p, NEW q, Known(us, bs, cs, p), Noted(us, bs, p, q)
  PROVE  Known(us, bs, cs, q)
<1>1. Same(q, p) /\ q.raced = p.raced /\ (p.entitled => q.entitled)
  BY DEF Noted
<1>2. Passed(p) => Passed(q)
  BY <1>1 DEF Same, Passed
<1>3. CallerKnown(us, bs, q)
  BY <1>1, <1>2 DEF Known, CallerKnown, Same
<1>4. TargetKnown(us, cs, q)
  BY <1>1 DEF Known, TargetKnown, Same
<1>5. PhoneKnown(cs, q)
  BY <1>1 DEF Known, PhoneKnown, Same, Tenant
<1>6. QED
  BY <1>3, <1>4, <1>5 DEF Known

\* A request of the same kind and caller that knows what its new phase demands.
LEMMA GoesOn ==
  ASSUME IInv, NEW r \in Slots, NEW p, GoesTo(req[r], p),
         Become(users, business, [req EXCEPT ![r] = p]), UNCHANGED <<started, customers, orders>>,
         Formed(p), Known(users, business, customers, p)
  PROVE  IInv'
<1>1. p \in Requests /\ started' \in 0 .. MaxRequests
  BY DEF GoesTo, IInv, TablesOK, AccountsTypeOK
<1>2. Enters(users, business, customers, p)
  BY NotedKnown DEF Enters
<1>3. QED
  BY <1>1, <1>2, Quiet

\* The lookup of the address ends the request or goes on to the insert.
LEMMA CheckEmailKeeps ==
  ASSUME IInv, NEW r \in Slots, CheckEmail(r), UNCHANGED shop
  PROVE  IInv'
<1>1. /\ req[r].kind \in {"register", "seed"} /\ UNCHANGED <<started, customers, orders>>
      /\ End(r) \/ Go(r, "free")
  BY DEF CheckEmail, shop
<1>2. CASE End(r)
  BY <1>1, <1>2, Stops
<1>3. CASE Go(r, "free")
  <2>1. req[r] # Idle /\ Formed(req[r])
    BY <1>1, Apart DEF IInv, ReqTypes
  <2>2. PICK p : /\ GoesTo(req[r], p) /\ p.phase = "free"
                 /\ p.self = req[r].self /\ p.seen = req[r].seen /\ p.on = req[r].on
                 /\ Become(users, business, [req EXCEPT ![r] = p])
    BY <1>3, <2>1, Goes DEF Phases
  <2>3. p.kind \in {"register", "seed"} /\ p.by = "public" /\ p.val \in Emails
    BY <1>1, <2>1, <2>2 DEF GoesTo, Formed
  <2>4. Formed(p)
    BY <2>2, <2>3 DEF Formed, AdminKinds, OnUsers, OnBusinesses, TenantKinds, ChatKinds
  <2>5. Known(users, business, customers, p)
    BY <2>3, AccountsAssumption
    DEF Known, CallerKnown, TargetKnown, PhoneKnown, OnUsers, ChatKinds
  <2>6. QED
    BY <1>1, <2>2, <2>4, <2>5, GoesOn
<1>4. QED
  BY <1>1, <1>2, <1>3

\* The user is read: from here on the request remembers whether its caller is entitled.
LEMMA ReadUserKeeps ==
  ASSUME IInv, NEW r \in Slots, ReadUser(r), UNCHANGED shop
  PROVE  IInv'
<1> DEFINE u == users[req[r].by]
           phase == IF u.member THEN "user read" ELSE "authenticated"
           p == [req[r] EXCEPT !.self = u, !.phase = phase]
<1>1. /\ req[r] # Idle /\ req[r].by # "public" /\ req[r].phase = "begun"
      /\ UNCHANGED <<started, customers, orders>>
  BY DEF ReadUser, shop
<1>2. CASE u \in NoRow \/ u.deleted \/ ~u.active
  <2>1. End(r)
    BY <1>2 DEF ReadUser
  <2>2. QED
    BY <1>1, <2>1, Stops
<1>3. CASE u \notin NoRow /\ ~u.deleted /\ u.active
  <2>1. Become(users, business, [req EXCEPT ![r].self = u, ![r].phase = phase])
    BY <1>3 DEF ReadUser
  <2>2. [req EXCEPT ![r].self = u, ![r].phase = phase] = [req EXCEPT ![r] = p]
    BY <1>1 DEF IInv, ReqTypes
  <2>3. Become(users, business, [req EXCEPT ![r] = p])
    BY <2>1, <2>2
  <2>4. /\ req[r] \in Requests /\ Formed(req[r]) /\ Known(users, business, customers, req[r])
        /\ req[r].by \in Accounts
    BY <1>1 DEF IInv, ReqTypes, RequestsKnown, Requests
  <2>5. u \in User /\ phase \in {"user read", "authenticated"} /\ u.member \in BOOLEAN
    BY <1>3, <2>4 DEF IInv, TablesOK, AccountsTypeOK, User
  <2>6. /\ u.member => u.role # "super_admin" /\ Exists(req[r].by)
        /\ users[req[r].by] # Unused
    BY <1>3, <2>4 DEF IInv, AccountsSound, InUse, NoRow
  <2>7. phase = IF u.member THEN "user read" ELSE "authenticated"
    OBVIOUS
  <2> HIDE DEF u, phase
  <2>8. p \in Requests /\ p.kind = req[r].kind /\ p.by = req[r].by /\ p.on = req[r].on /\ p.val = req[r].val
        /\ p.phase = phase /\ p.self = u /\ p.raced = req[r].raced
    BY <2>4, <2>5 DEF Requests, Phases
  <2> HIDE DEF p
  <2>9. Formed(p)
    BY <1>1, <2>4, <2>5, <2>8, AccountsAssumption
    DEF Formed, AdminKinds, OnUsers, OnBusinesses, TenantKinds, ChatKinds
  <2>10. ASSUME NEW q \in Requests, Noted(users, business, p, q)
         PROVE  Known(users, business, customers, q)
    <3>1. /\ q.kind = req[r].kind /\ q.by = req[r].by /\ q.on = req[r].on /\ q.phase = phase /\ q.self = u
          /\ Entitled(users, business, p) => q.entitled
      BY <1>1, <2>5, <2>8, <2>10 DEF Noted, Same
    <3>2. Entitled(users, business, p) <=>
            /\ u.member => business[q.by] \notin NoRow /\ ~business[q.by].deleted
            /\ q.kind \in AdminKinds => u.role = "super_admin"
      BY <1>3, <2>8, <3>1 DEF Entitled, u
    <3>3. CallerKnown(users, business, q)
      <4>1. ~u.member => Passed(q)
        BY <3>1, <3>2 DEF Passed
      <4>2. u.member /\ business[q.by] \notin NoRow /\ ~business[q.by].deleted => Passed(q)
        BY <3>1, <3>2 DEF Passed
      <4>3. users[q.by].member => u.member
        BY <3>1 DEF u
      <4>4. users[q.by] # Unused
        BY <2>6, <3>1
      <4>5. QED
        BY <2>5, <2>6, <2>7, <3>1, <4>1, <4>2, <4>3, <4>4 DEF CallerKnown
    <3>4. TargetKnown(users, customers, q)
      BY <2>4, <2>5, <3>1 DEF Known, TargetKnown
    <3>5. PhoneKnown(customers, q)
      BY <2>5, <3>1 DEF PhoneKnown
    <3>6. QED
      BY <3>3, <3>4, <3>5 DEF Known
  <2>11. Enters(users, business, customers, p)
    BY <2>9, <2>10 DEF Enters
  <2>12. started' \in 0 .. MaxRequests
    BY <1>1 DEF IInv, TablesOK, AccountsTypeOK
  <2>13. QED
    BY <1>1, <2>3, <2>8, <2>11, <2>12, Quiet
<1>4. QED
  BY <1>2, <1>3

\* get_current_user refuses the member of a deleted business, with a query after the user's.
LEMMA ReadBusinessKeeps ==
  ASSUME IInv, NEW r \in Slots, ReadBusiness(r), UNCHANGED shop
  PROVE  IInv'
<1>1. /\ req[r] # Idle /\ req[r].phase = "user read" /\ UNCHANGED <<started, customers, orders>>
  BY DEF ReadBusiness, shop
<1>2. CASE Exists(req[r].by) /\ business[req[r].by].deleted
  <2>1. End(r)
    BY <1>2 DEF ReadBusiness
  <2>2. QED
    BY <1>1, <2>1, Stops
<1>3. CASE ~(Exists(req[r].by) /\ business[req[r].by].deleted)
  <2>1. /\ Go(r, "authenticated") /\ Formed(req[r]) /\ req[r] \in Requests
        /\ Known(users, business, customers, req[r])
    BY <1>1, <1>3 DEF ReadBusiness, IInv, ReqTypes, RequestsKnown
  <2>2. PICK p : /\ GoesTo(req[r], p) /\ p.phase = "authenticated"
                 /\ p.self = req[r].self /\ p.seen = req[r].seen /\ p.on = req[r].on
                 /\ Become(users, business, [req EXCEPT ![r] = p])
    BY <1>1, <2>1, Goes DEF Phases
  <2>3. /\ req[r].by \in Accounts /\ req[r].by # "public"
        /\ req[r].kind \in AdminKinds \cup TenantKinds
    <3>1. req[r].kind \in Kinds
      BY <2>1 DEF Requests
    <3>2. QED
      BY <1>1, <2>1, <3>1, AccountsAssumption DEF Formed, Kinds
  <2>4. Formed(p)
    BY <1>1, <2>1, <2>2, <2>3
    DEF GoesTo, Formed, AdminKinds, OnUsers, OnBusinesses, TenantKinds, ChatKinds
  <2>5. Passed(req[r]) => Passed(p)
    BY <2>2 DEF GoesTo, Passed
  <2>6. CallerKnown(users, business, p)
    BY <1>1, <1>3, <2>1, <2>2, <2>3, <2>5 DEF Known, CallerKnown, GoesTo, Exists
  <2>7. TargetKnown(users, customers, p)
    BY <2>1, <2>2 DEF Known, TargetKnown, GoesTo
  <2>8. PhoneKnown(customers, p)
    BY <2>2 DEF PhoneKnown
  <2>9. QED
    BY <1>1, <2>2, <2>4, <2>6, <2>7, <2>8, GoesOn DEF Known
<1>4. QED
  BY <1>2, <1>3

\* The administrator loads the row of the user or the business.
LEMMA LoadKeeps ==
  ASSUME IInv, NEW r \in Slots, Load(r), UNCHANGED shop
  PROVE  IInv'
<1> DEFINE q == req[r]
           seen == IF q.kind \in OnBusinesses THEN business[q.on]
                   ELSE IF q.on = q.by THEN q.self ELSE users[q.on]
           p == [q EXCEPT !.phase = "loaded", !.seen = seen]
<1>1. /\ q.kind \in AdminKinds /\ q.phase = "authenticated" /\ UNCHANGED <<started, customers, orders>>
      /\ q # Idle
  BY Apart DEF Load, shop, AdminKinds, OnUsers, OnBusinesses
<1>2. CASE \/ q.self.role # "super_admin"
           \/ q.kind \in OnUsers /\ ~InUse(q.on)
           \/ q.kind \in OnBusinesses /\ ~Exists(q.on)
  <2>1. End(r)
    BY <1>2 DEF Load
  <2>2. QED
    BY <1>1, <2>1, Stops
<1>3. CASE /\ q.self.role = "super_admin"
           /\ q.kind \in OnUsers => InUse(q.on)
           /\ q.kind \in OnBusinesses => Exists(q.on)
  <2>1. Become(users, business, [req EXCEPT ![r].phase = "loaded", ![r].seen = seen])
    BY <1>3 DEF Load
  <2>2. [req EXCEPT ![r].phase = "loaded", ![r].seen = seen] = [req EXCEPT ![r] = p]
    BY DEF IInv, ReqTypes
  <2>3. Become(users, business, [req EXCEPT ![r] = p])
    BY <2>1, <2>2
  <2>4. /\ q \in Requests /\ Formed(q) /\ Known(users, business, customers, q)
        /\ q.by \in Accounts /\ q.by # "public" /\ q.on \in Accounts /\ q.self \in User
    BY <1>1, AccountsAssumption DEF IInv, ReqTypes, RequestsKnown, Formed
  <2>5. /\ q.kind \in OnUsers => users[q.on] \in User
        /\ q.kind \in OnBusinesses => business[q.on] \in Business
    BY <1>3, <2>4 DEF IInv, TablesOK, AccountsTypeOK, InUse, Exists
  <2>6. q.kind \in OnUsers <=> q.kind \notin OnBusinesses
    <3>1. \A k \in OnUsers : k \notin OnBusinesses
      BY DEF OnUsers, OnBusinesses
    <3>2. q.kind \in OnUsers \/ q.kind \in OnBusinesses
      BY <1>1 DEF AdminKinds
    <3>3. QED
      BY <3>1, <3>2
  <2>7. (q.kind \in OnUsers => seen \in User) /\ (q.kind \in OnBusinesses => seen \in Business)
    BY <2>4, <2>5, <2>6
  <2>8. q.kind \in OnUsers =>
          users[q.on] # Unused /\ (users[q.on] \notin NoRow /\ users[q.on].member => seen.member)
    BY <1>1, <1>3, <2>4, <2>6 DEF Known, CallerKnown, InUse, NoRow
  <2> HIDE DEF seen, q
  <2>9. /\ p \in Requests /\ p.kind = q.kind /\ p.by = q.by /\ p.on = q.on /\ p.val = q.val
        /\ p.phase = "loaded" /\ p.self = q.self /\ p.seen = seen
        /\ p.entitled = q.entitled /\ p.raced = q.raced
    BY <2>4, <2>6, <2>7 DEF Requests, Phases
  <2> HIDE DEF p
  <2>10. GoesTo(q, p)
    BY <2>9, Apart DEF GoesTo
  <2>11. Formed(p)
    BY <1>1, <2>4, <2>7, <2>9
    DEF Formed, AdminKinds, OnUsers, OnBusinesses, TenantKinds, ChatKinds
  <2>12. CallerKnown(users, business, p)
    <3>1. Passed(q) => Passed(p)
      BY <2>9 DEF Passed
    <3>2. QED
      BY <1>1, <1>3, <2>4, <2>9, <3>1 DEF Known, CallerKnown
  <2>13. TargetKnown(users, customers, p)
    BY <1>1, <2>8, <2>9 DEF TargetKnown, AdminKinds, OnUsers, OnBusinesses
  <2>14. PhoneKnown(customers, p)
    BY <2>9 DEF PhoneKnown
  <2>15. QED
    BY <1>1, <2>3, <2>10, <2>11, <2>12, <2>13, <2>14, GoesOn DEF Known, q
<1>4. QED
  BY <1>2, <1>3

\* A request that raises writes nothing.
LEMMA FailsKeeps ==
  ASSUME IInv, NEW r \in Slots, Fails(r), UNCHANGED shop
  PROVE  IInv'
BY Stops DEF Fails, shop

\* The lookup of a phone finds those who hold it.
LEMMA FoundHolders == \A b, ph : Found(b, ph) = Holders(customers, b, ph)
BY DEF Found, FoundAnywhere, Holders, Lives

\* A member's request goes on to the write when it has found the phone free.
LEMMA FreeKeeps ==
  ASSUME IInv, NEW r \in Slots, Go(r, "free"), UNCHANGED <<started, customers, orders>>,
         req[r].kind \in {"create customer", "update customer"}, req[r].phase \in {"authenticated", "loaded"},
         req[r].kind = "update customer" => req[r].phase = "loaded",
         Found(req[r].by, req[r].val) = {}
  PROVE  IInv'
<1>1. req[r] # Idle
  BY Apart
<1>2. req[r] \in Requests /\ Formed(req[r]) /\ Known(users, business, customers, req[r])
  BY <1>1 DEF IInv, ReqTypes, RequestsKnown
<1>3. req[r].by \in Accounts
  BY <1>2 DEF Formed, TenantKinds
<1>4. PICK p : /\ GoesTo(req[r], p) /\ p.phase = "free"
               /\ p.self = req[r].self /\ p.seen = req[r].seen /\ p.on = req[r].on
               /\ Become(users, business, [req EXCEPT ![r] = p])
  BY <1>1, Goes DEF Phases
<1>5. p.kind = req[r].kind /\ p.by = req[r].by /\ p.val = req[r].val
  BY <1>4 DEF GoesTo
<1>6. Formed(p)
  BY <1>2, <1>4, <1>5 DEF Formed, AdminKinds, OnUsers, OnBusinesses, TenantKinds, ChatKinds
<1>7. CallerKnown(users, business, p)
  <2>1. Passed(req[r]) => Passed(p)
    BY <1>4 DEF GoesTo, Passed
  <2>2. QED
    BY <1>2, <1>3, <1>4, <1>5, <2>1 DEF Known, CallerKnown
<1>8. TargetKnown(users, customers, p)
  BY <1>2, <1>4, <1>5 DEF Known, TargetKnown
<1>9. PhoneKnown(customers, p)
  <2>1. Tenant(p) = p.by
    BY <1>5 DEF Tenant, ChatKinds
  <2>2. QED
    BY <1>5, <2>1, FoundHolders DEF PhoneKnown
<1>10. QED
  BY <1>4, <1>6, <1>7, <1>8, <1>9, GoesOn DEF Known

\* The lookups of a phone end the request or leave it with a free phone.
LEMMA LookUpsKeep ==
  ASSUME IInv, NEW r \in Slots, LookUpNew(r) \/ LookUpChanged(r)
  PROVE  IInv'
<1>1. /\ UNCHANGED <<started, customers, orders>>
      /\ \/ End(r)
         \/ /\ Go(r, "free") /\ Found(req[r].by, req[r].val) = {}
            /\ req[r].kind \in {"create customer", "update customer"}
            /\ req[r].phase \in {"authenticated", "loaded"}
            /\ req[r].kind = "update customer" => req[r].phase = "loaded"
  BY DEF LookUpNew, LookUpChanged, Arrived, Loaded
<1>2. QED
  BY <1>1, Stops, FreeKeeps

\* A customer is loaded only from the caller's business.
LEMMA LoadCustomerKeeps ==
  ASSUME IInv, NEW r \in Slots, LoadCustomer(r)
  PROVE  IInv'
<1> DEFINE q == req[r]
           row == customers[q.on]
           p == [q EXCEPT !.phase = "loaded", !.seen = row]
<1>1. /\ q.kind \in {"update customer", "create order"} /\ q.phase = "authenticated"
      /\ UNCHANGED <<started, customers, orders>> /\ q # Idle
  BY Apart DEF LoadCustomer, Arrived
<1>2. CASE End(r)
  BY <1>1, <1>2, Stops
<1>3. CASE ~End(r)
  <2>1. /\ Lives(q.on) /\ row.business = q.by
        /\ Become(users, business, [req EXCEPT ![r].phase = "loaded", ![r].seen = row])
    BY <1>3 DEF LoadCustomer
  <2>2. [req EXCEPT ![r].phase = "loaded", ![r].seen = row] = [req EXCEPT ![r] = p]
    BY DEF IInv, ReqTypes
  <2>3. Become(users, business, [req EXCEPT ![r] = p])
    BY <2>1, <2>2
  <2>4. /\ q \in Requests /\ Formed(q) /\ Known(users, business, customers, q)
    BY <1>1 DEF IInv, ReqTypes, RequestsKnown
  <2>5. q.by \in Accounts /\ q.on \in CustomerIds
    BY <1>1, <2>4 DEF Formed, TenantKinds
  <2>6. row \in Customer /\ row # Unused
    BY <2>1, <2>5, Apart DEF IInv, TablesOK, Lives
  <2>7. row = customers[q.on]
    OBVIOUS
  <2> HIDE DEF q, row
  <2>8. /\ p \in Requests /\ p.kind = q.kind /\ p.by = q.by /\ p.on = q.on /\ p.val = q.val
        /\ p.phase = "loaded" /\ p.self = q.self /\ p.seen = row
        /\ p.entitled = q.entitled /\ p.raced = q.raced
    BY <2>4, <2>6 DEF Requests, Phases
  <2> HIDE DEF p
  <2>9. GoesTo(q, p)
    BY <2>8, Apart DEF GoesTo
  <2>10. Formed(p)
    BY <1>1, <2>4, <2>8
    DEF Formed, AdminKinds, OnUsers, OnBusinesses, TenantKinds, ChatKinds
  <2>11. CallerKnown(users, business, p)
    <3>1. Passed(q) => Passed(p)
      BY <2>8 DEF Passed
    <3>2. p.kind \notin AdminKinds
      BY <1>1, <2>8 DEF AdminKinds, OnUsers, OnBusinesses
    <3>3. QED
      BY <1>1, <2>4, <2>5, <2>8, <3>1, <3>2 DEF Known, CallerKnown
  <2>12. TargetKnown(users, customers, p)
    BY <1>1, <2>1, <2>6, <2>7, <2>8 DEF TargetKnown, OnUsers
  <2>13. PhoneKnown(customers, p)
    BY <2>8 DEF PhoneKnown
  <2>14. QED
    BY <1>1, <2>3, <2>9, <2>10, <2>11, <2>12, <2>13, GoesOn DEF Known, q
<1>4. QED
  BY <1>2, <1>3

\* A message knows nothing of a caller, and of a target only that its number is free.
LEMMA ChatKnown ==
  ASSUME NEW us, NEW bs, NEW cs, NEW p, p.kind \in ChatKinds, p.by = "public",
         p.phase = "free" => Holders(cs, p.on, p.val) = {}
  PROVE  Known(us, bs, cs, p)
<1>1. p.by \notin Accounts
  BY AccountsAssumption
<1>2. p.kind \notin OnUsers /\ p.kind \notin {"update customer", "create order"}
  BY DEF ChatKinds, OnUsers
<1>3. Tenant(p) = p.on
  BY DEF Tenant
<1>4. QED
  BY <1>1, <1>2, <1>3 DEF Known, CallerKnown, TargetKnown, PhoneKnown

\* The shape of a message under way, by its phase.
LEMMA ChatFormed ==
  ASSUME NEW p, p.kind \in ChatKinds, p.by = "public", p.val \in Senders,
         p.phase \in {"begun", "business", "free", "customer"}, p.on \in Accounts,
         p.phase = "customer" => p.seen \in CustomerIds
  PROVE  Formed(p)
BY DEF Formed, AdminKinds, OnUsers, OnBusinesses, TenantKinds, ChatKinds

\* What a message under way is.
LEMMA InChatFacts ==
  ASSUME IInv, NEW r \in Slots, req[r].kind \in ChatKinds
  PROVE  /\ req[r] # Idle /\ req[r] \in Requests /\ req[r].by = "public" /\ req[r].val \in Senders
         /\ req[r].phase # "begun" => req[r].on \in Accounts
         /\ req[r].phase = "customer" => req[r].seen \in CustomerIds
<1>1. req[r] # Idle
  BY Apart DEF ChatKinds
<1>2. req[r] \in Requests /\ Formed(req[r])
  BY <1>1 DEF IInv, ReqTypes
<1>3. QED
  BY <1>1, <1>2 DEF Formed

\* A message is taken for some business that is there.
LEMMA ChooseBusinessKeeps ==
  ASSUME IInv, NEW r \in Slots, ChooseBusiness(r)
  PROVE  IInv'
<1>1. /\ req[r].kind \in ChatKinds /\ req[r].phase = "begun" /\ UNCHANGED <<started, customers, orders>>
      /\ \/ End(r)
         \/ \E b \in Accounts : Become(users, business, [req EXCEPT ![r].on = b, ![r].phase = "business"])
  BY DEF ChooseBusiness, InChat
<1>2. CASE End(r)
  BY <1>1, <1>2, Stops
<1>3. ASSUME NEW b \in Accounts, Become(users, business, [req EXCEPT ![r].on = b, ![r].phase = "business"])
      PROVE  IInv'
  <2> DEFINE q == req[r]
             p == [q EXCEPT !.on = b, !.phase = "business"]
  <2>1. q # Idle /\ q \in Requests /\ q.by = "public" /\ q.val \in Senders /\ q.kind \in ChatKinds
    BY <1>1, InChatFacts
  <2>2. [req EXCEPT ![r].on = b, ![r].phase = "business"] = [req EXCEPT ![r] = p]
    BY DEF IInv, ReqTypes
  <2>3. Become(users, business, [req EXCEPT ![r] = p])
    BY <1>3, <2>2
  <2> HIDE DEF q
  <2>4. /\ p \in Requests /\ p.kind = q.kind /\ p.by = q.by /\ p.on = b /\ p.val = q.val
        /\ p.phase = "business" /\ p.entitled = q.entitled /\ p.raced = q.raced
    BY <2>1 DEF Requests, Phases
  <2> HIDE DEF p
  <2>5. GoesTo(q, p)
    BY <2>4, Apart DEF GoesTo
  <2>6. Formed(p) /\ Known(users, business, customers, p)
    BY <2>1, <2>4, ChatFormed, ChatKnown
  <2>7. QED
    BY <1>1, <2>3, <2>5, <2>6, GoesOn DEF q
<1>4. QED
  BY <1>1, <1>2, <1>3

\* The sender of a message is one customer, or unknown, or the call fails.
LEMMA LookUpSenderKeeps ==
  ASSUME IInv, NEW r \in Slots, LookUpSender(r)
  PROVE  IInv'
<1> DEFINE q == req[r]
           found == FoundAnywhere(q.val)
<1>1. /\ q.kind \in ChatKinds /\ q.phase = "business" /\ UNCHANGED <<started, customers, orders>>
      /\ \/ End(r)
         \/ found = {} /\ Go(r, "free")
         \/ \E c \in found : Become(users, business, [req EXCEPT ![r].seen = c, ![r].phase = "customer"])
  BY DEF LookUpSender, InChat
<1>2. q # Idle /\ q \in Requests /\ q.by = "public" /\ q.val \in Senders /\ q.on \in Accounts
  BY <1>1, InChatFacts
<1>3. CASE End(r)
  BY <1>1, <1>3, Stops
<1>4. CASE found = {} /\ Go(r, "free")
  <2>1. PICK p : /\ GoesTo(q, p) /\ p.phase = "free"
                 /\ p.self = q.self /\ p.seen = q.seen /\ p.on = q.on
                 /\ Become(users, business, [req EXCEPT ![r] = p])
    BY <1>2, <1>4, Goes DEF Phases
  <2>2. Holders(customers, q.on, q.val) = {}
    BY <1>4 DEF FoundAnywhere, Holders, Lives
  <2>3. p.kind = q.kind /\ p.by = q.by /\ p.val = q.val
    BY <2>1 DEF GoesTo
  <2> HIDE DEF q, found
  <2>4. Formed(p)
    BY <1>1, <1>2, <2>1, <2>3, ChatFormed
  <2>5. Known(users, business, customers, p)
    BY <1>1, <1>2, <2>1, <2>2, <2>3, ChatKnown
  <2>6. QED
    BY <1>1, <2>1, <2>4, <2>5, GoesOn DEF q
<1>5. ASSUME NEW c \in found, Become(users, business, [req EXCEPT ![r].seen = c, ![r].phase = "customer"])
      PROVE  IInv'
  <2> DEFINE p == [q EXCEPT !.seen = c, !.phase = "customer"]
  <2>1. [req EXCEPT ![r].seen = c, ![r].phase = "customer"] = [req EXCEPT ![r] = p]
    BY DEF IInv, ReqTypes
  <2>2. Become(users, business, [req EXCEPT ![r] = p]) /\ c \in CustomerIds
    BY <1>5, <2>1 DEF FoundAnywhere
  <2> HIDE DEF q, found
  <2>3. /\ p \in Requests /\ p.kind = q.kind /\ p.by = q.by /\ p.on = q.on /\ p.val = q.val
        /\ p.phase = "customer" /\ p.seen = c /\ p.entitled = q.entitled /\ p.raced = q.raced
    BY <1>2, <2>2 DEF Requests, Phases
  <2> HIDE DEF p
  <2>4. GoesTo(q, p)
    BY <2>3, Apart DEF GoesTo
  <2>5. Formed(p) /\ Known(users, business, customers, p)
    BY <1>1, <1>2, <2>2, <2>3, ChatFormed, ChatKnown
  <2>6. QED
    BY <1>1, <2>2, <2>4, <2>5, GoesOn DEF q
<1>6. QED
  BY <1>1, <1>3, <1>4, <1>5

\* A message that asks for no order writes none.
LEMMA AnswerKeeps ==
  ASSUME IInv, NEW r \in Slots, Answer(r)
  PROVE  IInv'
BY Stops DEF Answer, InChat

-----------------------------------------------------------------------------
(* Steps that write users and businesses *)

\* A write to users and businesses keeps the invariant if it gives nobody back what they
\* have lost, removes no business row and leaves the accounts sound.
LEMMA AccountWrite ==
  ASSUME IInv, NEW r \in Slots, NEW us \in [Accounts -> NoRow \cup User],
         NEW bs \in [Accounts -> NoRow \cup Business], Write(r, us, bs),
         UNCHANGED <<started, customers, orders>>,
         \A a \in Accounts : users[a] # Unused =>
           /\ us[a] # Unused
           /\ us[a] \notin NoRow => users[a] \notin NoRow /\ (us[a].member => users[a].member)
           /\ bs[a] \notin NoRow => business[a] \notin NoRow /\ (business[a].deleted => bs[a].deleted),
         \A b \in Accounts : business[b] \notin NoRow => bs[b] \notin NoRow,
         AccountsSound'
  PROVE  IInv'
<1>1. users' = us /\ business' = bs /\ customers' = customers /\ orders' = orders /\ started' = started
  BY DEF Write, Become
<1>2. Grown /\ Unphoned
  BY <1>1 DEF Grown, Unphoned
<1>3. Enters(us, bs, customers', Idle)
  BY DEF Enters
<1>4. ReqTypes' /\ RequestsKnown'
  BY <1>2, <1>3, Move DEF IInv, Write
<1>5. TablesOK'
  BY <1>1 DEF IInv, TablesOK, AccountsTypeOK
<1>6. \A b \in Accounts : Exists(b) => Exists(b)'
  BY <1>1 DEF Exists
<1>7. \A c \in CustomerIds : (Lives(c)' <=> Lives(c)) /\ (Lives(c) => customers[c].business \in Accounts)
  BY <1>1 DEF IInv, TablesOK, Lives, Customer
<1>8. CustomersOwned'
  BY <1>1, <1>6, <1>7 DEF IInv, CustomersOwned
<1>9. \A o \in OrderIds : orders[o] \notin NoRow => orders[o].business \in Accounts /\ orders[o].customer \in CustomerIds
  BY DEF IInv, TablesOK, Order
<1>10. OrdersApart'
  BY <1>1, <1>6, <1>7, <1>9 DEF IInv, OrdersApart
<1>11. DuplicatesHaveCause'
  BY <1>1 DEF IInv, DuplicatesHaveCause, Lives
<1>12. QED
  BY <1>4, <1>5, <1>8, <1>10, <1>11 DEF IInv

\* A user's row is written: the address stays, and whoever is in a business is there
\* already and no administrator.
LEMMA UserWrite ==
  ASSUME IInv, NEW r \in Slots, NEW a \in Accounts, InUse(a), NEW row \in User,
         Write(r, [users EXCEPT ![a] = row], business), UNCHANGED <<started, customers, orders>>,
         row.email = users[a].email, row.member => users[a].member /\ row.role # "super_admin"
  PROVE  IInv'
<1> DEFINE us == [users EXCEPT ![a] = row]
<1>1. users \in [Accounts -> NoRow \cup User] /\ business \in [Accounts -> NoRow \cup Business]
  BY DEF IInv, TablesOK, AccountsTypeOK
<1>2. /\ us \in [Accounts -> NoRow \cup User] /\ us[a] = row
      /\ \A b \in Accounts \ {a} : us[b] = users[b]
  BY <1>1
<1>3. row \notin NoRow /\ row # Unused
  BY Apart
<1>4. Write(r, us, business)
  OBVIOUS
<1> HIDE DEF us
<1>5. users' = us /\ business' = business
  BY <1>4 DEF Write, Become
<1>6. AccountsSound'
  BY <1>1, <1>2, <1>3, <1>5 DEF IInv, AccountsSound, InUse, Exists
<1>7. QED
  BY <1>1, <1>2, <1>3, <1>4, <1>6, AccountWrite DEF InUse

\* What a loaded request of an administrator is.
LEMMA AdminFacts ==
  ASSUME IInv, NEW r \in Slots, req[r].kind \in AdminKinds, req[r].phase = "loaded"
  PROVE  /\ req[r] # Idle /\ req[r] \in Requests /\ req[r].by \in Accounts /\ req[r].on \in Accounts
         /\ req[r].kind = "role" => req[r].val \in Roles
         /\ req[r].kind \in OnUsers =>
              /\ req[r].seen \in User
              /\ InUse(req[r].on) => users[req[r].on] \in User
              /\ InUse(req[r].on) /\ users[req[r].on].member => req[r].seen.member
         /\ req[r].kind \in OnBusinesses => req[r].seen \in Business
<1>1. req[r] # Idle
  BY Apart DEF AdminKinds, OnUsers, OnBusinesses
<1>2. req[r] \in Requests /\ Formed(req[r]) /\ Known(users, business, customers, req[r])
  BY <1>1 DEF IInv, ReqTypes, RequestsKnown
<1>3. req[r].on \in Accounts
  BY <1>2 DEF Formed
<1>4. InUse(req[r].on) => users[req[r].on] \in User
  BY <1>3 DEF IInv, TablesOK, AccountsTypeOK, InUse
<1>5. QED
  BY <1>1, <1>2, <1>3, <1>4 DEF Formed, Known, TargetKnown, InUse

\* The change of a role: whoever becomes an administrator leaves the business.
LEMMA UpdateRoleKeeps ==
  ASSUME IInv, NEW r \in Slots, UpdateRole(r), UNCHANGED shop
  PROVE  IInv'
<1> DEFINE q == req[r]
           u == users[q.on]
           left == q.val = "super_admin" /\ q.seen.member
           row == [u EXCEPT !.role = IF q.val # q.seen.role THEN q.val ELSE u.role, !.member = u.member /\ ~left]
<1>1. q.kind = "role" /\ q.phase = "loaded" /\ UNCHANGED <<started, customers, orders>>
  BY DEF UpdateRole, Loaded, shop
<1>2. CASE End(r)
  BY <1>1, <1>2, Stops
<1>3. CASE ~End(r)
  <2>1. InUse(q.on) /\ Write(r, [users EXCEPT ![q.on] = row], business)
    BY <1>3 DEF UpdateRole, UpdateUser
  <2>2. /\ q.on \in Accounts /\ q.val \in Roles /\ q.seen \in User /\ u \in User
        /\ u.member => q.seen.member
    BY <1>1, <2>1, AdminFacts DEF AdminKinds, OnUsers
  <2>3. u.member => u.role # "super_admin"
    BY <2>1, <2>2 DEF IInv, AccountsSound
  <2> HIDE DEF u
  <2>4. row \in User /\ row.email = u.email /\ (row.member => u.member /\ row.role # "super_admin")
    BY <2>2, <2>3 DEF User
  <2> HIDE DEF row, q
  <2>5. QED
    BY <1>1, <2>1, <2>2, <2>4, UserWrite DEF u
<1>4. QED
  BY <1>2, <1>3

\* A user is suspended or activated.
LEMMA ToggleUserKeeps ==
  ASSUME IInv, NEW r \in Slots, ToggleUser(r), UNCHANGED shop
  PROVE  IInv'
<1> DEFINE q == req[r]
           u == users[q.on]
           row == [u EXCEPT !.active = ~q.seen.active]
<1>1. q.kind = "toggle user" /\ q.phase = "loaded" /\ UNCHANGED <<started, customers, orders>>
  BY DEF ToggleUser, Loaded, shop
<1>2. CASE End(r)
  BY <1>1, <1>2, Stops
<1>3. CASE ~End(r)
  <2>1. InUse(q.on) /\ Write(r, [users EXCEPT ![q.on] = row], business)
    BY <1>3 DEF ToggleUser, UpdateUser
  <2>2. q.on \in Accounts /\ q.seen \in User /\ u \in User
    BY <1>1, <2>1, AdminFacts DEF AdminKinds, OnUsers
  <2>3. u.member => u.role # "super_admin"
    BY <2>1, <2>2 DEF IInv, AccountsSound
  <2> HIDE DEF u
  <2>4. row \in User /\ row.email = u.email /\ (row.member => u.member /\ row.role # "super_admin")
    BY <2>2, <2>3 DEF User
  <2> HIDE DEF row, q
  <2>5. QED
    BY <1>1, <2>1, <2>2, <2>4, UserWrite DEF u
<1>4. QED
  BY <1>2, <1>3

\* A user is deleted, the row stays.
LEMMA DeleteUserKeeps ==
  ASSUME IInv, NEW r \in Slots, DeleteUser(r), UNCHANGED shop
  PROVE  IInv'
<1> DEFINE q == req[r]
           u == users[q.on]
           row == [u EXCEPT !.deleted = TRUE]
<1>1. q.kind = "delete user" /\ q.phase = "loaded" /\ UNCHANGED <<started, customers, orders>>
  BY DEF DeleteUser, Loaded, shop
<1>2. CASE End(r)
  BY <1>1, <1>2, Stops
<1>3. CASE ~End(r)
  <2>1. InUse(q.on) /\ Write(r, [users EXCEPT ![q.on] = row], business)
    BY <1>3 DEF DeleteUser, UpdateUser
  <2>2. q.on \in Accounts /\ u \in User
    BY <1>1, <2>1, AdminFacts DEF AdminKinds, OnUsers
  <2>3. u.member => u.role # "super_admin"
    BY <2>1, <2>2 DEF IInv, AccountsSound
  <2> HIDE DEF u
  <2>4. row \in User /\ row.email = u.email /\ (row.member => u.member /\ row.role # "super_admin")
    BY <2>2, <2>3 DEF User
  <2> HIDE DEF row, q
  <2>5. QED
    BY <1>1, <2>1, <2>2, <2>4, UserWrite DEF u
<1>4. QED
  BY <1>2, <1>3

\* The unique address and the id that was never used keep the accounts apart.
LEMMA InsertAccountKeeps ==
  ASSUME IInv, NEW r \in Slots, InsertAccount(r), UNCHANGED shop
  PROVE  IInv'
<1> DEFINE q == req[r]
           seeded == q.kind = "seed"
           row == [email |-> q.val, role |-> IF seeded THEN "super_admin" ELSE "owner",
                   member |-> ~seeded, active |-> TRUE, deleted |-> FALSE]
           fresh == [deleted |-> FALSE, owned |-> TRUE]
           us(a) == [users EXCEPT ![a] = row]
           bs(a) == IF seeded THEN business ELSE [business EXCEPT ![a] = fresh]
<1>1. q.kind \in {"register", "seed"} /\ UNCHANGED <<started, customers, orders>>
  BY DEF InsertAccount, shop
<1>2. CASE Taken(q.val)
  <2>1. End(r)
    BY <1>2 DEF InsertAccount
  <2>2. QED
    BY <1>1, <2>1, Stops
<1>3. CASE ~Taken(q.val)
  <2>1. PICK a \in Accounts : users[a] = Unused /\ Write(r, us(a), bs(a))
    BY <1>3 DEF InsertAccount
  <2>2. q \in Requests /\ q.val \in Emails
    <3>1. q # Idle
      BY <1>1, Apart
    <3>2. QED
      BY <1>1, <3>1 DEF IInv, ReqTypes, Formed
  <2>3. users \in [Accounts -> NoRow \cup User] /\ business \in [Accounts -> NoRow \cup Business]
    BY DEF IInv, TablesOK, AccountsTypeOK
  <2>4. row \in User /\ row.email = q.val /\ (row.member => row.role # "super_admin") /\ row.member = ~seeded
    BY <2>2, AccountsAssumption DEF User
  <2>5. fresh \in Business
    BY DEF Business
  <2>6. \A b \in Accounts : InUse(b) => users[b].email # q.val
    BY <1>3 DEF Taken
  <2>7. business[a] \in NoRow
    BY <2>1 DEF IInv, AccountsSound, Exists
  <2> HIDE DEF row, fresh
  <2>8. /\ us(a) \in [Accounts -> NoRow \cup User] /\ us(a)[a] = row
        /\ \A b \in Accounts \ {a} : us(a)[b] = users[b]
    BY <2>3, <2>4
  <2>9. /\ bs(a) \in [Accounts -> NoRow \cup Business] /\ (seeded => bs(a) = business) /\ (~seeded => bs(a)[a] = fresh)
        /\ \A b \in Accounts \ {a} : bs(a)[b] = business[b]
    BY <2>3, <2>5
  <2> HIDE DEF us, bs
  <2>10. users' = us(a) /\ business' = bs(a)
    BY <2>1 DEF Write, Become
  <2>11. row \notin NoRow /\ fresh \notin NoRow /\ row # Unused
    BY <2>4, <2>5, Apart
  <2>12. users[a] \in NoRow
    BY <2>1, Apart
  <2> HIDE DEF q, seeded
  <2>13. \A b, c \in Accounts : InUse(b)' /\ InUse(c)' /\ users'[b].email = users'[c].email => b = c
    BY <2>4, <2>6, <2>8, <2>10 DEF IInv, AccountsSound, InUse
  <2>14. \A b \in Accounts : Exists(b)' => users'[b] # Unused /\ (business'[b].owned => InUse(b)')
    BY <2>7, <2>8, <2>9, <2>10, <2>11 DEF IInv, AccountsSound, InUse, Exists
  <2>15. \A b \in Accounts : InUse(b)' /\ users'[b].member => Exists(b)' /\ users'[b].role # "super_admin"
    <3>1. ASSUME NEW b \in Accounts, b # a, InUse(b)', users'[b].member
          PROVE  Exists(b)' /\ users'[b].role # "super_admin"
      BY <2>8, <2>9, <2>10, <3>1 DEF IInv, AccountsSound, InUse, Exists
    <3>2. users'[a].member => Exists(a)' /\ users'[a].role # "super_admin"
      BY <2>4, <2>8, <2>9, <2>10, <2>11 DEF Exists
    <3>3. QED
      BY <3>1, <3>2
  <2>16. AccountsSound'
    BY <2>13, <2>14, <2>15 DEF AccountsSound
  <2>17. ASSUME NEW b \in Accounts, users[b] # Unused
         PROVE  us(a)[b] = users[b] /\ bs(a)[b] = business[b]
    BY <2>1, <2>8, <2>9, <2>17
  <2>18. ASSUME NEW b \in Accounts, business[b] \notin NoRow
         PROVE  bs(a)[b] \notin NoRow
    BY <2>7, <2>9, <2>18
  <2>19. QED
    BY <1>1, <2>1, <2>8, <2>9, <2>16, <2>17, <2>18, AccountWrite
<1>4. QED
  BY <1>2, <1>3

\* A user is purged: the business left behind has no owner.
LEMMA PurgeUserKeeps ==
  ASSUME IInv, NEW r \in Slots, PurgeUser(r), UNCHANGED shop
  PROVE  IInv'
<1> DEFINE a == req[r].on
           us == [users EXCEPT ![a] = Purged]
           bs == IF Exists(a) THEN [business EXCEPT ![a].owned = FALSE] ELSE business
<1>1. /\ req[r].kind = "purge user" /\ req[r].phase = "loaded" /\ UNCHANGED <<started, customers, orders>>
      /\ Write(r, us, bs)
  BY DEF PurgeUser, Loaded, shop
<1>2. a \in Accounts
  BY <1>1, AdminFacts DEF AdminKinds, OnUsers
<1>3. users \in [Accounts -> NoRow \cup User] /\ business \in [Accounts -> NoRow \cup Business]
  BY DEF IInv, TablesOK, AccountsTypeOK
<1>4. Purged \in NoRow /\ Purged # Unused
  BY Apart
<1> HIDE DEF a
<1>5. us \in [Accounts -> NoRow \cup User] /\ us[a] = Purged /\ \A b \in Accounts \ {a} : us[b] = users[b]
  BY <1>2, <1>3, <1>4
<1>6. /\ bs \in [Accounts -> NoRow \cup Business]
      /\ \A b \in Accounts \ {a} : bs[b] = business[b]
      /\ (Exists(a) => bs[a] \in Business /\ bs[a].deleted = business[a].deleted /\ ~bs[a].owned)
      /\ (~Exists(a) => bs[a] = business[a])
  <2>1. CASE Exists(a)
    <3> DEFINE row == [business[a] EXCEPT !.owned = FALSE]
    <3>1. business[a] \in Business
      BY <1>2, <1>3, <2>1 DEF Exists
    <3>2. row \in Business /\ row.deleted = business[a].deleted /\ ~row.owned
      BY <3>1 DEF Business
    <3>3. bs = [business EXCEPT ![a] = row]
      BY <1>2, <1>3, <2>1
    <3> HIDE DEF row, bs
    <3>4. QED
      BY <1>2, <1>3, <2>1, <3>2, <3>3
  <2>2. CASE ~Exists(a)
    BY <1>2, <1>3, <2>2
  <2>3. QED
    BY <2>1, <2>2
<1> HIDE DEF us, bs
<1>7. users' = us /\ business' = bs
  BY <1>1 DEF Write, Become
<1>8. \A b \in Accounts : (bs[b] \notin NoRow <=> business[b] \notin NoRow) /\ (bs[b] \notin NoRow => bs[b].deleted = business[b].deleted)
  BY <1>6, Apart DEF Exists
<1>9. AccountsSound'
  <2>1. \A b, c \in Accounts : InUse(b)' /\ InUse(c)' /\ users'[b].email = users'[c].email => b = c
    BY <1>4, <1>5, <1>7 DEF IInv, AccountsSound, InUse
  <2>2. \A b \in Accounts : Exists(b)' => users'[b] # Unused /\ (business'[b].owned => InUse(b)')
    BY <1>4, <1>5, <1>6, <1>7, <1>8 DEF IInv, AccountsSound, InUse, Exists
  <2>3. \A b \in Accounts : InUse(b)' /\ users'[b].member => Exists(b)' /\ users'[b].role # "super_admin"
    BY <1>4, <1>5, <1>6, <1>7 DEF IInv, AccountsSound, InUse, Exists
  <2>4. QED
    BY <2>1, <2>2, <2>3 DEF AccountsSound
<1>10. ASSUME NEW b \in Accounts, users[b] # Unused
       PROVE  /\ us[b] # Unused
              /\ us[b] \notin NoRow => users[b] \notin NoRow /\ (us[b].member => users[b].member)
  BY <1>4, <1>5, <1>10
<1>11. QED
  BY <1>1, <1>5, <1>6, <1>8, <1>9, <1>10, AccountWrite

\* A business is deleted, the row stays.
LEMMA DeleteBusinessKeeps ==
  ASSUME IInv, NEW r \in Slots, DeleteBusiness(r), UNCHANGED shop
  PROVE  IInv'
<1> DEFINE b == req[r].on
           row == [business[b] EXCEPT !.deleted = TRUE]
           bs == [business EXCEPT ![b] = row]
<1>1. req[r].kind = "delete business" /\ req[r].phase = "loaded" /\ UNCHANGED <<started, customers, orders>>
  BY DEF DeleteBusiness, Loaded, shop
<1>2. CASE End(r)
  BY <1>1, <1>2, Stops
<1>3. CASE ~End(r)
  <2>1. b \in Accounts
    BY <1>1, AdminFacts DEF AdminKinds, OnBusinesses
  <2>2. Exists(b) /\ Write(r, users, [business EXCEPT ![b].deleted = TRUE])
    BY <1>3 DEF DeleteBusiness
  <2>3. users \in [Accounts -> NoRow \cup User] /\ business \in [Accounts -> NoRow \cup Business]
    BY DEF IInv, TablesOK, AccountsTypeOK
  <2>4. business[b] \in Business
    BY <2>1, <2>2, <2>3 DEF Exists
  <2>5. row \in Business /\ row.deleted /\ row.owned = business[b].owned
    BY <2>4 DEF Business
  <2>6. Write(r, users, bs)
    BY <2>1, <2>2, <2>3
  <2> HIDE DEF row, b
  <2>7. bs \in [Accounts -> NoRow \cup Business] /\ bs[b] = row /\ \A c \in Accounts \ {b} : bs[c] = business[c]
    BY <2>1, <2>3, <2>5
  <2> HIDE DEF bs
  <2>8. users' = users /\ business' = bs
    BY <2>6 DEF Write, Become
  <2>9. \A c \in Accounts : (bs[c] \notin NoRow <=> business[c] \notin NoRow) /\ bs[c].owned = business[c].owned
    BY <2>2, <2>5, <2>7, Apart DEF Exists
  <2>10. AccountsSound'
    BY <2>8, <2>9 DEF IInv, AccountsSound, InUse, Exists
  <2>11. \A c \in Accounts : bs[c] \notin NoRow => (business[c].deleted => bs[c].deleted)
    BY <2>5, <2>7
  <2>12. QED
    BY <1>1, <2>3, <2>6, <2>7, <2>9, <2>10, <2>11, AccountWrite
<1>4. QED
  BY <1>2, <1>3

-----------------------------------------------------------------------------
(* Steps that write customers and orders *)

\* A request that is marked as overtaken changes in nothing else.
LEMMA Overtaken ==
  ASSUME NEW q \in Requests, NEW p, p = [q EXCEPT !.raced = TRUE]
  PROVE  p \in Requests /\ Same(p, q) /\ p.entitled = q.entitled /\ p.raced
BY DEF Requests, Same

\* The commit that gives a phone: every other request that had found the phone free is
\* marked, and if this one had not been overtaken itself nobody else has the phone.
LEMMA PhoneWrite ==
  ASSUME IInv, NEW r \in Slots, NEW c \in CustomerIds, NEW b \in Accounts, NEW ph \in Phones \cup Senders,
         NEW done \in {Idle} \cup Requests, WritePhone(r, c, b, ph, done), UNCHANGED <<started, orders>>,
         req[r] # Idle, Exists(b), customers[c] # Unused => Lives(c) /\ customers[c].business = b,
         ~req[r].raced => Holders(customers, b, ph) = {},
         done # Idle => Formed(done) /\ done.kind \in ChatKinds /\ done.by = "public" /\ done.phase # "free"
  PROVE  IInv'
<1> DEFINE row == [business |-> b, phone |-> ph, raced |-> req[r].raced]
           Hit(q) == /\ q.kind \in {"create customer", "update customer"} \cup ChatKinds
                     /\ q.phase = "free" /\ Tenant(q) = b /\ q.val = ph
           next == [s \in Slots |-> IF s = r THEN done ELSE IF Hit(req[s])
                                   THEN [req[s] EXCEPT !.raced = TRUE] ELSE req[s]]
<1>1. /\ users \in [Accounts -> NoRow \cup User] /\ business \in [Accounts -> NoRow \cup Business]
      /\ customers \in [CustomerIds -> NoRow \cup Customer] /\ orders \in [OrderIds -> NoRow \cup Order]
      /\ req \in [Slots -> {Idle} \cup Requests]
  BY DEF IInv, TablesOK, AccountsTypeOK, ReqTypes
<1>2. row \in Customer /\ row.business = b /\ row.phone = ph /\ row.raced = req[r].raced
  <2>1. req[r].raced \in BOOLEAN
    BY <1>1 DEF Requests
  <2>2. QED
    BY <2>1 DEF Customer
<1>3. customers' = [customers EXCEPT ![c] = row] /\ Become(users, business, next)
  BY DEF WritePhone
<1> HIDE DEF row
<1>4. /\ customers' \in [CustomerIds -> NoRow \cup Customer]
      /\ customers'[c] = row /\ \A d \in CustomerIds \ {c} : customers'[d] = customers[d]
  BY <1>1, <1>2, <1>3
<1>5. row \notin NoRow /\ row # Unused
  BY <1>2, Apart
<1>6. ASSUME NEW s \in Slots, s # r, req[s] # Idle
      PROVE  /\ next[s] \in Requests /\ Same(next[s], req[s]) /\ next[s].entitled = req[s].entitled
             /\ (req[s].raced => next[s].raced) /\ (Hit(req[s]) => next[s].raced)
  <2>1. req[s] \in Requests
    BY <1>1, <1>6
  <2>2. CASE Hit(req[s])
    <3> DEFINE q == req[s]
               p == [q EXCEPT !.raced = TRUE]
    <3>1. next[s] = p
      BY <1>6, <2>2
    <3> HIDE DEF q, next
    <3>2. q \in Requests
      BY <2>1 DEF q
    <3>3. p \in Requests /\ Same(p, q) /\ p.entitled = q.entitled /\ p.raced
      BY <3>2, Overtaken
    <3>4. QED
      BY <3>1, <3>3 DEF q
  <2>3. CASE ~Hit(req[s])
    BY <1>6, <2>1, <2>3 DEF Same
  <2>4. QED
    BY <2>2, <2>3
<1>7. ASSUME NEW s \in Slots, s # r, req[s] = Idle
      PROVE  next[s] = Idle
  BY <1>7, Apart DEF ChatKinds
<1>8. next[r] = done /\ next \in [Slots -> {Idle} \cup Requests]
  <2>1. \A s \in Slots : next[s] \in {Idle} \cup Requests
    BY <1>6, <1>7
  <2>2. QED
    BY <2>1
<1> HIDE DEF next
<1>9. /\ users' = users /\ business' = business /\ req' \in [Slots -> {Idle} \cup Requests]
      /\ \A s \in Slots : IF next[s] = Idle THEN req'[s] = Idle ELSE Noted(users, business, next[s], req'[s])
  BY <1>3, <1>8, BecomeNotes
<1>10. Grown
  <2>1. ASSUME NEW d \in CustomerIds, customers[d] # Unused
        PROVE  /\ customers'[d] # Unused
               /\ customers'[d] \notin NoRow =>
                    customers[d] \notin NoRow /\ customers'[d].business = customers[d].business
    BY <1>2, <1>4, <1>5, <2>1 DEF Lives
  <2>2. QED
    BY <1>9, <2>1 DEF Grown
<1>11. ASSUME NEW s \in Slots, req'[s] # Idle
       PROVE  Formed(req'[s]) /\ Known(users', business', customers', req'[s])
  <2>1. CASE s = r
    <3>1. done # Idle /\ Noted(users, business, done, req'[r])
      BY <1>8, <1>9, <1>11, <2>1
    <3>2. Same(req'[r], done)
      BY <3>1 DEF Noted
    <3>3. Formed(req'[r])
      BY <3>1, <3>2 DEF Same, Formed
    <3>4. Known(users', business', customers', req'[r])
      BY <3>1, <3>2, ChatKnown DEF Same
    <3>5. QED
      BY <2>1, <3>3, <3>4
  <2>2. CASE s # r
    <3>1. req[s] # Idle
      BY <1>7, <1>9, <1>11, <2>2
    <3>2. /\ req[s] \in Requests /\ Formed(req[s]) /\ Known(users, business, customers, req[s])
      BY <3>1 DEF IInv, ReqTypes, RequestsKnown
    <3>3. /\ next[s] # Idle /\ Same(next[s], req[s]) /\ next[s].entitled = req[s].entitled
          /\ (req[s].raced => next[s].raced) /\ (Hit(req[s]) => next[s].raced)
      BY <1>6, <2>2, <3>1, Apart
    <3>4. /\ req'[s] \in Requests /\ Same(req'[s], next[s]) /\ req'[s].raced = next[s].raced
          /\ (next[s].entitled => req'[s].entitled)
      BY <1>9, <3>3 DEF Noted
    <3>5. Same(req'[s], req[s])
      BY <3>3, <3>4 DEF Same
    <3>6. Kept(s)
      BY <3>1, <3>3, <3>4, <3>5 DEF Kept
    <3>7. /\ Formed(req'[s]) /\ CallerKnown(users', business', req'[s])
          /\ TargetKnown(users', customers', req'[s])
      BY <1>10, <3>1, <3>2, <3>6, KeptKnown
    <3>8. ASSUME req'[s].kind \in {"create customer", "update customer"} \cup ChatKinds,
                 req'[s].phase = "free", ~req'[s].raced
          PROVE  Holders(customers', Tenant(req'[s]), req'[s].val) = {}
      <4>1. ~Hit(req[s]) /\ ~req[s].raced
        BY <3>3, <3>4, <3>8
      <4>2. Tenant(req'[s]) = Tenant(req[s]) /\ req'[s].val = req[s].val
        BY <3>5 DEF Same, Tenant
      <4>3. Holders(customers, Tenant(req[s]), req[s].val) = {}
        BY <3>2, <3>5, <3>8, <4>1 DEF Known, PhoneKnown, Same
      <4>4. Tenant(req[s]) # b \/ req[s].val # ph
        BY <3>5, <3>8, <4>1 DEF Same
      <4> DEFINE t == Tenant(req[s])
                 v == req[s].val
      <4> HIDE DEF t, v
      <4>5. Holders(customers, t, v) = {} /\ (t # b \/ v # ph)
        BY <4>3, <4>4 DEF t, v
      <4>6. Holders(customers', t, v) = {}
        BY <1>2, <1>4, <4>5 DEF Holders
      <4>7. QED
        BY <4>2, <4>6 DEF t, v
    <3>9. QED
      BY <3>7, <3>8 DEF Known, PhoneKnown
  <2>3. QED
    BY <2>1, <2>2
<1>12. ReqTypes' /\ RequestsKnown'
  BY <1>9, <1>11 DEF ReqTypes, RequestsKnown
<1>13. TablesOK'
  BY <1>1, <1>4, <1>9 DEF IInv, TablesOK, AccountsTypeOK
<1>14. AccountsSound'
  BY <1>9 DEF IInv, AccountsSound, InUse, Exists
<1>15. CustomersOwned'
  BY <1>2, <1>4, <1>9 DEF IInv, CustomersOwned, Lives, Exists
<1>16. OrdersApart'
  <2>1. ASSUME NEW o \in OrderIds, orders'[o] \notin NoRow
        PROVE  /\ business'[orders'[o].business] \notin NoRow /\ customers'[orders'[o].customer] \notin NoRow
               /\ orders'[o].via = "api" => customers'[orders'[o].customer].business = orders'[o].business
    <3>1. /\ orders' = orders /\ orders[o] \notin NoRow /\ orders[o] \in Order
      BY <1>1, <2>1
    <3>2. /\ Exists(orders[o].business) /\ Lives(orders[o].customer) /\ orders[o].customer \in CustomerIds
          /\ orders[o].via = "api" => customers[orders[o].customer].business = orders[o].business
      BY <3>1 DEF IInv, OrdersApart, Order
    <3>3. customers[orders[o].customer] # Unused
      BY <3>2, Apart DEF Lives
    <3>4. /\ customers'[orders[o].customer] \notin NoRow
          /\ customers'[orders[o].customer].business = customers[orders[o].customer].business
      BY <1>2, <1>4, <1>5, <3>2, <3>3 DEF Lives
    <3>5. QED
      BY <1>9, <3>1, <3>2, <3>4 DEF Exists
  <2>2. QED
    BY <2>1 DEF OrdersApart, Exists, Lives
<1>17. DuplicatesHaveCause'
  <2>1. \A d \in CustomerIds : Lives(d) /\ customers[d].business = b /\ customers[d].phone = ph => row.raced
    BY <1>2 DEF Holders, Lives
  <2>2. QED
    BY <1>2, <1>4, <2>1 DEF IInv, DuplicatesHaveCause, Lives
<1>18. QED
  BY <1>12, <1>13, <1>14, <1>15, <1>16, <1>17 DEF IInv

\* A member adds a customer, whose business may have been purged meanwhile.
LEMMA InsertCustomerKeeps ==
  ASSUME IInv, NEW r \in Slots, InsertCustomer(r)
  PROVE  IInv'
<1>1. req[r].kind = "create customer" /\ req[r].phase = "free" /\ UNCHANGED <<started, orders>>
  BY DEF InsertCustomer
<1>2. CASE ~Exists(req[r].by)
  BY <1>1, <1>2, Stops DEF InsertCustomer
<1>3. CASE Exists(req[r].by)
  <2>1. PICK c \in CustomerIds : Fresh(c) /\ WritePhone(r, c, req[r].by, req[r].val, Idle)
    BY <1>3 DEF InsertCustomer
  <2>2. req[r] # Idle
    BY <1>1, Apart
  <2>3. /\ req[r].by \in Accounts /\ req[r].val \in Phones
        /\ Known(users, business, customers, req[r])
    BY <1>1, <2>2 DEF IInv, ReqTypes, RequestsKnown, Formed, TenantKinds
  <2>4. Tenant(req[r]) = req[r].by
    BY <1>1 DEF Tenant, ChatKinds
  <2>5. ~req[r].raced => Holders(customers, req[r].by, req[r].val) = {}
    BY <1>1, <2>3, <2>4 DEF Known, PhoneKnown
  <2>6. QED
    BY <1>1, <1>3, <2>1, <2>2, <2>3, <2>5, PhoneWrite DEF Fresh
<1>4. QED
  BY <1>2, <1>3

\* A member changes a customer, who may have been purged meanwhile.
LEMMA UpdateCustomerKeeps ==
  ASSUME IInv, NEW r \in Slots, UpdateCustomer(r)
  PROVE  IInv'
<1>1. req[r].kind = "update customer" /\ req[r].phase = "free" /\ UNCHANGED <<started, orders>>
  BY DEF UpdateCustomer
<1>2. CASE ~Lives(req[r].on)
  BY <1>1, <1>2, Stops DEF UpdateCustomer
<1>3. CASE Lives(req[r].on)
  <2>1. WritePhone(r, req[r].on, req[r].by, req[r].val, Idle)
    BY <1>3 DEF UpdateCustomer
  <2>2. req[r] # Idle
    BY <1>1, Apart
  <2>3. /\ req[r].by \in Accounts /\ req[r].val \in Phones /\ req[r].on \in CustomerIds
        /\ Known(users, business, customers, req[r])
    BY <1>1, <2>2 DEF IInv, ReqTypes, RequestsKnown, Formed, TenantKinds
  <2>4. Tenant(req[r]) = req[r].by
    BY <1>1 DEF Tenant, ChatKinds
  <2>5. ~req[r].raced => Holders(customers, req[r].by, req[r].val) = {}
    BY <1>1, <2>3, <2>4 DEF Known, PhoneKnown
  <2>6. customers[req[r].on].business = req[r].by
    BY <1>1, <1>3, <2>3 DEF Known, TargetKnown, Lives
  <2>7. Exists(req[r].by)
    BY <1>3, <2>3, <2>6 DEF IInv, CustomersOwned
  <2>8. QED
    BY <1>1, <1>3, <2>1, <2>2, <2>3, <2>5, <2>6, <2>7, PhoneWrite
<1>4. QED
  BY <1>2, <1>3

\* A message adds its sender as a customer of the business it was taken for.
LEMMA InsertSenderKeeps ==
  ASSUME IInv, NEW r \in Slots, InsertSender(r)
  PROVE  IInv'
<1>1. req[r].kind \in ChatKinds /\ req[r].phase = "free" /\ UNCHANGED <<started, orders>>
  BY DEF InsertSender, InChat
<1>2. CASE ~Exists(req[r].on)
  BY <1>1, <1>2, Stops DEF InsertSender
<1>3. CASE Exists(req[r].on)
  <2> DEFINE q == req[r]
             p(c) == [q EXCEPT !.seen = c, !.phase = "customer"]
  <2>1. PICK c \in CustomerIds : Fresh(c) /\ WritePhone(r, c, q.on, q.val, p(c))
    BY <1>3 DEF InsertSender
  <2>2. q # Idle /\ q \in Requests /\ q.by = "public" /\ q.val \in Senders /\ q.on \in Accounts
    BY <1>1, InChatFacts
  <2>3. Known(users, business, customers, q)
    BY <2>2 DEF IInv, RequestsKnown
  <2>4. Tenant(q) = q.on
    BY <1>1 DEF Tenant
  <2>5. ~q.raced => Holders(customers, q.on, q.val) = {}
    BY <1>1, <2>3, <2>4 DEF Known, PhoneKnown
  <2>6. q.kind \in ChatKinds /\ Exists(q.on)
    BY <1>1, <1>3
  <2> HIDE DEF q
  <2>7. /\ p(c) \in Requests /\ p(c).kind = q.kind /\ p(c).by = q.by /\ p(c).on = q.on /\ p(c).val = q.val
        /\ p(c).phase = "customer" /\ p(c).seen = c
    BY <2>2 DEF Requests, Phases
  <2> HIDE DEF p
  <2>8. Formed(p(c))
    BY <2>2, <2>6, <2>7, ChatFormed
  <2>9. QED
    BY <1>1, <2>1, <2>2, <2>5, <2>6, <2>7, <2>8, PhoneWrite DEF Fresh, q
<1>4. QED
  BY <1>2, <1>3

\* An order is inserted for a customer of its business, or by a chat.
LEMMA OrderWrite ==
  ASSUME IInv, NEW r \in Slots, NEW b \in Accounts, NEW c \in CustomerIds, NEW via \in {"api", "chat"},
         InsertOrderFor(r, b, c, via), via = "api" /\ Lives(c) => customers[c].business = b
  PROVE  IInv'
<1>1. End(r) /\ UNCHANGED <<started, customers>>
  BY DEF InsertOrderFor
<1>2. CASE orders' = orders
  BY <1>1, <1>2, Stops
<1>3. ASSUME Exists(b), Lives(c), NEW o \in OrderIds,
             orders' = [orders EXCEPT ![o] = [business |-> b, customer |-> c, via |-> via]]
      PROVE  IInv'
  <2> DEFINE row == [business |-> b, customer |-> c, via |-> via]
  <2>1. users' = users /\ business' = business /\ customers' = customers
    BY <1>1 DEF End, Become
  <2>2. Grown /\ Unphoned /\ Enters(users, business, customers', Idle)
    BY <2>1 DEF Grown, Unphoned, Enters
  <2>3. ReqTypes' /\ RequestsKnown'
    BY <1>1, <2>2, Move DEF IInv, End
  <2>4. row \in Order /\ row.business = b /\ row.customer = c /\ row.via = via
    BY DEF Order
  <2>5. orders \in [OrderIds -> NoRow \cup Order]
    BY DEF IInv, TablesOK
  <2>6. orders' = [orders EXCEPT ![o] = row]
    BY <1>3
  <2> HIDE DEF row
  <2>7. orders' \in [OrderIds -> NoRow \cup Order] /\ orders'[o] = row /\ \A d \in OrderIds \ {o} : orders'[d] = orders[d]
    BY <2>4, <2>5, <2>6
  <2>8. TablesOK' /\ CustomersOwned' /\ AccountsSound'
    BY <1>1, <2>1, <2>7
    DEF IInv, TablesOK, AccountsTypeOK, CustomersOwned, AccountsSound, Lives, Exists, InUse
  <2>9. DuplicatesHaveCause'
    BY <2>1 DEF IInv, DuplicatesHaveCause, Lives
  <2>10. OrdersApart'
    BY <1>3, <2>1, <2>4, <2>7 DEF IInv, OrdersApart, Exists, Lives
  <2>11. QED
    BY <2>3, <2>8, <2>9, <2>10 DEF IInv
<1>4. QED
  BY <1>2, <1>3 DEF InsertOrderFor

\* A member places an order for a customer who was loaded from the business.
LEMMA InsertOrderKeeps ==
  ASSUME IInv, NEW r \in Slots, InsertOrder(r)
  PROVE  IInv'
<1>1. /\ req[r].kind = "create order" /\ req[r].phase = "loaded"
      /\ InsertOrderFor(r, req[r].by, req[r].on, "api")
  BY DEF InsertOrder, Loaded
<1>2. req[r] # Idle
  BY <1>1, Apart
<1>3. /\ req[r].by \in Accounts /\ req[r].on \in CustomerIds
      /\ Known(users, business, customers, req[r])
  BY <1>1, <1>2 DEF IInv, ReqTypes, RequestsKnown, Formed, TenantKinds
<1>4. Lives(req[r].on) => customers[req[r].on].business = req[r].by
  BY <1>1, <1>3 DEF Known, TargetKnown, Lives
<1>5. QED
  BY <1>1, <1>3, <1>4, OrderWrite

\* A message places an order for the customer it found or added.
LEMMA InsertChatOrderKeeps ==
  ASSUME IInv, NEW r \in Slots, InsertChatOrder(r)
  PROVE  IInv'
<1>1. /\ req[r].kind \in ChatKinds /\ req[r].phase = "customer"
      /\ InsertOrderFor(r, req[r].on, req[r].seen, "chat")
  BY DEF InsertChatOrder, InChat
<1>2. req[r].on \in Accounts /\ req[r].seen \in CustomerIds
  BY <1>1, InChatFacts
<1>3. QED
  BY <1>1, <1>2, OrderWrite

\* What the cascade takes and what it leaves.
LEMMA PurgeTakes ==
  ASSUME IInv, NEW r \in Slots, PurgeTenant(r)
  PROVE  \E b \in Accounts :
           /\ \E us \in [Accounts -> NoRow \cup User], bs \in [Accounts -> NoRow \cup Business] :
                /\ Write(r, us, bs)
                /\ bs[b] = Purged /\ \A a \in Accounts \ {b} : bs[a] = business[a] /\ us[a] = users[a]
                /\ us[b] = IF InUse(b) /\ users[b].member THEN Purged ELSE users[b]
           /\ started' = started
           /\ customers' \in [CustomerIds -> NoRow \cup Customer] /\ orders' \in [OrderIds -> NoRow \cup Order]
           /\ \A c \in CustomerIds :
                customers'[c] = IF Lives(c) /\ customers[c].business = b THEN Purged ELSE customers[c]
           /\ \A o \in OrderIds :
                orders'[o] = IF orders[o] \notin NoRow /\
                                (orders[o].business = b \/ customers[orders[o].customer].business = b)
                             THEN Purged ELSE orders[o]
<1> DEFINE b == req[r].on
           us == IF InUse(b) /\ users[b].member THEN [users EXCEPT ![b] = Purged] ELSE users
           bs == [business EXCEPT ![b] = Purged]
           gone == {c \in CustomerIds : Lives(c) /\ customers[c].business = b}
<1>1. req[r].kind = "purge business" /\ req[r].phase = "loaded" /\ started' = started /\ Write(r, us, bs)
  BY DEF PurgeTenant, PurgeBusiness, Loaded
<1>2. /\ customers' = [c \in CustomerIds |-> IF c \in gone THEN Purged ELSE customers[c]]
      /\ orders' = [o \in OrderIds |->
           IF orders[o] \notin NoRow /\ (orders[o].business = b \/ orders[o].customer \in gone)
           THEN Purged ELSE orders[o]]
  BY DEF PurgeTenant
<1>3. b \in Accounts
  BY <1>1, AdminFacts DEF AdminKinds, OnBusinesses
<1>4. /\ users \in [Accounts -> NoRow \cup User] /\ business \in [Accounts -> NoRow \cup Business]
      /\ customers \in [CustomerIds -> NoRow \cup Customer] /\ orders \in [OrderIds -> NoRow \cup Order]
  BY DEF IInv, TablesOK, AccountsTypeOK
<1>5. Purged \in NoRow
  BY Apart
<1> HIDE DEF b
<1>6. /\ us \in [Accounts -> NoRow \cup User] /\ \A a \in Accounts \ {b} : us[a] = users[a]
      /\ us[b] = IF InUse(b) /\ users[b].member THEN Purged ELSE users[b]
  BY <1>3, <1>4, <1>5
<1>7. bs \in [Accounts -> NoRow \cup Business] /\ bs[b] = Purged /\ \A a \in Accounts \ {b} : bs[a] = business[a]
  BY <1>3, <1>4, <1>5
<1>8. customers' \in [CustomerIds -> NoRow \cup Customer]
  BY <1>2, <1>4, <1>5
<1>9. orders' \in [OrderIds -> NoRow \cup Order]
  BY <1>2, <1>4, <1>5
<1>10. \A c \in CustomerIds :
         customers'[c] = IF Lives(c) /\ customers[c].business = b THEN Purged ELSE customers[c]
  BY <1>2
<1>11. ASSUME NEW o \in OrderIds
       PROVE  orders'[o] = IF orders[o] \notin NoRow /\
                              (orders[o].business = b \/ customers[orders[o].customer].business = b)
                           THEN Purged ELSE orders[o]
  <2>1. orders[o] \notin NoRow => orders[o].customer \in CustomerIds /\ Lives(orders[o].customer)
    BY <1>4 DEF IInv, OrdersApart, Order
  <2>2. orders[o] \notin NoRow => (orders[o].customer \in gone <=> customers[orders[o].customer].business = b)
    BY <2>1
  <2> HIDE DEF gone
  <2>3. QED
    BY <1>2, <2>2
<1> HIDE DEF us, bs, gone
<1>12. \E vs \in [Accounts -> NoRow \cup User], cs \in [Accounts -> NoRow \cup Business] :
         /\ Write(r, vs, cs)
         /\ cs[b] = Purged /\ \A a \in Accounts \ {b} : cs[a] = business[a] /\ vs[a] = users[a]
         /\ vs[b] = IF InUse(b) /\ users[b].member THEN Purged ELSE users[b]
  BY <1>1, <1>6, <1>7
<1>13. QED
  BY <1>1, <1>3, <1>8, <1>9, <1>10, <1>11, <1>12

\* A business is purged with its customers and orders, and the orders of its customers.
LEMMA PurgeTenantKeeps ==
  ASSUME IInv, NEW r \in Slots, PurgeTenant(r)
  PROVE  IInv'
<1>1. PICK b \in Accounts, us \in [Accounts -> NoRow \cup User], bs \in [Accounts -> NoRow \cup Business] :
         /\ Write(r, us, bs)
         /\ bs[b] = Purged /\ \A a \in Accounts \ {b} : bs[a] = business[a] /\ us[a] = users[a]
         /\ us[b] = IF InUse(b) /\ users[b].member THEN Purged ELSE users[b]
         /\ started' = started
         /\ customers' \in [CustomerIds -> NoRow \cup Customer] /\ orders' \in [OrderIds -> NoRow \cup Order]
         /\ \A c \in CustomerIds :
              customers'[c] = IF Lives(c) /\ customers[c].business = b THEN Purged ELSE customers[c]
         /\ \A o \in OrderIds :
              orders'[o] = IF orders[o] \notin NoRow /\
                              (orders[o].business = b \/ customers[orders[o].customer].business = b)
                           THEN Purged ELSE orders[o]
  BY PurgeTakes
<1>2. users' = us /\ business' = bs
  BY <1>1 DEF Write, Become
<1>3. Purged \in NoRow /\ Purged # Unused
  BY Apart
<1>4. /\ users \in [Accounts -> NoRow \cup User] /\ business \in [Accounts -> NoRow \cup Business]
      /\ customers \in [CustomerIds -> NoRow \cup Customer] /\ orders \in [OrderIds -> NoRow \cup Order]
  BY DEF IInv, TablesOK, AccountsTypeOK
<1>5. Grown
  <2>1. ASSUME NEW a \in Accounts, users[a] # Unused
        PROVE  /\ users'[a] # Unused
               /\ users'[a] \notin NoRow => users[a] \notin NoRow /\ (users'[a].member => users[a].member)
               /\ business'[a] \notin NoRow =>
                    business[a] \notin NoRow /\ (business[a].deleted => business'[a].deleted)
    BY <1>1, <1>2, <1>3, <2>1
  <2>2. ASSUME NEW c \in CustomerIds, customers[c] # Unused
        PROVE  /\ customers'[c] # Unused
               /\ customers'[c] \notin NoRow =>
                    customers[c] \notin NoRow /\ customers'[c].business = customers[c].business
    BY <1>1, <1>3, <2>2
  <2>3. QED
    BY <2>1, <2>2 DEF Grown
<1>6. Unphoned /\ Enters(us, bs, customers', Idle)
  BY <1>1, <1>3 DEF Unphoned, Enters
<1>7. ReqTypes' /\ RequestsKnown'
  BY <1>1, <1>5, <1>6, Move DEF IInv, Write
<1>8. TablesOK'
  BY <1>1, <1>2 DEF IInv, TablesOK, AccountsTypeOK
<1>9. AccountsSound'
  <2>1. \A a, c \in Accounts : InUse(a)' /\ InUse(c)' /\ users'[a].email = users'[c].email => a = c
    BY <1>1, <1>2, <1>3 DEF IInv, AccountsSound, InUse
  <2>2. \A a \in Accounts : Exists(a)' => users'[a] # Unused /\ (business'[a].owned => InUse(a)')
    BY <1>1, <1>2, <1>3 DEF IInv, AccountsSound, InUse, Exists
  <2>3. \A a \in Accounts : InUse(a)' /\ users'[a].member => Exists(a)' /\ users'[a].role # "super_admin"
    BY <1>1, <1>2, <1>3 DEF IInv, AccountsSound, InUse, Exists
  <2>4. QED
    BY <2>1, <2>2, <2>3 DEF AccountsSound
<1>10. \A c \in CustomerIds : Lives(c)' =>
         /\ Lives(c) /\ customers'[c] = customers[c] /\ customers[c].business # b
         /\ customers[c].business \in Accounts
  BY <1>1, <1>3, <1>4 DEF Lives, Customer
<1>11. CustomersOwned'
  <2>1. ASSUME NEW c \in CustomerIds, Lives(c)'
        PROVE  business'[customers'[c].business] \notin NoRow
    <3>1. /\ Lives(c) /\ customers'[c] = customers[c] /\ customers[c].business \in Accounts \ {b}
      BY <1>10, <2>1
    <3>2. business[customers[c].business] \notin NoRow
      BY <3>1 DEF IInv, CustomersOwned, Exists
    <3>3. QED
      BY <1>1, <1>2, <3>1, <3>2
  <2>2. QED
    BY <2>1 DEF CustomersOwned, Exists
<1>12. OrdersApart'
  <2>1. ASSUME NEW o \in OrderIds, orders'[o] \notin NoRow
        PROVE  /\ business'[orders'[o].business] \notin NoRow /\ customers'[orders'[o].customer] \notin NoRow
               /\ orders'[o].via = "api" => customers'[orders'[o].customer].business = orders'[o].business
    <3>1. /\ orders[o] \notin NoRow /\ orders'[o] = orders[o] /\ orders[o] \in Order
          /\ orders[o].business # b /\ customers[orders[o].customer].business # b
      BY <1>1, <1>3, <1>4, <2>1
    <3>2. /\ orders[o].business \in Accounts /\ orders[o].customer \in CustomerIds
          /\ Exists(orders[o].business) /\ Lives(orders[o].customer)
          /\ orders[o].via = "api" => customers[orders[o].customer].business = orders[o].business
      BY <3>1 DEF IInv, OrdersApart, Order
    <3>3. customers'[orders[o].customer] = customers[orders[o].customer]
      BY <1>1, <3>1, <3>2
    <3>4. business'[orders[o].business] = business[orders[o].business]
      BY <1>1, <1>2, <3>1, <3>2
    <3>5. QED
      BY <3>1, <3>2, <3>3, <3>4 DEF Exists, Lives
  <2>2. QED
    BY <2>1 DEF OrdersApart, Exists, Lives
<1>13. DuplicatesHaveCause'
  BY <1>10 DEF IInv, DuplicatesHaveCause
<1>14. QED
  BY <1>7, <1>8, <1>9, <1>11, <1>12, <1>13 DEF IInv

-----------------------------------------------------------------------------
(* The invariant *)

\* The accounts that a process may find are well typed and sound.
LEMMA InitAccounts ==
  ASSUME Init
  PROVE  AccountsTypeOK /\ AccountsSound
<1> DEFINE Admin == [email |-> AdminEmail, role |-> "super_admin", member |-> FALSE,
                     active |-> TRUE, deleted |-> FALSE]
           Owner(e) == [email |-> e, role |-> "owner", member |-> TRUE, active |-> TRUE, deleted |-> FALSE]
           fresh == [deleted |-> FALSE, owned |-> TRUE]
           Has(rows, a) == \E e \in Emails : <<a, e>> \in rows
           Of(rows, a) == CHOOSE e \in Emails : <<a, e>> \in rows
<1>1. PICK rows \in SUBSET (Accounts \X Emails), root \in Accounts :
         /\ \A x, y \in rows \cup {<<root, AdminEmail>>} : (x[1] = y[1]) <=> (x[2] = y[2])
         /\ users = [a \in Accounts |-> IF a = root THEN Admin
                                       ELSE IF Has(rows, a) THEN Owner(Of(rows, a)) ELSE Unused]
         /\ business = [a \in Accounts |-> IF a # root /\ Has(rows, a) THEN fresh ELSE Unused]
  BY DEF Init
<1>2. /\ Admin \in User /\ Admin.email = AdminEmail /\ Admin.role = "super_admin" /\ ~Admin.member
      /\ fresh \in Business
  BY AccountsAssumption DEF User, Business
<1>3. \A e \in Emails : /\ Owner(e) \in User /\ Owner(e).email = e /\ Owner(e).role # "super_admin"
  BY AccountsAssumption DEF User
<1>4. \A a \in Accounts : Has(rows, a) => Of(rows, a) \in Emails /\ <<a, Of(rows, a)>> \in rows
  OBVIOUS
<1>5. Unused \in NoRow /\ Admin \notin NoRow /\ fresh \notin NoRow /\ \A e \in Emails : Owner(e) \notin NoRow
  BY <1>2, <1>3, Apart
<1> HIDE DEF Admin, Owner, fresh, Has, Of
<1>6. AccountsTypeOK
  <2>1. users \in [Accounts -> NoRow \cup User]
    BY <1>1, <1>2, <1>3, <1>4, <1>5
  <2>2. business \in [Accounts -> NoRow \cup Business]
    BY <1>1, <1>2, <1>5
  <2>3. started = 0
    BY DEF Init
  <2>4. QED
    BY <2>1, <2>2, <2>3, AccountsAssumption DEF AccountsTypeOK
<1>7. ASSUME NEW a \in Accounts, InUse(a)
      PROVE  /\ <<a, users[a].email>> \in rows \cup {<<root, AdminEmail>>}
             /\ users[a].member => a # root /\ Has(rows, a) /\ users[a].role # "super_admin"
  <2>1. CASE a = root
    BY <1>1, <1>2, <2>1
  <2>2. CASE a # root
    <3>1. Has(rows, a) /\ users[a] = Owner(Of(rows, a))
      BY <1>1, <1>5, <1>7, <2>2 DEF InUse
    <3>2. QED
      BY <1>3, <1>4, <2>2, <3>1
  <2>3. QED
    BY <2>1, <2>2
<1>8. ASSUME NEW a \in Accounts, NEW b \in Accounts, InUse(a), InUse(b), users[a].email = users[b].email
      PROVE  a = b
  <2> DEFINE x == <<a, users[a].email>>
             y == <<b, users[b].email>>
  <2>1. x \in rows \cup {<<root, AdminEmail>>} /\ y \in rows \cup {<<root, AdminEmail>>}
    BY <1>7, <1>8
  <2>2. x[1] = a /\ y[1] = b /\ x[2] = y[2]
    BY <1>8
  <2> HIDE DEF x, y
  <2>3. QED
    BY <1>1, <2>1, <2>2
<1>9. ASSUME NEW b \in Accounts, Exists(b)
      PROVE  users[b] \notin NoRow
  <2>1. b # root /\ Has(rows, b)
    BY <1>1, <1>5, <1>9 DEF Exists
  <2>2. QED
    BY <1>1, <1>4, <1>5, <2>1
<1>10. \A a \in Accounts : a # root /\ Has(rows, a) => Exists(a)
  BY <1>1, <1>5 DEF Exists
<1>11. AccountsSound
  BY <1>5, <1>7, <1>8, <1>9, <1>10 DEF AccountsSound, InUse
<1>12. QED
  BY <1>6, <1>11

\* The invariant holds at the start.
LEMMA CustomersInit == Init => IInv
<1>1. SUFFICES ASSUME Init PROVE IInv
  OBVIOUS
<1>2. AccountsTypeOK /\ AccountsSound
  BY <1>1, InitAccounts
<1>3. /\ customers \in [CustomerIds -> {Unused} \cup {row \in Customer : Exists(row.business) /\ ~row.raced}]
      /\ orders = [o \in OrderIds |-> Unused] /\ req = [r \in Slots |-> Idle]
  BY <1>1 DEF Init
<1>4. TablesOK /\ ReqTypes /\ RequestsKnown
  <2>1. customers \in [CustomerIds -> NoRow \cup Customer] /\ orders \in [OrderIds -> NoRow \cup Order]
    BY <1>3, Apart
  <2>2. req \in [Slots -> {Idle} \cup Requests] /\ \A r \in Slots : req[r] = Idle
    BY <1>3
  <2>3. QED
    BY <1>2, <2>1, <2>2 DEF TablesOK, ReqTypes, RequestsKnown
<1>5. CustomersOwned
  BY <1>3, Apart DEF CustomersOwned, Lives
<1>6. OrdersApart
  BY <1>3, Apart DEF OrdersApart
<1>7. DuplicatesHaveCause
  <2>1. SUFFICES ASSUME NEW c \in CustomerIds, NEW d \in CustomerIds, c # d, Lives(c), Lives(d),
                        customers[c].business = customers[d].business, customers[c].phone = customers[d].phone
                 PROVE  FALSE
    BY DEF DuplicatesHaveCause
  <2> DEFINE b == customers[c].business
             ph == customers[c].phone
             found == Found(b, ph)
  <2>2. customers[c] \in Customer
    BY <1>4, <2>1 DEF TablesOK, Lives
  <2>3. b \in Accounts /\ ph \in Phones \cup Senders
    BY <2>2 DEF Customer
  <2>4. c \in found /\ d \in found /\ found \subseteq CustomerIds
    BY <2>1 DEF Found, FoundAnywhere
  <2>5. Cardinality(found) <= 1
    BY <1>1, <2>3 DEF Init
  <2> HIDE DEF found
  <2>6. IsFiniteSet(found)
    BY <2>4, CustomersAssumption, FS_Subset
  <2>7. IsFiniteSet(found \ {c}) /\ Cardinality(found \ {c}) = Cardinality(found) - 1
    BY <2>4, <2>6, FS_RemoveElement
  <2>8. Cardinality(found) \in Nat /\ Cardinality(found \ {c}) \in Nat
    BY <2>6, <2>7, FS_CardinalityType
  <2>9. Cardinality(found \ {c}) = 0
    BY <2>5, <2>7, <2>8
  <2>10. found \ {c} = {}
    BY <2>7, <2>9, FS_EmptySet
  <2>11. QED
    BY <2>1, <2>4, <2>10
<1>8. QED
  BY <1>2, <1>4, <1>5, <1>6, <1>7 DEF IInv

\* Every step keeps the invariant.
LEMMA CustomersNext == IInv /\ [Next]_vars => IInv'
<1>1. SUFFICES ASSUME IInv, [Next]_vars PROVE IInv'
  OBVIOUS
<1>2. CASE UNCHANGED vars
  BY <1>1, <1>2
  DEF vars, IInv, TablesOK, AccountsTypeOK, ReqTypes, RequestsKnown, CustomersOwned, AccountsSound,
      OrdersApart, DuplicatesHaveCause, Lives, Exists, InUse
<1>3. ASSUME NEW r \in Slots, UNCHANGED shop, BeginAccount(r) \/ BeginTenant(r) \/ BeginChat(r) \/ Fails(r)
      PROVE  IInv'
  BY <1>1, <1>3, BeginKeeps, FailsKeeps
<1>4. ASSUME NEW r \in Slots, UNCHANGED shop, AccountStep(r)
      PROVE  IInv'
  BY <1>1, <1>4, CheckEmailKeeps, InsertAccountKeeps, ReadUserKeeps, ReadBusinessKeeps, LoadKeeps,
     UpdateRoleKeeps, ToggleUserKeeps, DeleteUserKeeps, PurgeUserKeeps, DeleteBusinessKeeps
  DEF AccountStep
<1>5. ASSUME NEW r \in Slots, CustomerStep(r)
      PROVE  IInv'
  BY <1>1, <1>5, LookUpsKeep, LoadCustomerKeeps, InsertCustomerKeeps, UpdateCustomerKeeps, InsertOrderKeeps,
     ChooseBusinessKeeps, LookUpSenderKeeps, InsertSenderKeeps, AnswerKeeps, InsertChatOrderKeeps, PurgeTenantKeeps
  DEF CustomerStep
<1>6. QED
  BY <1>1, <1>2, <1>3, <1>4, <1>5 DEF Next

\* The invariant holds always.
LEMMA CustomersInv == Spec => []IInv
<1>1. Init => IInv
  BY CustomersInit
<1>2. IInv /\ [Next]_vars => IInv'
  BY CustomersNext
<1>3. QED
  BY <1>1, <1>2, PTL DEF Spec

-----------------------------------------------------------------------------
(* Who acts *)

\* Whoever writes as an administrator has been entitled: there is none in a business.
LEMMA AdminEntitled ==
  ASSUME IInv, NEW r \in Slots, req[r].kind \in AdminKinds, req[r].phase = "loaded"
  PROVE  req[r] # Idle /\ req[r].entitled
<1>1. req[r] # Idle /\ req[r].by \in Accounts
  BY AdminFacts
<1>2. CallerKnown(users, business, req[r])
  BY <1>1 DEF IInv, RequestsKnown, Known
<1>3. QED
  BY <1>1, <1>2 DEF CallerKnown, Passed

\* Whoever writes for a business that exists has been entitled.
LEMMA TenantEntitled ==
  ASSUME IInv, NEW r \in Slots, req[r].kind \in TenantKinds, req[r].phase \in {"loaded", "free"}
  PROVE  req[r] # Idle /\ (Exists(req[r].by) => req[r].entitled)
<1>1. req[r] # Idle
  BY Apart DEF TenantKinds
<1>2. req[r].by \in Accounts /\ CallerKnown(users, business, req[r])
  BY <1>1 DEF IInv, ReqTypes, Formed, RequestsKnown, Known
<1>3. req[r].kind \notin AdminKinds
  BY DEF TenantKinds, AdminKinds, OnUsers, OnBusinesses
<1>4. QED
  BY <1>1, <1>2, <1>3 DEF CallerKnown, Passed, Exists

\* A step of slot r ends no other request.
LEMMA OthersGoOn ==
  ASSUME IInv, NEW r \in Slots, NEW s \in Slots, s # r, req[s] # Idle,
         \/ \E us, bs : Write(r, us, bs)
         \/ \E c, b, ph : \E done \in {Idle} \cup Requests : WritePhone(r, c, b, ph, done)
  PROVE  req'[s] # Idle
<1>1. req \in [Slots -> {Idle} \cup Requests] /\ req[s] \in Requests
  BY DEF IInv, ReqTypes
<1>2. ASSUME NEW us, NEW bs, Write(r, us, bs)
      PROVE  req'[s] # Idle
  <2> DEFINE next == [req EXCEPT ![r] = Idle]
  <2>1. next \in [Slots -> {Idle} \cup Requests] /\ next[s] = req[s]
    BY <1>1
  <2>2. Become(us, bs, next)
    BY <1>2 DEF Write
  <2> HIDE DEF next
  <2>3. Noted(us, bs, next[s], req'[s])
    BY <2>1, <2>2, BecomeNotes
  <2>4. QED
    BY <2>3, Apart DEF Noted
<1>3. ASSUME NEW c, NEW b, NEW ph, NEW done \in {Idle} \cup Requests, WritePhone(r, c, b, ph, done)
      PROVE  req'[s] # Idle
  <2> DEFINE Hit(q) == /\ q.kind \in {"create customer", "update customer"} \cup ChatKinds
                       /\ q.phase = "free" /\ Tenant(q) = b /\ q.val = ph
             next == [t \in Slots |-> IF t = r THEN done ELSE IF Hit(req[t])
                                     THEN [req[t] EXCEPT !.raced = TRUE] ELSE req[t]]
  <2>1. Become(users, business, next)
    BY <1>3 DEF WritePhone
  <2>2. ASSUME NEW t \in Slots
        PROVE  next[t] \in {Idle} \cup Requests
    <3>1. CASE t # r /\ Hit(req[t])
      <4>1. next[t] = [req[t] EXCEPT !.raced = TRUE] /\ req[t] \in Requests
        BY <1>1, <3>1, Apart DEF ChatKinds
      <4>2. QED
        BY <4>1, Overtaken
    <3>2. CASE ~(t # r /\ Hit(req[t]))
      BY <1>1, <3>2
    <3>3. QED
      BY <3>1, <3>2
  <2>3. next[s] \in Requests
    <3>1. CASE Hit(req[s])
      <4>1. next[s] = [req[s] EXCEPT !.raced = TRUE]
        BY <3>1
      <4>2. QED
        BY <1>1, <4>1, Overtaken
    <3>2. CASE ~Hit(req[s])
      BY <1>1, <3>2
    <3>3. QED
      BY <3>1, <3>2
  <2>4. next \in [Slots -> {Idle} \cup Requests]
    BY <2>2
  <2> HIDE DEF next
  <2>5. Noted(users, business, next[s], req'[s])
    BY <2>1, <2>3, <2>4, Apart, BecomeNotes
  <2>6. QED
    BY <2>5, Apart DEF Noted
<1>4. QED
  BY <1>2, <1>3

\* What the step of a request that writes shows: no one else's request ends, and the
\* caller, if there is one, has been entitled.
Acts(r) ==
  /\ \/ \E us, bs : Write(r, us, bs)
     \/ \E c, b, ph : \E done \in {Idle} \cup Requests : WritePhone(r, c, b, ph, done)
  /\ req[r].by = "public" \/ req[r].entitled

Unwritten == users' = users /\ business' = business /\ customers' = customers /\ orders' = orders

\* Beginning and failing write no row.
LEMMA BeginUnwritten ==
  ASSUME NEW r, BeginAccount(r) \/ BeginTenant(r) \/ BeginChat(r) \/ Fails(r), UNCHANGED shop
  PROVE  Unwritten
<1>1. users' = users /\ business' = business
  <2>1. \A kind, by, on, val : Begin(r, kind, by, on, val) => users' = users /\ business' = business
    BY DEF Begin, Become
  <2>2. CASE BeginRegister(r) \/ BeginSeed(r) \/ BeginChat(r)
    BY <2>1, <2>2 DEF BeginRegister, BeginSeed, BeginChat
  <2>3. CASE BeginAdmin(r)
    BY <2>1, <2>3 DEF BeginAdmin
  <2>4. CASE BeginTenant(r)
    BY <2>1, <2>4 DEF BeginTenant
  <2>5. CASE Fails(r)
    BY <2>5 DEF Fails, End, Become
  <2>6. QED
    BY <2>2, <2>3, <2>4, <2>5 DEF BeginAccount
<1>2. QED
  BY <1>1 DEF Unwritten, shop

\* A step of an account request that writes is one that acts for its caller.
LEMMA AccountActs ==
  ASSUME IInv, NEW r \in Slots, AccountStep(r), UNCHANGED shop
  PROVE  Unwritten \/ Acts(r)
<1>1. customers' = customers /\ orders' = orders
  BY DEF shop
<1>2. CASE CheckEmail(r) \/ ReadUser(r) \/ ReadBusiness(r) \/ Load(r)
  BY <1>1, <1>2 DEF CheckEmail, ReadUser, ReadBusiness, Load, Go, End, Become, Unwritten
<1>3. CASE InsertAccount(r)
  <2>1. \E us, bs : Write(r, us, bs)
    BY <1>3 DEF InsertAccount, Write, End
  <2>2. req[r].kind \in {"register", "seed"} /\ req[r] # Idle
    BY <1>3, Apart DEF InsertAccount
  <2>3. req[r].by = "public"
    BY <2>2 DEF IInv, ReqTypes, Formed
  <2>4. QED
    BY <2>1, <2>3 DEF Acts
<1>4. CASE UpdateRole(r) \/ ToggleUser(r) \/ DeleteUser(r) \/ PurgeUser(r) \/ DeleteBusiness(r)
  <2>1. \E us, bs : Write(r, us, bs)
    BY <1>4 DEF UpdateRole, ToggleUser, DeleteUser, PurgeUser, DeleteBusiness, UpdateUser, Write, End
  <2>2. req[r].kind \in AdminKinds /\ req[r].phase = "loaded"
    BY <1>4 DEF UpdateRole, ToggleUser, DeleteUser, PurgeUser, DeleteBusiness, Loaded, AdminKinds, OnUsers, OnBusinesses
  <2>3. QED
    BY <2>1, <2>2, AdminEntitled DEF Acts
<1>5. QED
  BY <1>2, <1>3, <1>4 DEF AccountStep

\* A step of a customer request that writes is one that acts for its caller.
LEMMA CustomerActs ==
  ASSUME IInv, NEW r \in Slots, CustomerStep(r)
  PROVE  Unwritten \/ Acts(r)
<1>1. CASE LookUpNew(r) \/ LoadCustomer(r) \/ LookUpChanged(r) \/ ChooseBusiness(r) \/ LookUpSender(r) \/ Answer(r)
  BY <1>1
  DEF LookUpNew, LoadCustomer, LookUpChanged, ChooseBusiness, LookUpSender, Answer, Arrived, Loaded, InChat,
      Go, End, Become, Unwritten
<1>2. CASE InsertCustomer(r)
  <2>1. req[r].kind \in TenantKinds /\ req[r].phase = "free"
    BY <1>2 DEF InsertCustomer, TenantKinds
  <2>2. CASE ~Exists(req[r].by)
    BY <1>2, <2>2 DEF InsertCustomer, End, Become, Unwritten
  <2>3. CASE Exists(req[r].by)
    BY <1>2, <2>1, <2>3, TenantEntitled DEF InsertCustomer, Acts
  <2>4. QED
    BY <2>2, <2>3
<1>3. CASE UpdateCustomer(r)
  <2>1. req[r].kind = "update customer" /\ req[r].kind \in TenantKinds /\ req[r].phase = "free"
    BY <1>3 DEF UpdateCustomer, TenantKinds
  <2>2. CASE ~Lives(req[r].on)
    BY <1>3, <2>2 DEF UpdateCustomer, End, Become, Unwritten
  <2>3. CASE Lives(req[r].on)
    <3>1. req[r] # Idle
      BY <2>1, Apart
    <3>2. req[r].on \in CustomerIds /\ Known(users, business, customers, req[r])
      BY <2>1, <3>1 DEF IInv, ReqTypes, Formed, RequestsKnown
    <3>3. customers[req[r].on].business = req[r].by
      BY <2>1, <2>3, <3>2 DEF Known, TargetKnown, Lives
    <3>4. Exists(req[r].by)
      BY <2>3, <3>2, <3>3 DEF IInv, CustomersOwned
    <3>5. QED
      BY <1>3, <2>1, <2>3, <3>4, TenantEntitled DEF UpdateCustomer, Acts
  <2>4. QED
    BY <2>2, <2>3
<1>4. CASE InsertOrder(r)
  <2>1. /\ req[r].kind \in TenantKinds /\ req[r].phase = "loaded"
        /\ InsertOrderFor(r, req[r].by, req[r].on, "api")
    BY <1>4 DEF InsertOrder, Loaded, TenantKinds
  <2>2. CASE ~Exists(req[r].by)
    BY <2>1, <2>2 DEF InsertOrderFor, End, Become, Unwritten
  <2>3. CASE Exists(req[r].by)
    <3>1. \E us, bs : Write(r, us, bs)
      BY <2>1 DEF InsertOrderFor, End, Write
    <3>2. QED
      BY <2>1, <2>3, <3>1, TenantEntitled DEF Acts
  <2>4. QED
    BY <2>2, <2>3
<1>5. CASE InsertSender(r)
  <2>1. req[r].kind \in ChatKinds
    BY <1>5 DEF InsertSender, InChat
  <2>2. req[r].by = "public" /\ req[r] \in Requests
    BY <2>1, InChatFacts
  <2>3. CASE ~Exists(req[r].on)
    BY <1>5, <2>3 DEF InsertSender, End, Become, Unwritten
  <2>4. CASE Exists(req[r].on)
    <3> DEFINE q == req[r]
               p(c) == [q EXCEPT !.seen = c, !.phase = "customer"]
    <3>1. PICK c \in CustomerIds : WritePhone(r, c, q.on, q.val, p(c))
      BY <1>5, <2>4 DEF InsertSender
    <3>2. q \in Requests
      BY <2>2
    <3> HIDE DEF q
    <3>3. p(c) \in Requests
      BY <3>2 DEF Requests, Phases
    <3> HIDE DEF p
    <3>4. QED
      BY <2>2, <3>1, <3>3 DEF Acts
  <2>5. QED
    BY <2>3, <2>4
<1>6. CASE InsertChatOrder(r)
  <2>1. req[r].kind \in ChatKinds /\ InsertOrderFor(r, req[r].on, req[r].seen, "chat")
    BY <1>6 DEF InsertChatOrder, InChat
  <2>2. req[r].by = "public"
    BY <2>1, InChatFacts
  <2>3. \E us, bs : Write(r, us, bs)
    BY <2>1 DEF InsertOrderFor, End, Write
  <2>4. QED
    BY <2>2, <2>3 DEF Acts
<1>7. CASE PurgeTenant(r)
  <2>1. (\E us, bs : Write(r, us, bs)) /\ req[r].kind \in AdminKinds /\ req[r].phase = "loaded"
    BY <1>7 DEF PurgeTenant, PurgeBusiness, Loaded, AdminKinds, OnBusinesses
  <2>2. QED
    BY <2>1, AdminEntitled DEF Acts
<1>8. QED
  BY <1>1, <1>2, <1>3, <1>4, <1>5, <1>6, <1>7 DEF CustomerStep

-----------------------------------------------------------------------------
(* Theorems *)

\* The rows and the requests are what the tables and the handlers make of them.
THEOREM CustomersTyped == Spec => []CustomersTypeOK
<1>1. IInv => CustomersTypeOK
  BY DEF IInv, TablesOK, ReqTypes, Requests, Phases, CustomersTypeOK
<1>2. QED
  BY <1>1, CustomersInv, PTL

\* One account for an address, no business without the account it was registered with,
\* no administrator in a business: registrations, the seeding of every process and
\* overlapping administrators included (AuthService.register_user, AdminService).
THEOREM CustomersAccountsSound == Spec => []AccountsSound
<1>1. IInv => AccountsSound
  BY DEF IInv
<1>2. QED
  BY <1>1, CustomersInv, PTL

\* Customers and orders refer to rows that exist, and an order that was placed by a member belongs to the
\* business of its customer (OrderService.create_order).
THEOREM CustomersTenantsApart == Spec => []TenantsApart
<1>1. IInv => TenantsApart
  BY DEF IInv, TenantsApart
<1>2. QED
  BY <1>1, CustomersInv, PTL

\* Two customers of a business share a phone only if one of the two writes had been
\* overtaken between its lookup and its commit (CustomerService, handle_incoming_whatsapp_payload).
THEOREM CustomersDuplicatesHaveCause == Spec => []DuplicatesHaveCause
<1>1. IInv => DuplicatesHaveCause
  BY DEF IInv
<1>2. QED
  BY <1>1, CustomersInv, PTL

\* Nothing is written for a caller who was not entitled to it at some moment since the
\* request read the user (get_current_user, CurrentBusinessId, require_role).
THEOREM CustomersActsOnlyEntitled == Spec => ActsOnlyEntitled
<1> DEFINE Step == users' # users \/ business' # business \/ shop' # shop =>
                     \A r \in Slots : req[r] # Idle /\ req'[r] = Idle /\ req[r].by # "public" => req[r].entitled
<1>1. ASSUME IInv, Next PROVE Step
  <2>1. SUFFICES ASSUME ~Unwritten, NEW s \in Slots, req[s] # Idle, req'[s] = Idle, req[s].by # "public"
                 PROVE  req[s].entitled
    BY DEF Unwritten, shop
  <2>2. PICK r \in Slots : Acts(r)
    <3>1. PICK r \in Slots :
            \/ (BeginAccount(r) \/ AccountStep(r) \/ BeginTenant(r) \/ BeginChat(r) \/ Fails(r)) /\ UNCHANGED shop
            \/ CustomerStep(r)
      BY <1>1 DEF Next
    <3>2. QED
      BY <1>1, <2>1, <3>1, BeginUnwritten, AccountActs, CustomerActs
  <2>3. CASE s = r
    BY <2>1, <2>2, <2>3 DEF Acts
  <2>4. CASE s # r
    BY <1>1, <2>1, <2>2, <2>4, OthersGoOn DEF Acts
  <2>5. QED
    BY <2>3, <2>4
<1>2. ASSUME UNCHANGED vars PROVE Step
  BY <1>2 DEF vars, shop
<1>3. IInv /\ [Next]_vars => [Step]_vars
  BY <1>1, <1>2
<1>4. QED
  BY <1>3, CustomersInv, PTL DEF Spec, ActsOnlyEntitled

\* A step that writes at most rows removes none of the customers and orders.
LEMMA NothingPurged ==
  ASSUME IInv,
         \A c \in CustomerIds : customers'[c] = customers[c] \/ customers'[c] # Purged,
         \A o \in OrderIds : orders'[o] = orders[o] \/ orders'[o] # Purged
  PROVE  /\ \A c \in CustomerIds : ~(Lives(c) /\ customers'[c] = Purged)
         /\ \A o \in OrderIds : ~(orders[o] \notin NoRow /\ orders'[o] = Purged)
BY Apart DEF Lives

\* A customer's row is not the mark of a purged one.
LEMMA PhoneWritten ==
  ASSUME IInv, NEW r \in Slots, NEW c, NEW b, NEW p, NEW done, WritePhone(r, c, b, p, done),
         NEW d \in CustomerIds
  PROVE  customers'[d] = customers[d] \/ customers'[d] # Purged
<1> DEFINE row == [business |-> b, phone |-> p, raced |-> req[r].raced]
<1>1. row # Purged
  BY DEF Purged
<1>2. customers' = [customers EXCEPT ![c] = row] /\ customers \in [CustomerIds -> NoRow \cup Customer]
  BY DEF WritePhone, IInv, TablesOK
<1> HIDE DEF row
<1>3. CASE d = c
  BY <1>1, <1>2, <1>3
<1>4. CASE d # c
  BY <1>2, <1>4
<1>5. QED
  BY <1>3, <1>4

\* An order that is placed takes the place of no other.
LEMMA OrderWritten ==
  ASSUME IInv, NEW r \in Slots, NEW b, NEW c, NEW via, InsertOrderFor(r, b, c, via), NEW o \in OrderIds
  PROVE  orders'[o] = orders[o] \/ orders'[o] # Purged
<1> DEFINE row == [business |-> b, customer |-> c, via |-> via]
<1>1. row # Purged
  BY DEF Purged
<1>2. orders \in [OrderIds -> NoRow \cup Order]
  BY DEF IInv, TablesOK
<1> HIDE DEF row
<1>3. \/ orders' = orders
      \/ \E n \in OrderIds : orders' = [orders EXCEPT ![n] = row]
  BY DEF InsertOrderFor, row
<1>4. QED
  BY <1>1, <1>2, <1>3

\* A purge takes along the customers of its business only, and the orders of the
\* business and of those customers; an order of another business that refers to one of
\* them came over WhatsApp.
LEMMA PurgeTakesOwn ==
  ASSUME IInv, NEW r \in Slots, PurgeTenant(r)
  PROVE  /\ \A c \in CustomerIds : Lives(c) /\ customers'[c] = Purged => Purging(customers[c].business)
         /\ \A o \in OrderIds :
              orders[o] \notin NoRow /\ orders'[o] = Purged =>
                \/ Purging(orders[o].business)
                \/ orders[o].via = "chat" /\ Purging(customers[orders[o].customer].business)
<1>1. PICK b \in Accounts :
        /\ \E us \in [Accounts -> NoRow \cup User], bs \in [Accounts -> NoRow \cup Business] :
             Write(r, us, bs) /\ bs[b] = Purged
        /\ \A c \in CustomerIds :
             customers'[c] = IF Lives(c) /\ customers[c].business = b THEN Purged ELSE customers[c]
        /\ \A o \in OrderIds :
             orders'[o] = IF orders[o] \notin NoRow /\
                             (orders[o].business = b \/ customers[orders[o].customer].business = b)
                          THEN Purged ELSE orders[o]
  BY PurgeTakes
<1>2. business'[b] = Purged
  BY <1>1 DEF Write, Become
<1>3. ASSUME NEW c \in CustomerIds, Lives(c), customers[c].business = b PROVE Purging(b)
  BY <1>2, <1>3 DEF IInv, CustomersOwned, Purging
<1>4. ASSUME NEW c \in CustomerIds, Lives(c), customers'[c] = Purged PROVE Purging(customers[c].business)
  <2>1. customers[c].business = b
    BY <1>1, <1>4, Apart DEF Lives
  <2>2. QED
    BY <1>3, <1>4, <2>1
<1>5. ASSUME NEW o \in OrderIds, orders[o] \notin NoRow, orders'[o] = Purged
      PROVE  \/ Purging(orders[o].business)
             \/ orders[o].via = "chat" /\ Purging(customers[orders[o].customer].business)
  <2>1. orders[o].business = b \/ customers[orders[o].customer].business = b
    BY <1>1, <1>5, Apart
  <2>2. orders \in [OrderIds -> NoRow \cup Order]
    BY DEF IInv, TablesOK
  <2>3. orders[o] \in Order
    BY <1>5, <2>2
  <2>4. orders[o].customer \in CustomerIds /\ orders[o].via \in {"api", "chat"}
    BY <2>3 DEF Order
  <2>5. /\ Exists(orders[o].business) /\ Lives(orders[o].customer)
        /\ orders[o].via = "api" => customers[orders[o].customer].business = orders[o].business
    BY <1>5 DEF IInv, OrdersApart
  <2>6. CASE orders[o].business = b
    BY <1>2, <2>5, <2>6 DEF Purging
  <2>7. CASE orders[o].business # b
    <3>1. customers[orders[o].customer].business = b /\ orders[o].via = "chat"
      BY <2>1, <2>4, <2>5, <2>7
    <3>2. QED
      BY <1>3, <2>4, <2>5, <3>1
  <2>8. QED
    BY <2>6, <2>7
<1>6. QED
  BY <1>4, <1>5

\* No step removes a customer but with its own business, nor an order but with its
\* business or, for one placed over WhatsApp, its customer's (ON DELETE CASCADE of
\* customers.business_id, orders.business_id and orders.customer_id).
THEOREM CustomersPurgeStaysWithin == Spec => PurgeStaysWithin
<1> DEFINE Within ==
             /\ \A c \in CustomerIds : Lives(c) /\ customers'[c] = Purged => Purging(customers[c].business)
             /\ \A o \in OrderIds :
                  orders[o] \notin NoRow /\ orders'[o] = Purged =>
                    \/ Purging(orders[o].business)
                    \/ orders[o].via = "chat" /\ Purging(customers[orders[o].customer].business)
<1>1. ASSUME IInv,
             \A c \in CustomerIds : customers'[c] = customers[c] \/ customers'[c] # Purged,
             \A o \in OrderIds : orders'[o] = orders[o] \/ orders'[o] # Purged
      PROVE  Within
  BY <1>1, NothingPurged
<1>2. ASSUME IInv, Next PROVE Within
  <2>1. PICK r \in Slots : UNCHANGED shop \/ CustomerStep(r)
    BY <1>2 DEF Next
  <2>2. CASE UNCHANGED shop
    BY <1>1, <1>2, <2>2 DEF shop
  <2>3. CASE LookUpNew(r) \/ LoadCustomer(r) \/ LookUpChanged(r) \/ ChooseBusiness(r) \/ LookUpSender(r)
             \/ Answer(r)
    <3>1. customers' = customers /\ orders' = orders
      BY <2>3 DEF LookUpNew, LoadCustomer, LookUpChanged, ChooseBusiness, LookUpSender, Answer, Arrived
    <3>2. QED
      BY <1>1, <1>2, <3>1
  <2>4. CASE InsertCustomer(r) \/ UpdateCustomer(r) \/ InsertSender(r)
    <3>1. /\ orders' = orders
          /\ \/ customers' = customers
             \/ \E c, b, p, done : WritePhone(r, c, b, p, done)
      BY <2>4 DEF InsertCustomer, UpdateCustomer, InsertSender
    <3>2. \A d \in CustomerIds : customers'[d] = customers[d] \/ customers'[d] # Purged
      BY <1>2, <3>1, PhoneWritten
    <3>3. QED
      BY <1>1, <1>2, <3>1, <3>2
  <2>5. CASE InsertOrder(r) \/ InsertChatOrder(r)
    <3>1. PICK b, c, via : InsertOrderFor(r, b, c, via)
      BY <2>5 DEF InsertOrder, InsertChatOrder
    <3>2. customers' = customers
      BY <3>1 DEF InsertOrderFor
    <3>3. \A o \in OrderIds : orders'[o] = orders[o] \/ orders'[o] # Purged
      BY <1>2, <3>1, OrderWritten
    <3>4. QED
      BY <1>1, <1>2, <3>2, <3>3
  <2>6. CASE PurgeTenant(r)
    BY <1>2, <2>6, PurgeTakesOwn
  <2>7. QED
    BY <2>1, <2>2, <2>3, <2>4, <2>5, <2>6 DEF CustomerStep
<1>3. ASSUME IInv, UNCHANGED vars PROVE Within
  BY <1>1, <1>3 DEF vars
<1>4. IInv /\ [Next]_vars => [Within]_vars
  BY <1>2, <1>3
<1>5. QED
  BY <1>4, CustomersInv, PTL DEF Spec, PurgeStaysWithin
=============================================================================
