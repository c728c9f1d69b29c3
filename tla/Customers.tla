------------------------------ MODULE Customers ------------------------------
(***************************************************************************)
(* The customers and orders of the workspaces: the requests of members     *)
(* (src/app/modules/customers, OrderService.create_order), the messages    *)
(* that arrive over WhatsApp (src/app/integrations/whatsapp) and what the  *)
(* purge of a business takes along.  Orders (module Orders) looks at what  *)
(* happens to one order afterwards.                                        *)
(*                                                                         *)
(* Phone numbers are looked up before they are written and no constraint   *)
(* of the schema keeps them apart.                                         *)
(***************************************************************************)
EXTENDS Accounts

CONSTANTS
  CustomerIds,
  OrderIds,
  Phones,    \* phone numbers as the schema of the API wants them, with a +
  Senders    \* phone numbers as WhatsApp sends them, without

ASSUME CustomersAssumption == IsFiniteSet(CustomerIds)

VARIABLES
  customers,  \* customers[c]: the row, or why there is none
  orders      \* orders[o]: the row, or why there is none

shop == <<customers, orders>>
vars == <<users, business, req, started, customers, orders>>

\* raced (history): between the lookup of the phone and the commit that wrote it,
\* another commit had given the phone to a customer of the business.
Customer == [business : Accounts, phone : Phones \cup Senders, raced : BOOLEAN]
Order    == [business : Accounts, customer : CustomerIds, via : {"api", "chat"}]

TenantKinds == {"create customer", "update customer", "create order"}
ChatKinds   == {"chat", "chat order"}

Lives(c)         == customers[c] \notin NoRow
FoundAnywhere(p) == {c \in CustomerIds : Lives(c) /\ customers[c].phone = p}
Found(b, p)      == {c \in FoundAnywhere(p) : customers[c].business = b}

\* The business that a request writes to.
Tenant(q) == IF q.kind \in ChatKinds THEN q.on ELSE q.by

CustomersTypeOK ==
  /\ AccountsTypeOK
  /\ customers \in [CustomerIds -> NoRow \cup Customer]
  /\ orders \in [OrderIds -> NoRow \cup Order]
  /\ \A r \in Slots : req[r] = Idle \/ req[r].phase \in
       {"begun", "free", "user read", "authenticated", "loaded", "business", "customer"}

-----------------------------------------------------------------------------
(* Members: CurrentBusinessId, then the service *)

BeginTenant(r) ==
  \E by \in Accounts : InUse(by) /\ users[by].member /\
    \/ \E p \in Phones : Begin(r, "create customer", by, "none", p)
    \/ \E c \in CustomerIds, p \in Phones : Lives(c) /\ Begin(r, "update customer", by, c, p)
    \/ \E c \in CustomerIds : Lives(c) /\ Begin(r, "create order", by, c, "none")

\* Whoever is in no business is refused; all roles may write customers and orders.
Arrived(r, kind) ==
  req[r].kind = kind /\ req[r].phase = "authenticated" /\ UNCHANGED <<started, customers, orders>>

LookUpNew(r) ==
  /\ Arrived(r, "create customer")
  /\ IF ~req[r].self.member \/ Found(req[r].by, req[r].val) # {} THEN End(r) ELSE Go(r, "free")

\* Mutant: an order is created for a customer found by id alone.
LoadAnyCustomer(r) ==
  \E kind \in {"update customer", "create order"} :
    /\ Arrived(r, kind)
    /\ LET c == req[r].on IN
       IF ~req[r].self.member \/ ~Lives(c)
       THEN End(r)
       ELSE Become(users, business, [req EXCEPT ![r].phase = "loaded", ![r].seen = customers[c]])

\* get_one_by with the customer's and the caller's business.
LoadCustomer(r) ==
  \E kind \in {"update customer", "create order"} :
    /\ Arrived(r, kind)
    /\ LET c == req[r].on IN
       IF ~req[r].self.member \/ ~Lives(c) \/ customers[c].business # req[r].by
       THEN End(r)
       ELSE Become(users, business, [req EXCEPT ![r].phase = "loaded", ![r].seen = customers[c]])

\* Mutant: the phone that was loaded is looked up, not the new one.
LookUpLoaded(r) ==
  /\ Loaded(r, "update customer")
  /\ IF req[r].val = req[r].seen.phone \/ Found(req[r].by, req[r].seen.phone) \ {req[r].on} # {}
     THEN End(r) ELSE Go(r, "free")
  /\ UNCHANGED <<customers, orders>>

\* A phone equal to the one that was loaded is neither looked up nor written.
LookUpChanged(r) ==
  /\ Loaded(r, "update customer")
  /\ IF req[r].val = req[r].seen.phone \/ Found(req[r].by, req[r].val) # {} THEN End(r) ELSE Go(r, "free")
  /\ UNCHANGED <<customers, orders>>

\* The commit that gives phone p to customer c of business b; done is what becomes
\* of the request.
WritePhone(r, c, b, p, done) ==
  /\ customers' = [customers EXCEPT ![c] = [business |-> b, phone |-> p, raced |-> req[r].raced]]
  /\ Become(users, business, [s \in Slots |->
       IF s = r THEN done
       ELSE IF req[s].kind \in {"create customer", "update customer"} \cup ChatKinds
               /\ req[s].phase = "free" /\ Tenant(req[s]) = b /\ req[s].val = p
            THEN [req[s] EXCEPT !.raced = TRUE] ELSE req[s]])

Fresh(c) == customers[c] = Unused

\* A foreign key that refers to nothing any more fails the insert.
InsertCustomer(r) ==
  /\ req[r].kind = "create customer" /\ req[r].phase = "free"
  /\ IF ~Exists(req[r].by)
     THEN End(r) /\ UNCHANGED customers
     ELSE \E c \in CustomerIds : Fresh(c) /\ WritePhone(r, c, req[r].by, req[r].val, Idle)
  /\ UNCHANGED <<started, orders>>

UpdateCustomer(r) ==
  /\ req[r].kind = "update customer" /\ req[r].phase = "free"
  /\ IF ~Lives(req[r].on)
     THEN End(r) /\ UNCHANGED customers
     ELSE WritePhone(r, req[r].on, req[r].by, req[r].val, Idle)
  /\ UNCHANGED <<started, orders>>

InsertOrderFor(r, b, c, via) ==
  /\ IF Exists(b) /\ Lives(c)
     THEN \E o \in OrderIds : orders[o] = Unused /\
            orders' = [orders EXCEPT ![o] = [business |-> b, customer |-> c, via |-> via]]
     ELSE UNCHANGED orders
  /\ End(r) /\ UNCHANGED <<started, customers>>

InsertOrder(r) ==
  Loaded(r, "create order") /\ InsertOrderFor(r, req[r].by, req[r].on, "api")

-----------------------------------------------------------------------------
(* handle_incoming_whatsapp_payload: a task of its own, once per delivery *)

BeginChat(r) == \E k \in ChatKinds, p \in Senders : Begin(r, k, "public", "none", p)

InChat(r, phase) == req[r].kind \in ChatKinds /\ req[r].phase = phase /\ UNCHANGED started

\* select(Business) has no order: any business, a deleted one too.
ChooseBusiness(r) ==
  /\ InChat(r, "begun")
  /\ IF \A b \in Accounts : ~Exists(b)
     THEN End(r)
     ELSE \E b \in Accounts : Exists(b) /\
            Become(users, business, [req EXCEPT ![r].on = b, ![r].phase = "business"])
  /\ UNCHANGED <<customers, orders>>

\* The sender is looked up in all businesses; two matches raise MultipleResultsFound.
LookUpSender(r) ==
  /\ InChat(r, "business")
  /\ LET found == FoundAnywhere(req[r].val) IN
     IF found = {} THEN Go(r, "free")
     ELSE IF Cardinality(found) > 1 THEN End(r)
     ELSE \E c \in found : Become(users, business, [req EXCEPT ![r].seen = c, ![r].phase = "customer"])
  /\ UNCHANGED <<customers, orders>>

\* Mutant: a sender is registered without a business.
InsertSenderAlone(r) ==
  /\ InChat(r, "free")
  /\ \E c \in CustomerIds : Fresh(c) /\
       WritePhone(r, c, "none", req[r].val, [req[r] EXCEPT !.seen = c, !.phase = "customer"])
  /\ UNCHANGED orders

InsertSender(r) ==
  /\ InChat(r, "free")
  /\ IF ~Exists(req[r].on)
     THEN End(r) /\ UNCHANGED customers
     ELSE \E c \in CustomerIds : Fresh(c) /\
            WritePhone(r, c, req[r].on, req[r].val, [req[r] EXCEPT !.seen = c, !.phase = "customer"])
  /\ UNCHANGED orders

\* Any other message is answered by chat_with_assistant (module AIService).
Answer(r) ==
  /\ InChat(r, "customer") /\ req[r].kind = "chat"
  /\ End(r) /\ UNCHANGED <<customers, orders>>

InsertChatOrder(r) ==
  /\ InChat(r, "customer") /\ req[r].kind = "chat order"
  /\ InsertOrderFor(r, req[r].on, req[r].seen, "chat")

-----------------------------------------------------------------------------
\* Mutant: the customers to remove are found by their phones.
PurgeByPhone(r) ==
  /\ PurgeBusiness(r)
  /\ LET b == req[r].on
         phones == {customers[c].phone : c \in {d \in CustomerIds : Lives(d) /\ customers[d].business = b}}
         gone == {c \in CustomerIds : Lives(c) /\ customers[c].phone \in phones} IN
     /\ customers' = [c \in CustomerIds |-> IF c \in gone THEN Purged ELSE customers[c]]
     /\ orders' = [o \in OrderIds |->
          IF orders[o] \notin NoRow /\ (orders[o].business = b \/ orders[o].customer \in gone)
          THEN Purged ELSE orders[o]]

\* ON DELETE CASCADE: a business takes its customers and orders along, and a customer
\* takes the orders placed for it, in whatever business.
PurgeTenant(r) ==
  /\ PurgeBusiness(r)
  /\ LET b == req[r].on
         gone == {c \in CustomerIds : Lives(c) /\ customers[c].business = b} IN
     /\ customers' = [c \in CustomerIds |-> IF c \in gone THEN Purged ELSE customers[c]]
     /\ orders' = [o \in OrderIds |->
          IF orders[o] \notin NoRow /\ (orders[o].business = b \/ orders[o].customer \in gone)
          THEN Purged ELSE orders[o]]

CustomerStep(r) ==
  \/ LookUpNew(r) \/ LoadCustomer(r) \/ LookUpChanged(r) \/ InsertCustomer(r) \/ UpdateCustomer(r)
  \/ InsertOrder(r) \/ ChooseBusiness(r) \/ LookUpSender(r) \/ InsertSender(r) \/ Answer(r)
  \/ InsertChatOrder(r) \/ PurgeTenant(r)

\* Where the program can be when the requests that are looked at arrive: the
\* administrator has been seeded, and accounts and customers have come one by one.
Init ==
  /\ \E rows \in SUBSET (Accounts \X Emails), root \in Accounts :
       /\ \A x, y \in rows \cup {<<root, AdminEmail>>} : (x[1] = y[1]) <=> (x[2] = y[2])
       /\ users = [a \in Accounts |->
            IF a = root THEN [email |-> AdminEmail, role |-> "super_admin", member |-> FALSE,
                              active |-> TRUE, deleted |-> FALSE]
            ELSE IF \E e \in Emails : <<a, e>> \in rows
            THEN [email |-> CHOOSE e \in Emails : <<a, e>> \in rows, role |-> "owner",
                  member |-> TRUE, active |-> TRUE, deleted |-> FALSE]
            ELSE Unused]
       /\ business = [a \in Accounts |-> IF a # root /\ \E e \in Emails : <<a, e>> \in rows
                                         THEN [deleted |-> FALSE, owned |-> TRUE] ELSE Unused]
  /\ req = [r \in Slots |-> Idle] /\ started = 0
  /\ customers \in [CustomerIds -> {Unused} \cup {row \in Customer : Exists(row.business) /\ ~row.raced}]
  /\ \A b \in Accounts, p \in Phones \cup Senders : Cardinality(Found(b, p)) <= 1
  /\ \E c \in CustomerIds : Fresh(c)
  /\ orders = [o \in OrderIds |-> Unused]

Next ==
  \E r \in Slots :
    \/ (BeginAccount(r) \/ AccountStep(r) \/ BeginTenant(r) \/ BeginChat(r) \/ Fails(r)) /\ UNCHANGED shop
    \/ CustomerStep(r)

Spec == Init /\ [][Next]_vars

-----------------------------------------------------------------------------
(* Properties *)

\* Whatever is written for a caller, the caller had been entitled to it at one moment
\* since the request read the user: exists, active, not deleted, of a business that is
\* not deleted, an administrator where that is asked for ("instantly blocking access
\* on next request", docstring of toggle_user_status).  The user and the business are
\* read by two queries, and what is removed in between must not slip through.
ActsOnlyEntitled ==
  [][users' # users \/ business' # business \/ shop' # shop =>
       \A r \in Slots : req[r] # Idle /\ req'[r] = Idle /\ req[r].by # "public" => req[r].entitled]_vars

\* Two customers of a business share a phone only if the second one's lookup
\* overlapped the commit of the first: creating, updating and chatting, one after the
\* other, keep the numbers apart.
DuplicatesHaveCause ==
  \A c, d \in CustomerIds :
    c # d /\ Lives(c) /\ Lives(d) /\ customers[c].business = customers[d].business
      /\ customers[c].phone = customers[d].phone => customers[c].raced \/ customers[d].raced

CustomersOwned == \A c \in CustomerIds : Lives(c) => Exists(customers[c].business)

OrdersApart ==
  \A o \in OrderIds : orders[o] \notin NoRow =>
    /\ Exists(orders[o].business) /\ Lives(orders[o].customer)
    /\ orders[o].via = "api" => customers[orders[o].customer].business = orders[o].business

\* An order belongs to its customer's business unless it came over WhatsApp, which
\* knows one business and the customers of all; and neither an order nor a customer
\* ever refers to a row that is gone, however a purge overlaps the requests that write
\* them: a purge leaves nothing of the business, and nothing of it comes later.
TenantsApart == CustomersOwned /\ OrdersApart

\* The step purges business b.
Purging(b) == Exists(b) /\ business'[b] = Purged

\* Step by step, a customer is removed only with its own business, and an order only
\* with its business or, if it came over WhatsApp, with that of its customer.
PurgeStaysWithin ==
  [][/\ \A c \in CustomerIds :
          Lives(c) /\ customers'[c] = Purged => Purging(customers[c].business)
     /\ \A o \in OrderIds :
          orders[o] \notin NoRow /\ orders'[o] = Purged =>
            \/ Purging(orders[o].business)
            \/ orders[o].via = "chat" /\ Purging(customers[orders[o].customer].business)]_vars
=============================================================================
