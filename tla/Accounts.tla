------------------------------- MODULE Accounts -------------------------------
(***************************************************************************)
(* Accounts and workspaces: registration and the seeded administrator      *)
(* (src/app/modules/auth/service.py, src/app/main.py), what an             *)
(* administrator does to users and businesses (src/app/modules/admin) and  *)
(* how a request finds out who is calling (get_current_user).              *)
(*                                                                         *)
(* Nothing but a registration inserts a business, and it inserts its owner *)
(* with it: the pair shares one id here.  No operation adds a user to an   *)
(* existing business.  Requests interleave between their queries; a commit *)
(* is one step, since a second writer of a row waits for the first.        *)
(***************************************************************************)
EXTENDS Integers, FiniteSets

CONSTANTS
  Accounts,     \* ids for users, and for the businesses registered with them
  Emails,
  AdminEmail,   \* SUPER_ADMIN_EMAIL, in lower case as its default is: the seeding compares and
                \* inserts it as it stands, registration lower-cases its own
  Roles,
  Slots,        \* requests under way at a time
  MaxRequests   \* bound: requests that are looked at

ASSUME AccountsAssumption ==
  /\ AdminEmail \in Emails /\ {"owner", "super_admin"} \subseteq Roles
  /\ "public" \notin Accounts
  /\ MaxRequests \in Nat

VARIABLES
  users,      \* users[a]: the row, or why there is none
  business,   \* business[a]: the row of the business registered with a
  req,        \* req[r]: the request in slot r
  started     \* count, for the bound

Unused == [none |-> "unused"]
Purged == [none |-> "purged"]
Unread == [none |-> "unread"]
NoRow  == {Unused, Purged}
User  == [email : Emails, role : Roles, member : BOOLEAN, active : BOOLEAN, deleted : BOOLEAN]
Business == [deleted : BOOLEAN, owned : BOOLEAN]

Idle == [kind |-> "idle"]
OnUsers      == {"role", "toggle user", "delete user", "purge user"}
OnBusinesses == {"delete business", "purge business"}
AdminKinds   == OnUsers \cup OnBusinesses

InUse(a)   == users[a] \notin NoRow
Exists(b)  == business[b] \notin NoRow
Taken(e)   == \E a \in Accounts : InUse(a) /\ users[a].email = e

\* What get_current_user and the role check together ask for, at one moment.
Entitled(us, bs, q) ==
  LET u == us[q.by] IN
  /\ u \notin NoRow /\ u.active /\ ~u.deleted
  /\ u.member => bs[q.by] \notin NoRow /\ ~bs[q.by].deleted
  /\ q.kind \in AdminKinds => u.role = "super_admin"

\* The next state of the tables and the requests; a request under way remembers
\* whether its caller has been entitled at some moment since it read the user.
Become(us, bs, q) ==
  /\ users' = us /\ business' = bs
  /\ req' = [r \in Slots |->
       IF q[r].kind = "idle" \/ q[r].by = "public" \/ q[r].phase = "begun" THEN q[r]
       ELSE [q[r] EXCEPT !.entitled = @ \/ Entitled(us, bs, q[r])]]

Go(r, phase) == Become(users, business, [req EXCEPT ![r].phase = phase])
End(r)       == Become(users, business, [req EXCEPT ![r] = Idle])
Write(r, us, bs) == Become(us, bs, [req EXCEPT ![r] = Idle])

AccountsTypeOK ==
  /\ users \in [Accounts -> NoRow \cup User]
  /\ business \in [Accounts -> NoRow \cup Business]
  /\ started \in 0 .. MaxRequests

Begin(r, kind, by, on, val) ==
  /\ req[r] = Idle /\ started < MaxRequests
  /\ started' = started + 1
  /\ Become(users, business, [req EXCEPT ![r] =
       [kind |-> kind, by |-> by, on |-> on, val |-> val, phase |-> "begun",
        self |-> Unread, seen |-> Unread, entitled |-> FALSE, raced |-> FALSE]])

\* A statement fails, or the process ends: the transaction is rolled back.
Fails(r) == req[r] # Idle /\ req[r].phase # "begun" /\ End(r) /\ UNCHANGED started

-----------------------------------------------------------------------------
(* Registration and seeding *)

BeginRegister(r) == \E e \in Emails : Begin(r, "register", "public", "none", e)
BeginSeed(r)     == Begin(r, "seed", "public", "none", AdminEmail)

CheckEmail(r) ==
  /\ req[r].kind \in {"register", "seed"} /\ req[r].phase = "begun"
  /\ IF Taken(req[r].val) THEN End(r) ELSE Go(r, "free")
  /\ UNCHANGED started

\* Mutant: the business is committed before the user is inserted.
InsertAccountSeparately(r) ==
  /\ req[r].kind \in {"register", "seed"} /\ req[r].phase = "free"
  /\ \E a \in Accounts : users[a] = Unused /\ business[a] = Unused /\
       LET seeded == req[r].kind = "seed"
           row == [email |-> req[r].val, role |-> IF seeded THEN "super_admin" ELSE "owner",
                   member |-> ~seeded, active |-> TRUE, deleted |-> FALSE] IN
       Write(r, IF Taken(req[r].val) THEN users ELSE [users EXCEPT ![a] = row],
                IF seeded THEN business ELSE [business EXCEPT ![a] = [deleted |-> FALSE, owned |-> ~Taken(req[r].val)]])
  /\ UNCHANGED started

\* One transaction; the unique index on the address lets one of two win.
InsertAccount(r) ==
  /\ req[r].kind \in {"register", "seed"} /\ req[r].phase = "free"
  /\ IF Taken(req[r].val)
     THEN End(r)
     ELSE \E a \in Accounts : users[a] = Unused /\
            LET seeded == req[r].kind = "seed"
                row == [email |-> req[r].val, role |-> IF seeded THEN "super_admin" ELSE "owner",
                        member |-> ~seeded, active |-> TRUE, deleted |-> FALSE] IN
            Write(r, [users EXCEPT ![a] = row],
                     IF seeded THEN business
                               ELSE [business EXCEPT ![a] = [deleted |-> FALSE, owned |-> TRUE]])
  /\ UNCHANGED started

-----------------------------------------------------------------------------
(* get_current_user: the user is read first, the business with a query of its own *)

\* Mutant: a deleted workspace does not keep its members out.
ReadBusinessNot(r) ==
  /\ req[r] # Idle /\ req[r].phase = "user read"
  /\ Go(r, "authenticated")
  /\ UNCHANGED started

ReadUser(r) ==
  /\ req[r] # Idle /\ req[r].by # "public" /\ req[r].phase = "begun"
  /\ LET u == users[req[r].by] IN
     IF u \in NoRow \/ u.deleted \/ ~u.active
     THEN End(r)
     ELSE Become(users, business, [req EXCEPT ![r].self = u,
            ![r].phase = IF u.member THEN "user read" ELSE "authenticated"])
  /\ UNCHANGED started

\* A business that is gone by now is no reason to refuse.
ReadBusiness(r) ==
  /\ req[r] # Idle /\ req[r].phase = "user read"
  /\ IF Exists(req[r].by) /\ business[req[r].by].deleted THEN End(r) ELSE Go(r, "authenticated")
  /\ UNCHANGED started

-----------------------------------------------------------------------------
(* The administrator's operations: authorize, load the row, write *)

\* Whoever is no administrator when the request arrives, and what does not exist then,
\* is not looked at.
BeginAdmin(r) ==
  \E by \in Accounts, on \in Accounts : InUse(by) /\ users[by].role = "super_admin" /\ (InUse(on) \/ Exists(on)) /\
    \/ \E role \in Roles : Begin(r, "role", by, on, role)
    \/ \E k \in AdminKinds \ {"role"} : Begin(r, k, by, on, "none")

\* The session keeps the row that it has read: an administrator's own is not read anew.
Load(r) ==
  /\ req[r].kind \in AdminKinds /\ req[r].phase = "authenticated"
  /\ LET q == req[r] IN
     IF \/ q.self.role # "super_admin"
        \/ q.kind \in OnUsers /\ ~InUse(q.on)
        \/ q.kind \in OnBusinesses /\ ~Exists(q.on)
     THEN End(r)
     ELSE Become(users, business, [req EXCEPT ![r].phase = "loaded", ![r].seen =
            IF q.kind \in OnBusinesses THEN business[q.on]
            ELSE IF q.on = q.by THEN q.self ELSE users[q.on]])
  /\ UNCHANGED started

Loaded(r, kind) == req[r].kind = kind /\ req[r].phase = "loaded" /\ UNCHANGED started

\* An UPDATE of a row that is gone raises; the session writes what has changed only.
UpdateUser(r, row) ==
  LET a == req[r].on IN
  IF InUse(a) THEN Write(r, [users EXCEPT ![a] = row], business) ELSE End(r)

\* Mutant: a promotion leaves the workspace to be cleared later.
UpdateRoleOnly(r) ==
  /\ Loaded(r, "role")
  /\ UpdateUser(r, [users[req[r].on] EXCEPT !.role = req[r].val])

UpdateRole(r) ==
  /\ Loaded(r, "role")
  /\ LET q == req[r]
         role == IF q.val # q.seen.role THEN q.val ELSE users[q.on].role
         left == q.val = "super_admin" /\ q.seen.member IN
     IF q.val = q.seen.role /\ ~left
     THEN End(r)
     ELSE UpdateUser(r, [users[q.on] EXCEPT !.role = role, !.member = @ /\ ~left])

ToggleUser(r) ==
  /\ Loaded(r, "toggle user")
  /\ UpdateUser(r, [users[req[r].on] EXCEPT !.active = ~req[r].seen.active])

DeleteUser(r) ==
  /\ Loaded(r, "delete user")
  /\ IF req[r].seen.deleted THEN End(r)
     ELSE UpdateUser(r, [users[req[r].on] EXCEPT !.deleted = TRUE])

\* The business keeps its row, with the owner set to null.
PurgeUser(r) ==
  /\ Loaded(r, "purge user")
  /\ LET a == req[r].on IN
     Write(r, [users EXCEPT ![a] = Purged],
              IF Exists(a) THEN [business EXCEPT ![a].owned = FALSE] ELSE business)

DeleteBusiness(r) ==
  /\ Loaded(r, "delete business")
  /\ LET b == req[r].on IN
     IF req[r].seen.deleted \/ ~Exists(b) THEN End(r)
     ELSE Write(r, users, [business EXCEPT ![b].deleted = TRUE])

\* Its members go with it; an owner who has become an administrator does not.
PurgeBusiness(r) ==
  /\ Loaded(r, "purge business")
  /\ LET b == req[r].on IN
     Write(r, IF InUse(b) /\ users[b].member THEN [users EXCEPT ![b] = Purged] ELSE users,
              [business EXCEPT ![b] = Purged])

-----------------------------------------------------------------------------
AccountStep(r) ==
  \/ CheckEmail(r) \/ InsertAccount(r) \/ ReadUser(r) \/ ReadBusiness(r) \/ Load(r)
  \/ UpdateRole(r) \/ ToggleUser(r) \/ DeleteUser(r) \/ PurgeUser(r) \/ DeleteBusiness(r)

BeginAccount(r) == BeginRegister(r) \/ BeginSeed(r) \/ BeginAdmin(r)

-----------------------------------------------------------------------------
(* Properties *)

\* An address, as it is stored, has one account, whoever registers and whichever
\* process seeds at the same time; a business has never been without the account it was
\* registered with; users and businesses refer to rows that exist; and an administrator
\* belongs to no business, however changes of role and status and removals of an account
\* overlap.
AccountsSound ==
  /\ \A a, b \in Accounts : InUse(a) /\ InUse(b) /\ users[a].email = users[b].email => a = b
  /\ \A b \in Accounts : Exists(b) => users[b] # Unused /\ (business[b].owned => InUse(b))
  /\ \A a \in Accounts : InUse(a) /\ users[a].member => Exists(a) /\ users[a].role # "super_admin"
=============================================================================
