--------------------------- MODULE UserLifecycle ---------------------------
(***************************************************************************)
(* The users of an organisation and their API keys under the requests that *)
(* change them (backend: user_lifecycle_service.py, api_key_service.py and *)
(* their routes).  A lifecycle request is one READ COMMITTED transaction:  *)
(* it loads the user, may count the admins, lets autoflush send the        *)
(* update, which takes the row's lock until the commit, selects the keys   *)
(* and commits.  Requests of one key are atomic here: they read only       *)
(* whether the row is there and overwrite one column.                      *)
(***************************************************************************)
EXTENDS Integers, FiniteSets

CONSTANTS
  Users, Keys, Requests,
  Roles, Admin, Creators, Inviters,   \* auth/roles.py and the routes
  Scopes, Cap,                        \* ROLE_DEFAULT_SCOPES
  Admissions,   \* which requests may overlap: see Admitted
  MaxClock,     \* bound: how often a user is disabled
  None

ASSUME RolesAssumption ==
  /\ Admin \in Roles /\ Creators \subseteq Roles /\ Inviters \subseteq Roles
  /\ Cap \in [Roles -> SUBSET Scopes]
ASSUME UsersAssumption == IsFiniteSet(Users)
ASSUME NoneAssumption ==
  /\ None \notin Roles /\ None \notin Int
  /\ None \notin [role : Roles, isActive : BOOLEAN, disabledAt : Int \cup {None}, deleted : BOOLEAN]
  /\ None \notin [owner : Users, scopes : SUBSET Scopes, revokedAt : Int \cup {None}]
ASSUME BoundAssumption == MaxClock \in Nat /\ Admissions \subseteq {"serial", "user", "any"}

(* Moments: disabling a user takes a fresh one; of any other revocation it *)
(* matters only that its moment is no disabled_at: Explicit.               *)
Explicit == 0
Stamps == 1 .. MaxClock

User == [role : Roles, isActive : BOOLEAN, disabledAt : Stamps \cup {None}, deleted : BOOLEAN]
Key == [owner : Users, scopes : (SUBSET Scopes) \ {{}}, revokedAt : {Explicit, None} \cup Stamps]

VARIABLES
  admission,
  users,      \* table users: a row, or None
  keys,       \* table api_keys: a row, or None
  sessions,   \* roles in the tokens a user holds: refreshed without a look at the table
  req,        \* the lifecycle requests, at most one per slot
  clock,
  withdrawn   \* history: keys that their owner, an admin or a downgrade revoked

tables == <<users, keys, clock, withdrawn>>
vars == <<admission, tables, sessions, req>>

Idle == [pc |-> "idle"]
InFlight(r) == req[r] # Idle

(* What the environment lets overlap with a request about user u: nothing, *)
(* requests about other users, or anything.                                *)
Admitted(u) ==
  CASE admission = "serial" -> \A r \in Requests : ~InFlight(r)
    [] admission = "user" -> \A r \in Requests : InFlight(r) => req[r].target # u
    [] OTHER -> TRUE

(* require_role: the token decides, not the table. *)
HoldsToken(roles) == \E u \in Users : sessions[u] \cap roles # {}

Init ==
  /\ admission \in Admissions
  /\ \E first \in Users : \E joined \in SUBSET Users :
       users = [u \in Users |->
                  IF u = first THEN [role |-> Admin, isActive |-> TRUE, disabledAt |-> None, deleted |-> FALSE]
                  ELSE IF u \in joined
                  THEN [role |-> Admin, isActive |-> TRUE, disabledAt |-> None, deleted |-> FALSE]
                  ELSE None]
  /\ keys = [k \in Keys |-> None]
  /\ sessions = [u \in Users |-> {}]
  /\ req = [r \in Requests |-> Idle]
  /\ clock = 0
  /\ withdrawn = {}

-----------------------------------------------------------------------------
(* Tokens and rows that appear. *)
Login(u) ==
  /\ users[u] # None /\ users[u].isActive
  /\ sessions' = [sessions EXCEPT ![u] = @ \cup {users[u].role}]
  /\ UNCHANGED <<admission, tables, req>>

Invite(u, role) ==
  /\ HoldsToken(Inviters) /\ Admitted(u) /\ users[u] = None
  /\ users' = [users EXCEPT ![u] =
                 [role |-> role, isActive |-> FALSE, disabledAt |-> None, deleted |-> FALSE]]
  /\ UNCHANGED <<admission, keys, clock, withdrawn, sessions, req>>

Granted(asked, role) == asked \cap Cap[role]
(* Mutant: a key without a scope is made too. *)
MayGrantNone(scopes) == scopes \in SUBSET Scopes

MayGrant(scopes) == scopes # {}

CreateKey(u, k, asked, role) ==
  /\ role \in sessions[u] \cap Creators /\ Admitted(u) /\ keys[k] = None
  /\ MayGrant(Granted(asked, role))
  /\ keys' = [keys EXCEPT ![k] = [owner |-> u, scopes |-> Granted(asked, role), revokedAt |-> None]]
  /\ UNCHANGED <<admission, users, sessions, req, clock, withdrawn>>

-----------------------------------------------------------------------------
(* Revocation of one key: the column is overwritten, whatever it held. *)
Revocable(k) == keys[k] # None

Revoke(k) ==
  /\ Revocable(k) /\ Admitted(keys[k].owner)
  /\ keys' = [keys EXCEPT ![k].revokedAt = Explicit]
  /\ withdrawn' = withdrawn \cup {k}
  /\ UNCHANGED <<admission, users, sessions, req, clock>>

RevokeOwn(k) == keys[k] # None /\ sessions[keys[k].owner] # {} /\ Revoke(k)
RevokeAny(k) == HoldsToken({Admin}) /\ Revoke(k)

-----------------------------------------------------------------------------
(* Lifecycle requests.  kind: "role", "disable", "enable" or "delete". *)
ActiveAdmins ==
  {u \in Users : /\ users[u] # None /\ users[u].role = Admin
                 /\ users[u].disabledAt = None /\ ~users[u].deleted}

(* Mutant: a user may be disabled twice. *)
AcceptsAgain(kind, user) ==
  CASE kind \in {"role", "disable"} -> TRUE
    [] kind = "enable" -> user.disabledAt # None
    [] kind = "delete" -> user.disabledAt # None /\ ~user.deleted

Accepts(kind, user) ==
  CASE kind = "role" -> TRUE
    [] kind = "disable" -> user.disabledAt = None
    [] kind = "enable" -> user.disabledAt # None
    [] kind = "delete" -> user.disabledAt # None /\ ~user.deleted

(* Mutant: only a demotion is counted. *)
CountsDemotions(kind, user, role) == user.role = Admin /\ kind = "role" /\ role # Admin

Counts(kind, user, role) ==
  /\ user.role = Admin
  /\ kind = "disable" \/ (kind = "role" /\ role # Admin)

Load(r, kind, u, role) ==
  /\ ~InFlight(r) /\ HoldsToken({Admin}) /\ Admitted(u)
  /\ users[u] # None /\ Accepts(kind, users[u])
  /\ kind = "role" \/ role = users[u].role
  /\ req' = [req EXCEPT ![r] =
               [pc |-> IF Counts(kind, users[u], role) THEN "count" ELSE "update",
                kind |-> kind, target |-> u, role |-> role, seen |-> users[u],
                now |-> None, selected |-> {}]]
  /\ UNCHANGED <<admission, tables, sessions>>

RefuseLastAdmin(r) ==
  /\ req[r].pc = "count" /\ Cardinality(ActiveAdmins) <= 1
  /\ req' = [req EXCEPT ![r] = Idle]
  /\ UNCHANGED <<admission, tables, sessions>>

OthersRemain(r) ==
  /\ req[r].pc = "count" /\ Cardinality(ActiveAdmins) > 1
  /\ req' = [req EXCEPT ![r].pc = "update"]
  /\ UNCHANGED <<admission, tables, sessions>>

Owned(u) == {k \in Keys : keys[k] # None /\ keys[k].owner = u}

(* Mutant: the subset the other way round. *)
UnderScoped(k, role) == ~(Cap[role] \subseteq keys[k].scopes)

OverScoped(k, role) == ~(keys[k].scopes \subseteq Cap[role])

(* Mutant: enabling restores every revoked key. *)
SelectedAll(q) ==
  CASE q.kind = "role" -> {k \in Owned(q.target) : keys[k].revokedAt = None /\ OverScoped(k, q.role)}
    [] q.kind = "disable" -> {k \in Owned(q.target) : keys[k].revokedAt = None}
    [] q.kind = "enable" -> {k \in Owned(q.target) : keys[k].revokedAt # None}
    [] OTHER -> {}

Selected(q) ==
  CASE q.kind = "role" -> {k \in Owned(q.target) : keys[k].revokedAt = None /\ OverScoped(k, q.role)}
    [] q.kind = "disable" -> {k \in Owned(q.target) : keys[k].revokedAt = None}
    [] q.kind = "enable" -> {k \in Owned(q.target) : keys[k].revokedAt = q.seen.disabledAt}
    [] OTHER -> {}

RowFree(u) == \A r \in Requests : InFlight(r) => req[r].pc # "commit" \/ req[r].target # u

(* The flush of the user's columns and the select of the keys. *)
Update(r) ==
  /\ req[r].pc = "update" /\ RowFree(req[r].target)
  /\ IF req[r].kind = "disable"
     THEN clock < MaxClock /\ clock' = clock + 1
     ELSE clock' = clock
  /\ req' = [req EXCEPT ![r].pc = "commit", ![r].now = clock', ![r].selected = Selected(req[r])]
  /\ UNCHANGED <<admission, users, keys, withdrawn, sessions>>

(* The session writes the columns that differ from what it loaded. *)
Row(q, old) ==
  CASE q.kind = "role" ->
         [old EXCEPT !.role = IF q.role # q.seen.role THEN q.role ELSE @]
    [] q.kind = "disable" ->
         [old EXCEPT !.disabledAt = q.now, !.isActive = IF q.seen.isActive THEN FALSE ELSE @]
    [] q.kind = "enable" -> [old EXCEPT !.disabledAt = None, !.isActive = TRUE]
    [] q.kind = "delete" -> [old EXCEPT !.deleted = TRUE]

KeyTime(q) ==
  CASE q.kind = "role" -> Explicit
    [] q.kind = "disable" -> q.now
    [] OTHER -> None

Commit(r) ==
  /\ req[r].pc = "commit"
  /\ users' = [users EXCEPT ![req[r].target] = Row(req[r], @)]
  /\ keys' = [k \in Keys |-> IF k \in req[r].selected
                             THEN [keys[k] EXCEPT !.revokedAt = KeyTime(req[r])] ELSE keys[k]]
  /\ withdrawn' = IF req[r].kind = "role" THEN withdrawn \cup req[r].selected ELSE withdrawn
  /\ req' = [req EXCEPT ![r] = Idle]
  /\ UNCHANGED <<admission, clock, sessions>>

Next ==
  \/ \E u \in Users : Login(u) \/ \E role \in Roles : Invite(u, role)
  \/ \E u \in Users, k \in Keys, asked \in SUBSET Scopes, role \in Roles : CreateKey(u, k, asked, role)
  \/ \E k \in Keys : RevokeOwn(k) \/ RevokeAny(k)
  \/ \E r \in Requests, u \in Users, role \in Roles, kind \in {"role", "disable", "enable", "delete"} :
       Load(r, kind, u, role)
  \/ \E r \in Requests : RefuseLastAdmin(r) \/ OthersRemain(r) \/ Update(r) \/ Commit(r)

Spec == Init /\ [][Next]_vars

-----------------------------------------------------------------------------
Request ==
  [pc : {"count", "update", "commit"}, kind : {"role", "disable", "enable", "delete"},
   target : Users, role : Roles, seen : User, now : 0 .. MaxClock \cup {None}, selected : SUBSET Keys]

TypeOK ==
  /\ admission \in Admissions
  /\ users \in [Users -> User \cup {None}]
  /\ keys \in [Keys -> Key \cup {None}]
  /\ sessions \in [Users -> SUBSET Roles]
  /\ req \in [Requests -> Request \cup {Idle}]
  /\ clock \in 0 .. MaxClock
  /\ withdrawn \subseteq Keys

(* Whatever sequence of demotions, disablings, deletions and returns, the  *)
(* organisation keeps an admin, provided requests come one at a time.      *)
AdminKept == admission = "serial" => ActiveAdmins # {}

(* The same with requests that overlap. *)
SomeAdminRemains == ActiveAdmins # {}

(* A key taken away by its owner, an admin or a downgrade does not come    *)
(* back when its owner is disabled and enabled, before or after it, if     *)
(* requests about one user do not overlap.                                 *)
RevocationFinal ==
  admission # "any" => \A k \in withdrawn : keys[k].revokedAt # None

(* No key is lost in suspension: one that disabling suspended carries the  *)
(* moment its owner's row carries, by which enabling finds it.             *)
SuspensionMatches ==
  admission # "any" =>
    \A k \in Keys : (keys[k] # None /\ keys[k].revokedAt \in Stamps) =>
      users[keys[k].owner].disabledAt = keys[k].revokedAt

(* When a new role is committed the user has no active key beyond it, also *)
(* none made with a token that still named an older role.                  *)
DowngradeClean ==
  [][admission # "any" =>
       \A u \in Users : (users[u] # None /\ users'[u].role # users[u].role) =>
         \A k \in Keys : (keys'[k] # None /\ keys'[k].owner = u /\ keys'[k].revokedAt = None) =>
           keys'[k].scopes \subseteq Cap[users'[u].role]]_vars

-----------------------------------------------------------------------------
(* What is seen of the tables: a key is suspended if enabling its owner    *)
(* would find it.                                                          *)
AccountOf(user) ==
  [role |-> user.role, active |-> user.isActive, disabled |-> user.disabledAt # None, deleted |-> user.deleted]
Standing(key) ==
  CASE key.revokedAt = None -> "active"
    [] key.revokedAt # None /\ key.revokedAt = users[key.owner].disabledAt -> "suspended"
    [] key.revokedAt # None /\ key.revokedAt # users[key.owner].disabledAt -> "revoked"
KeyOf(key) == [owner |-> key.owner, scopes |-> key.scopes, state |-> Standing(key)]

Accounts == [u \in {v \in Users : users[v] # None} |-> AccountOf(users[u])]
KeysSeen == [k \in {j \in Keys : keys[j] # None} |-> KeyOf(keys[k])]

Atomic == INSTANCE AtomicLifecycle WITH
  oneByOne <- admission = "serial", accounts <- Accounts, keys <- KeysSeen, tokens <- sessions

(* A lifecycle request, whose steps other transactions see, takes effect   *)
(* as if it were one step on the rows of that moment, while requests about *)
(* one user do not overlap: its commit is that step, no other step shows.  *)
ActsAtOnce == Atomic!Init /\ [][admission # "any" => Atomic!Next]_(Atomic!vars)
=============================================================================
