------------------------ MODULE UserLifecycleProofs ------------------------
(* Theorems of UserLifecycle, for any sets of users, keys and roles and    *)
(* any number of requests.                                                 *)
EXTENDS UserLifecycle, FiniteSetTheorems, TLAPS

(* What requests and rows keep to, however requests overlap. *)
Shape ==
  /\ \A r \in Requests : InFlight(r) =>
       /\ users[req[r].target] # None
       /\ req[r].pc = "commit" /\ req[r].kind = "disable" => req[r].now \in Stamps
       /\ req[r].pc = "commit" =>
            \A k \in req[r].selected : keys[k] # None /\ keys[k].owner = req[r].target
  /\ \A u \in Users : sessions[u] # {} => users[u] # None
  /\ \A k \in withdrawn : keys[k] # None
  /\ \A k \in Keys : keys[k] # None => users[keys[k].owner] # None

(* While requests about one user do not overlap: what a request has read   *)
(* is still so when it commits, and a key taken away carries a moment that *)
(* no enabling looks for.                                                  *)
Apart ==
  \A r, s \in Requests : InFlight(r) /\ InFlight(s) /\ r # s => req[r].target # req[s].target

Current ==
  \A r \in Requests : InFlight(r) =>
    /\ req[r].seen = users[req[r].target]
    /\ Accepts(req[r].kind, req[r].seen)
    /\ req[r].pc = "commit" => req[r].selected = Selected(req[r])

Final == \A k \in withdrawn : keys[k].revokedAt = Explicit

Discipline == admission # "any" => Apart /\ Current /\ Final

(* One at a time: a count that let a request pass still holds. *)
Counted(r) ==
  InFlight(r) /\ req[r].pc # "count" /\ Counts(req[r].kind, req[r].seen, req[r].role) =>
    ActiveAdmins \ {req[r].target} # {}

Alone ==
  admission = "serial" =>
    /\ \A r, s \in Requests : InFlight(r) /\ InFlight(s) => r = s
    /\ \A r \in Requests : Counted(r)

IInv == TypeOK /\ Shape /\ Discipline /\ SuspensionMatches /\ Alone /\ AdminKept

-----------------------------------------------------------------------------
LEMMA NoneIsNoRow == None \notin User /\ None \notin Key /\ None \notin Stamps /\ None # Explicit /\ None \notin Roles
  <1>1. None \notin Int /\ None \notin Roles
    BY NoneAssumption
  <1>2. None \notin User
    BY NoneAssumption DEF User, Stamps
  <1>3. None \notin Key
    BY NoneAssumption DEF Key, Stamps, Explicit
  <1> QED
    BY <1>1, <1>2, <1>3 DEF Stamps, Explicit

LEMMA InFlightIsRequest ==
  ASSUME TypeOK, NEW r \in Requests
  PROVE  /\ InFlight(r) => req[r] \in Request
         /\ req[r] \in Request => InFlight(r)
         /\ req[r].pc \in {"count", "update", "commit"} => InFlight(r)
  <1>1. req[r] \in Request \cup {Idle}
    BY DEF TypeOK
  <1>2. req[r] \in Request => req[r].pc # "idle"
    BY DEF Request
  <1>3. Idle.pc = "idle"
    BY DEF Idle
  <1>4. CASE req[r] = Idle
    BY <1>2, <1>3, <1>4 DEF InFlight
  <1>5. CASE req[r] \in Request
    <2>1. req[r] # Idle
      BY <1>2, <1>3, <1>5
    <2> QED
      BY <1>5, <2>1 DEF InFlight
  <1> QED
    BY <1>1, <1>4, <1>5

(* What a request selects depends on the keys of its user only. *)
LEMMA SelectionDepends ==
  ASSUME NEW r \in Requests,
         req'[r].kind = req[r].kind, req'[r].target = req[r].target,
         req'[r].role = req[r].role, req'[r].seen = req[r].seen,
         Owned(req[r].target)' = Owned(req[r].target),
         \A j \in Owned(req[r].target) : keys'[j] = keys[j]
  PROVE  Selected(req[r])' = Selected(req[r])
  <1>1. CASE req[r].kind = "role"
    BY <1>1 DEF Selected, OverScoped
  <1>2. CASE req[r].kind = "disable"
    BY <1>2 DEF Selected
  <1>3. CASE req[r].kind = "enable"
    BY <1>3 DEF Selected
  <1>4. CASE req[r].kind \notin {"role", "disable", "enable"}
    BY <1>4 DEF Selected
  <1> QED
    BY <1>1, <1>2, <1>3, <1>4

(* A fresh admin stands at the beginning. *)
LEMMA InitIInv == Init => IInv
  <1> SUFFICES ASSUME Init PROVE IInv
    OBVIOUS
  <1> USE DEF Init
  <1> DEFINE Fresh == [role |-> Admin, isActive |-> TRUE, disabledAt |-> None, deleted |-> FALSE]
  <1>1. \A r \in Requests : ~InFlight(r)
    BY DEF InFlight
  <1>2. Fresh \in User /\ Fresh # None
    <2>1. Fresh \in User
      BY RolesAssumption DEF User
    <2> QED
      BY <2>1, NoneIsNoRow
  <1>3. PICK first \in Users : \E joined \in SUBSET Users :
          users = [u \in Users |-> IF u = first THEN Fresh ELSE IF u \in joined THEN Fresh ELSE None]
    OBVIOUS
  <1>7. TypeOK
    <2>1. users \in [Users -> User \cup {None}]
      BY <1>2, <1>3
    <2>2. req \in [Requests -> Request \cup {Idle}] /\ clock \in 0 .. MaxClock
      BY BoundAssumption
    <2> QED
      BY <2>1, <2>2 DEF TypeOK
  <1>4. Shape /\ Discipline /\ Alone
    BY <1>1 DEF Shape, Discipline, Apart, Current, Final, Alone, Counted
  <1>5. SuspensionMatches
    BY DEF SuspensionMatches
  <1>6. AdminKept
    <2>1. users[first] = Fresh
      BY <1>3
    <2>2. first \in ActiveAdmins
      BY <1>2, <2>1 DEF ActiveAdmins
    <2> QED
      BY <2>2 DEF AdminKept
  <1> QED
    BY <1>7, <1>4, <1>5, <1>6 DEF IInv

-----------------------------------------------------------------------------
(* Each action keeps the invariant. *)
LEMMA LoginKeeps ==
  ASSUME IInv, NEW u \in Users, Login(u)
  PROVE  IInv'
  <1> USE DEF Login, tables, IInv
  <1>1. TypeOK'
    <2>1. users[u].role \in Roles
      BY DEF TypeOK, User
    <2> QED
      BY <2>1 DEF TypeOK
  <1>2. Shape'
    BY DEF Shape, InFlight, TypeOK
  <1>3. Discipline' /\ SuspensionMatches'
    BY DEF Discipline, Apart, Current, Final, Selected, Owned, OverScoped, InFlight, SuspensionMatches
  <1>4. Alone' /\ AdminKept'
    BY DEF Alone, Counted, AdminKept, ActiveAdmins, InFlight
  <1> QED
    BY <1>1, <1>2, <1>3, <1>4

LEMMA InviteKeeps ==
  ASSUME IInv, NEW u \in Users, NEW role \in Roles, Invite(u, role)
  PROVE  IInv'
  <1> DEFINE row == [role |-> role, isActive |-> FALSE, disabledAt |-> None, deleted |-> FALSE]
  <1> USE DEF Invite, IInv
  <1>1. row \in User /\ row # None
    <2>1. row \in User
      BY DEF User
    <2> QED
      BY <2>1, NoneIsNoRow
  <1>2. TypeOK'
    BY <1>1 DEF TypeOK
  <1>3. \A v \in Users : users[v] # None => users'[v] = users[v]
    BY DEF TypeOK
  <1>4. \A r \in Requests : InFlight(r) => users'[req[r].target] = users[req[r].target]
    BY <1>3, InFlightIsRequest DEF Shape, Request
  <1>5. Shape'
    <2>1. \A v \in Users : users[v] # None => users'[v] # None
      BY <1>3
    <2>2. \A k \in Keys : keys[k] # None => keys[k].owner \in Users
      BY DEF TypeOK, Key
    <2> QED
      BY <1>4, <2>1, <2>2 DEF Shape, InFlight
  <1>6. Discipline'
    BY <1>4 DEF Discipline, Apart, Current, Final, Selected, Owned, OverScoped, InFlight
  <1>7. SuspensionMatches'
    <2> SUFFICES ASSUME admission # "any", NEW k \in Keys, keys[k] # None, keys[k].revokedAt \in Stamps
                 PROVE  users'[keys[k].owner].disabledAt = keys[k].revokedAt
      BY DEF SuspensionMatches
    <2>1. keys[k].owner \in Users /\ users[keys[k].owner].disabledAt = keys[k].revokedAt
      BY DEF TypeOK, Key, SuspensionMatches
    <2> QED
      BY <2>1, <1>3 DEF Shape
  <1>8. ActiveAdmins \subseteq ActiveAdmins'
    BY <1>3 DEF ActiveAdmins
  <1>9. Alone' /\ AdminKept'
    BY <1>8 DEF Alone, Counted, AdminKept, InFlight
  <1> QED
    BY <1>2, <1>5, <1>6, <1>7, <1>9

LEMMA CreateKeyKeeps ==
  ASSUME IInv, NEW u \in Users, NEW k \in Keys, NEW asked \in SUBSET Scopes, NEW role \in Roles,
         CreateKey(u, k, asked, role)
  PROVE  IInv'
  <1> DEFINE row == [owner |-> u, scopes |-> Granted(asked, role), revokedAt |-> None]
  <1> USE DEF CreateKey, IInv
  <1>1. row \in Key /\ row # None /\ users[u] # None
    <2>1. Granted(asked, role) \in (SUBSET Scopes) \ {{}}
      BY RolesAssumption DEF Granted, MayGrant
    <2>2. row \in Key
      BY <2>1 DEF Key
    <2> QED
      BY <2>2, NoneIsNoRow DEF Shape
  <1>2. keys' = [keys EXCEPT ![k] = row] /\ keys[k] = None
    OBVIOUS
  <1>3. keys'[k] = row /\ \A j \in Keys \ {k} : keys'[j] = keys[j]
    BY <1>2 DEF TypeOK
  <1> HIDE DEF row
  <1>4. TypeOK'
    <2>1. users[u].role \in Roles
      BY <1>1 DEF TypeOK, User
    <2> QED
      BY <1>1, <1>2, <2>1 DEF TypeOK
  <1>5. \A r \in Requests : InFlight(r) =>
          req[r].target \in Users /\ req[r].selected \subseteq Keys /\ (admission # "any" => req[r].target # u)
    BY InFlightIsRequest, BoundAssumption DEF Admitted, Request, TypeOK
  <1>6. Shape'
    <2>1. \A r \in Requests : InFlight(r) /\ req[r].pc = "commit" =>
            \A j \in req[r].selected : keys'[j] # None /\ keys'[j].owner = req[r].target
      BY <1>3, <1>2, <1>5 DEF Shape
    <2>2. \A j \in withdrawn : keys'[j] # None
      BY <1>3, <1>2 DEF Shape, TypeOK
    <2>3. row.owner = u
      BY DEF row
    <2>4. \A j \in Keys : keys'[j] # None => users[keys'[j].owner] # None
      BY <1>1, <1>3, <2>3 DEF Shape
    <2> QED
      BY <2>1, <2>2, <2>4 DEF Shape, InFlight
  <1>7. Discipline'
    <2> SUFFICES ASSUME admission # "any" PROVE Apart' /\ Current' /\ Final'
      BY DEF Discipline
    <2>1. row.owner = u
      BY DEF row
    <2>2. \A r \in Requests : InFlight(r) => Selected(req[r])' = Selected(req[r])
      <3> SUFFICES ASSUME NEW r \in Requests, InFlight(r) PROVE Selected(req[r])' = Selected(req[r])
        OBVIOUS
      <3>1. Owned(req[r].target)' = Owned(req[r].target) /\ k \notin Owned(req[r].target)
        BY <1>2, <1>3, <1>5, <2>1 DEF Owned
      <3>2. \A j \in Owned(req[r].target) : keys'[j] = keys[j]
        BY <3>1, <1>3 DEF Owned
      <3> QED
        BY <3>1, <3>2, SelectionDepends
    <2>3. Final'
      BY <1>2, <1>3 DEF Final, Discipline, Shape, TypeOK
    <2> QED
      BY <2>2, <2>3 DEF Discipline, Apart, Current, InFlight
  <1>8. SuspensionMatches'
    <2>1. row.revokedAt = None
      BY DEF row
    <2> QED
      BY <1>3, <2>1, NoneIsNoRow DEF SuspensionMatches
  <1>9. Alone' /\ AdminKept'
    BY DEF Alone, Counted, AdminKept, ActiveAdmins, InFlight
  <1> QED
    BY <1>4, <1>6, <1>7, <1>8, <1>9

LEMMA RevokeKeeps ==
  ASSUME IInv, NEW k \in Keys, Revoke(k)
  PROVE  IInv'
  <1> DEFINE row == [keys[k] EXCEPT !.revokedAt = Explicit]
  <1> USE DEF Revoke, Revocable, IInv
  <1>1. keys[k] \in Key
    BY DEF TypeOK
  <1>2. row \in Key /\ row # None /\ row.owner = keys[k].owner /\ row.revokedAt = Explicit
    <2>1. row \in Key /\ row.owner = keys[k].owner /\ row.revokedAt = Explicit
      BY <1>1 DEF Key
    <2> QED
      BY <2>1, NoneIsNoRow
  <1>3. keys' = [keys EXCEPT ![k] = row]
    OBVIOUS
  <1>4. keys'[k] = row /\ \A j \in Keys \ {k} : keys'[j] = keys[j]
    BY <1>3 DEF TypeOK
  <1> HIDE DEF row
  <1>5. TypeOK'
    BY <1>2, <1>3 DEF TypeOK
  <1>6. \A j \in Keys : (keys'[j] # None <=> keys[j] # None) /\ (keys[j] # None => keys'[j].owner = keys[j].owner)
    BY <1>2, <1>4
  <1>7. \A r \in Requests : InFlight(r) =>
          req[r].target \in Users /\ req[r].selected \subseteq Keys /\ (admission # "any" => req[r].target # keys[k].owner)
    BY InFlightIsRequest, BoundAssumption DEF Admitted, Request, TypeOK
  <1>8. Shape'
    BY <1>6, <1>7 DEF Shape, InFlight, TypeOK
  <1>9. Discipline'
    <2> SUFFICES ASSUME admission # "any" PROVE Apart' /\ Current' /\ Final'
      BY DEF Discipline
    <2>1. \A r \in Requests : InFlight(r) => Selected(req[r])' = Selected(req[r])
      <3> SUFFICES ASSUME NEW r \in Requests, InFlight(r) PROVE Selected(req[r])' = Selected(req[r])
        OBVIOUS
      <3>1. Owned(req[r].target)' = Owned(req[r].target) /\ k \notin Owned(req[r].target)
        BY <1>6, <1>7 DEF Owned
      <3>2. \A j \in Owned(req[r].target) : keys'[j] = keys[j]
        BY <3>1, <1>4 DEF Owned
      <3> QED
        BY <3>1, <3>2, SelectionDepends
    <2>2. Final'
      BY <1>2, <1>4 DEF Final, Discipline, TypeOK
    <2> QED
      BY <2>1, <2>2 DEF Discipline, Apart, Current, InFlight
  <1>10. SuspensionMatches'
    BY <1>2, <1>4 DEF SuspensionMatches, Stamps, Explicit
  <1>11. Alone' /\ AdminKept'
    BY DEF Alone, Counted, AdminKept, ActiveAdmins, InFlight
  <1> QED
    BY <1>5, <1>8, <1>9, <1>10, <1>11

LEMMA LoadKeeps ==
  ASSUME IInv, NEW r \in Requests, NEW kind \in {"role", "disable", "enable", "delete"},
         NEW u \in Users, NEW role \in Roles, Load(r, kind, u, role)
  PROVE  IInv'
  <1> DEFINE new == [pc |-> IF Counts(kind, users[u], role) THEN "count" ELSE "update",
                     kind |-> kind, target |-> u, role |-> role, seen |-> users[u],
                     now |-> None, selected |-> {}]
  <1> USE DEF IInv, Load, tables
  <1>1. users[u] \in User
    BY DEF TypeOK
  <1>2. new \in Request
    BY <1>1 DEF Request
  <1>3. req' = [req EXCEPT ![r] = new]
    OBVIOUS
  <1>4. req'[r] = new /\ \A s \in Requests \ {r} : req'[s] = req[s]
    BY <1>3 DEF TypeOK
  <1>5. /\ new.target = u /\ new.kind = kind /\ new.seen = users[u] /\ new.role = role
        /\ new.pc # "commit" /\ (new.pc # "count" => ~Counts(kind, users[u], role))
    OBVIOUS
  <1>6. /\ \A s \in Requests \ {r} : InFlight(s)' = InFlight(s)
        /\ ~InFlight(r) /\ Admitted(u) /\ Accepts(kind, users[u]) /\ users[u] # None
    BY <1>4 DEF InFlight
  <1>7. UNCHANGED <<admission, users, keys, clock, withdrawn, sessions>>
    OBVIOUS
  <1> HIDE DEF new, Load
  <1>8. TypeOK'
    BY <1>2, <1>3, <1>7 DEF TypeOK
  <1>9. Shape'
    BY <1>4, <1>5, <1>6, <1>7 DEF Shape
  <1>10. Discipline'
    <2> SUFFICES ASSUME admission # "any" PROVE Apart' /\ Current' /\ Final'
      BY <1>7 DEF Discipline
    <2>1. \A s \in Requests : InFlight(s) => req[s].target # u
      BY <1>6, BoundAssumption DEF Admitted, TypeOK
    <2>2. Apart'
      BY <2>1, <1>4, <1>5, <1>6 DEF Apart, Discipline
    <2>3. Current'
      <3>1. \A s \in Requests \ {r} : InFlight(s) => Selected(req[s])' = Selected(req[s])
        BY <1>4, <1>7, SelectionDepends DEF Owned
      <3>2. \A s \in Requests \ {r} : InFlight(s)' =>
              /\ (req[s].seen = users[req[s].target])'
              /\ Accepts(req[s].kind, req[s].seen)'
              /\ (req[s].pc = "commit" => req[s].selected = Selected(req[s]))'
        BY <3>1, <1>4, <1>6, <1>7 DEF Discipline, Current, Accepts
      <3>3. /\ (req[r].seen = users[req[r].target])'
            /\ Accepts(req[r].kind, req[r].seen)'
            /\ (req[r].pc # "commit")'
        BY <1>4, <1>5, <1>6, <1>7 DEF Accepts
      <3> QED
        BY <3>2, <3>3 DEF Current
    <2> QED
      BY <2>2, <2>3, <1>7 DEF Final, Discipline
  <1>11. SuspensionMatches'
    BY <1>7 DEF SuspensionMatches
  <1>12. Alone'
    <2> SUFFICES ASSUME admission = "serial"
                 PROVE  /\ \A s, t \in Requests : InFlight(s)' /\ InFlight(t)' => s = t
                        /\ \A s \in Requests : Counted(s)'
      BY <1>7 DEF Alone
    <2>1. \A s \in Requests : ~InFlight(s)
      BY <1>6 DEF Admitted
    <2>2. \A s \in Requests : InFlight(s)' => s = r
      BY <2>1, <1>6
    <2>3. Counted(r)'
      BY <1>4, <1>5, <1>7 DEF Counted, Counts
    <2> QED
      BY <2>2, <2>3 DEF Counted
  <1>13. AdminKept'
    BY <1>7 DEF AdminKept, ActiveAdmins
  <1> QED
    BY <1>8, <1>9, <1>10, <1>11, <1>12, <1>13

(* A request that leaves, its user and keys as they were. *)
LEMMA RefuseKeeps ==
  ASSUME IInv, NEW r \in Requests, RefuseLastAdmin(r)
  PROVE  IInv'
  <1> USE DEF IInv
  <1>1. /\ req' = [req EXCEPT ![r] = Idle]
        /\ UNCHANGED <<admission, users, keys, clock, withdrawn, sessions>>
    BY DEF RefuseLastAdmin, tables
  <1>2. /\ ~InFlight(r)'
        /\ \A s \in Requests \ {r} : req'[s] = req[s] /\ (InFlight(s)' = InFlight(s))
    BY <1>1 DEF TypeOK, InFlight
  <1>3. TypeOK'
    BY <1>1 DEF TypeOK
  <1>4. Shape'
    BY <1>1, <1>2 DEF Shape
  <1>5. Discipline'
    <2>1. \A s \in Requests \ {r} : Selected(req[s])' = Selected(req[s])
      BY <1>1, <1>2, SelectionDepends DEF Owned
    <2>2. Apart => Apart'
      BY <1>2 DEF Apart
    <2>3. Current => Current'
      <3>1. \A s \in Requests \ {r} : InFlight(s)' /\ Current =>
              /\ (req[s].seen = users[req[s].target])'
              /\ Accepts(req[s].kind, req[s].seen)'
              /\ (req[s].pc = "commit" => req[s].selected = Selected(req[s]))'
        BY <2>1, <1>1, <1>2 DEF Current, Accepts
      <3> QED
        BY <3>1, <1>2 DEF Current
    <2> QED
      BY <2>2, <2>3, <1>1 DEF Discipline, Final
  <1>6. SuspensionMatches'
    BY <1>1 DEF SuspensionMatches
  <1>7. Alone' /\ AdminKept'
    <2>1. ActiveAdmins' = ActiveAdmins
      BY <1>1 DEF ActiveAdmins
    <2>2. \A s \in Requests : Counted(s) => Counted(s)'
      BY <2>1, <1>1, <1>2 DEF Counted, Counts
    <2> QED
      BY <2>1, <2>2, <1>1, <1>2 DEF Alone, AdminKept
  <1> QED
    BY <1>3, <1>4, <1>5, <1>6, <1>7

(* A count above one leaves an admin besides the user it is about. *)
LEMMA AnotherAdmin ==
  ASSUME NEW u, Cardinality(ActiveAdmins) > 1
  PROVE  ActiveAdmins \ {u} # {}
  <1> SUFFICES ASSUME ActiveAdmins \subseteq {u} PROVE FALSE
    OBVIOUS
  <1>1. IsFiniteSet({u}) /\ Cardinality({u}) = 1
    BY FS_Singleton
  <1>2. Cardinality(ActiveAdmins) <= 1
    BY <1>1, FS_Subset
  <1>3. IsFiniteSet(ActiveAdmins)
    BY <1>1, FS_Subset
  <1>4. Cardinality(ActiveAdmins) \in Nat
    BY <1>3, FS_CardinalityType
  <1> QED
    BY <1>2, <1>4

LEMMA OthersRemainKeeps ==
  ASSUME IInv, NEW r \in Requests, OthersRemain(r)
  PROVE  IInv'
  <1> DEFINE new == [req[r] EXCEPT !.pc = "update"]
  <1> USE DEF IInv
  <1>1. /\ req' = [req EXCEPT ![r] = new] /\ req[r].pc = "count"
        /\ UNCHANGED <<admission, users, keys, clock, withdrawn, sessions>>
    BY DEF OthersRemain, tables
  <1>2. InFlight(r) /\ req[r] \in Request
    BY <1>1, InFlightIsRequest
  <1>3. /\ new \in Request /\ new.pc = "update" /\ new.target = req[r].target /\ new.kind = req[r].kind
        /\ new.role = req[r].role /\ new.seen = req[r].seen
    BY <1>2 DEF Request
  <1>4. req'[r] = new /\ \A s \in Requests \ {r} : req'[s] = req[s]
    BY <1>1 DEF TypeOK
  <1> HIDE DEF new
  <1>5. TypeOK'
    BY <1>1, <1>3 DEF TypeOK
  <1>6. InFlight(r)' /\ \A s \in Requests : InFlight(s)' = InFlight(s)
    <2>1. InFlight(r)'
      BY <1>3, <1>4 DEF InFlight, Idle
    <2> QED
      BY <2>1, <1>2, <1>4 DEF InFlight
  <1>7. Shape'
    BY <1>1, <1>3, <1>4, <1>6 DEF Shape
  <1>8. Discipline'
    <2>1. \A s \in Requests \ {r} : Selected(req[s])' = Selected(req[s])
      BY <1>1, <1>4, SelectionDepends DEF Owned
    <2>2. Apart => Apart'
      BY <1>3, <1>4, <1>6 DEF Apart
    <2>3. Current => Current'
      <3>1. \A s \in Requests \ {r} : InFlight(s)' /\ Current =>
              /\ (req[s].seen = users[req[s].target])'
              /\ Accepts(req[s].kind, req[s].seen)'
              /\ (req[s].pc = "commit" => req[s].selected = Selected(req[s]))'
        BY <2>1, <1>1, <1>4, <1>6 DEF Current, Accepts
      <3>2. Current => /\ (req[r].seen = users[req[r].target])'
                       /\ Accepts(req[r].kind, req[r].seen)'
                       /\ (req[r].pc # "commit")'
        <4>1. req'[r].kind = req[r].kind /\ req'[r].seen = req[r].seen /\ req'[r].target = req[r].target
          BY <1>3, <1>4
        <4>2. Current => Accepts(req[r].kind, req[r].seen) /\ req[r].seen = users[req[r].target]
          BY <1>2 DEF Current
        <4>3. Accepts(req[r].kind, req[r].seen) => Accepts(req[r].kind, req[r].seen)'
          BY <4>1 DEF Accepts
        <4> QED
          BY <4>1, <4>2, <4>3, <1>1, <1>3, <1>4
      <3> QED
        BY <3>1, <3>2 DEF Current
    <2> QED
      BY <2>2, <2>3, <1>1 DEF Discipline, Final
  <1>9. SuspensionMatches'
    BY <1>1 DEF SuspensionMatches
  <1>10. Alone' /\ AdminKept'
    <2>1. ActiveAdmins' = ActiveAdmins
      BY <1>1 DEF ActiveAdmins
    <2>2. \A s \in Requests \ {r} : Counted(s) => Counted(s)'
      BY <2>1, <1>1, <1>4, <1>6 DEF Counted, Counts
    <2>3. Counted(r)'
      <3>1. ActiveAdmins \ {req[r].target} # {}
        BY AnotherAdmin DEF OthersRemain
      <3> QED
        BY <2>1, <3>1, <1>3, <1>4 DEF Counted
    <2> QED
      BY <2>1, <2>2, <2>3, <1>1, <1>6 DEF Alone, AdminKept
  <1> QED
    BY <1>5, <1>7, <1>8, <1>9, <1>10

LEMMA UpdateKeeps ==
  ASSUME IInv, NEW r \in Requests, Update(r)
  PROVE  IInv'
  <1> DEFINE new == [req[r] EXCEPT !.pc = "commit", !.now = clock', !.selected = Selected(req[r])]
  <1> USE DEF IInv
  <1>1. /\ req' = [req EXCEPT ![r] = new] /\ req[r].pc = "update"
        /\ UNCHANGED <<admission, users, keys, withdrawn, sessions>>
    BY DEF Update, TypeOK
  <1>2. InFlight(r) /\ req[r] \in Request
    BY <1>1, InFlightIsRequest
  <1>3. clock' \in 0 .. MaxClock /\ (req[r].kind = "disable" => clock' \in Stamps)
    BY BoundAssumption DEF Update, TypeOK, Stamps
  <1>4. Selected(req[r]) \subseteq Owned(req[r].target)
    BY DEF Selected, Owned
  <1>5. /\ new \in Request /\ new.pc = "commit" /\ new.target = req[r].target /\ new.kind = req[r].kind
        /\ new.role = req[r].role /\ new.seen = req[r].seen /\ new.now = clock' /\ new.selected = Selected(req[r])
    BY <1>2, <1>3, <1>4 DEF Request, Owned
  <1>6. req'[r] = new /\ \A s \in Requests \ {r} : req'[s] = req[s]
    BY <1>1 DEF TypeOK
  <1> HIDE DEF new
  <1>7. TypeOK'
    BY <1>1, <1>3, <1>5 DEF TypeOK
  <1>8. InFlight(r)' /\ \A s \in Requests : InFlight(s)' = InFlight(s)
    <2>1. InFlight(r)'
      BY <1>5, <1>6 DEF InFlight, Idle
    <2> QED
      BY <2>1, <1>2, <1>6 DEF InFlight
  <1>9. Shape'
    BY <1>1, <1>2, <1>3, <1>4, <1>5, <1>6, <1>8 DEF Shape, Owned
  <1>10. Discipline'
    <2>1. \A s \in Requests \ {r} : Selected(req[s])' = Selected(req[s])
      BY <1>1, <1>6, SelectionDepends DEF Owned
    <2>2. Apart => Apart'
      BY <1>5, <1>6, <1>8 DEF Apart
    <2>3. Current => Current'
      <3>1. \A s \in Requests \ {r} : InFlight(s)' /\ Current =>
              /\ (req[s].seen = users[req[s].target])'
              /\ Accepts(req[s].kind, req[s].seen)'
              /\ (req[s].pc = "commit" => req[s].selected = Selected(req[s]))'
        BY <2>1, <1>1, <1>6, <1>8 DEF Current, Accepts
      <3>2. Current => /\ (req[r].seen = users[req[r].target])'
                       /\ Accepts(req[r].kind, req[r].seen)'
        <4>1. req'[r].kind = req[r].kind /\ req'[r].seen = req[r].seen /\ req'[r].target = req[r].target
          BY <1>5, <1>6
        <4>2. Current => Accepts(req[r].kind, req[r].seen) /\ req[r].seen = users[req[r].target]
          BY <1>2 DEF Current
        <4>3. Accepts(req[r].kind, req[r].seen) => Accepts(req[r].kind, req[r].seen)'
          BY <4>1 DEF Accepts
        <4> QED
          BY <4>1, <4>2, <4>3, <1>1
      <3>3. (req[r].selected = Selected(req[r]))'
        <4>1. Owned(req[r].target)' = Owned(req[r].target)
          BY <1>1, <1>5, <1>6 DEF Owned
        <4>2. Selected(req[r])' = Selected(req[r])
          BY <4>1, <1>1, <1>5, <1>6, SelectionDepends
        <4> QED
          BY <4>2, <1>5, <1>6
      <3> QED
        BY <3>1, <3>2, <3>3 DEF Current
    <2> QED
      BY <2>2, <2>3, <1>1 DEF Discipline, Final
  <1>11. SuspensionMatches'
    BY <1>1 DEF SuspensionMatches
  <1>12. Alone' /\ AdminKept'
    <2>1. ActiveAdmins' = ActiveAdmins
      BY <1>1 DEF ActiveAdmins
    <2>2. \A s \in Requests \ {r} : Counted(s) => Counted(s)'
      BY <2>1, <1>1, <1>6, <1>8 DEF Counted, Counts
    <2>3. Counted(r) => Counted(r)'
      BY <2>1, <1>1, <1>2, <1>5, <1>6 DEF Counted, Counts
    <2> QED
      BY <2>1, <2>2, <2>3, <1>1, <1>8 DEF Alone, AdminKept
  <1> QED
    BY <1>7, <1>9, <1>10, <1>11, <1>12

(* What a commit writes, with rigid names for the request and its parts. *)
LEMMA CommitWrites ==
  ASSUME TypeOK, Shape, NEW r \in Requests, Commit(r), NEW q, q = req[r]
  PROVE  /\ q \in Request /\ q.pc = "commit" /\ q.target \in Users /\ q.selected \subseteq Keys
         /\ users[q.target] \in User /\ Row(q, users[q.target]) \in User
         /\ users' = [users EXCEPT ![q.target] = Row(q, users[q.target])]
         /\ KeyTime(q) \in {Explicit, None} \cup Stamps
         /\ keys' \in [Keys -> Key \cup {None}]
         /\ \A k \in Keys \ q.selected : keys'[k] = keys[k]
         /\ \A k \in q.selected :
              /\ keys[k] \in Key /\ keys[k].owner = q.target /\ keys'[k] \in Key
              /\ keys'[k].owner = q.target /\ keys'[k].scopes = keys[k].scopes
              /\ keys'[k].revokedAt = KeyTime(q)
         /\ ~InFlight(r)'
         /\ \A s \in Requests \ {r} : req'[s] = req[s] /\ InFlight(s)' = InFlight(s)
  <1>1. q \in Request /\ q.pc = "commit" /\ InFlight(r)
    BY InFlightIsRequest DEF Commit
  <1>2. q.target \in Users /\ q.selected \subseteq Keys
    BY <1>1 DEF Request
  <1>3. users[q.target] \in User
    BY <1>1, <1>2 DEF Shape, TypeOK
  <1>4. q.kind = "disable" => q.now \in Stamps
    BY <1>1 DEF Shape
  <1>5. Row(q, users[q.target]) \in User
    <2>1. CASE q.kind = "role"
      BY <1>1, <1>3, <2>1 DEF Row, User, Request
    <2>2. CASE q.kind = "disable"
      BY <1>1, <1>3, <1>4, <2>2 DEF Row, User, Request
    <2>3. CASE q.kind = "enable"
      BY <1>1, <1>3, <2>3 DEF Row, User, Request
    <2>4. CASE q.kind = "delete"
      BY <1>1, <1>3, <2>4 DEF Row, User, Request
    <2> QED
      BY <1>1, <2>1, <2>2, <2>3, <2>4 DEF Request
  <1>6. users' = [users EXCEPT ![q.target] = Row(q, users[q.target])]
    BY DEF Commit
  <1>7. KeyTime(q) \in {Explicit, None} \cup Stamps
    BY <1>4 DEF KeyTime
  <1>8. \A k \in q.selected : keys[k] \in Key /\ keys[k].owner = q.target
    BY <1>1, <1>2 DEF Shape, TypeOK
  <1>9. keys' = [k \in Keys |-> IF k \in q.selected
                               THEN [keys[k] EXCEPT !.revokedAt = KeyTime(q)] ELSE keys[k]]
    BY DEF Commit
  <1>10. \A k \in q.selected :
           /\ keys'[k] = [keys[k] EXCEPT !.revokedAt = KeyTime(q)]
           /\ keys'[k] \in Key
           /\ keys'[k].owner = q.target /\ keys'[k].scopes = keys[k].scopes
           /\ keys'[k].revokedAt = KeyTime(q)
    <2> SUFFICES ASSUME NEW k \in q.selected
                 PROVE  /\ keys'[k] = [keys[k] EXCEPT !.revokedAt = KeyTime(q)]
                        /\ keys'[k] \in Key
                        /\ keys'[k].owner = q.target /\ keys'[k].scopes = keys[k].scopes
                        /\ keys'[k].revokedAt = KeyTime(q)
      OBVIOUS
    <2>1. keys'[k] = [keys[k] EXCEPT !.revokedAt = KeyTime(q)]
      BY <1>2, <1>9
    <2> QED
      BY <2>1, <1>7, <1>8 DEF Key
  <1>11. \A k \in Keys \ q.selected : keys'[k] = keys[k]
    BY <1>9
  <1>12. keys' \in [Keys -> Key \cup {None}]
    <2>1. \A k \in Keys : keys'[k] \in Key \cup {None}
      BY <1>10, <1>11 DEF TypeOK
    <2> QED
      BY <2>1, <1>9
  <1>13. /\ ~InFlight(r)'
         /\ \A s \in Requests \ {r} : req'[s] = req[s] /\ InFlight(s)' = InFlight(s)
    BY DEF Commit, InFlight, TypeOK
  <1> QED
    BY <1>1, <1>2, <1>3, <1>5, <1>6, <1>7, <1>8, <1>10, <1>11, <1>12, <1>13

LEMMA CommitKeeps ==
  ASSUME IInv, NEW r \in Requests, Commit(r)
  PROVE  IInv'
  <1>q. PICK q : q = req[r]
    OBVIOUS
  <1> DEFINE t == q.target
             row == Row(q, users[t])
  <1>0. TypeOK /\ Shape /\ Discipline /\ SuspensionMatches /\ Alone /\ AdminKept
    BY DEF IInv
  <1>1. /\ q \in Request /\ q.pc = "commit" /\ t \in Users /\ q.selected \subseteq Keys
        /\ users[t] \in User /\ row \in User /\ users' = [users EXCEPT ![t] = row]
        /\ KeyTime(q) \in {Explicit, None} \cup Stamps
        /\ keys' \in [Keys -> Key \cup {None}]
    BY <1>q, <1>0, CommitWrites
  <1>2. /\ \A k \in Keys \ q.selected : keys'[k] = keys[k]
        /\ \A k \in q.selected :
             /\ keys[k] \in Key /\ keys[k].owner = t /\ keys'[k] \in Key
             /\ keys'[k].owner = t /\ keys'[k].scopes = keys[k].scopes
             /\ keys'[k].revokedAt = KeyTime(q)
    BY <1>q, <1>0, CommitWrites
  <1>3. /\ ~InFlight(r)'
        /\ \A s \in Requests \ {r} : req'[s] = req[s] /\ InFlight(s)' = InFlight(s)
    BY <1>q, <1>0, CommitWrites
  <1>4. /\ UNCHANGED <<admission, clock, sessions>>
        /\ withdrawn' = IF q.kind = "role" THEN withdrawn \cup q.selected ELSE withdrawn
        /\ req' = [req EXCEPT ![r] = Idle]
    BY <1>q DEF Commit
  <1>5. users'[t] = row /\ \A v \in Users \ {t} : users'[v] = users[v]
    BY <1>0, <1>1 DEF TypeOK
  <1> HIDE DEF row, t
  <1>6. TypeOK'
    BY <1>0, <1>1, <1>4 DEF TypeOK
  <1>7. \A v \in Users : users[v] # None => users'[v] # None
    BY <1>1, <1>5, NoneIsNoRow
  <1>8. \A k \in Keys : /\ keys'[k] # None <=> keys[k] # None
                        /\ keys[k] # None => keys'[k].owner = keys[k].owner
    BY <1>2, NoneIsNoRow
  <1>9. Shape'
    <2>1. \A s \in Requests : InFlight(s)' => (s # r /\ req'[s] = req[s] /\ InFlight(s))
      BY <1>3
    <2>2. \A s \in Requests : InFlight(s) => req[s].target \in Users /\ req[s].selected \subseteq Keys
      BY <1>0, InFlightIsRequest DEF Request
    <2>3. \A k \in Keys : keys[k] # None => keys[k].owner \in Users
      BY <1>0 DEF TypeOK, Key
    <2>4. \A k \in withdrawn' : k \in Keys /\ keys'[k] # None
      BY <1>0, <1>1, <1>2, <1>4, <1>8, NoneIsNoRow DEF Shape, TypeOK
    <2>5. \A k \in Keys : keys'[k] # None => users'[keys'[k].owner] # None
      BY <1>0, <1>7, <1>8, <2>3 DEF Shape
    <2>6. \A s \in Requests : InFlight(s)' =>
            /\ users'[req'[s].target] # None
            /\ req'[s].pc = "commit" /\ req'[s].kind = "disable" => req'[s].now \in Stamps
            /\ req'[s].pc = "commit" =>
                 \A k \in req'[s].selected : keys'[k] # None /\ keys'[k].owner = req'[s].target
      BY <1>0, <1>7, <1>8, <2>1, <2>2 DEF Shape
    <2> QED
      BY <1>0, <1>4, <1>7, <2>4, <2>5, <2>6 DEF Shape
  <1>10. ASSUME admission # "any"
         PROVE  /\ q.seen = users[t] /\ Accepts(q.kind, q.seen) /\ q.selected = Selected(q)
                /\ \A s \in Requests \ {r} : InFlight(s) => req[s].target \in Users \ {t}
    <2>1. InFlight(r) /\ \A s \in Requests : InFlight(s) => req[s].target \in Users
      BY <1>0, <1>1, <1>q, InFlightIsRequest DEF Request
    <2> QED
      BY <2>1, <1>0, <1>1, <1>q, <1>10 DEF Discipline, Apart, Current, t
  <1>11. Discipline'
    <2> SUFFICES ASSUME admission # "any" PROVE Apart' /\ Current' /\ Final'
      BY <1>4 DEF Discipline
    <2>1. Apart'
      BY <1>0, <1>3 DEF Discipline, Apart
    <2>2. Current'
      <3> SUFFICES ASSUME NEW s \in Requests \ {r}, InFlight(s)
                   PROVE  /\ (req[s].seen = users[req[s].target])'
                          /\ Accepts(req[s].kind, req[s].seen)'
                          /\ (req[s].pc = "commit" => req[s].selected = Selected(req[s]))'
        BY <1>3 DEF Current
      <3>1. req[s].target \in Users \ {t} /\ req'[s] = req[s]
        BY <1>3, <1>10
      <3>2. \A k \in Keys : (keys[k] # None /\ keys[k].owner = req[s].target) => k \notin q.selected /\ keys'[k] = keys[k]
        BY <1>2, <3>1
      <3>3. Owned(req[s].target)' = Owned(req[s].target)
        BY <1>8, <3>1 DEF Owned
      <3>4. Selected(req[s])' = Selected(req[s])
        BY <3>1, <3>2, <3>3, SelectionDepends DEF Owned
      <3> QED
        BY <1>0, <1>5, <3>1, <3>4 DEF Discipline, Current, Accepts
    <2>3. Final'
      <3> SUFFICES ASSUME NEW k \in withdrawn' PROVE keys'[k].revokedAt = Explicit
        BY DEF Final
      <3>1. CASE k \in q.selected
        <4>1. k \in withdrawn => keys[k].revokedAt = Explicit
          BY <1>0 DEF Discipline, Final
        <4>2. CASE q.kind = "role"
          BY <1>2, <3>1, <4>2 DEF KeyTime
        <4>3. CASE q.kind = "disable"
          BY <1>4, <1>10, <3>1, <4>1, <4>3, NoneIsNoRow DEF Selected
        <4>4. CASE q.kind = "enable"
          <5>1. keys[k].revokedAt = q.seen.disabledAt /\ q.seen.disabledAt # None
            BY <1>10, <3>1, <4>4 DEF Selected, Accepts
          <5>2. q.seen.disabledAt \in Stamps
            BY <5>1, <1>1, <1>10 DEF User
          <5> QED
            BY <5>1, <5>2, <1>4, <4>1, <4>4 DEF Stamps, Explicit
        <4>5. CASE q.kind = "delete"
          BY <1>10, <3>1, <4>5 DEF Selected
        <4> QED
          BY <1>1, <4>2, <4>3, <4>4, <4>5 DEF Request
      <3>2. CASE k \notin q.selected
        BY <1>0, <1>2, <1>4, <3>2 DEF Discipline, Final, TypeOK
      <3> QED
        BY <3>1, <3>2
    <2> QED
      BY <2>1, <2>2, <2>3
  <1>12. SuspensionMatches'
    <2> SUFFICES ASSUME admission # "any", NEW k \in Keys, keys'[k] # None, keys'[k].revokedAt \in Stamps
                 PROVE  users'[keys'[k].owner].disabledAt = keys'[k].revokedAt
      BY <1>4 DEF SuspensionMatches
    <2>1. CASE k \in q.selected
      <3>1. q.kind = "disable"
        BY <1>2, <2>1, NoneIsNoRow DEF KeyTime, Stamps, Explicit
      <3>2. row.disabledAt = q.now
        BY <1>1, <3>1 DEF row, Row, User
      <3> QED
        BY <1>2, <1>5, <1>1, <2>1, <3>1, <3>2 DEF KeyTime
    <2>2. CASE k \notin q.selected
      <3>1. keys'[k] = keys[k] /\ keys[k].owner \in Users /\ users[keys[k].owner].disabledAt = keys[k].revokedAt
        BY <1>0, <1>2, <2>2 DEF SuspensionMatches, TypeOK, Key
      <3>2. CASE keys[k].owner # t
        BY <1>5, <3>1, <3>2
      <3>3. CASE keys[k].owner = t
        <4>1. q.seen.disabledAt = keys[k].revokedAt /\ q.seen.disabledAt # None
          BY <1>10, <3>1, <3>3, NoneIsNoRow
        <4>2. q.kind \in {"role", "delete"}
          <5>1. q.kind # "disable"
            BY <1>10, <4>1 DEF Accepts
          <5>2. q.kind # "enable"
            BY <1>10, <2>2, <3>1, <3>3, <4>1 DEF Selected, Owned, t
          <5> QED
            BY <5>1, <5>2, <1>1 DEF Request
        <4>3. row.disabledAt = users[t].disabledAt
          BY <1>1, <4>2 DEF row, Row, User
        <4> QED
          BY <1>1, <1>5, <3>1, <3>3, <4>3
      <3> QED
        BY <3>2, <3>3
    <2> QED
      BY <2>1, <2>2
  <1>13. ASSUME admission = "serial" PROVE ActiveAdmins' # {}
    <2>1. ActiveAdmins \ {t} \subseteq ActiveAdmins'
      BY <1>5 DEF ActiveAdmins
    <2>2. CASE Counts(q.kind, q.seen, q.role)
      <3>1. ActiveAdmins \ {t} # {}
        BY <1>0, <1>1, <1>13, <1>q, <2>2, InFlightIsRequest DEF Alone, Counted, t
      <3> QED
        BY <2>1, <3>1
    <2>3. CASE ~Counts(q.kind, q.seen, q.role)
      <3>1. t \in ActiveAdmins => row.role = Admin /\ row.disabledAt = None /\ ~row.deleted
        <4> SUFFICES ASSUME users[t].role = Admin, users[t].disabledAt = None, ~users[t].deleted
                     PROVE  row.role = Admin /\ row.disabledAt = None /\ ~row.deleted
          BY DEF ActiveAdmins
        <4>1. q.seen = users[t] /\ q.kind \in {"role", "enable"}
          BY <1>1, <1>10, <1>13, <2>3 DEF Counts, Accepts, Request
        <4>2. CASE q.kind = "role"
          BY <1>1, <2>3, <4>1, <4>2 DEF row, Row, User, Counts
        <4>3. CASE q.kind = "enable"
          BY <1>1, <4>3 DEF row, Row, User
        <4> QED
          BY <4>1, <4>2, <4>3
      <3>2. t \in ActiveAdmins => t \in ActiveAdmins'
        BY <3>1, <1>1, <1>5, NoneIsNoRow DEF ActiveAdmins
      <3>3. ActiveAdmins # {}
        BY <1>0, <1>13 DEF AdminKept
      <3> QED
        BY <2>1, <3>2, <3>3
    <2> QED
      BY <2>2, <2>3
  <1>14. Alone'
    <2>1. ASSUME admission = "serial" PROVE \A s \in Requests : ~InFlight(s)'
      <3>1. InFlight(r)
        BY <1>0, <1>1, <1>q, InFlightIsRequest
      <3> QED
        BY <2>1, <3>1, <1>0, <1>3 DEF Alone
    <2> QED
      BY <2>1, <1>4 DEF Alone, Counted
  <1>15. AdminKept'
    BY <1>4, <1>13 DEF AdminKept
  <1> QED
    BY <1>6, <1>9, <1>11, <1>12, <1>14, <1>15 DEF IInv

-----------------------------------------------------------------------------
(* In every reachable state, whatever the overlap: rows, keys and requests *)
(* are well formed; and, under the overlap each part asks for, no count    *)
(* and no selection is stale when it is used.                              *)
THEOREM InductiveInvariant == Spec => []IInv
  <1>1. IInv /\ [Next]_vars => IInv'
    <2> SUFFICES ASSUME IInv, [Next]_vars PROVE IInv'
      OBVIOUS
    <2>1. CASE UNCHANGED vars
      <3>1. /\ UNCHANGED <<admission, users, keys, clock, withdrawn, sessions, req>>
        BY <2>1 DEF vars, tables
      <3>2. \A r \in Requests : InFlight(r)' = InFlight(r) /\ Selected(req[r])' = Selected(req[r])
        BY <3>1, SelectionDepends DEF InFlight, Owned
      <3>3. TypeOK' /\ Shape' /\ SuspensionMatches'
        BY <3>1 DEF IInv, TypeOK, Shape, InFlight, SuspensionMatches
      <3>4. Discipline'
        <4>1. Current => Current'
          BY <3>1, <3>2 DEF Current, Accepts
        <4> QED
          BY <3>1, <3>2, <4>1 DEF IInv, Discipline, Apart, Final
      <3>5. ActiveAdmins' = ActiveAdmins
        BY <3>1 DEF ActiveAdmins
      <3>6. Alone' /\ AdminKept'
        BY <3>1, <3>2, <3>5 DEF IInv, Alone, Counted, Counts, AdminKept
      <3> QED
        BY <3>3, <3>4, <3>6 DEF IInv
    <2>2. ASSUME NEW u \in Users, Login(u) PROVE IInv'
      BY <2>2, LoginKeeps
    <2>3. ASSUME NEW u \in Users, NEW role \in Roles, Invite(u, role) PROVE IInv'
      BY <2>3, InviteKeeps
    <2>4. ASSUME NEW u \in Users, NEW k \in Keys, NEW asked \in SUBSET Scopes, NEW role \in Roles,
                 CreateKey(u, k, asked, role)
          PROVE  IInv'
      BY <2>4, CreateKeyKeeps
    <2>5. ASSUME NEW k \in Keys, RevokeOwn(k) \/ RevokeAny(k) PROVE IInv'
      BY <2>5, RevokeKeeps DEF RevokeOwn, RevokeAny
    <2>6. ASSUME NEW r \in Requests, NEW u \in Users, NEW role \in Roles,
                 NEW kind \in {"role", "disable", "enable", "delete"}, Load(r, kind, u, role)
          PROVE  IInv'
      BY <2>6, LoadKeeps
    <2>7. ASSUME NEW r \in Requests, RefuseLastAdmin(r) \/ OthersRemain(r) \/ Update(r) \/ Commit(r)
          PROVE  IInv'
      BY <2>7, RefuseKeeps, OthersRemainKeeps, UpdateKeeps, CommitKeeps
    <2> QED
      BY <2>1, <2>2, <2>3, <2>4, <2>5, <2>6, <2>7 DEF Next
  <1> QED
    BY InitIInv, <1>1, PTL DEF Spec

(* The tables, the tokens and every request in flight are well typed.      *)
THEOREM TypeCorrect == Spec => []TypeOK
  <1>1. IInv => TypeOK
    BY DEF IInv
  <1> QED
    BY InductiveInvariant, <1>1, PTL

(* Of any number of admins, requests that come one at a time never take    *)
(* the last: the refusal in change_role and disable suffices then.         *)
THEOREM AdminStays == Spec => []AdminKept
  <1>1. IInv => AdminKept
    BY DEF IInv
  <1> QED
    BY InductiveInvariant, <1>1, PTL

(* A revoked key stays revoked through any disablings and enablings, while *)
(* requests about one user do not overlap.                                 *)
THEOREM RevokedForGood == Spec => []RevocationFinal
  <1>1. IInv => RevocationFinal
    BY NoneIsNoRow DEF IInv, Discipline, Final, RevocationFinal
  <1> QED
    BY InductiveInvariant, <1>1, PTL

(* Under the same condition enabling finds every key that disabling        *)
(* suspended.                                                              *)
THEOREM SuspensionsFound == Spec => []SuspensionMatches
  <1>1. IInv => SuspensionMatches
    BY DEF IInv
  <1> QED
    BY InductiveInvariant, <1>1, PTL

(* The commit of a new role leaves no active key beyond it, for any roles  *)
(* and scopes.                                                             *)
THEOREM DowngradeLeavesNone == Spec => DowngradeClean
  <1> DEFINE A == admission # "any" =>
                    \A u \in Users : (users[u] # None /\ users'[u].role # users[u].role) =>
                      \A k \in Keys : (keys'[k] # None /\ keys'[k].owner = u /\ keys'[k].revokedAt = None) =>
                        keys'[k].scopes \subseteq Cap[users'[u].role]
  <1>1. IInv /\ [Next]_vars => [A]_vars
    <2> SUFFICES ASSUME IInv, Next, admission # "any",
                        NEW u \in Users, users[u] # None, users'[u].role # users[u].role,
                        NEW k \in Keys, keys'[k] # None, keys'[k].owner = u, keys'[k].revokedAt = None
                 PROVE  keys'[k].scopes \subseteq Cap[users'[u].role]
      OBVIOUS
    <2>1. ASSUME NEW v \in Users, NEW role \in Roles, Invite(v, role) PROVE FALSE
      BY <2>1 DEF Invite, IInv, TypeOK
    <2>2. users' # users
      OBVIOUS
    <2>3. PICK r \in Requests : Commit(r)
      BY <2>1, <2>2 DEF Next, Login, CreateKey, RevokeOwn, RevokeAny, Revoke, Load, RefuseLastAdmin, OthersRemain, Update, tables
    <2>4. PICK q : q = req[r]
      OBVIOUS
    <2>5. /\ q \in Request /\ q.pc = "commit" /\ q.target \in Users /\ q.selected \subseteq Keys
          /\ users[q.target] \in User
          /\ users' = [users EXCEPT ![q.target] = Row(q, users[q.target])]
          /\ \A j \in Keys \ q.selected : keys'[j] = keys[j]
          /\ \A j \in q.selected : keys'[j].revokedAt = KeyTime(q)
      BY <2>3, <2>4, CommitWrites DEF IInv
    <2>6. u = q.target /\ users'[u] = Row(q, users[u])
      BY <2>5 DEF IInv, TypeOK
    <2>7. q.kind = "role" /\ users'[u].role = q.role
      <3>1. CASE q.kind = "role"
        BY <2>5, <2>6, <3>1 DEF Row, User
      <3>2. CASE q.kind \in {"disable", "enable", "delete"}
        BY <2>5, <2>6, <3>2 DEF Row, User
      <3> QED
        BY <2>5, <3>1, <3>2 DEF Request
    <2>8. q.selected = Selected(q)
      BY <2>3, <2>4, <2>5, InFlightIsRequest DEF IInv, Discipline, Current
    <2>9. k \notin q.selected
      BY <2>5, <2>7, NoneIsNoRow DEF KeyTime
    <2> QED
      BY <2>5, <2>6, <2>7, <2>8, <2>9 DEF Selected, Owned, OverScoped
  <1> QED
    BY InductiveInvariant, <1>1, PTL DEF Spec, DowngradeClean

-----------------------------------------------------------------------------
(* The refinement: commits are the steps of AtomicLifecycle.               *)
LEMMA NothingSeen ==
  ASSUME UNCHANGED <<admission, users, keys, sessions>>
  PROVE  UNCHANGED Atomic!vars
  <1>1. Accounts' = Accounts
    BY DEF Accounts, AccountOf
  <1>2. KeysSeen' = KeysSeen
    BY DEF KeysSeen, KeyOf, Standing
  <1> QED
    BY <1>1, <1>2 DEF Atomic!vars

LEMMA InitAtomic == Init => Atomic!Init
  <1> SUFFICES ASSUME Init PROVE Atomic!Init
    OBVIOUS
  <1> DEFINE Fresh == [role |-> Admin, isActive |-> TRUE, disabledAt |-> None, deleted |-> FALSE]
  <1>1. PICK first \in Users, joined \in SUBSET Users :
          users = [u \in Users |-> IF u = first THEN Fresh ELSE IF u \in joined THEN Fresh ELSE None]
    BY DEF Init
  <1>2. Fresh # None /\ AccountOf(Fresh) = Atomic!Founder
    <2>1. Fresh \in User
      BY RolesAssumption DEF User
    <2> QED
      BY <2>1, NoneIsNoRow DEF AccountOf, Atomic!Founder
  <1> HIDE DEF Fresh
  <1>3. {v \in Users : users[v] # None} = {first} \cup joined
    BY <1>1, <1>2
  <1>4. Accounts = [u \in {first} \cup joined |-> Atomic!Founder]
    BY <1>1, <1>2, <1>3 DEF Accounts
  <1>5. KeysSeen = [k \in {} |-> {}]
    BY DEF Init, KeysSeen
  <1> QED
    BY <1>4, <1>5 DEF Init, Atomic!Init

LEMMA AccountsAre ==
  /\ DOMAIN Accounts = {u \in Users : users[u] # None}
  /\ \A u \in Users : users[u] # None =>
       /\ Accounts[u] = AccountOf(users[u])
       /\ Accounts[u].role = users[u].role /\ Accounts[u].active = users[u].isActive
       /\ Accounts[u].disabled = (users[u].disabledAt # None)
       /\ Accounts[u].deleted = users[u].deleted
  BY DEF Accounts, AccountOf

LEMMA KeysAre ==
  /\ DOMAIN KeysSeen = {k \in Keys : keys[k] # None}
  /\ \A k \in Keys : keys[k] # None =>
       /\ KeysSeen[k] = KeyOf(keys[k])
       /\ KeysSeen[k].owner = keys[k].owner /\ KeysSeen[k].scopes = keys[k].scopes
       /\ KeysSeen[k].state = Standing(keys[k])
  BY DEF KeysSeen, KeyOf

LEMMA LoginAtomic ==
  ASSUME NEW u \in Users, Login(u)
  PROVE  Atomic!Login(u)
  <1> USE DEF Login, tables
  <1>1. Accounts' = Accounts
    BY DEF Accounts, AccountOf
  <1>2. KeysSeen' = KeysSeen
    BY DEF KeysSeen, KeyOf, Standing
  <1> QED
    BY <1>1, <1>2, AccountsAre DEF Atomic!Login

LEMMA InviteAtomic ==
  ASSUME IInv, NEW u \in Users, NEW role \in Roles, Invite(u, role)
  PROVE  Atomic!Invite(u, role)
  <1> DEFINE row == [role |-> role, isActive |-> FALSE, disabledAt |-> None, deleted |-> FALSE]
  <1> USE DEF Invite
  <1>1. row # None /\ AccountOf(row) = Atomic!Invited(role)
    <2>1. row \in User
      BY DEF User
    <2> QED
      BY <2>1, NoneIsNoRow DEF AccountOf, Atomic!Invited
  <1>2. users' = [users EXCEPT ![u] = row] /\ users[u] = None
    OBVIOUS
  <1> HIDE DEF row
  <1>3. users'[u] = row /\ \A v \in Users \ {u} : users'[v] = users[v]
    BY <1>2 DEF IInv, TypeOK
  <1>4. {v \in Users : users'[v] # None} = {v \in Users : users[v] # None} \cup {u}
    BY <1>1, <1>3
  <1>5. Accounts' = Atomic!With(Accounts, u, Atomic!Invited(role))
    BY <1>1, <1>2, <1>3, <1>4 DEF Accounts, AccountOf, Atomic!With
  <1>6. \A k \in Keys : keys[k] # None => users'[keys[k].owner] = users[keys[k].owner]
    BY <1>2, <1>3 DEF IInv, TypeOK, Shape, Key
  <1>7. KeysSeen' = KeysSeen
    BY <1>6 DEF KeysSeen, KeyOf, Standing
  <1> QED
    BY <1>2, <1>5, <1>7, AccountsAre DEF HoldsToken, Atomic!Invite, Atomic!LoggedIn

LEMMA CreateKeyAtomic ==
  ASSUME IInv, NEW u \in Users, NEW k \in Keys, NEW asked \in SUBSET Scopes, NEW role \in Roles,
         CreateKey(u, k, asked, role)
  PROVE  /\ Granted(asked, role) \in SUBSET Cap[role]
         /\ Atomic!CreateKey(u, k, Granted(asked, role), role)
  <1> DEFINE row == [owner |-> u, scopes |-> Granted(asked, role), revokedAt |-> None]
  <1> USE DEF CreateKey
  <1>1. row # None /\ users[u] # None
    <2>1. Granted(asked, role) \in (SUBSET Scopes) \ {{}}
      BY RolesAssumption DEF Granted, MayGrant
    <2>2. row \in Key
      BY <2>1 DEF Key
    <2> QED
      BY <2>2, NoneIsNoRow DEF IInv, Shape
  <1>2. keys' = [keys EXCEPT ![k] = row] /\ keys[k] = None /\ UNCHANGED users
    OBVIOUS
  <1>3. row.revokedAt = None /\ row.owner = u /\ row.scopes = Granted(asked, role)
    OBVIOUS
  <1> HIDE DEF row
  <1>4. keys'[k] = row /\ \A j \in Keys \ {k} : keys'[j] = keys[j]
    BY <1>2 DEF IInv, TypeOK
  <1>5. {j \in Keys : keys'[j] # None} = {j \in Keys : keys[j] # None} \cup {k}
    BY <1>1, <1>4
  <1>6. KeyOf(row)' = [owner |-> u, scopes |-> Granted(asked, role), state |-> "active"]
    BY <1>3 DEF KeyOf, Standing, row
  <1>7. \A j \in Keys \ {k} : KeyOf(keys[j])' = KeyOf(keys[j])
    BY <1>2, <1>4 DEF KeyOf, Standing
  <1>8. KeysSeen' = Atomic!With(KeysSeen, k, [owner |-> u, scopes |-> Granted(asked, role), state |-> "active"])
    <2>1. KeysSeen' = [j \in {i \in Keys : keys'[i] # None} |-> IF j = k THEN KeyOf(row)' ELSE KeyOf(keys[j])]
      BY <1>4, <1>7 DEF KeysSeen
    <2> QED
      BY <2>1, <1>2, <1>5, <1>6 DEF Atomic!With, KeysSeen
  <1>9. Accounts' = Accounts
    BY <1>2 DEF Accounts, AccountOf
  <1> QED
    BY <1>2, <1>8, <1>9, KeysAre DEF Granted, MayGrant, Atomic!CreateKey

(* Keys of which one state is overwritten. *)
LEMMA Rewritten ==
  ASSUME NEW S, NEW state,
         \A k \in Keys : keys'[k] # None <=> keys[k] # None,
         \A k \in Keys : keys[k] # None =>
           /\ keys'[k].owner = keys[k].owner /\ keys'[k].scopes = keys[k].scopes
           /\ Standing(keys[k])' = IF k \in S THEN state ELSE Standing(keys[k])
  PROVE  KeysSeen' = Atomic!Becoming(S, state)
  <1>1. {j \in Keys : keys'[j] # None} = {j \in Keys : keys[j] # None}
    OBVIOUS
  <1>2. \A k \in Keys : keys[k] # None =>
          KeyOf(keys[k])' = IF k \in S THEN [KeyOf(keys[k]) EXCEPT !.state = state] ELSE KeyOf(keys[k])
    BY DEF KeyOf
  <1> QED
    BY <1>1, <1>2 DEF KeysSeen, Atomic!Becoming

LEMMA RevokeAtomic ==
  ASSUME IInv, NEW k \in Keys, RevokeOwn(k) \/ RevokeAny(k)
  PROVE  Atomic!Revoke(k)
  <1> DEFINE row == [keys[k] EXCEPT !.revokedAt = Explicit]
  <1>1. /\ keys[k] # None /\ keys' = [keys EXCEPT ![k] = row]
        /\ UNCHANGED <<admission, users, sessions>>
        /\ sessions[keys[k].owner] # {} \/ HoldsToken({Admin})
    BY DEF RevokeOwn, RevokeAny, Revoke, Revocable
  <1>2. keys[k] \in Key /\ users[keys[k].owner] \in User
    BY <1>1 DEF IInv, TypeOK, Shape, Key
  <1>3. row \in Key /\ row.owner = keys[k].owner /\ row.scopes = keys[k].scopes /\ row.revokedAt = Explicit
    BY <1>2 DEF Key
  <1> HIDE DEF row
  <1>4. keys'[k] = row /\ \A j \in Keys \ {k} : keys'[j] = keys[j]
    BY <1>1 DEF IInv, TypeOK
  <1>5. Standing(keys[k])' = "revoked"
    BY <1>1, <1>2, <1>3, <1>4, NoneIsNoRow DEF Standing, User, Stamps, Explicit
  <1>6. \A j \in Keys : keys[j] # None =>
          /\ keys'[j].owner = keys[j].owner /\ keys'[j].scopes = keys[j].scopes
          /\ Standing(keys[j])' = IF j \in {k} THEN "revoked" ELSE Standing(keys[j])
    BY <1>1, <1>3, <1>4, <1>5 DEF Standing
  <1>7. \A j \in Keys : keys'[j] # None <=> keys[j] # None
    BY <1>1, <1>3, <1>4, NoneIsNoRow
  <1>8. KeysSeen' = Atomic!Becoming({k}, "revoked")
    BY <1>6, <1>7, Rewritten
  <1>9. Accounts' = Accounts
    BY <1>1 DEF Accounts, AccountOf
  <1> QED
    BY <1>1, <1>8, <1>9, KeysAre DEF HoldsToken, Atomic!Revoke, Atomic!LoggedIn

(* An admin is logged in while a request is in flight: tokens keep the     *)
(* roles they name.                                                        *)
Authorised == \A r \in Requests : InFlight(r) => HoldsToken({Admin})

LEMMA AlwaysAuthorised == Spec => []Authorised
  <1>1. Init => Authorised
    BY DEF Init, Authorised, InFlight
  <1>2. TypeOK /\ Authorised /\ [Next]_vars => Authorised'
    <2> SUFFICES ASSUME TypeOK, Authorised, [Next]_vars, NEW r \in Requests, InFlight(r)'
                 PROVE  HoldsToken({Admin})'
      BY DEF Authorised
    <2>1. \A u \in Users : sessions[u] \subseteq sessions'[u]
      BY DEF Next, vars, tables, Login, Invite, CreateKey, RevokeOwn, RevokeAny, Revoke, Load,
             RefuseLastAdmin, OthersRemain, Update, Commit, TypeOK
    <2>2. HoldsToken({Admin}) => HoldsToken({Admin})'
      BY <2>1 DEF HoldsToken
    <2>3. CASE InFlight(r)
      BY <2>2, <2>3 DEF Authorised
    <2>4. CASE ~InFlight(r)
      <3>1. req'[r] # req[r]
        BY <2>4 DEF InFlight
      <3>2. ASSUME NEW s \in Requests, RefuseLastAdmin(s) \/ OthersRemain(s) \/ Update(s) \/ Commit(s)
            PROVE  HoldsToken({Admin})
        <4>1. req[s].pc \in {"count", "update", "commit"} /\ InFlight(s)
          BY <3>2, InFlightIsRequest DEF RefuseLastAdmin, OthersRemain, Update, Commit
        <4> QED
          BY <4>1 DEF Authorised
      <3>3. HoldsToken({Admin})
        BY <3>1, <3>2 DEF Next, vars, tables, Login, Invite, CreateKey, RevokeOwn, RevokeAny, Revoke, Load
      <3> QED
        BY <2>2, <3>3
    <2> QED
      BY <2>3, <2>4
  <1> QED
    BY <1>1, <1>2, TypeCorrect, PTL DEF Spec

(* What a commit does, when requests about its user do not overlap with it *)
(* : it writes the row it has read, and the keys it selects are those that *)
(* would be selected now.                                                  *)
LEMMA CommitSees ==
  ASSUME IInv, admission # "any", NEW r \in Requests, NEW q, q = req[r], Commit(r)
  PROVE  /\ q \in Request /\ q.target \in Users /\ users[q.target] \in User
         /\ q.seen = users[q.target] /\ Accepts(q.kind, users[q.target]) /\ q.selected = Selected(q)
         /\ q.kind = "disable" => q.now \in Stamps
         /\ users' = [users EXCEPT ![q.target] = Row(q, users[q.target])]
         /\ users'[q.target] = Row(q, users[q.target]) /\ Row(q, users[q.target]) \in User
         /\ \A v \in Users \ {q.target} : users'[v] = users[v]
         /\ \A k \in Keys \ q.selected : keys'[k] = keys[k]
         /\ \A k \in Keys : keys'[k] # None <=> keys[k] # None
         /\ \A k \in Keys : keys[k] # None => /\ keys'[k].owner = keys[k].owner /\ keys'[k].scopes = keys[k].scopes
                                              /\ keys[k] \in Key
         /\ \A k \in q.selected : k \in Keys /\ keys[k] # None /\ keys[k].owner = q.target /\ keys'[k].revokedAt = KeyTime(q)
         /\ UNCHANGED <<admission, sessions>>
  <1>0. TypeOK /\ Shape /\ Discipline
    BY DEF IInv
  <1>1. /\ q \in Request /\ q.pc = "commit" /\ q.target \in Users /\ q.selected \subseteq Keys
        /\ users[q.target] \in User /\ Row(q, users[q.target]) \in User
        /\ users' = [users EXCEPT ![q.target] = Row(q, users[q.target])]
        /\ \A k \in Keys \ q.selected : keys'[k] = keys[k]
        /\ \A k \in q.selected :
             /\ keys[k] \in Key /\ keys[k].owner = q.target /\ keys'[k] \in Key
             /\ keys'[k].owner = q.target /\ keys'[k].scopes = keys[k].scopes
             /\ keys'[k].revokedAt = KeyTime(q)
    BY <1>0, CommitWrites
  <1>2. InFlight(r)
    BY <1>0, <1>1, InFlightIsRequest
  <1>3. q.seen = users[q.target] /\ Accepts(q.kind, users[q.target]) /\ q.selected = Selected(q)
    BY <1>0, <1>1, <1>2 DEF Discipline, Current
  <1>4. q.kind = "disable" => q.now \in Stamps
    BY <1>0, <1>1, <1>2 DEF Shape
  <1>5. users'[q.target] = Row(q, users[q.target]) /\ \A v \in Users \ {q.target} : users'[v] = users[v]
    BY <1>0, <1>1 DEF TypeOK
  <1>6. \A k \in Keys : keys'[k] # None <=> keys[k] # None
    BY <1>1, NoneIsNoRow
  <1>7. \A k \in Keys : keys[k] # None =>
          keys'[k].owner = keys[k].owner /\ keys'[k].scopes = keys[k].scopes /\ keys[k] \in Key
    BY <1>0, <1>1 DEF TypeOK
  <1>8. \A k \in q.selected : k \in Keys /\ keys[k] # None
    BY <1>1, NoneIsNoRow
  <1>9. UNCHANGED <<admission, sessions>>
    BY DEF Commit
  <1> QED
    BY <1>1, <1>3, <1>4, <1>5, <1>6, <1>7, <1>8, <1>9

(* The fields of an account a request sets. *)
Account == [role : Roles, active : BOOLEAN, disabled : BOOLEAN, deleted : BOOLEAN]

LEMMA FieldsSet ==
  ASSUME NEW x \in Account
  PROVE  /\ [x EXCEPT !.disabled = TRUE, !.active = FALSE] =
              [role |-> x.role, active |-> FALSE, disabled |-> TRUE, deleted |-> x.deleted]
         /\ [x EXCEPT !.disabled = FALSE, !.active = TRUE] =
              [role |-> x.role, active |-> TRUE, disabled |-> FALSE, deleted |-> x.deleted]
         /\ [x EXCEPT !.deleted = TRUE] =
              [role |-> x.role, active |-> x.active, disabled |-> x.disabled, deleted |-> TRUE]
  <1>0. \A y \in Account : y = [role |-> y.role, active |-> y.active, disabled |-> y.disabled, deleted |-> y.deleted]
    BY DEF Account
  <1>1. ASSUME NEW y, y = [x EXCEPT !.disabled = TRUE, !.active = FALSE]
        PROVE  y = [role |-> x.role, active |-> FALSE, disabled |-> TRUE, deleted |-> x.deleted]
    <2>1. y \in Account /\ y.role = x.role /\ y.deleted = x.deleted /\ y.active = FALSE /\ y.disabled = TRUE
      BY <1>1 DEF Account
    <2> QED
      BY <2>1, <1>0, Zenon
  <1>2. ASSUME NEW y, y = [x EXCEPT !.disabled = FALSE, !.active = TRUE]
        PROVE  y = [role |-> x.role, active |-> TRUE, disabled |-> FALSE, deleted |-> x.deleted]
    <2>1. y \in Account /\ y.role = x.role /\ y.deleted = x.deleted /\ y.active = TRUE /\ y.disabled = FALSE
      BY <1>2 DEF Account
    <2> QED
      BY <2>1, <1>0, Zenon
  <1>3. ASSUME NEW y, y = [x EXCEPT !.deleted = TRUE]
        PROVE  y = [role |-> x.role, active |-> x.active, disabled |-> x.disabled, deleted |-> TRUE]
    <2>1. y \in Account /\ y.role = x.role /\ y.deleted = TRUE /\ y.active = x.active /\ y.disabled = x.disabled
      BY <1>3 DEF Account
    <2> QED
      BY <2>1, <1>0, Zenon
  <1> QED
    BY <1>1, <1>2, <1>3, Zenon

LEMMA AccountTyped ==
  ASSUME NEW user \in User
  PROVE  /\ AccountOf(user) \in Account
         /\ AccountOf(user).role = user.role /\ AccountOf(user).active = user.isActive
         /\ AccountOf(user).disabled = (user.disabledAt # None) /\ AccountOf(user).deleted = user.deleted
  BY DEF AccountOf, Account, User

(* The row of one user is overwritten. *)
LEMMA OneAccount ==
  ASSUME NEW t \in Users, users[t] # None, users'[t] # None,
         \A v \in Users \ {t} : users'[v] = users[v]
  PROVE  Accounts' = [Accounts EXCEPT ![t] = AccountOf(users'[t])]
  <1>1. {v \in Users : users'[v] # None} = {v \in Users : users[v] # None}
    OBVIOUS
  <1>2. AccountOf(users[t])' = AccountOf(users'[t])
    BY DEF AccountOf
  <1>3. \A v \in Users \ {t} : AccountOf(users[v])' = AccountOf(users[v])
    BY DEF AccountOf
  <1> QED
    BY <1>1, <1>2, <1>3 DEF Accounts

(* The one other admin that was counted is one of the accounts. *)
LEMMA CountedIsThere ==
  ASSUME IInv, NEW r \in Requests, NEW q, q = req[r], InFlight(r), q.pc # "count",
         Counts(q.kind, q.seen, q.role)
  PROVE  Atomic!Dispensable(q.target)
  <1> SUFFICES ASSUME admission = "serial"
               PROVE  \E v \in DOMAIN Accounts \ {q.target} :
                        Accounts[v].role = Admin /\ ~Accounts[v].disabled /\ ~Accounts[v].deleted
    BY DEF Atomic!Dispensable
  <1>1. PICK v \in ActiveAdmins : v # q.target
    BY DEF IInv, Alone, Counted
  <1> QED
    BY <1>1, AccountsAre DEF ActiveAdmins

(* The commit of each kind of request is the step of its name. *)
LEMMA RoleAtomic ==
  ASSUME IInv, Authorised, admission # "any", NEW r \in Requests, NEW q, q = req[r], Commit(r), q.kind = "role"
  PROVE  Atomic!ChangeRole(q.target, q.role)
  <1> DEFINE t == q.target
             chosen == {k \in Atomic!KeysOf(t, "active") : ~(KeysSeen[k].scopes \subseteq Cap[q.role])}
  <1>1. /\ q \in Request /\ t \in Users /\ users[t] \in User /\ q.seen = users[t] /\ q.selected = Selected(q)
        /\ users'[t] = Row(q, users[t]) /\ \A v \in Users \ {t} : users'[v] = users[v]
        /\ UNCHANGED <<admission, sessions>>
    BY CommitSees
  <1>2. users[t] # None /\ users'[t] # None
    BY <1>1, CommitSees, NoneIsNoRow
  <1>3. /\ users'[t].disabledAt = users[t].disabledAt
        /\ AccountOf(users'[t]) = [AccountOf(users[t]) EXCEPT !.role = q.role]
    <2>1. users'[t] = [users[t] EXCEPT !.role = q.role]
      BY <1>1 DEF Row, User
    <2> QED
      BY <1>1, <2>1 DEF User, AccountOf
  <1>4. Accounts' = [Accounts EXCEPT ![t].role = q.role]
    <2>1. Accounts' = [Accounts EXCEPT ![t] = AccountOf(users'[t])]
      BY <1>1, <1>2, OneAccount
    <2>2. Accounts[t] = AccountOf(users[t])
      BY <1>1, <1>2, AccountsAre
    <2> QED
      BY <1>3, <2>1, <2>2
  <1>5. \A k \in Keys : k \in chosen <=> k \in q.selected
    <2>1. \A k \in Keys : k \in q.selected <=>
            keys[k] # None /\ keys[k].owner = t /\ keys[k].revokedAt = None /\ OverScoped(k, q.role)
      BY <1>1 DEF Selected, Owned
    <2>2. \A k \in Keys : keys[k] # None => (Standing(keys[k]) = "active" <=> keys[k].revokedAt = None)
      BY DEF Standing
    <2> QED
      BY <2>1, <2>2, KeysAre DEF Atomic!KeysOf, OverScoped
  <1>6. KeysSeen' = Atomic!Becoming(chosen, "revoked")
    <2>1. \A k \in Keys : keys'[k] # None <=> keys[k] # None
      BY CommitSees
    <2>2. ASSUME NEW k \in Keys, keys[k] # None
          PROVE  /\ keys'[k].owner = keys[k].owner /\ keys'[k].scopes = keys[k].scopes
                 /\ Standing(keys[k])' = IF k \in chosen THEN "revoked" ELSE Standing(keys[k])
      <3>1. keys'[k].owner = keys[k].owner /\ keys'[k].scopes = keys[k].scopes /\ keys[k] \in Key
        BY <2>2, CommitSees
      <3>2. users'[keys[k].owner].disabledAt = users[keys[k].owner].disabledAt
        BY <1>1, <1>3, <3>1 DEF Key
      <3>3. CASE k \in q.selected
        <4>1. keys'[k].revokedAt = Explicit /\ keys[k].owner = t
          BY <3>3, CommitSees DEF KeyTime
        <4>2. Standing(keys[k])' = "revoked"
          BY <1>1, <3>1, <3>2, <4>1, NoneIsNoRow DEF Standing, User, Stamps, Explicit
        <4> QED
          BY <1>5, <3>1, <3>3, <4>2
      <3>4. CASE k \notin q.selected
        <4>1. keys'[k] = keys[k]
          BY <3>4, CommitSees
        <4>2. Standing(keys[k])' = Standing(keys[k])
          BY <3>2, <4>1 DEF Standing
        <4> QED
          BY <1>5, <3>1, <3>4, <4>2
      <3> QED
        BY <3>3, <3>4
    <2> HIDE DEF chosen
    <2> QED
      BY <2>1, <2>2, Rewritten
  <1>7. InFlight(r) /\ q.pc # "count"
    BY InFlightIsRequest DEF IInv, Commit
  <1>8. Atomic!LoggedIn({Admin})
    BY <1>7 DEF Authorised, HoldsToken, Atomic!LoggedIn
  <1>9. Accounts[t].role = Admin /\ q.role # Admin => Atomic!Dispensable(t)
    <2>1. Accounts[t].role = users[t].role
      BY <1>1, <1>2, AccountsAre
    <2> QED
      BY <1>1, <1>7, <2>1, CountedIsThere DEF Counts
  <1> QED
    BY <1>1, <1>2, <1>4, <1>6, <1>8, <1>9, AccountsAre DEF Atomic!ChangeRole

LEMMA DisableAtomic ==
  ASSUME IInv, Authorised, admission # "any", NEW r \in Requests, NEW q, q = req[r], Commit(r), q.kind = "disable"
  PROVE  Atomic!Disable(q.target)
  <1> DEFINE t == q.target
             chosen == Atomic!KeysOf(t, "active")
  <1>1. /\ q \in Request /\ t \in Users /\ users[t] \in User /\ q.seen = users[t] /\ q.selected = Selected(q)
        /\ users'[t] = Row(q, users[t]) /\ \A v \in Users \ {t} : users'[v] = users[v]
        /\ q.now \in Stamps /\ users[t].disabledAt = None
        /\ UNCHANGED <<admission, sessions>>
    BY CommitSees DEF Accepts
  <1>2. users[t] # None /\ users'[t] # None
    BY <1>1, CommitSees, NoneIsNoRow
  <1>3. /\ users'[t].disabledAt = q.now
        /\ AccountOf(users'[t]) = [AccountOf(users[t]) EXCEPT !.disabled = TRUE, !.active = FALSE]
    <2>1. users'[t] = [users[t] EXCEPT !.disabledAt = q.now, !.isActive = FALSE]
      BY <1>1 DEF Row, User
    <2>2. q.now # None
      BY <1>1, NoneIsNoRow
    <2>3. /\ users'[t].role = users[t].role /\ users'[t].isActive = FALSE
          /\ users'[t].disabledAt = q.now /\ users'[t].deleted = users[t].deleted
      BY <1>1, <2>1 DEF User
    <2>4. AccountOf(users'[t]) = [role |-> users[t].role, active |-> FALSE, disabled |-> TRUE, deleted |-> users[t].deleted]
      BY <2>2, <2>3, Zenon DEF AccountOf
    <2>5. AccountOf(users'[t]) =
            [role |-> AccountOf(users[t]).role, active |-> FALSE, disabled |-> TRUE, deleted |-> AccountOf(users[t]).deleted]
      BY <1>1, <2>4, AccountTyped, Zenon
    <2> QED
      BY <1>1, <2>3, <2>5, AccountTyped, FieldsSet, Zenon
  <1>4. Accounts' = [Accounts EXCEPT ![t].disabled = TRUE, ![t].active = FALSE]
    <2>1. Accounts' = [Accounts EXCEPT ![t] = AccountOf(users'[t])]
      BY <1>1, <1>2, OneAccount
    <2>2. Accounts[t] = AccountOf(users[t])
      BY <1>1, <1>2, AccountsAre
    <2> QED
      BY <1>3, <2>1, <2>2
  <1>5. \A k \in Keys : k \in chosen <=> k \in q.selected
    <2>1. \A k \in Keys : k \in q.selected <=> keys[k] # None /\ keys[k].owner = t /\ keys[k].revokedAt = None
      BY <1>1 DEF Selected, Owned
    <2>2. \A k \in Keys : keys[k] # None => (Standing(keys[k]) = "active" <=> keys[k].revokedAt = None)
      BY DEF Standing
    <2> QED
      BY <2>1, <2>2, KeysAre DEF Atomic!KeysOf
  <1>6. KeysSeen' = Atomic!Becoming(chosen, "suspended")
    <2>1. \A k \in Keys : keys'[k] # None <=> keys[k] # None
      BY CommitSees
    <2>2. ASSUME NEW k \in Keys, keys[k] # None
          PROVE  /\ keys'[k].owner = keys[k].owner /\ keys'[k].scopes = keys[k].scopes
                 /\ Standing(keys[k])' = IF k \in chosen THEN "suspended" ELSE Standing(keys[k])
      <3>1. keys'[k].owner = keys[k].owner /\ keys'[k].scopes = keys[k].scopes /\ keys[k] \in Key
        BY <2>2, CommitSees
      <3>2. CASE k \in q.selected
        <4>1. keys'[k].revokedAt = q.now /\ keys[k].owner = t
          BY <3>2, CommitSees DEF KeyTime
        <4>2. Standing(keys[k])' = "suspended"
          BY <1>1, <1>3, <3>1, <4>1, NoneIsNoRow DEF Standing
        <4> QED
          BY <1>5, <3>1, <3>2, <4>2
      <3>3. CASE k \notin q.selected
        <4>1. keys'[k] = keys[k]
          BY <3>3, CommitSees
        <4>2. CASE keys[k].owner # t
          <5>1. users'[keys[k].owner] = users[keys[k].owner]
            BY <1>1, <3>1, <4>2 DEF Key
          <5>2. Standing(keys[k])' = Standing(keys[k])
            BY <4>1, <5>1 DEF Standing
          <5> QED
            BY <1>5, <3>1, <3>3, <5>2
        <4>3. CASE keys[k].owner = t
          <5>1. keys[k].revokedAt # None
            BY <1>1, <2>2, <3>3, <4>3 DEF Selected, Owned
          <5>2. keys[k].revokedAt \notin Stamps
            BY <1>1, <2>2, <4>3, NoneIsNoRow DEF IInv, SuspensionMatches
          <5>3. Standing(keys[k])' = "revoked" /\ Standing(keys[k]) = "revoked"
            BY <1>1, <1>3, <4>1, <4>3, <5>1, <5>2 DEF Standing
          <5> QED
            BY <1>5, <3>1, <3>3, <5>3
        <4> QED
          BY <4>2, <4>3
      <3> QED
        BY <3>2, <3>3
    <2> HIDE DEF chosen
    <2> QED
      BY <2>1, <2>2, Rewritten
  <1>7. InFlight(r) /\ q.pc # "count"
    BY InFlightIsRequest DEF IInv, Commit
  <1>8. Atomic!LoggedIn({Admin})
    BY <1>7 DEF Authorised, HoldsToken, Atomic!LoggedIn
  <1>9. Accounts[t].role = Admin => Atomic!Dispensable(t)
    <2>1. Accounts[t].role = users[t].role
      BY <1>1, <1>2, AccountsAre
    <2> QED
      BY <1>1, <1>7, <2>1, CountedIsThere DEF Counts
  <1> QED
    BY <1>1, <1>2, <1>4, <1>6, <1>8, <1>9, AccountsAre DEF Atomic!Disable

LEMMA EnableAtomic ==
  ASSUME IInv, Authorised, admission # "any", NEW r \in Requests, NEW q, q = req[r], Commit(r), q.kind = "enable"
  PROVE  Atomic!Enable(q.target)
  <1> DEFINE t == q.target
             chosen == Atomic!KeysOf(t, "suspended")
  <1>1. /\ q \in Request /\ t \in Users /\ users[t] \in User /\ q.seen = users[t] /\ q.selected = Selected(q)
        /\ users'[t] = Row(q, users[t]) /\ \A v \in Users \ {t} : users'[v] = users[v]
        /\ users[t].disabledAt # None
        /\ UNCHANGED <<admission, sessions>>
    BY CommitSees DEF Accepts
  <1>2. users[t] # None /\ users'[t] # None
    BY <1>1, CommitSees, NoneIsNoRow
  <1>3. /\ users'[t].disabledAt = None
        /\ AccountOf(users'[t]) = [AccountOf(users[t]) EXCEPT !.disabled = FALSE, !.active = TRUE]
    <2>1. users'[t] = [users[t] EXCEPT !.disabledAt = None, !.isActive = TRUE]
      BY <1>1 DEF Row, User
    <2>2. /\ users'[t].role = users[t].role /\ users'[t].isActive = TRUE
          /\ users'[t].disabledAt = None /\ users'[t].deleted = users[t].deleted
      BY <1>1, <2>1 DEF User
    <2>3. AccountOf(users'[t]) = [role |-> users[t].role, active |-> TRUE, disabled |-> FALSE, deleted |-> users[t].deleted]
      BY <2>2, Zenon DEF AccountOf
    <2>4. AccountOf(users'[t]) =
            [role |-> AccountOf(users[t]).role, active |-> TRUE, disabled |-> FALSE, deleted |-> AccountOf(users[t]).deleted]
      BY <1>1, <2>3, AccountTyped, Zenon
    <2> QED
      BY <1>1, <2>2, <2>4, AccountTyped, FieldsSet, Zenon
  <1>4. Accounts' = [Accounts EXCEPT ![t].disabled = FALSE, ![t].active = TRUE]
    <2>1. Accounts' = [Accounts EXCEPT ![t] = AccountOf(users'[t])]
      BY <1>1, <1>2, OneAccount
    <2>2. Accounts[t] = AccountOf(users[t])
      BY <1>1, <1>2, AccountsAre
    <2> QED
      BY <1>3, <2>1, <2>2
  <1>5. \A k \in Keys : k \in chosen <=> k \in q.selected
    <2>1. \A k \in Keys : k \in q.selected <=>
            keys[k] # None /\ keys[k].owner = t /\ keys[k].revokedAt = users[t].disabledAt
      BY <1>1 DEF Selected, Owned
    <2>2. \A k \in Keys : keys[k] # None =>
            (Standing(keys[k]) = "suspended"
               <=> keys[k].revokedAt # None /\ keys[k].revokedAt = users[keys[k].owner].disabledAt)
      BY DEF Standing
    <2> QED
      BY <1>1, <2>1, <2>2, KeysAre DEF Atomic!KeysOf
  <1>6. KeysSeen' = Atomic!Becoming(chosen, "active")
    <2>1. \A k \in Keys : keys'[k] # None <=> keys[k] # None
      BY CommitSees
    <2>2. ASSUME NEW k \in Keys, keys[k] # None
          PROVE  /\ keys'[k].owner = keys[k].owner /\ keys'[k].scopes = keys[k].scopes
                 /\ Standing(keys[k])' = IF k \in chosen THEN "active" ELSE Standing(keys[k])
      <3>1. keys'[k].owner = keys[k].owner /\ keys'[k].scopes = keys[k].scopes /\ keys[k] \in Key
        BY <2>2, CommitSees
      <3>2. CASE k \in q.selected
        <4>1. keys'[k].revokedAt = None
          BY <3>2, CommitSees DEF KeyTime
        <4>2. Standing(keys[k])' = "active"
          BY <4>1 DEF Standing
        <4> QED
          BY <1>5, <3>1, <3>2, <4>2
      <3>3. CASE k \notin q.selected
        <4>1. keys'[k] = keys[k]
          BY <3>3, CommitSees
        <4>2. CASE keys[k].owner # t
          <5>1. users'[keys[k].owner] = users[keys[k].owner]
            BY <1>1, <3>1, <4>2 DEF Key
          <5>2. Standing(keys[k])' = Standing(keys[k])
            BY <4>1, <5>1 DEF Standing
          <5> QED
            BY <1>5, <3>1, <3>3, <5>2
        <4>3. CASE keys[k].owner = t
          <5>1. keys[k].revokedAt # users[t].disabledAt
            BY <1>1, <2>2, <3>3, <4>3 DEF Selected, Owned
          <5>2. Standing(keys[k])' = Standing(keys[k])
            BY <1>3, <4>1, <4>3, <5>1 DEF Standing
          <5> QED
            BY <1>5, <3>1, <3>3, <5>2
        <4> QED
          BY <4>2, <4>3
      <3> QED
        BY <3>2, <3>3
    <2> HIDE DEF chosen
    <2> QED
      BY <2>1, <2>2, Rewritten
  <1>7. Atomic!LoggedIn({Admin})
    <2>1. InFlight(r)
      BY InFlightIsRequest DEF IInv, Commit
    <2> QED
      BY <2>1 DEF Authorised, HoldsToken, Atomic!LoggedIn
  <1>8. t \in DOMAIN Accounts /\ Accounts[t].disabled
    BY <1>1, <1>2, AccountsAre
  <1> QED
    BY <1>1, <1>4, <1>6, <1>7, <1>8 DEF Atomic!Enable

LEMMA DeleteAtomic ==
  ASSUME IInv, Authorised, admission # "any", NEW r \in Requests, NEW q, q = req[r], Commit(r), q.kind = "delete"
  PROVE  Atomic!Delete(q.target)
  <1> DEFINE t == q.target
  <1>1. /\ q \in Request /\ t \in Users /\ users[t] \in User /\ q.selected = {}
        /\ users'[t] = Row(q, users[t]) /\ \A v \in Users \ {t} : users'[v] = users[v]
        /\ users[t].disabledAt # None /\ ~users[t].deleted
        /\ UNCHANGED <<admission, sessions>>
    BY CommitSees DEF Accepts, Selected
  <1>2. users[t] # None /\ users'[t] # None
    BY <1>1, CommitSees, NoneIsNoRow
  <1>3. /\ users'[t].disabledAt = users[t].disabledAt
        /\ AccountOf(users'[t]) = [AccountOf(users[t]) EXCEPT !.deleted = TRUE]
    <2>1. users'[t] = [users[t] EXCEPT !.deleted = TRUE]
      BY <1>1 DEF Row, User
    <2>2. /\ users'[t].role = users[t].role /\ users'[t].isActive = users[t].isActive
          /\ users'[t].disabledAt = users[t].disabledAt /\ users'[t].deleted = TRUE
      BY <1>1, <2>1 DEF User
    <2>3. AccountOf(users'[t]) =
            [role |-> users[t].role, active |-> users[t].isActive, disabled |-> users[t].disabledAt # None, deleted |-> TRUE]
      BY <2>2, Zenon DEF AccountOf
    <2>4. AccountOf(users'[t]) =
            [role |-> AccountOf(users[t]).role, active |-> AccountOf(users[t]).active,
             disabled |-> AccountOf(users[t]).disabled, deleted |-> TRUE]
      BY <1>1, <2>3, AccountTyped, Zenon
    <2> QED
      BY <1>1, <2>2, <2>4, AccountTyped, FieldsSet, Zenon
  <1>4. Accounts' = [Accounts EXCEPT ![t].deleted = TRUE]
    <2>1. Accounts' = [Accounts EXCEPT ![t] = AccountOf(users'[t])]
      BY <1>1, <1>2, OneAccount
    <2>2. Accounts[t] = AccountOf(users[t])
      BY <1>1, <1>2, AccountsAre
    <2> QED
      BY <1>3, <2>1, <2>2
  <1>5. KeysSeen' = KeysSeen
    <2>1. \A k \in Keys : keys'[k] = keys[k]
      BY <1>1, CommitSees
    <2>2. \A k \in Keys : keys[k] # None => users'[keys[k].owner].disabledAt = users[keys[k].owner].disabledAt
      BY <1>1, <1>3, CommitSees DEF Key
    <2>3. \A k \in Keys : keys[k] # None => KeyOf(keys[k])' = KeyOf(keys[k])
      BY <2>1, <2>2 DEF KeyOf, Standing
    <2> QED
      BY <2>1, <2>3 DEF KeysSeen
  <1>6. Atomic!LoggedIn({Admin})
    <2>1. InFlight(r)
      BY InFlightIsRequest DEF IInv, Commit
    <2> QED
      BY <2>1 DEF Authorised, HoldsToken, Atomic!LoggedIn
  <1>7. t \in DOMAIN Accounts /\ Accounts[t].disabled /\ ~Accounts[t].deleted
    BY <1>1, <1>2, AccountsAre
  <1> QED
    BY <1>1, <1>4, <1>5, <1>6, <1>7 DEF Atomic!Delete

LEMMA StepAtomic ==
  ASSUME IInv, Authorised, Next, admission # "any"
  PROVE  Atomic!Next \/ UNCHANGED Atomic!vars
  <1>1. ASSUME NEW u \in Users, Login(u) PROVE Atomic!Next
    BY <1>1, LoginAtomic DEF Atomic!Next
  <1>2. ASSUME NEW u \in Users, NEW role \in Roles, Invite(u, role) PROVE Atomic!Next
    BY <1>2, InviteAtomic DEF Atomic!Next
  <1>3. ASSUME NEW u \in Users, NEW k \in Keys, NEW asked \in SUBSET Scopes, NEW role \in Roles,
               CreateKey(u, k, asked, role)
        PROVE  Atomic!Next
    BY <1>3, CreateKeyAtomic DEF Atomic!Next
  <1>4. ASSUME NEW k \in Keys, RevokeOwn(k) \/ RevokeAny(k) PROVE Atomic!Next
    BY <1>4, RevokeAtomic DEF Atomic!Next
  <1>5. ASSUME NEW r \in Requests, Commit(r) PROVE Atomic!Next
    <2>1. PICK q : q = req[r]
      OBVIOUS
    <2>2. q \in Request /\ q.target \in Users /\ q.role \in Roles /\ q.kind \in {"role", "disable", "enable", "delete"}
      BY <1>5, <2>1, CommitSees DEF Request
    <2>3. CASE q.kind = "role"
      BY <1>5, <2>1, <2>2, <2>3, RoleAtomic DEF Atomic!Next
    <2>4. CASE q.kind = "disable"
      BY <1>5, <2>1, <2>2, <2>4, DisableAtomic DEF Atomic!Next
    <2>5. CASE q.kind = "enable"
      BY <1>5, <2>1, <2>2, <2>5, EnableAtomic DEF Atomic!Next
    <2>6. CASE q.kind = "delete"
      BY <1>5, <2>1, <2>2, <2>6, DeleteAtomic DEF Atomic!Next
    <2> QED
      BY <2>2, <2>3, <2>4, <2>5, <2>6
  <1>6. ASSUME NEW r \in Requests, RefuseLastAdmin(r) \/ OthersRemain(r) \/ Update(r)
        PROVE  UNCHANGED Atomic!vars
    BY <1>6, NothingSeen DEF RefuseLastAdmin, OthersRemain, Update, tables
  <1>7. ASSUME NEW r \in Requests, NEW u \in Users, NEW role \in Roles,
               NEW kind \in {"role", "disable", "enable", "delete"}, Load(r, kind, u, role)
        PROVE  UNCHANGED Atomic!vars
    BY <1>7, NothingSeen DEF Load, tables
  <1> QED
    BY <1>1, <1>2, <1>3, <1>4, <1>5, <1>6, <1>7 DEF Next

(* Every lifecycle request takes effect in the one step of its commit, as  *)
(* AtomicLifecycle says of its kind, for any number of requests in flight. *)
THEOREM RequestsAreAtomic == Spec => ActsAtOnce
  <1>1. IInv /\ Authorised /\ [Next]_vars => [admission # "any" => Atomic!Next]_(Atomic!vars)
    BY StepAtomic, NothingSeen DEF vars, tables
  <1> QED
    BY InductiveInvariant, AlwaysAuthorised, InitAtomic, <1>1, PTL DEF Spec, ActsAtOnce

(* So a service that keeps requests about one user apart implements        *)
(* AtomicLifecycle.                                                        *)
THEOREM RefinesAtomicLifecycle == Spec /\ admission # "any" => Atomic!Spec
  <1>1. admission # "any" /\ [Next]_vars => (admission # "any")'
    BY DEF Next, vars, tables, Login, Invite, CreateKey, RevokeOwn, RevokeAny, Revoke, Load,
           RefuseLastAdmin, OthersRemain, Update, Commit
  <1>2. admission # "any" /\ [admission # "any" => Atomic!Next]_(Atomic!vars) => [Atomic!Next]_(Atomic!vars)
    OBVIOUS
  <1> QED
    BY RequestsAreAtomic, <1>1, <1>2, PTL DEF Spec, ActsAtOnce, Atomic!Spec
=============================================================================
