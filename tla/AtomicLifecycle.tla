-------------------------- MODULE AtomicLifecycle --------------------------
(***************************************************************************)
(* What the services promise of users and their keys: a request takes      *)
(* effect at once, on the rows as they are then.  A key is active, is      *)
(* suspended while its user is disabled, or is revoked for good; there are *)
(* no requests in progress and no moments here.                            *)
(***************************************************************************)
CONSTANTS Users, Keys, Roles, Admin, Creators, Inviters, Cap

VARIABLES
  oneByOne,   \* requests come one at a time
  accounts,   \* of the users there are
  keys,       \* of the keys there are
  tokens      \* the roles a user's tokens name

vars == <<oneByOne, accounts, keys, tokens>>

Founder == [role |-> Admin, active |-> TRUE, disabled |-> FALSE, deleted |-> FALSE]
Invited(role) == [role |-> role, active |-> FALSE, disabled |-> FALSE, deleted |-> FALSE]

Init ==
  /\ oneByOne \in BOOLEAN
  /\ \E founders \in (SUBSET Users) \ {{}} : accounts = [u \in founders |-> Founder]
  /\ keys = [k \in {} |-> {}]
  /\ tokens = [u \in Users |-> {}]

LoggedIn(roles) == \E u \in Users : tokens[u] \cap roles # {}

With(table, id, row) == [i \in DOMAIN table \cup {id} |-> IF i = id THEN row ELSE table[i]]

KeysOf(u, state) == {k \in DOMAIN keys : keys[k].owner = u /\ keys[k].state = state}
Becoming(chosen, state) ==
  [k \in DOMAIN keys |-> IF k \in chosen THEN [keys[k] EXCEPT !.state = state] ELSE keys[k]]

(* The last admin is not let go, as long as requests come one at a time. *)
Dispensable(u) ==
  oneByOne => \E v \in DOMAIN accounts \ {u} :
                accounts[v].role = Admin /\ ~accounts[v].disabled /\ ~accounts[v].deleted

-----------------------------------------------------------------------------
Login(u) ==
  /\ u \in DOMAIN accounts /\ accounts[u].active
  /\ tokens' = [tokens EXCEPT ![u] = @ \cup {accounts[u].role}]
  /\ UNCHANGED <<oneByOne, accounts, keys>>

Invite(u, role) ==
  /\ LoggedIn(Inviters) /\ u \notin DOMAIN accounts
  /\ accounts' = With(accounts, u, Invited(role))
  /\ UNCHANGED <<oneByOne, keys, tokens>>

CreateKey(u, k, scopes, role) ==
  /\ role \in tokens[u] \cap Creators /\ k \notin DOMAIN keys
  /\ scopes \subseteq Cap[role] /\ scopes # {}
  /\ keys' = With(keys, k, [owner |-> u, scopes |-> scopes, state |-> "active"])
  /\ UNCHANGED <<oneByOne, accounts, tokens>>

Revoke(k) ==
  /\ k \in DOMAIN keys
  /\ tokens[keys[k].owner] # {} \/ LoggedIn({Admin})
  /\ keys' = Becoming({k}, "revoked")
  /\ UNCHANGED <<oneByOne, accounts, tokens>>

ChangeRole(u, role) ==
  /\ LoggedIn({Admin}) /\ u \in DOMAIN accounts
  /\ accounts[u].role = Admin /\ role # Admin => Dispensable(u)
  /\ accounts' = [accounts EXCEPT ![u].role = role]
  /\ keys' = Becoming({k \in KeysOf(u, "active") : ~(keys[k].scopes \subseteq Cap[role])}, "revoked")
  /\ UNCHANGED <<oneByOne, tokens>>

Disable(u) ==
  /\ LoggedIn({Admin}) /\ u \in DOMAIN accounts /\ ~accounts[u].disabled
  /\ accounts[u].role = Admin => Dispensable(u)
  /\ accounts' = [accounts EXCEPT ![u].disabled = TRUE, ![u].active = FALSE]
  /\ keys' = Becoming(KeysOf(u, "active"), "suspended")
  /\ UNCHANGED <<oneByOne, tokens>>

Enable(u) ==
  /\ LoggedIn({Admin}) /\ u \in DOMAIN accounts /\ accounts[u].disabled
  /\ accounts' = [accounts EXCEPT ![u].disabled = FALSE, ![u].active = TRUE]
  /\ keys' = Becoming(KeysOf(u, "suspended"), "active")
  /\ UNCHANGED <<oneByOne, tokens>>

Delete(u) ==
  /\ LoggedIn({Admin}) /\ u \in DOMAIN accounts
  /\ accounts[u].disabled /\ ~accounts[u].deleted
  /\ accounts' = [accounts EXCEPT ![u].deleted = TRUE]
  /\ UNCHANGED <<oneByOne, keys, tokens>>

Next ==
  \/ \E u \in Users : Login(u) \/ Disable(u) \/ Enable(u) \/ Delete(u)
  \/ \E u \in Users, role \in Roles : Invite(u, role) \/ ChangeRole(u, role)
  \/ \E u \in Users, k \in Keys, role \in Roles :
       \E scopes \in SUBSET Cap[role] : CreateKey(u, k, scopes, role)
  \/ \E k \in Keys : Revoke(k)

Spec == Init /\ [][Next]_vars
=============================================================================
