---------------------------- MODULE FindingLifecycle ----------------------------
(* The portal's findings under the requests that change them: a status, an  *)
(* assignee, a request for a disposition, one finding at a time or in bulk. *)
(* A request runs in a session of its own, which sees its own flushes; what *)
(* becomes of them when the session is closed is the route's business. Row  *)
(* locks only delay a request and are left out, and so are approvals: no    *)
(* request is ever stored that could be approved.                           *)
EXTENDS Naturals, Sequences

CONSTANTS
  Finding, User,  \* rows of findings, and of users
  Request,        \* HTTP requests, each served once
  RoleOf,         \* the Role of each User
  Calls,          \* the bodies of requests tried, a subset of Body
  None

\* The roles that the routes let through.
Role == {"org_admin", "security_manager", "security_engineer", "team_manager", "developer"}
Status == {"open", "in_review", "in_progress", "resolved", "risk_accepted", "false_positive"}
RequestType == {"risk_accepted", "false_positive"}

\* A bulk action names several findings, even one of them twice; the other
\* routes one. The value is a status, an assignee or a type of request.
Body == [action : {"status_change", "assign", "request"}, bulk : BOOLEAN,
         findings : Seq(Finding), value : Status \cup User, reason : BOOLEAN]

VARIABLES
  status,   \* findings that are stored, with their status
  stored,   \* rows that are stored: <<request, k>> are those of its k-th change
  session,  \* [Request -> an open session, or None]
  answer,   \* [Request -> None or what it was answered]
  webhooks  \* changes whose event was sent to the organisation's webhook

vars == <<status, stored, session, answer, webhooks>>

VALID_TRANSITIONS ==
  [open           |-> Status \ {"open"},
   in_review      |-> Status \ {"in_review"},
   in_progress    |-> {"open", "in_review", "resolved"},
   resolved       |-> {"open"},
   risk_accepted  |-> {"open"},
   false_positive |-> {"open"}]

STATUS_ROLE_MAP ==
  [s \in Status |-> CASE s = "resolved" -> Role \ {"team_manager", "developer"}
                      [] s \in RequestType -> {"org_admin", "security_manager"}
                      [] OTHER -> Role]

CREATOR_ROLES == {"security_engineer", "team_manager", "developer"}

Init ==
  /\ status = [f \in {} |-> "open"]
  /\ stored = {}
  /\ session = [r \in Request |-> None]
  /\ answer = [r \in Request |-> None]
  /\ webhooks = {}

(* An upload stores its findings and commits. *)
Upload(f) ==
  /\ f \notin DOMAIN status
  /\ status' = [g \in DOMAIN status \cup {f} |-> IF g = f THEN "open" ELSE status[g]]
  /\ UNCHANGED <<stored, session, answer, webhooks>>

(* get_session opens a session for a request; "request" has a route of its  *)
(* own for the roles that may create one.                                   *)
Open(r, actor, call) ==
  /\ session[r] = None /\ answer[r] = None
  /\ call.action = "request" /\ ~call.bulk => RoleOf[actor] \in CREATOR_ROLES
  /\ session' = [session EXCEPT ![r] = [actor |-> actor, call |-> call, next |-> 1, view |-> [f \in {} |-> "open"], done |-> {}]]
  /\ UNCHANGED <<status, stored, answer, webhooks>>

-----------------------------------------------------------------------------
(* What a session sees of a finding: its own flushes over what is stored.   *)
Seen(s, f) == IF f \in DOMAIN s.view THEN s.view[f] ELSE status[f]
Found(s, f) == f \in DOMAIN s.view \cup DOMAIN status

ChangeAllowed(s, f) ==
  LET old == Seen(s, f)
      new == s.call.value
  IN  /\ new \in VALID_TRANSITIONS[old]
      /\ RoleOf[s.actor] \in STATUS_ROLE_MAP[new]
      /\ new \in RequestType \/ (old \in RequestType /\ new = "open") => s.call.reason

AssignAllowed(s) == RoleOf[s.actor] = "developer" => s.call.value = s.actor

Allowed(s, f) ==
  /\ Found(s, f)
  /\ CASE s.call.action = "status_change" -> ChangeAllowed(s, f)
       [] s.call.action = "assign"        -> AssignAllowed(s)
       [] s.call.action = "request"       -> RoleOf[s.actor] \in CREATOR_ROLES

After(s, f) ==
  CASE s.call.action = "status_change" -> s.call.value
    [] s.call.action = "assign" /\ Seen(s, f) = "open" -> "in_review"
    [] OTHER -> Seen(s, f)

Current(s) == s.call.findings[s.next]
Pending(r) == session[r] # None /\ session[r].next <= Len(session[r].call.findings)

(* One finding is changed: its rows and the audit entry are flushed, and    *)
(* the event goes to the webhook from a task of its own, before any commit. *)
Change(r) ==
  LET s == session[r]
      f == Current(s)
  IN  /\ Pending(r) /\ Allowed(s, f)
      /\ session' = [session EXCEPT ![r].next = @ + 1, ![r].done = @ \cup {<<r, s.next>>},
                       ![r].view = [g \in DOMAIN @ \cup {f} |-> IF g = f THEN After(s, f) ELSE @[g]]]
      /\ webhooks' = webhooks \cup {<<r, s.next>>}
      /\ UNCHANGED <<status, stored, answer>>

(* A bulk action notes the error of one finding and goes on. *)
NoteError(r) ==
  /\ Pending(r) /\ ~Allowed(session[r], Current(session[r])) /\ session[r].call.bulk
  /\ session' = [session EXCEPT ![r].next = @ + 1]
  /\ UNCHANGED <<status, stored, answer, webhooks>>

(* The end of get_session closes the session: without a commit of the route *)
(* everything flushed is rolled back.                                       *)
Close(r) == session' = [session EXCEPT ![r] = None] /\ UNCHANGED <<status, stored>>

Refuse(r) ==
  /\ Pending(r) /\ ~Allowed(session[r], Current(session[r])) /\ ~session[r].call.bulk
  /\ answer' = [answer EXCEPT ![r] = [code |-> 400, done |-> {}]]
  /\ Close(r) /\ UNCHANGED webhooks

(* A database error is not caught by the services or the routes. *)
Crash(r) ==
  /\ Pending(r)
  /\ answer' = [answer EXCEPT ![r] = [code |-> 500, done |-> {}]]
  /\ Close(r) /\ UNCHANGED webhooks

(* The routes of one finding answer with its row. The row's updated_at is   *)
(* set by the database, so after an UPDATE it has to be read again, and an  *)
(* attribute access outside the session's greenlet cannot: the route fails. *)
(* The route of requests answers with a row it inserted, the bulk route     *)
(* with its own results.                                                    *)
ReadsBack(call) == call.bulk \/ call.action = "request"

Answer(r) ==
  LET s == session[r]
  IN  /\ s # None /\ ~Pending(r)
      /\ answer' = [answer EXCEPT ![r] = IF ReadsBack(s.call) THEN [code |-> 200, done |-> s.done]
                                                             ELSE [code |-> 500, done |-> {}]]
      /\ Close(r) /\ UNCHANGED webhooks

Next ==
  \/ \E f \in Finding : Upload(f)
  \/ \E r \in Request :
       \/ \E u \in User, c \in Calls : Open(r, u, c)
       \/ Change(r) \/ NoteError(r) \/ Refuse(r) \/ Crash(r) \/ Answer(r)

Spec == Init /\ [][Next]_vars
-----------------------------------------------------------------------------
(* "Creates a pending request visible to SE/SM in a dedicated queue": what  *)
(* a request was told is done is stored once it was told so.                *)
AnsweredIsStored == \A r \in Request : answer[r] # None => answer[r].done \subseteq stored
=============================================================================
