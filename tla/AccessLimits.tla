----------------------------- MODULE AccessLimits -----------------------------
(***************************************************************************)
(* Who may do what, and how often: the rate limit middleware, the callers   *)
(* it admits, login and guest identities, the daily usage quota, and the    *)
(* role management API with its audit trail.  Each request runs in one      *)
(* database transaction (get_db_session) at READ COMMITTED: a statement     *)
(* sees what is committed when it starts, plus its own writes.              *)
(***************************************************************************)
EXTENDS Integers, Sequences, FiniteSets

CONSTANTS
    Users,          \* Google subjects, registered or not
    Guests,         \* guest tokens
    Requests,       \* each one arrives once
    Grantable,      \* the role names that requests name
    BootstrapAdmins,\* settings.security_bootstrap_admin_emails, as users
    Base,           \* settings.rate_limit_authenticated_per_minute
    Anonymous,      \* settings.rate_limit_anonymous_per_minute
    Multiplier,     \* settings.security_role_rate_limit_multipliers, in halves
    Window,         \* WINDOW_SECONDS
    CacheTtl,       \* settings.security_rbac_cache_ttl_seconds
    DailyLimit,     \* the daily limit of the usage quota
    None,           \* NULL, and no value
    MaxTime         \* bound on the clock, in half seconds

Roles == {"owner", "admin", "operator", "member"}

ASSUME LimitsAssumption ==
    /\ Grantable \subseteq Roles /\ BootstrapAdmins \subseteq Users
    /\ Base \in Nat \ {0} /\ Anonymous \in Nat \ {0} /\ DailyLimit \in Nat
    /\ Window \in Nat \ {0} /\ CacheTtl \in Nat /\ MaxTime \in Nat
    /\ Multiplier \in [Roles -> Nat] /\ None \notin Requests

VARIABLES
    registered, \* users: the subjects with an account
    linked,     \* guest_identities: None, "unlinked" or the linked user
    assigned,   \* user_role_assignments, as a set of pairs
    mutex,      \* holder of the advisory lock on owner changes, or None
    req,        \* the requests in progress
    tx,         \* the rows each request has written and not committed
    audit,      \* audit_events: the request and the recorded outcome
    events,     \* SlidingWindowRateLimiter._events
    role_cache, \* _role_cache: None or the role and when it was read
    usage,      \* usage_quota_counters of the day, by user
    promise,    \* history: the last Retry-After given to a bucket
    now         \* time.monotonic(), in half seconds

accessVars == <<registered, linked, assigned, mutex, req, tx, audit, events,
          role_cache, usage, promise, now>>
database == <<registered, linked, assigned>>
limiter == <<events, role_cache, promise>>

Buckets == Users \cup Guests \cup {"ip"}

Max(a, b) == IF a >= b THEN a ELSE b

_ROLE_PRIORITY(role) ==
    CASE role = "owner" -> 3 [] role = "admin" -> 2
      [] role = "operator" -> 1 [] OTHER -> 0

\* The permissions that tell the requests of this module apart; "*" is all.
DEFAULT_ROLE_PERMISSIONS ==
    [owner |-> {"*", "rbac:manage"}, admin |-> {"rbac:manage"},
     operator |-> {}, member |-> {}]

Kinds == {"assign", "revoke", "use", "login", "guest"}

Request(kind, caller, target, role, guest) ==
    [pc |-> "limit", kind |-> kind, caller |-> caller, target |-> target,
     role |-> role, guest |-> guest, limit |-> 0, roles |-> {}, found |-> FALSE]

NoRequest == [pc |-> "new"]

AccessInit ==
    /\ registered \in SUBSET Users
    /\ linked = [g \in Guests |-> None]
    /\ assigned = {}
    /\ mutex = None
    /\ req = [r \in Requests |-> NoRequest]
    /\ tx = [r \in Requests |-> {}]
    /\ audit = {}
    /\ events = [b \in Buckets |-> <<>>]
    /\ role_cache = [u \in Users |-> None]
    /\ usage = [u \in Users |-> 0]
    /\ promise = [b \in Buckets |-> None]
    /\ now = 0

(***************************************************************************)
(* Transactions.                                                           *)
(***************************************************************************)
\* No other transaction has written the row: PostgreSQL makes a second
\* writer wait, an INSERT ... ON CONFLICT on the same key too.
Unlocked(r, row) ==
    \A q \in Requests \ {r} : \A w \in tx[q] : w.row # row

Write(r, op, row, val) == [tx EXCEPT ![r] = @ \cup {[op |-> op, row |-> row, val |-> val]}]

Step(r, pc) == req' = [req EXCEPT ![r].pc = pc]

Answered(r, pc) == req' = [req EXCEPT ![r] = [pc |-> pc]]

\* The end of a transaction frees the advisory lock it took.
EndTx(r, pc) ==
    /\ Answered(r, pc)
    /\ tx' = [tx EXCEPT ![r] = {}]
    /\ mutex' = IF mutex = r THEN None ELSE mutex

Refuse(r) ==
    /\ EndTx(r, "refused")
    /\ UNCHANGED <<database, audit, limiter, usage, now>>

Rows(r, op) == {w.row : w \in {x \in tx[r] : x.op = op}}

\* get_db_session: commit when the handler returned
commit_session(r) ==
    /\ req[r].pc = "commit"
    /\ EndTx(r, "done")
    /\ assigned' = (assigned \cup Rows(r, "assign")) \ Rows(r, "revoke")
    /\ registered' = registered \cup Rows(r, "user")
    /\ linked' = [g \in Guests |->
         IF \E w \in tx[r] : w.op = "guest" /\ w.row = g
         THEN (CHOOSE w \in tx[r] : w.op = "guest" /\ w.row = g).val
         ELSE linked[g]]
    /\ UNCHANGED <<audit, limiter, usage, now>>

\* The connection, the commit or the process fails: nothing is kept.
Fail(r) ==
    /\ req[r].pc \notin {"new", "limit", "refused", "done"}
    /\ Refuse(r)

(***************************************************************************)
(* The rate limit.                                                         *)
(***************************************************************************)
get_highest_priority_role(u) ==
    LET mine == {role \in Roles : <<u, role>> \in assigned} \cup {"member"}
    IN CHOOSE role \in mine :
           \A other \in mine : _ROLE_PRIORITY(other) <= _ROLE_PRIORITY(role)

Fresh(u) == role_cache[u] # None /\ now - role_cache[u].at < 2 * CacheTtl

_get_rate_limit_role(u) ==
    IF Fresh(u) THEN role_cache[u].role ELSE get_highest_priority_role(u)

\* max(1, math.floor(limit * multiplier))
limit_of(role) == Max(1, (Base * Multiplier[role]) \div 2)

\* The request, and the bucket and limit it falls under; the look-up of the
\* role may fail, which counts as "member" and is not cached.
Arrive(r, q) ==
    /\ req[r].pc = "new"
    /\ IF q.kind \in {"login", "guest"}
       THEN /\ req' = [req EXCEPT ![r] = [q EXCEPT !.limit = Anonymous]]
            /\ UNCHANGED role_cache
       ELSE \/ LET role == _get_rate_limit_role(q.caller) IN
               /\ req' = [req EXCEPT ![r] = [q EXCEPT !.limit = limit_of(role)]]
               /\ role_cache' = IF Fresh(q.caller) \/ CacheTtl = 0 THEN role_cache
                    ELSE [role_cache EXCEPT ![q.caller] = [at |-> now, role |-> role]]
            \/ /\ ~Fresh(q.caller)
               /\ req' = [req EXCEPT ![r] = [q EXCEPT !.limit = limit_of("member")]]
               /\ UNCHANGED role_cache
    /\ UNCHANGED <<database, mutex, tx, audit, events, usage, promise, now>>

resolve_rate_limit_identity(q) ==
    IF q.kind \notin {"login", "guest"} THEN q.caller
    ELSE IF q.guest \in Guests THEN q.guest ELSE "ip"

\* How many timestamps the loop pops: from the left, up to the first in the window.
expired(b) ==
    CHOOSE n \in 0 .. Len(events[b]) :
        /\ \A i \in 1 .. n : events[b][i] <= now - 2 * Window
        /\ n < Len(events[b]) => events[b][n + 1] > now - 2 * Window

live(b) == SubSeq(events[b], expired(b) + 1, Len(events[b]))

\* Faulty: the remaining time is cut to whole seconds.
retry_after_Floor(oldest) == (2 * Window - (now - oldest)) \div 2

\* max(1, math.ceil(WINDOW_SECONDS - (now - oldest))), in whole seconds
retry_after(oldest) == Max(1, (2 * Window - (now - oldest) + 1) \div 2)

FirstStep == [assign |-> "authorize", revoke |-> "authorize", use |-> "use",
              login |-> "lookup", guest |-> "guest"]

\* SlidingWindowRateLimiter.check, one critical section without an await
check(r) ==
    LET b == resolve_rate_limit_identity(req[r])
        limit == req[r].limit
    IN /\ req[r].pc = "limit"
       /\ IF Len(live(b)) >= limit
          THEN /\ Answered(r, "refused")
               /\ events' = [events EXCEPT ![b] = live(b)]
               /\ promise' = [promise EXCEPT ![b] =
                    IF Len(live(b)) > limit THEN None
                    ELSE [due |-> now + 2 * retry_after(live(b)[1]), limit |-> limit]]
          ELSE /\ Step(r, FirstStep[req[r].kind])
               /\ events' = [events EXCEPT ![b] = Append(live(b), now)]
               /\ promise' = [promise EXCEPT ![b] = None]
       /\ UNCHANGED <<database, mutex, tx, audit, role_cache, usage, now>>

Tick ==
    /\ now < MaxTime
    /\ now' = now + 1
    /\ UNCHANGED <<database, mutex, req, tx, audit, limiter, usage>>

(***************************************************************************)
(* Identities.                                                             *)
(***************************************************************************)
\* The look-up of an account or of a guest by its token.
lookup(r) ==
    /\ req[r].pc = "lookup"
    /\ req' = [req EXCEPT ![r].found = req[r].caller \in registered,
                          ![r].pc = "login"]
    /\ UNCHANGED <<database, mutex, tx, audit, limiter, usage, now>>

\* The account is created or its profile brought up to date.  Of two first
\* logins the second waits for the first and violates the unique key.
login_with_google(r) ==
    LET u == req[r].caller IN
    /\ req[r].pc = "login"
    /\ Unlocked(r, u)
    /\ IF ~req[r].found /\ u \in registered
       THEN Refuse(r)
       ELSE /\ tx' = Write(r, "user", u, None)
            /\ Step(r, "link")
            /\ UNCHANGED <<database, mutex, audit, limiter, usage, now>>

\* A known guest is linked to the account, whoever it was linked to before.
_maybe_link_guest(r) ==
    LET g == req[r].guest IN
    /\ req[r].pc = "link"
    /\ g \in Guests => Unlocked(r, g)
    /\ tx' = IF g \in Guests /\ linked[g] # None
             THEN Write(r, "guest", g, req[r].caller) ELSE tx
    /\ Step(r, "audit")
    /\ UNCHANGED <<database, mutex, audit, limiter, usage, now>>

\* A known token is touched, an unknown or absent one gets a fresh identity.
resolve_guest_caller(r) ==
    /\ req[r].pc = "guest"
    /\ IF req[r].guest \in Guests /\ linked[req[r].guest] # None
       THEN /\ Unlocked(r, req[r].guest)
            /\ tx' = Write(r, "guest", req[r].guest, linked[req[r].guest])
       ELSE \E g \in Guests :
              /\ linked[g] = None /\ Unlocked(r, g)
              /\ tx' = Write(r, "guest", g, "unlinked")
    /\ Step(r, "commit")
    /\ UNCHANGED <<database, mutex, audit, limiter, usage, now>>

(***************************************************************************)
(* The daily usage quota, reserved in a transaction of its own before the   *)
(* operation; a failure of the operation gives nothing back.                *)
(***************************************************************************)
check_and_increment(u) == DailyLimit >= 1 /\ usage[u] < DailyLimit

check_daily_usage_quota(r) ==
    LET u == req[r].caller IN
    /\ req[r].pc = "use"
    /\ IF check_and_increment(u)
       THEN /\ usage' = [usage EXCEPT ![u] = @ + 1]
            /\ Step(r, "commit")
       ELSE /\ Answered(r, "refused")
            /\ UNCHANGED usage
    /\ UNCHANGED <<database, mutex, tx, audit, limiter, now>>

\* Midnight: another row of usage_quota_counters.
NextDay ==
    /\ \E u \in Users : usage[u] > 0
    /\ usage' = [u \in Users |-> 0]
    /\ UNCHANGED <<database, mutex, req, tx, audit, limiter, now>>

(***************************************************************************)
(* Role management.                                                        *)
(***************************************************************************)
get_user_roles(u) == {role \in Roles : <<u, role>> \in assigned}

\* Everybody is a member.  The service lives as long as its request, so that
\* its cache never outlives a change made by another one.
get_permissions(u) ==
    UNION {DEFAULT_ROLE_PERMISSIONS[role] : role \in get_user_roles(u) \cup {"member"}}

allowed(u, permission) == {"*", permission} \cap get_permissions(u) # {}

\* _require_permission and _ensure_user_exists; a denial is audited.
authorize(r) ==
    LET q == req[r] IN
    /\ q.pc = "authorize"
    /\ IF ~allowed(q.caller, "rbac:manage")
       THEN /\ Answered(r, "refused")
            /\ \/ audit' = audit \cup {<<r, "denied">>}
               \/ UNCHANGED audit
       ELSE /\ IF q.target \notin registered \/ (q.kind = "revoke" /\ q.role = "member")
               THEN Answered(r, "refused") ELSE Step(r, "actor")
            /\ UNCHANGED audit
    /\ UNCHANGED <<database, mutex, tx, limiter, usage, now>>

\* _ensure_role_management_is_allowed: the roles of the actor ...
actor_roles(r) ==
    /\ req[r].pc = "actor"
    /\ req' = [req EXCEPT ![r].roles = get_user_roles(req[r].caller),
                          ![r].pc = "target"]
    /\ UNCHANGED <<database, mutex, tx, audit, limiter, usage, now>>

\* ... what an actor may not do to itself ...
OwnRoleForbidden(q) ==
    /\ q.caller = q.target
    /\ LET levels == {_ROLE_PRIORITY(role) : role \in q.roles} IN
       \/ q.kind = "assign" /\ \A l \in levels : l < _ROLE_PRIORITY(q.role)
       \/ q.kind = "revoke" /\ \E l \in levels : l > 0

\* ... and what an administrator may not do to an owner.
_ensure_role_management_is_allowed(q) ==
    /\ ~OwnRoleForbidden(q)
    /\ \/ "owner" \in q.roles
       \/ "admin" \in q.roles /\ q.role # "owner"
            /\ "owner" \notin get_user_roles(q.target)

target_roles(r) ==
    /\ req[r].pc = "target"
    /\ IF ~_ensure_role_management_is_allowed(req[r]) THEN Refuse(r)
       ELSE /\ Step(r, IF req[r].kind = "revoke" /\ req[r].role = "owner"
                      THEN "owners" ELSE "write")
            /\ UNCHANGED <<database, mutex, tx, audit, limiter, usage, now>>

\* Faulty: the rows are read without the advisory lock.
list_all_user_role_assignments_Unlocked(r) == UNCHANGED mutex

\* The last owner's query first takes the advisory lock of its transaction.
list_all_user_role_assignments(r) ==
    /\ mutex \in {None, r}
    /\ mutex' = r

_is_final_owner(u) == {v \in Users : <<v, "owner">> \in assigned} = {u}

\* Both last-owner checks of a revocation, under the lock from the first on.
owners(r) ==
    /\ req[r].pc = "owners"
    /\ IF _is_final_owner(req[r].target)
       THEN mutex \in {None, r} /\ Refuse(r)
       ELSE /\ list_all_user_role_assignments(r)
            /\ Step(r, "write")
            /\ UNCHANGED <<database, tx, audit, limiter, usage, now>>

\* The row is written, or it was there (or gone) already.
assign_role(r) ==
    LET row == <<req[r].target, req[r].role>> IN
    /\ req[r].pc = "write" /\ req[r].kind = "assign"
    /\ Unlocked(r, row)
    /\ IF row \in assigned
       THEN Step(r, "commit") /\ UNCHANGED tx
       ELSE Step(r, "audit") /\ tx' = Write(r, "assign", row, None)
    /\ UNCHANGED <<database, mutex, audit, limiter, usage, now>>

revoke_role(r) ==
    LET row == <<req[r].target, req[r].role>> IN
    /\ req[r].pc = "write" /\ req[r].kind = "revoke"
    /\ Unlocked(r, row)
    /\ IF row \notin assigned THEN Refuse(r)
       ELSE /\ Step(r, "audit")
            /\ tx' = Write(r, "revoke", row, None)
            /\ UNCHANGED <<database, mutex, audit, limiter, usage, now>>

\* AuditLogger.record commits on its own and never fails its caller.
record(r) ==
    /\ req[r].pc = "audit"
    /\ Step(r, "commit")
    /\ \/ audit' = audit \cup {<<r, "success">>}
       \/ UNCHANGED audit
    /\ UNCHANGED <<database, mutex, tx, limiter, usage, now>>

\* At the start of a process the configured accounts become owners.
bootstrap_admins ==
    LET rows == {<<u, "owner">> : u \in BootstrapAdmins \cap registered} IN
    /\ ~(rows \subseteq assigned)
    /\ \A row \in rows, r \in Requests : Unlocked(r, row)
    /\ assigned' = assigned \cup rows
    /\ UNCHANGED <<registered, linked, mutex, req, tx, audit, limiter, usage, now>>

Management(r) ==
    \/ authorize(r) \/ actor_roles(r) \/ target_roles(r) \/ owners(r)
    \/ assign_role(r) \/ revoke_role(r)

Identity(r) ==
    \/ lookup(r) \/ login_with_google(r) \/ _maybe_link_guest(r)
    \/ resolve_guest_caller(r)

Arrival(r) ==
    \/ \E kind \in {"assign", "revoke"}, u \in registered,
            v \in Users, role \in Grantable :
         Arrive(r, Request(kind, u, v, role, None))
    \/ \E u \in registered : Arrive(r, Request("use", u, u, None, None))
    \/ \E u \in Users, g \in Guests \cup {None} :
         Arrive(r, Request("login", u, u, None, g))
    \/ \E g \in Guests \cup {None} : Arrive(r, Request("guest", None, None, None, g))

AccessNext ==
    \/ \E r \in Requests :
         \/ Arrival(r) \/ check(r) \/ Identity(r) \/ Management(r)
         \/ check_daily_usage_quota(r) \/ record(r) \/ commit_session(r) \/ Fail(r)
    \/ bootstrap_admins \/ NextDay \/ Tick

AccessSpec == AccessInit /\ [][AccessNext]_accessVars

(***************************************************************************)
(* Properties.                                                             *)
(***************************************************************************)
AccessTypeOK ==
    /\ registered \subseteq Users /\ assigned \subseteq Users \X Roles
    /\ linked \in [Guests -> Users \cup {None, "unlinked"}]
    /\ mutex \in Requests \cup {None}
    /\ audit \subseteq Requests \X {"denied", "success"}
    /\ usage \in [Users -> 0..DailyLimit] /\ now \in 0..MaxTime
    /\ \A b \in Buckets : \A i \in DOMAIN events[b] : events[b][i] \in 0..now
    /\ \A u \in Users : role_cache[u] # None => role_cache[u] \in [at : 0..now, role : Roles]

Owners == {u \in Users : <<u, "owner">> \in assigned}

\* Once somebody owns the installation somebody always does: owners who
\* revoke one another at the same moment, each with a last-owner check that
\* saw two of them, cannot leave none (revoke_role, the advisory lock).
OwnerRemains == [][Owners # {} => Owners' # {}]_accessVars

\* State keeps its type, and a caller who waits out the Retry-After of a refusal finds room again, if
\* nobody used its bucket meanwhile and its limit was not lowered below what
\* it had already used (SlidingWindowRateLimiter.check, rounding included).
RetryAfterSuffices ==
    /\ AccessTypeOK
    /\ \A b \in Buckets :
        promise[b] # None /\ now >= promise[b].due
            => Len(live(b)) < promise[b].limit
===============================================================================
