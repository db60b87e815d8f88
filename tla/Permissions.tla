---------------------------- MODULE Permissions ----------------------------
(***************************************************************************)
(* The permission model of a session port: the implication table, the      *)
(* scopes and their expansion (src/winslow/access/permissions.py), what a  *)
(* policy grants (policy.py) and which tickets verify (tickets.py).        *)
(***************************************************************************)
EXTENDS Integers

CONSTANTS AnyName, None \* the scope name that covers every workflow; no value

Permission == {"start_workflow", "end_workflow", "run_task", "check_task", "view_task"}
\* Each permission and what it implies, one step down.
Implies == [start_workflow |-> {"view_task"}, end_workflow |-> {"view_task"},
            run_task |-> {"check_task"}, check_task |-> {"view_task"}, view_task |-> {}]

Closure[p \in Permission] == {p} \cup UNION {Closure[q] : q \in Implies[p]}

\* A scope is <<name, permission>>; a spelling may end in "*".
ParseScopes(spelling) ==
    {<<spelling[1], p>> : p \in IF spelling[2] = "*" THEN Permission ELSE {spelling[2]}}
Expand(spellings) ==
    UNION {{<<granted[1], p>> : p \in Closure[granted[2]]} :
             granted \in UNION {ParseScopes(spelling) : spelling \in spellings}}
All == Expand({<<AnyName, "*">>})

\* PermissionContext.
Allows(scopes, name, permission) ==
    <<name, permission>> \in scopes \/ <<AnyName, permission>> \in scopes
Check(scopes, name, permissions) == \E p \in permissions : Allows(scopes, name, p)
Remaining(expires, now) ==
    IF expires = None THEN None ELSE IF expires > now THEN expires - now ELSE 0
UntilLatest(expires, deadline) ==
    IF expires # None /\ expires > deadline THEN expires ELSE deadline
Until(expires, deadline) ==
    IF expires # None /\ expires < deadline THEN expires ELSE deadline

\* A policy: groups (scopes, idp_groups) and users (groups, scopes).
PolicyScopes(policy, user, asserted) ==
    LET entry == user \in DOMAIN policy.users
        direct == IF entry THEN Expand(policy.users[user].scopes) ELSE {}
        named == IF entry THEN policy.users[user].groups ELSE {}
        matched == {g \in DOMAIN policy.groups : policy.groups[g].idp_groups \cap asserted # {}}
    IN direct \cup UNION {Expand(policy.groups[g].scopes) : g \in named \cup matched}
\* Every group a user names is defined, or the file does not parse.
WellFormed(policy) ==
    \A u \in DOMAIN policy.users : policy.users[u].groups \subseteq DOMAIN policy.groups

\* TicketClaims: the lifetime is bounded, nothing else revokes a ticket.
ValidClaims(t, maxTtl) ==
    /\ t.scopes # {}
    /\ t.exp > t.iat /\ t.exp - t.iat <= maxTtl
    /\ t.nbf # None => t.nbf <= t.exp
\* verify_ticket: the clocks of the two hosts differ by at most the leeway.
VerifyTicket(t, now, leeway, maxTtl) ==
    /\ t.exp > now - leeway
    /\ t.iat <= now + leeway
    /\ t.nbf # None => t.nbf <= now + leeway
    /\ ValidClaims(t, maxTtl)
=============================================================================
