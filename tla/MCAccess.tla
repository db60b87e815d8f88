------------------------------ MODULE MCAccess ------------------------------
EXTENDS Access, TLC
CONSTANTS c1, c2, ann, bob, cat, etl, ops, staff, devs
\* Two tokens, one that expires; tickets and a login, one of each refused.
TwoTokens == {[user |-> ann, expires |-> None], [user |-> bob, expires |-> 2]}
TwoTickets ==
    {[user |-> cat, scopes |-> {<<etl, "run_task">>}, iat |-> 1, exp |-> 3, nbf |-> None],
     [user |-> cat, scopes |-> {<<AnyName, "*">>}, iat |-> 0, exp |-> 3, nbf |-> None]}
OneLogin == {[user |-> cat, groups |-> {staff}, iat |-> 0, exp |-> 2, nbf |-> None]}
Group(scopes, idp) == [scopes |-> scopes, idp_groups |-> idp]
User(groups, scopes) == [groups |-> groups, scopes |-> scopes]
TwoPolicies ==
    {[groups |-> devs :> Group({<<etl, "run_task">>}, {staff}),
      users |-> ann :> User({devs}, {}) @@ bob :> User({}, {<<etl, "check_task">>})],
     [groups |-> devs :> Group({<<etl, "view_task">>}, {}),
      users |-> ann :> User({}, {<<AnyName, "start_workflow">>})]}
\* Every file a process may find, one of them at a time: the two other modes and the
\* missing record each under one policy (an edit still reaches the other ones).
OnePolicy == CHOOSE p \in Policies : TRUE
MCInit ==
    /\ Init
    /\ file["tokens"].content # {}
    /\ mode # "credential" \/ file["tokens"].content # Tokens => file["policy"].content = OnePolicy
    /\ mode # "credential" => file["tokens"].content = Tokens
MCSpec == MCInit /\ [][Next]_vars
Symmetry == Permutations(Conns)
=============================================================================
