------------------------------- MODULE Access -------------------------------
(***************************************************************************)
(* The credentials of a serve process: the policy and the token file an    *)
(* operator edits, the snapshots of them the server keeps (FileSnapshot in *)
(* src/winslow/access/file.py), the backends and the modes, and the life   *)
(* of a connection from its hello to the expiry of its context             *)
(* (src/winslow/serve/auth.py, app.py), or of one tool call of an agent    *)
(* (mcp.py).  Every credential is verified on a worker thread of its own,  *)
(* over the shared snapshots.                                              *)
(***************************************************************************)
EXTENDS Port

CONSTANTS
    Conns,         \* sockets and requests
    Names,         \* the scope names of the live sessions
    AgentTools,    \* the tools an agent calls
    Tokens,        \* token records: user, expires
    Tickets,       \* the claims of signed tickets: user, scopes, iat, exp, nbf
    Logins,        \* the claims an issuer signs: user, groups, iat, exp, nbf
    Policies,      \* what the policy file may hold; Broken does not parse
    Broken, Missing, \* contents of a file: it does not parse, there is no file
    Modes,         \* the modes of the bind
    MaxConnection, Leeway, MaxTtl,
    MaxNow, MaxEdits \* bounds: the clock, the edits of the files

ASSUME AccessAssumption ==
    /\ Modes \subseteq {"loopback", "open", "credential"}
    /\ MaxConnection \in Nat \ {0} /\ Leeway \in Nat /\ MaxTtl \in Nat
    /\ MaxNow \in Nat /\ MaxEdits \in Nat
    /\ \A p \in Policies : WellFormed(p)
    /\ AgentTools \subseteq Tools
\* The contents of a file tell one another apart; times are numbers, or none at all.
ASSUME FilesAssumption ==
    /\ None \notin Int /\ Broken \notin Policies /\ Missing \notin Policies
    /\ Broken # Missing /\ \A records \in SUBSET Tokens : records # Broken /\ records # Missing
    /\ \A t \in Tokens : t.expires \in Int \cup {None}
    /\ \A t \in Tickets : t.iat \in Int /\ t.exp \in Int
    /\ \A t \in Logins : t.exp \in Int

Files == {"tokens", "policy"}
NoPolicy == [groups |-> <<>>, users |-> <<>>]

VARIABLES
    now, mode,
    file,     \* file[f]: content and stamp, the modification time
    snap,     \* snap[f]: the value the server parsed last, and its stamp
    conn,     \* conn[c]: a socket, or a request, and the thread that verifies it
    edits

\* conn[c]: its step, its door, the credential, the file its thread loads and the
\* stamp and content it holds, its context; opened (the time of its hello_ok),
\* window (the contents the files had since it came) and did (the calls a tool
\* carried out, by name) are history.
vars == <<now, mode, file, snap, conn, edits>>

\* What a file parses to; a missing one is empty.
Value(f, content) ==
    IF content # Missing THEN content ELSE IF f = "tokens" THEN {} ELSE NoPolicy
Nothing == [content |-> Missing, stamp |-> 0]
NoContext == [user |-> None, scopes |-> {}, expires |-> None]
Local == [user |-> "local", scopes |-> All, expires |-> None]
Anonymous == [user |-> "anonymous", scopes |-> All, expires |-> None]
Away == [pc |-> "away", door |-> "socket", did |-> {}, credential |-> [kind |-> "none"], reading |-> "tokens",
         read |-> Nothing, context |-> NoContext, opened |-> 0, window |-> {}]
Credentials ==
    {[kind |-> "none"], [kind |-> "other"]}
        \cup [kind : {"token"}, of : Tokens] \cup [kind : {"ticket"}, of : Tickets]
        \cup [kind : {"oidc"}, of : Logins]

Init ==
    /\ now = 0 /\ mode \in Modes
    /\ \E content \in Policies \cup {Broken, Missing}, records \in SUBSET Tokens :
        file = [f \in Files |-> [content |-> IF f = "tokens" THEN records ELSE content,
                                stamp |-> 1]]
    /\ snap = [f \in Files |-> [value |-> Value(f, Missing), stamp |-> 0]]
    /\ conn = [c \in Conns |-> Away]
    /\ edits = 0

Becomes(c, state) == conn' = [conn EXCEPT ![c] = state]
At(c, steps) == conn[c].pc \in steps

---------------------------------------------------------------------------
(* Who a credential names and what it grants: the next state of a thread.  *)

Granted(state, ctx) == [state EXCEPT !.pc = "cap", !.context = ctx, !.read = Nothing]
\* CredentialRefused: the socket closes, or open mode lets the caller in as nobody.
Refused(state) == IF mode = "open" THEN Granted(state, Anonymous) ELSE Away
Resolved(scopes) == IF mode = "open" THEN All ELSE scopes
\* OidcBackend.identify: the issuer names the user and the groups; the policy grants.
VerifyLogin(t) ==
    t.exp > now - Leeway /\ t.iat <= now + Leeway /\ (t.nbf # None => t.nbf <= now + Leeway)
Asserted(cred) == IF cred.kind = "oidc" THEN cred.of.groups ELSE {}
Expiry(cred) == IF cred.kind = "token" THEN cred.of.expires ELSE cred.of.exp

\* Mode.get_context and BackendChain: the shape of the credential selects the backend.
Selected(state, cred) ==
    CASE mode = "loopback" -> Granted(state, Local)
      [] mode # "loopback" /\ cred.kind = "token" -> [state EXCEPT !.pc = "stat"]
      [] mode # "loopback" /\ cred.kind = "oidc" /\ VerifyLogin(cred.of) ->
            [state EXCEPT !.pc = "stat", !.reading = "policy"]
      [] mode # "loopback" /\ cred.kind = "ticket" /\ VerifyTicket(cred.of, now, Leeway, MaxTtl) ->
            Granted(state, [user |-> cred.of.user, scopes |-> Resolved(Expand(cred.of.scopes)),
                            expires |-> cred.of.exp])
      [] OTHER -> Refused(state)

\* TokenBackend: the record the token names, then what the policy grants its user.
Identify(state, records) ==
    LET t == state.credential.of IN
    IF t \in records /\ (t.expires # None => t.expires > now)
    THEN [state EXCEPT !.pc = "stat", !.reading = "policy", !.read = Nothing]
    ELSE Refused(state)
ScopesFor(state, policy) ==
    LET cred == state.credential
        scopes == PolicyScopes(policy, cred.of.user, Asserted(cred))
    IN Granted(state, [user |-> cred.of.user, scopes |-> Resolved(scopes),
                       expires |-> Expiry(cred)])
Loaded(state, value) ==
    IF state.reading = "tokens" THEN Identify(state, value) ELSE ScopesFor(state, value)

---------------------------------------------------------------------------
(* The hello of a socket, or the bearer of a request. *)

Arrive(c, door, cred) ==
    /\ At(c, {"away"})
    /\ Becomes(c, Selected([Away EXCEPT !.door = door, !.credential = cred,
                                        !.window = {<<f, file[f].content>> : f \in Files}],
                           cred))
    /\ UNCHANGED <<now, mode, file, snap, edits>>
Hello(c, cred) == Arrive(c, "socket", cred)
\* A mode that checks no bearer looks at none, else the verifier takes its context.
ToolRequest(c, cred) ==
    Arrive(c, "mcp", IF mode = "credential" THEN cred ELSE [kind |-> "none"])

\* FileSnapshot.load: no file, the stamp of the snapshot, or a new one to parse.
Stat(c) ==
    LET f == conn[c].reading IN
    /\ At(c, {"stat"})
    /\ Becomes(c,
         IF file[f].content = Missing THEN Loaded(conn[c], Value(f, Missing))
         ELSE IF file[f].stamp = snap[f].stamp THEN Loaded(conn[c], snap[f].value)
         ELSE [conn[c] EXCEPT !.pc = "read", !.read.stamp = file[f].stamp])
    /\ UNCHANGED <<now, mode, file, snap, edits>>

\* A file that does not parse, or is gone by now, keeps the previous value.
Read(c) ==
    LET f == conn[c].reading IN
    /\ At(c, {"read"})
    /\ Becomes(c,
         IF file[f].content \in {Broken, Missing} THEN Loaded(conn[c], snap[f].value)
         ELSE [conn[c] EXCEPT !.pc = "store", !.read.content = file[f].content])
    /\ UNCHANGED <<now, mode, file, snap, edits>>

StoreNewestStamp(c) ==
    LET f == conn[c].reading
        read == conn[c].read
    IN
    /\ At(c, {"store"})
    /\ snap' = [snap EXCEPT ![f] = [value |-> read.content, stamp |-> file[f].stamp]]
    /\ Becomes(c, Loaded(conn[c], read.content))
    /\ UNCHANGED <<now, mode, file, edits>>
Store(c) ==
    LET f == conn[c].reading
        read == conn[c].read
    IN
    /\ At(c, {"store"})
    /\ snap' = [snap EXCEPT ![f] = [value |-> read.content, stamp |-> read.stamp]]
    /\ Becomes(c, Loaded(conn[c], read.content))
    /\ UNCHANGED <<now, mode, file, edits>>

\* A backend that raises anything else refuses the credential (BackendChain).
BackendFails(c) ==
    /\ At(c, {"stat", "read"})
    /\ Becomes(c, Refused(conn[c]))
    /\ UNCHANGED <<now, mode, file, snap, edits>>

\* Authenticator.verify_hello caps the context, and the hello_ok opens the socket.
Open(c) ==
    /\ At(c, {"cap"}) /\ conn[c].door = "socket"
    /\ Becomes(c, [conn[c] EXCEPT !.pc = "open", !.opened = now, !.window = {},
                                  !.context.expires = Until(@, now + MaxConnection)])
    /\ UNCHANGED <<now, mode, file, snap, edits>>

\* The SDK refuses a bearer that is past its expiry; the request waits for a worker.
Enter(c) ==
    /\ At(c, {"cap"}) /\ conn[c].door = "mcp"
    /\ Becomes(c, IF Remaining(conn[c].context.expires, now) = 0 THEN Away
                  ELSE [conn[c] EXCEPT !.pc = "tool"])
    /\ UNCHANGED <<now, mode, file, snap, edits>>
\* A tool under the context of its request: it acts on what the context covers, and
\* a refusal is an answer.
RunTool(c, tool, name) ==
    LET op == CallOf(tool)
        asked == IF op \in RowReads THEN Names ELSE {name}
        did == {<<op, n>> : n \in Rows(conn[c].context.scopes, asked, op)}
    IN
    /\ At(c, {"tool"})
    /\ Becomes(c, [conn[c] EXCEPT !.pc = "answer", !.did = did])
    /\ UNCHANGED <<now, mode, file, snap, edits>>
AnswerTool(c) == At(c, {"answer"}) /\ Becomes(c, Away) /\ UNCHANGED <<now, mode, file, snap, edits>>

---------------------------------------------------------------------------
(* The life of a connection, the clock and the operator. *)

Due(c) == At(c, {"open"}) /\ Remaining(conn[c].context.expires, now) = 0
Close(c) == Becomes(c, Away) /\ UNCHANGED <<now, mode, file, snap, edits>>
Disconnect(c) == At(c, {"open"}) /\ Close(c)
\* until_expiry: the timer of the context ends the receive loop.
Expire(c) == Due(c) /\ Close(c)

\* A timer that is due fires before the time goes on.
Tick ==
    /\ now < MaxNow /\ ~\E c \in Conns : Due(c)
    /\ now' = now + 1
    /\ UNCHANGED <<mode, file, snap, conn, edits>>

\* An editor on the policy file, one auth command at a time on the token file.
Publish(f, content) ==
    /\ edits < MaxEdits /\ edits' = edits + 1
    /\ content # file[f].content
    /\ file' = [file EXCEPT ![f] = [content |-> content, stamp |-> @.stamp + 1]]
    /\ conn' = [c \in Conns |->
                  IF At(c, {"away", "open"}) THEN conn[c]
                  ELSE [conn[c] EXCEPT !.window = @ \cup {<<f, content>>}]]
    /\ UNCHANGED <<now, mode, snap>>
EditPolicy == \E content \in Policies \cup {Broken, Missing} : Publish("policy", content)
\* token_revoke publishes the file without the record; token_create appends one.
Revoke(t) == t \in file["tokens"].content /\ Publish("tokens", file["tokens"].content \ {t})
CreateToken(t) == t \notin file["tokens"].content /\ Publish("tokens", file["tokens"].content \cup {t})

Next ==
    \/ \E c \in Conns : Stat(c) \/ Read(c) \/ Store(c) \/ BackendFails(c) \/ Open(c)
    \/ \E c \in Conns : Enter(c) \/ AnswerTool(c) \/ Disconnect(c) \/ Expire(c)
    \/ \E c \in Conns, cred \in Credentials : Hello(c, cred) \/ ToolRequest(c, cred)
    \/ \E c \in Conns, tool \in AgentTools, name \in Names : RunTool(c, tool, name)
    \/ Tick \/ EditPolicy
    \/ \E t \in Tokens : Revoke(t) \/ CreateToken(t)
Spec == Init /\ [][Next]_vars

---------------------------------------------------------------------------
(* Properties. *)

\* The type of the state of Authenticator, FileSnapshot and Connection.
TypeOK ==
    /\ now \in 0 .. MaxNow /\ mode \in Modes /\ edits \in 0 .. MaxEdits
    /\ file["tokens"].content \in SUBSET Tokens
    /\ file["policy"].content \in Policies \cup {Broken, Missing}
    /\ snap["tokens"].value \in SUBSET Tokens
    /\ snap["policy"].value \in Policies \cup {NoPolicy}
    /\ \A c \in Conns :
        /\ At(c, {"away", "stat", "read", "store", "cap", "open", "tool", "answer"})
        /\ conn[c].door \in {"socket", "mcp"} /\ conn[c].did \subseteq PortCalls \X Names
        /\ conn[c].reading \in Files /\ conn[c].credential \in Credentials
        /\ conn[c].opened \in 0 .. MaxNow

ByPolicy(c) == mode = "credential" /\ conn[c].credential.kind \in {"token", "oidc"}
During(c, f) == {w[2] : w \in {v \in conn[c].window : v[1] = f}}

\* What a caller is let in with, and what a tool acts with, was in the files at some
\* moment since it came, though another thread may parse an older version meanwhile:
\* a token revoked before is refused, the scopes are those of a policy of that time
\* and a tool carries out nothing else. A policy file that did not parse, or
\* vanished, at that time lets an earlier one decide (FileSnapshot.load).
GrantIsFresh ==
    \A c \in Conns : At(c, {"cap", "answer"}) /\ ByPolicy(c) =>
        LET cred == conn[c].credential
            scopes(p) == PolicyScopes(Value("policy", p), cred.of.user, Asserted(cred))
        IN
        /\ cred.kind = "token" => \E records \in During(c, "tokens") : cred.of \in records
        /\ \/ {Broken, Missing} \cap During(c, "policy") # {}
           \/ \E p \in During(c, "policy") :
                /\ conn[c].context.scopes = scopes(p)
                /\ \A d \in conn[c].did : Permitted(scopes(p), d[2], d[1])

\* A stale permission lives at most one socket lifetime: past the tick that opened
\* it, a socket is within the bound, within the life of its credential, and a
\* ticket, which nothing revokes, within the longest life a ticket may have
\* (Authenticator.verify_hello, until_expiry).
StaleGrantEnds ==
    \A c \in Conns : At(c, {"open"}) /\ now # conn[c].opened =>
        LET cred == conn[c].credential IN
        /\ now <= conn[c].opened + MaxConnection
        /\ ByPolicy(c) /\ Expiry(cred) # None => now <= Expiry(cred)
        /\ mode = "credential" /\ cred.kind = "ticket" =>
            now <= cred.of.exp /\ now <= cred.of.iat + MaxTtl
=============================================================================
