----------------------------- MODULE Credentials -----------------------------
(***************************************************************************)
(* The credential file of a person and the processes that use it: the      *)
(* `winslow auth` commands and `winslow connect`, whose receiver thread    *)
(* opens the socket again while its main thread may still write            *)
(* (src/winslow/access/credentials.py, backends.py, commands.py and        *)
(* Orchestrator._handle_connect).  Every process parses the file into a    *)
(* snapshot of its own and writes it whole; no lock orders two writers.    *)
(***************************************************************************)
EXTENDS Oidc

CONSTANTS
    Procs,       \* processes of the person
    Urls,        \* how a server may be spelled: scheme, host and path
    LoopbackHosts,
    Server,      \* host |-> the server there: mode and backends, first one first
    Issuers,     \* what the issuer may do: rotate, send a refresh token, tell the expiry
    Login,       \* what a browser login obtains: the token without its dates
    Pasted,      \* the entries a person may paste
    ClientIssuer, \* the issuer the settings of the client name
    Lifetime,
    MaxTime, MaxWrites, MaxLogins \* bounds: the clock, writes of the file, logins

\* A person the file may name.
Users == {Login.user, "local", "anonymous"} \cup {e.token.user : e \in Pasted}
\* The tokens a person may paste, and those a login obtains.
StoredTokens ==
    {e.token : e \in Pasted}
    \cup [kind : {"oidc"}, login : Nat, iss : {ClientIssuer}, aud : {Login.aud},
          claims : {Login.claims}, user : {Login.user}, domain : {Login.domain},
          app : {Login.app}, iat : Nat, exp : Nat]
CredentialEntries ==
    [token : StoredTokens, kind : {"oidc"} \cup {e.kind : e \in Pasted}, user : Users \cup {None},
     refresh : (Nat \X Nat) \cup {None}, expires : Nat \cup {None},
     client : [issuer : {ClientIssuer}] \cup {None}]

ASSUME CredentialsAssumption ==
    /\ \A u \in Urls : u.scheme \in {"ws", "wss", "http"} /\ u.host \in DOMAIN Server
    /\ \A h \in DOMAIN Server : Server[h].mode \in {"loopback", "open", "credential"}
    /\ Issuers \subseteq [rotates : BOOLEAN, refreshes : BOOLEAN, tells : BOOLEAN]
    /\ Pasted \subseteq CredentialEntries
    /\ \A e \in Pasted : e.refresh = None /\ e.expires = None
    /\ None \notin Urls \cup CredentialEntries \cup (Nat \X Nat)
    /\ Lifetime \in Nat \ {0} /\ MaxTime \in Nat /\ MaxWrites \in Nat /\ MaxLogins \in Nat

\* What the issuer vouches for: a token for the address of a server, or whose first
\* client claim names a client of that server, was issued to the app of that server.
Vouched ==
    {[iss |-> ClientIssuer, aud |-> Login.aud, claims |-> Login.claims, app |-> Login.app]}
    \cup {[iss |-> e.token.iss, aud |-> e.token.aud, claims |-> e.token.claims, app |-> e.token.app]
             : e \in Pasted}
NamedFirst(token, i) ==
    /\ ClientClaims[i] \in DOMAIN token.claims
    /\ \A j \in 1 .. i - 1 : ClientClaims[j] \notin DOMAIN token.claims
ASSUME IssuerAssumption ==
    /\ ClientClaims \in Seq(STRING)
    /\ \A h \in DOMAIN Server :
         LET chain == Server[h].backends IN
         /\ chain \in Seq({chain[i] : i \in DOMAIN chain})
         /\ \A i \in DOMAIN chain :
              /\ None \notin chain[i].clients
              /\ \A token \in Vouched :
                   /\ token.iss = chain[i].issuer
                   /\ \/ chain[i].publicUrl \in token.aud
                      \/ \E j \in DOMAIN ClientClaims :
                            NamedFirst(token, j) /\ token.claims[ClientClaims[j]] \in chain[i].clients
                   => token.app = "ours"

VARIABLES
    time,
    issuer,   \* how the issuer behaves, chosen once
    live,     \* login |-> the refresh token the issuer would take
    disk,     \* the file: entries by key, and its modification time
    snapshot, \* process |-> its CredentialFile: the entries and their stamp
    thread,   \* <<process, role>> |-> where the thread is
    truth,    \* history: what every set and delete so far amounts to
    clash,    \* history: a write whose thread had read what another has written since
    lost      \* history: the logins whose last token response never reached the file

credVars == <<time, issuer, live, disk, snapshot, thread, truth, clash, lost>>

Roles == {"main", "wire"}
Threads == Procs \X Roles
RootPaths == {"", "/", "/ws"}

\* The spelling the file keys by keeps the scheme and drops the websocket root.
CredentialKey(url) == [url EXCEPT !.path = IF @ \in RootPaths THEN "" ELSE @]
CheckedLoginUrl(url, insecure) ==
    /\ url.scheme \in {"ws", "wss"}
    /\ url.scheme = "ws" => url.host \in LoopbackHosts \/ insecure

Fresh == [stamp |-> 0, entries |-> <<>>]
Idle == [pc |-> "idle", url |-> None, entry |-> None, after |-> "idle", entries |-> <<>>,
         was |-> None, hello |-> None]

CredInit ==
    /\ time = 0 /\ issuer \in Issuers /\ live = <<>>
    /\ disk = Fresh /\ snapshot = [p \in Procs |-> Fresh]
    /\ thread = [t \in Threads |-> Idle]
    /\ truth = <<>> /\ clash = FALSE /\ lost = {}

---------------------------------------------------------------------------
(* The file. *)

Without(entries, key) == [k \in DOMAIN entries \ {key} |-> entries[k]]
With(entries, key, entry) ==
    IF entry = None THEN Without(entries, key)
    ELSE [k \in DOMAIN entries \cup {key} |-> IF k = key THEN entry ELSE entries[k]]
EntryIn(entries, key) == IF key \in DOMAIN entries THEN entries[key] ELSE None

\* Mutant: the file is read once.
LoadedOnce(p) == IF snapshot[p].stamp # 0 THEN snapshot[p] ELSE disk
\* FileSnapshot.load: no file, the stamp of the snapshot, or the file as it is.
Loaded(p) == IF disk.stamp = 0 \/ disk.stamp = snapshot[p].stamp THEN snapshot[p] ELSE disk
\* The snapshot goes with the process.
Keep(p, snap) ==
    snapshot' = [snapshot EXCEPT ![p] =
                    IF \A r \in Roles : thread'[<<p, r>>].pc = "idle" THEN Fresh ELSE snap]
Load(p) == Keep(p, Loaded(p))
Entry(t) == EntryIn(Loaded(t[1]).entries, CredentialKey(thread[t].url))

Goto(t, state) == thread' = [thread EXCEPT ![t] = state]
Is(t, pc) == thread[t].pc = pc
\* was: the entry this one was made from, if any.
Put(t, entry, was, after) ==
    [thread[t] EXCEPT !.pc = "merge", !.entry = entry, !.was = was, !.after = after]

\* Another thread has loaded the file it is about to replace, or has replaced it and not
\* seen the stamp; or the entry t started from is gone.
Races(t) ==
    \/ \E u \in Threads \ {t} : thread[u].pc \in {"write", "stat"}
    \/ /\ thread[t].was # None
       /\ thread[t].was # EntryIn(disk.entries, CredentialKey(thread[t].url))

\* CredentialFile.set and delete: load, then _write the whole file, then stat it.
Merge(t) ==
    LET entries == Loaded(t[1]).entries
        key == CredentialKey(thread[t].url)
    IN
    /\ Is(t, "merge")
    /\ IF thread[t].entry = None /\ key \notin DOMAIN entries THEN Goto(t, Idle)
       ELSE Goto(t, [thread[t] EXCEPT !.pc = "write", !.entries = With(entries, key, thread[t].entry)])
    /\ Load(t[1])
    /\ UNCHANGED <<time, issuer, live, disk, truth, clash, lost>>
Write(t) ==
    /\ Is(t, "write") /\ disk.stamp < MaxWrites
    /\ disk' = [stamp |-> disk.stamp + 1, entries |-> thread[t].entries]
    /\ truth' = With(truth, CredentialKey(thread[t].url), thread[t].entry)
    /\ clash' = (clash \/ Races(t))
    /\ Goto(t, [thread[t] EXCEPT !.pc = "stat"])
    /\ UNCHANGED <<time, issuer, live, snapshot, lost>>
Stat(t) ==
    /\ Is(t, "stat")
    /\ Goto(t, IF thread[t].after = "idle" THEN Idle
               ELSE [Idle EXCEPT !.pc = thread[t].after, !.url = thread[t].url])
    /\ Keep(t[1], [stamp |-> disk.stamp, entries |-> thread[t].entries])
    /\ UNCHANGED <<time, issuer, live, disk, truth, clash, lost>>

---------------------------------------------------------------------------
(* winslow auth. *)

Free(p) == \A r \in Roles : Is(<<p, r>>, "idle")
Main(p) == <<p, "main">>

LoginPasted(p, url, insecure, entry) ==
    /\ Free(p) /\ CheckedLoginUrl(url, insecure)
    /\ Goto(Main(p), [Idle EXCEPT !.pc = "merge", !.url = url, !.entry = entry])
    /\ UNCHANGED <<time, issuer, live, disk, snapshot, truth, clash, lost>>
LoginBrowser(p, url, insecure) ==
    /\ Free(p) /\ CheckedLoginUrl(url, insecure)
    /\ Goto(Main(p), [Idle EXCEPT !.pc = "browser", !.url = url])
    /\ UNCHANGED <<time, issuer, live, disk, snapshot, truth, clash, lost>>

\* The first request on /callback decides: only the state of this login and a code
\* lead on, any other answer and the timeout end the command.
Callback(p) ==
    /\ Is(Main(p), "browser")
    /\ \E answer \in {"code", "other state", "denied", "no code", "timeout"} :
         Goto(Main(p), IF answer = "code" THEN [thread[Main(p)] EXCEPT !.pc = "exchange"]
                       ELSE Idle)
    /\ Keep(p, snapshot[p])
    /\ UNCHANGED <<time, issuer, live, disk, truth, clash, lost>>

\* A token response of the issuer for the login l.
Tokens(l, refresh) ==
    [ access |-> [kind |-> "oidc", login |-> l, iss |-> ClientIssuer, aud |-> Login.aud,
                  claims |-> Login.claims, user |-> Login.user, domain |-> Login.domain,
                  app |-> Login.app, iat |-> time, exp |-> time + Lifetime],
      refresh |-> refresh,
      expiresIn |-> IF issuer.tells THEN Lifetime ELSE None ]
Exchange(p) ==
    LET t == Main(p)
        l == Len(live) + 1
        tokens == Tokens(l, IF issuer.refreshes THEN <<l, 0>> ELSE None)
        client == [issuer |-> ClientIssuer]
    IN
    /\ Is(t, "exchange")
    /\ \/ /\ l <= MaxLogins
          /\ live' = Append(live, 0)
          /\ Goto(t, Put(t, EntryOf(tokens, client, None, time), None, "idle"))
       \/ Goto(t, Idle) /\ UNCHANGED live
    /\ Keep(p, snapshot[p])
    /\ UNCHANGED <<time, issuer, disk, truth, clash, lost>>

Logout(p, url) ==
    /\ Free(p)
    /\ Goto(Main(p), [Idle EXCEPT !.pc = "merge", !.url = url])
    /\ UNCHANGED <<time, issuer, live, disk, snapshot, truth, clash, lost>>

\* The commands that write the file.
AuthCommand(p) ==
    \E url \in Urls :
        \/ Logout(p, url)
        \/ \E insecure \in BOOLEAN :
              \/ LoginBrowser(p, url, insecure)
              \/ \E e \in Pasted : LoginPasted(p, url, insecure, e)

---------------------------------------------------------------------------
(* winslow connect. *)

Connect(p, url) ==
    /\ Free(p)
    /\ Goto(Main(p), [Idle EXCEPT !.pc = "ask", !.url = url])
    /\ UNCHANGED <<time, issuer, live, disk, snapshot, truth, clash, lost>>

\* refresh_expired: only an expired entry of a listed kind that can be refreshed.
Refreshable(entry) ==
    /\ entry # None /\ entry.expires # None /\ entry.expires <= time
    /\ Owns(ClientIssuer, entry) /\ entry.refresh # None
Ask(t) ==
    /\ Is(t, "ask")
    /\ Goto(t, IF Refreshable(Entry(t)) THEN [thread[t] EXCEPT !.pc = "refresh", !.entry = Entry(t)]
               ELSE [thread[t] EXCEPT !.pc = "send"])
    /\ Load(t[1])
    /\ UNCHANGED <<time, issuer, live, disk, truth, clash, lost>>

\* An error ends the command, and makes the receiver thread try again.
Failed(t) == IF t[2] = "main" THEN Idle
             ELSE [thread[t] EXCEPT !.pc = "ask", !.entry = None, !.hello = None]

Granted(t) ==
    LET l == thread[t].entry.refresh[1]
        n == thread[t].entry.refresh[2]
    IN live[l] = n
Refresh(t) ==
    LET entry == thread[t].entry
        l == entry.refresh[1]
        next == IF issuer.rotates THEN live[l] + 1 ELSE live[l]
        tokens == Tokens(l, IF issuer.rotates THEN <<l, next>> ELSE None)
    IN
    /\ Is(t, "refresh")
    /\ \/ /\ Granted(t)
          /\ live' = [live EXCEPT ![l] = next]
          /\ \/ /\ Goto(t, Put(t, EntryOf(tokens, entry.client, entry, time), entry, "send"))
                /\ UNCHANGED lost
             \/ /\ Goto(t, Failed(t))
                /\ lost' = lost \cup {l}
       \/ Goto(t, Failed(t)) /\ UNCHANGED <<live, lost>>
    /\ Keep(t[1], snapshot[t[1]])
    /\ UNCHANGED <<time, issuer, disk, truth, clash>>

\* The verdict of a server on the token of a hello (the modes of serve/auth.py and
\* BackendChain): its user and the kind of the credential, or refused.
Refusal == [user |-> None, credential |-> "refused"]
ByChain(chain, token) ==
    LET fitting == {i \in DOMAIN chain : Accepts(chain[i], token)}
    IN IF fitting = {} THEN Refusal
       ELSE IF Identified(chain[Min(fitting)], token, time)
       THEN [user |-> token.user, credential |-> "oidc"] ELSE Refusal
Starts(server) == \A i \in DOMAIN server.backends : ~BackendRefused(server.backends[i])
LoopbackMode == [user |-> "local", credential |-> "local"]
CredentialMode(chain, token) == IF token = None THEN Refusal ELSE ByChain(chain, token)
OpenMode(chain, token) ==
    LET known == CredentialMode(chain, token)
    IN IF known = Refusal THEN [user |-> "anonymous", credential |-> "open"] ELSE known
Verdict(server, token) ==
    CASE server.mode = "loopback" -> LoopbackMode
      [] server.mode = "open" -> OpenMode(server.backends, token)
      [] server.mode = "credential" -> CredentialMode(server.backends, token)

\* Wire._open: the token that is stored now goes into the hello.
Send(t) ==
    LET server == Server[thread[t].url.host]
        token == IF Entry(t) = None THEN None ELSE Entry(t).token
        hello == Verdict(server, token)
        open == [thread[t] EXCEPT !.pc = "app", !.hello = [verdict |-> hello, token |-> token]]
    IN
    /\ Is(t, "send")
    /\ \/ /\ Starts(server) /\ hello # Refusal
          /\ thread' = [u \in Threads |->
                IF u = <<t[1], "wire">> THEN open
                ELSE IF u = t THEN [open EXCEPT !.pc = "remember"] ELSE thread[u]]
       \/ /\ Starts(server) => hello = Refusal
          /\ Goto(t, Failed(t))
    /\ Load(t[1])
    /\ UNCHANGED <<time, issuer, live, disk, truth, clash, lost>>

SamePerson(entry, token) == token # None => entry.token.user = token.user

\* remember_user: a local or an open server names no person.
RememberUser(t) ==
    LET hello == thread[t].hello.verdict
        known == \/ Entry(t) = None \/ hello.credential \in {"local", "open"}
                 \/ Entry(t).user = hello.user
    IN
    /\ Is(t, "remember")
    /\ Goto(t, IF known THEN [thread[t] EXCEPT !.pc = "app", !.hello = None]
               ELSE Put(t, [Entry(t) EXCEPT !.user = hello.user], Entry(t), "app"))
    /\ clash' = (clash \/ (~known /\ ~SamePerson(Entry(t), thread[t].hello.token)))
    /\ Load(t[1])
    /\ UNCHANGED <<time, issuer, live, disk, truth, lost>>

\* The socket is gone: the receiver thread opens a new one.
Drop(p) ==
    LET t == <<p, "wire">> IN
    /\ Is(t, "app")
    /\ Goto(t, [thread[t] EXCEPT !.pc = "ask", !.hello = None])
    /\ UNCHANGED <<time, issuer, live, disk, snapshot, truth, clash, lost>>

\* A process ends, at any point of its threads.
End(p) ==
    /\ ~Free(p)
    /\ thread' = [t \in Threads |-> IF t[1] = p THEN Idle ELSE thread[t]]
    /\ snapshot' = [snapshot EXCEPT ![p] = Fresh]
    /\ lost' = lost \cup {thread[t].entry.refresh[1] : t \in
                  {u \in {p} \X Roles : thread[u].pc \in {"merge", "write"} /\ thread[u].after = "send"
                                        /\ thread[u].entry.refresh # None}}
    /\ UNCHANGED <<time, issuer, live, disk, truth, clash>>

CredTick ==
    /\ time < MaxTime /\ time' = time + 1
    /\ UNCHANGED <<issuer, live, disk, snapshot, thread, truth, clash, lost>>

CredNext ==
    \/ \E t \in Threads : Ask(t) \/ Refresh(t) \/ Send(t) \/ RememberUser(t)
                          \/ Merge(t) \/ Write(t) \/ Stat(t)
    \/ \E p \in Procs : AuthCommand(p) \/ Callback(p) \/ Exchange(p) \/ Drop(p) \/ End(p)
    \/ \E p \in Procs, url \in Urls : Connect(p, url)
    \/ CredTick
CredSpec == CredInit /\ [][CredNext]_credVars

---------------------------------------------------------------------------
(* Properties *)

\* As long as no two threads are between their read and their write at once, the file
\* holds what every login, logout, refresh and remembered user amounts to: a snapshot
\* is never taken for the file another process has written since (FileSnapshot.load,
\* CredentialFile._write).
EntriesSurvive == ~clash => disk.entries = truth

\* A stored login can go on for as long as the issuer answers: the refresh token in the
\* file is the one the issuer would take, or a thread is about to store that one,
\* whether the issuer rotates its refresh tokens or sends none (refresh_expired,
\* entry_of).
RefreshGoesOn ==
    ~clash => \A k \in DOMAIN disk.entries :
        LET refresh == disk.entries[k].refresh IN
        refresh # None /\ refresh[1] \notin lost =>
            \/ live[refresh[1]] = refresh[2]
            \/ \E t \in Threads : thread[t].pc \in {"merge", "write"} /\ thread[t].after = "send"
                                 /\ thread[t].entry.refresh = <<refresh[1], live[refresh[1]]>>

\* Nobody enters with the token of another app: the token of an open socket of a
\* server that checks credentials was issued to a client of that server or for its
\* own address, however the backends are set up (OidcBackend).
OnlyOurLogins ==
    \A t \in Threads :
        Is(t, "app") /\ thread[t].hello # None /\ Server[thread[t].url.host].mode = "credential" =>
            thread[t].hello.token.app = "ours"
=============================================================================
