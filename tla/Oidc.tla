--------------------------------- MODULE Oidc ---------------------------------
(***************************************************************************)
(* The OpenID Connect backend (src/winslow/contrib/oidc.py): what a server *)
(* asks of the token of an issuer, and the entry a client keeps of a token *)
(* response.  A token is what its issuer put in it: iss, aud, the claims   *)
(* that may name a client, user, iat and exp.                              *)
(***************************************************************************)
EXTENDS Integers, Sequences, FiniteSetsExt

CONSTANTS
    None,          \* an absent value
    Leeway,        \* how far the clocks may differ
    ClientClaims   \* the claims that may name the client, the first one first

ASSUME LeewayAssumption == Leeway \in Nat

\* OidcBackend.__init__: an audience of its own needs an allow list.
BackendRefused(b) ==
    \/ b.issuer = None \/ b.audience = None
    \/ b.audience # b.publicUrl /\ b.clients = {}

Accepts(b, t) == t.kind = "oidc" /\ t.iss = b.issuer

\* Mutant: the last claim decides.
ClientOfLast(t) ==
    LET present == {i \in DOMAIN ClientClaims : ClientClaims[i] \in DOMAIN t.claims}
    IN IF present = {} THEN None ELSE t.claims[ClientClaims[Max(present)]]
\* By presence: an empty first claim does not hand the decision to the next.
ClientOf(t) ==
    LET present == {i \in DOMAIN ClientClaims : ClientClaims[i] \in DOMAIN t.claims}
    IN IF present = {} THEN None ELSE t.claims[ClientClaims[Min(present)]]

ListedClient(b, client) == b.clients = {} \/ client \in b.clients
AtAllowedDomain(b, t) == b.domains = {} \/ t.domain \in b.domains

\* The signature and the registered claims, then the claims winslow reads.
Identified(b, t, now) ==
    /\ b.audience \in t.aud
    /\ t.exp > now - Leeway /\ t.iat <= now + Leeway
    /\ t.user # None
    /\ AtAllowedDomain(b, t) /\ ListedClient(b, ClientOf(t))

---------------------------------------------------------------------------
(* The client. *)

\* Mutant: the refresh token of the first response stays.
EntryOfFirstRefresh(tokens, client, previous, now) ==
    [ token |-> tokens.access, kind |-> "oidc",
      user |-> IF previous = None THEN None ELSE previous.user,
      refresh |-> IF previous # None THEN previous.refresh ELSE tokens.refresh,
      expires |-> IF tokens.expiresIn = None THEN None ELSE now + tokens.expiresIn,
      client |-> client ]

\* A token response may omit the refresh token: the previous entry keeps it.
EntryOf(tokens, client, previous, now) ==
    [ token |-> tokens.access, kind |-> "oidc",
      user |-> IF previous = None THEN None ELSE previous.user,
      refresh |-> IF tokens.refresh # None THEN tokens.refresh
                  ELSE IF previous = None THEN None ELSE previous.refresh,
      expires |-> IF tokens.expiresIn = None THEN None ELSE now + tokens.expiresIn,
      client |-> client ]
\* Two listed issuers share the kind: the registration names the issuer.
Owns(issuerUrl, entry) ==
    entry.kind = "oidc" /\ entry.client # None /\ entry.client.issuer = issuerUrl
=============================================================================
