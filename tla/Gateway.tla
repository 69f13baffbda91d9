------------------------------ MODULE Gateway ------------------------------
(***************************************************************************)
(* The gateway in front of the agent: who a request comes from is          *)
(* resolved, the caller's token may be exchanged for one that is meant for *)
(* the agent (RFC 8693, with a cache), and the request is sent on to the   *)
(* agent or to the platform service.                                       *)
(*                                                                         *)
(* Handlers run in goroutines of their own; an action is the code between  *)
(* two points where they meet: the cache, the key set, the network.  Only  *)
(* waiting takes time.                                                     *)
(***************************************************************************)
EXTENDS Integers, FiniteSets

CONSTANTS
    Tokens,         \* records: sub, the subject or Nobody; exp; sound, all other checks
    Setups,         \* configurations: mode, exchange
    Inputs,         \* requests: route; bearer token; the user the proxy in front names; and a
                    \* copy of the X-Auth-Subject header that is not the gateway's
    TTLs,           \* expires_in of exchanged tokens
    Margin, CacheTTLCap, Leeway, FetchTimeout,
    Slots,          \* requests at a time
    MaxArrivals,    \* bound: requests of a behaviour
    MaxTime         \* bound: the clock stops here

VARIABLES
    setup,
    request,   \* per slot: where its handler is, what came in, the headers X-Auth-Subject and
               \* Authorization as they are now, and local variables
    cache,     \* TokenExchanger.cache
    now,
    arrivals   \* how many requests there were

vars == << setup, request, cache, now, arrivals >>

-----------------------------------------------------------------------------
Nobody == "nobody"
None == [sub |-> Nobody, exp |-> 0, life |-> 0]   \* no token of ours
People == {t.sub : t \in Tokens} \cup {Nobody}

Exempt == {"healthz", "readyz", "card"}
Forwarded == {"sessions", "traces", "usage", "files"}       \* by ForwardingHandler
Copied == {"chat", "feedback", "upload"}                    \* by a request of the handler's own
Routes == Exempt \cup Forwarded \cup Copied \cup {"agent-info"}

NoToken == [sub |-> Nobody, exp |-> 0, sound |-> FALSE]
Bearers == Tokens \cup {NoToken}
Swapped == [sub : People, exp : Nat, life : Nat]
Authorizations == {"none", "inbound", "swapped"}

PCs == {"idle", "auth", "look", "delete", "fetch", "issued", "handle", "sent"}
Idle == [pc |-> "idle", route |-> "healthz", token |-> NoToken, user |-> Nobody, subject |-> Nobody,
         auth |-> "none", swapped |-> None, since |-> 0]

TypeOK ==
    /\ setup \in Setups
    /\ request \in [Slots -> [pc : PCs, route : Routes, token : Bearers, user : People, subject : People,
                              auth : Authorizations, swapped : Swapped, since : Nat]]
    /\ cache \in [Bearers -> [token : Swapped, expires : Nat]]
    /\ now \in 0..MaxTime
    /\ arrivals \in 0..MaxArrivals

Init ==
    /\ setup \in Setups
    /\ request = [r \in Slots |-> Idle]
    /\ cache = [t \in Bearers |-> [token |-> None, expires |-> 0]]
    /\ now = 0
    /\ arrivals = 0

At(r, pc) == request[r].pc = pc
Goto(r, pc) == request' = [request EXCEPT ![r].pc = pc]
\* The client has its answer.
Answer(r) == request' = [request EXCEPT ![r] = Idle]

Arrive(r, input) ==
    /\ At(r, "idle")
    /\ arrivals < MaxArrivals
    /\ arrivals' = arrivals + 1
    /\ request' = [request EXCEPT ![r] = [Idle EXCEPT
                      !.pc = "auth", !.route = input.route, !.token = input.token, !.user = input.user,
                      !.subject = input.subject, !.auth = IF input.token = NoToken THEN "none" ELSE "inbound"]]
    /\ UNCHANGED << setup, cache, now >>

-----------------------------------------------------------------------------
(* Authentication.                                                         *)
StripCanonicalHeaders(req) == [req EXCEPT !.subject = Nobody]

\* setCanonicalHeaders
Identified(req, subject) == [StripCanonicalHeaders(req) EXCEPT !.subject = subject]

\* (A variant, used by no specification: Authorization is replaced, or left as it is.)
ReplaceAuthorization(req, swapped) ==
    [req EXCEPT !.auth = IF swapped = None THEN @ ELSE "swapped", !.swapped = swapped]

\* Authorization is replaced, or goes.
ProjectAuthorization(req, swapped) ==
    [req EXCEPT !.auth = IF swapped = None THEN "none" ELSE "swapped", !.swapped = swapped]

Admit(r, subject, swapped) ==
    request' = [request EXCEPT ![r] =
        [ProjectAuthorization(Identified(@, subject), swapped) EXCEPT !.pc = "handle"]]

\* Probes and the card need no identity.
Bypass(r) ==
    /\ At(r, "auth")
    /\ request[r].route \in Exempt
    /\ request' = [request EXCEPT ![r] = [StripCanonicalHeaders(@) EXCEPT !.pc = "handle"]]
    /\ UNCHANGED << setup, cache, now, arrivals >>

Asks(r) == At(r, "auth") /\ request[r].route \notin Exempt

\* AnonymousAuth
Anonymous(r) ==
    /\ Asks(r)
    /\ setup.mode = "anonymous"
    /\ Admit(r, Nobody, None)
    /\ UNCHANGED << setup, cache, now, arrivals >>

\* ProxyAuth; 503 if the header is missing.
ByProxy(r) ==
    /\ Asks(r)
    /\ setup.mode = "proxy"
    /\ IF request[r].user = Nobody
         THEN Answer(r)
         ELSE Admit(r, request[r].user, None)
    /\ UNCHANGED << setup, cache, now, arrivals >>

\* The claims of a token hold: signature, issuer, audience, dates, and a subject.
Valid(token) == token.sound /\ now < token.exp + Leeway /\ token.sub # Nobody

\* 503 if the token's key is not among the cached ones and fetching them does not help,
\* 401 if the token is not valid.
ByToken(r, known) ==
    /\ Asks(r)
    /\ setup.mode = "jwt"
    /\ LET token == request[r].token
       IN  IF token = NoToken \/ ~known \/ ~Valid(token)
             THEN Answer(r)
             ELSE IF setup.exchange THEN Goto(r, "look") ELSE Admit(r, token.sub, None)
    /\ UNCHANGED << setup, cache, now, arrivals >>

-----------------------------------------------------------------------------
(* TokenExchanger.Exchange.                                                *)
Entry(r) == cache[request[r].token]

\* Load: a hit, nothing, or an entry which has expired
Look(r) ==
    /\ At(r, "look")
    /\ IF now < Entry(r).expires
         THEN Admit(r, request[r].token.sub, Entry(r).token)
         ELSE request' = [request EXCEPT ![r].since = now,
                             ![r].pc = IF Entry(r).token = None THEN "fetch" ELSE "delete"]
    /\ UNCHANGED << setup, cache, now, arrivals >>

\* and is deleted, whatever is there by now.
Delete(r) ==
    /\ At(r, "delete")
    /\ cache' = [cache EXCEPT ![request[r].token] = [token |-> None, expires |-> 0]]
    /\ Goto(r, "fetch")
    /\ UNCHANGED << setup, now, arrivals >>

\* The authorization server issues a token,
Issue(r, ttl) ==
    /\ At(r, "fetch")
    /\ request' = [request EXCEPT ![r].pc = "issued",
                      ![r].swapped = [sub |-> request[r].token.sub, exp |-> now + ttl, life |-> ttl]]
    /\ UNCHANGED << setup, cache, now, arrivals >>

\* cacheTTL
CacheTTL(ttl) == IF ttl - Margin > CacheTTLCap THEN CacheTTLCap ELSE ttl - Margin

\* its answer comes, and is kept from now on for less than it lives.
Store(r) ==
    /\ At(r, "issued")
    /\ LET new == request[r].swapped
       IN  /\ cache' = IF CacheTTL(new.life) > 0
                         THEN [cache EXCEPT ![request[r].token] =
                                  [token |-> new, expires |-> now + CacheTTL(new.life)]]
                         ELSE cache
           /\ Admit(r, request[r].token.sub, new)
    /\ UNCHANGED << setup, now, arrivals >>

\* It fails or takes too long, or the client goes away: 503.
FetchFails(r) ==
    /\ At(r, "fetch") \/ At(r, "issued")
    /\ Answer(r)
    /\ UNCHANGED << setup, cache, now, arrivals >>

-----------------------------------------------------------------------------
(* The handlers.                                                           *)
Projected(r) == request[r].route \in Copied \cup Forwarded

\* The headers are copied one by one, cloned, or, by readyz and agent-info, left out.
Send(r) ==
    /\ At(r, "handle")
    /\ request[r].route \notin {"healthz", "card"}
    /\ LET headers == IF Projected(r) THEN request[r]
                      ELSE [request[r] EXCEPT !.subject = Nobody, !.auth = "none", !.swapped = None]
       IN  request' = [request EXCEPT ![r] = [headers EXCEPT !.pc = "sent", !.since = now]]
    /\ UNCHANGED << setup, cache, now, arrivals >>

\* The backend's answer is copied, 502 if there is none; probes and the card are answered
\* here.
Respond(r) ==
    /\ At(r, "sent") \/ (At(r, "handle") /\ request[r].route \in {"healthz", "card"})
    /\ Answer(r)
    /\ UNCHANGED << setup, cache, now, arrivals >>

\* The client of the exchange gives up before more time passes.
Tick ==
    /\ now < MaxTime
    /\ \A r \in Slots :
        /\ request[r].pc \in {"idle", "fetch", "issued", "sent"}
        /\ request[r].pc \in {"fetch", "issued"} => now < request[r].since + FetchTimeout
    /\ now' = now + 1
    /\ UNCHANGED << setup, request, cache, arrivals >>

Next ==
    \/ \E r \in Slots :
        \/ \E input \in Inputs : Arrive(r, input)
        \/ Bypass(r) \/ Anonymous(r) \/ ByProxy(r)
        \/ \E known \in BOOLEAN : ByToken(r, known)
        \/ Look(r) \/ Delete(r) \/ Store(r) \/ FetchFails(r)
        \/ \E ttl \in TTLs : Issue(r, ttl)
        \/ Send(r) \/ Respond(r)
    \/ Tick

Spec == Init /\ [][Next]_vars

-----------------------------------------------------------------------------
(* Properties.                                                             *)

\* What the gateway sends on, it can vouch for: never the caller's own token nor its copy
\* of a canonical header; the identity of the caller; and, where tokens are exchanged, one
\* for this caller with the safety margin left, less what the exchange took, whatever the
\* order in which requests with the same token find, delete and refresh the cached one.
CallersAreVouchedFor ==
    \A r \in Slots : At(r, "sent") =>
        LET req == request[r]
        IN  /\ req.auth # "inbound"
            /\ req.subject = IF ~Projected(r) \/ setup.mode = "anonymous" THEN Nobody
                             ELSE IF setup.mode = "proxy" THEN req.user
                             ELSE req.token.sub
            /\ setup.exchange /\ Projected(r) =>
                 /\ req.swapped.sub = req.token.sub
                 /\ LET left == req.swapped.exp - req.since + FetchTimeout
                    IN  left >= Margin \/ left >= req.swapped.life
=============================================================================
