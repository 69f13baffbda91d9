--------------------------- MODULE ServicesProofs ---------------------------
(***************************************************************************)
(* What the components promise side by side.                               *)
(***************************************************************************)
EXTENDS Services, StoresProofs, AgentsProofs

-----------------------------------------------------------------------------
(* A behaviour is one of a component from its first state to its last, or  *)
(* it never is.                                                            *)

LEMMA SqliteRuns == Spec => Sqlite!Spec \/ []~(part = "sqlite")
<1>1. Init /\ part = "sqlite" => Sqlite!Init
  BY DEF Init
<1>2. part = "sqlite" /\ [Next]_all => [Sqlite!Next]_(Sqlite!vars) /\ (part = "sqlite")'
  BY DEF Next, all, sqliteVars, Sqlite!vars
<1>3. ~(part = "sqlite") /\ [Next]_all => (~(part = "sqlite"))'
  BY DEF Next, all
<1> QED
  BY <1>1, <1>2, <1>3, PTL DEF Spec, Sqlite!Spec

LEMMA GateRuns == Spec => Gate!Spec \/ []~(part = "gateway")
<1>1. Init /\ part = "gateway" => Gate!Init
  BY DEF Init
<1>2. part = "gateway" /\ [Next]_all => [Gate!Next]_(Gate!vars) /\ (part = "gateway")'
  BY DEF Next, all, gateVars, Gate!vars
<1>3. ~(part = "gateway") /\ [Next]_all => (~(part = "gateway"))'
  BY DEF Next, all
<1> QED
  BY <1>1, <1>2, <1>3, PTL DEF Spec, Gate!Spec

LEMMA ChainRuns == Spec => Chain!Spec \/ []~(part = "delegation")
<1>1. Init /\ part = "delegation" => Chain!Init
  BY DEF Init
<1>2. part = "delegation" /\ [Next]_all => [Chain!Next]_(Chain!vars) /\ (part = "delegation")'
  BY DEF Next, all, chainVars, Chain!vars
<1>3. ~(part = "delegation") /\ [Next]_all => (~(part = "delegation"))'
  BY DEF Next, all
<1> QED
  BY <1>1, <1>2, <1>3, PTL DEF Spec, Chain!Spec

LEMMA HistoryRuns == Spec => History!Spec \/ []~(part = "history")
<1>1. Init /\ part = "history" => History!Init
  BY DEF Init
<1>2. part = "history" /\ [Next]_all => [History!Next]_(History!vars) /\ (part = "history")'
  BY DEF Next, all, historyVars, History!vars
<1>3. ~(part = "history") /\ [Next]_all => (~(part = "history"))'
  BY DEF Next, all
<1> QED
  BY <1>1, <1>2, <1>3, PTL DEF Spec, History!Spec

LEMMA RecoveryRuns == Spec => Recovery!Spec \/ []~(part = "recovery")
<1>1. Init /\ part = "recovery" => Recovery!Init
  BY DEF Init
<1>2. part = "recovery" /\ [Next]_all => [Recovery!Next]_(Recovery!vars) /\ (part = "recovery")'
  BY DEF Next, all, recoveryVars, Recovery!vars
<1>3. ~(part = "recovery") /\ [Next]_all => (~(part = "recovery"))'
  BY DEF Next, all
<1> QED
  BY <1>1, <1>2, <1>3, PTL DEF Spec, Recovery!Spec

LEMMA AccountRuns == Spec => Accounts!Spec \/ []~(part = "accounts")
<1>1. Init /\ part = "accounts" => Accounts!Init
  BY DEF Init
<1>2. part = "accounts" /\ [Next]_all => [Accounts!Next]_(Accounts!vars) /\ (part = "accounts")'
  BY DEF Next, all, accountVars, Accounts!vars
<1>3. ~(part = "accounts") /\ [Next]_all => (~(part = "accounts"))'
  BY DEF Next, all
<1> QED
  BY <1>1, <1>2, <1>3, PTL DEF Spec, Accounts!Spec

LEMMA SkillRuns == Spec => Learning!Spec \/ []~(part = "skills")
<1>1. Init /\ part = "skills" => Learning!Init
  BY DEF Init
<1>2. part = "skills" /\ [Next]_all => [Learning!Next]_(Learning!vars) /\ (part = "skills")'
  BY DEF Next, all, skillVars, Learning!vars
<1>3. ~(part = "skills") /\ [Next]_all => (~(part = "skills"))'
  BY DEF Next, all
<1> QED
  BY <1>1, <1>2, <1>3, PTL DEF Spec, Learning!Spec

LEMMA StreamRuns == Spec => Streams!Spec \/ []~(part = "streams")
<1>1. Init /\ part = "streams" => Streams!Init
  BY DEF Init
<1>2. part = "streams" /\ [Next]_all => [Streams!Next]_(Streams!vars) /\ (part = "streams")'
  BY DEF Next, all, streamVars, Streams!vars
<1>3. ~(part = "streams") /\ [Next]_all => (~(part = "streams"))'
  BY DEF Next, all
<1> QED
  BY <1>1, <1>2, <1>3, PTL DEF Spec, Streams!Spec

LEMMA McpRuns == Spec => Mcp!Spec \/ []~(part = "mcp")
<1>1. Init /\ part = "mcp" => Mcp!Init
  BY DEF Init
<1>2. part = "mcp" /\ [Next]_all => [Mcp!Next]_(Mcp!vars) /\ (part = "mcp")'
  BY DEF Next, all, mcpVars, Mcp!vars
<1>3. ~(part = "mcp") /\ [Next]_all => (~(part = "mcp"))'
  BY DEF Next, all
<1> QED
  BY <1>1, <1>2, <1>3, PTL DEF Spec, Mcp!Spec

LEMMA FlowRuns == Spec => Flow!Spec \/ []~(part = "workflow")
<1>1. Init /\ part = "workflow" => Flow!Init
  BY DEF Init
<1>2. part = "workflow" /\ [Next]_all => [Flow!Next]_(Flow!vars) /\ (part = "workflow")'
  BY DEF Next, all, flowVars, Flow!vars
<1>3. ~(part = "workflow") /\ [Next]_all => (~(part = "workflow"))'
  BY DEF Next, all
<1> QED
  BY <1>1, <1>2, <1>3, PTL DEF Spec, Flow!Spec

LEMMA CronRuns == Spec => Cron!Spec \/ []~(part = "cron")
<1>1. Init /\ part = "cron" => Cron!Init
  BY DEF Init
<1>2. part = "cron" /\ [Next]_all => [Cron!Next]_(Cron!vars) /\ (part = "cron")'
  BY DEF Next, all, cronVars, Cron!vars
<1>3. ~(part = "cron") /\ [Next]_all => (~(part = "cron"))'
  BY DEF Next, all
<1> QED
  BY <1>1, <1>2, <1>3, PTL DEF Spec, Cron!Spec

LEMMA EventRuns == Spec => Pipeline!Spec \/ []~(part = "events")
<1>1. Init /\ part = "events" => Pipeline!Init
  BY DEF Init
<1>2. part = "events" /\ [Next]_all => [Pipeline!Next]_(Pipeline!vars) /\ (part = "events")'
  BY DEF Next, all, eventVars, Pipeline!vars
<1>3. ~(part = "events") /\ [Next]_all => (~(part = "events"))'
  BY DEF Next, all
<1> QED
  BY <1>1, <1>2, <1>3, PTL DEF Spec, Pipeline!Spec

LEMMA TraceRuns == Spec => Traces!Spec \/ []~(part = "traces")
<1>1. Init /\ part = "traces" => Traces!Init
  BY DEF Init
<1>2. part = "traces" /\ [Next]_all => [Traces!Next]_(Traces!vars) /\ (part = "traces")'
  BY DEF Next, all, traceVars, Traces!vars
<1>3. ~(part = "traces") /\ [Next]_all => (~(part = "traces"))'
  BY DEF Next, all
<1> QED
  BY <1>1, <1>2, <1>3, PTL DEF Spec, Traces!Spec

LEMMA FeedbackRuns == Spec => Feedback!Spec \/ []~(part = "feedback")
<1>1. Init /\ part = "feedback" => Feedback!Init
  BY DEF Init
<1>2. part = "feedback" /\ [Next]_all => [Feedback!Next]_(Feedback!vars) /\ (part = "feedback")'
  BY DEF Next, all, feedbackVars, Feedback!vars
<1>3. ~(part = "feedback") /\ [Next]_all => (~(part = "feedback"))'
  BY DEF Next, all
<1> QED
  BY <1>1, <1>2, <1>3, PTL DEF Spec, Feedback!Spec

LEMMA ChunkRuns == Spec => Chunks!Spec \/ []~(part = "chunks")
<1>1. Init /\ part = "chunks" => Chunks!Init
  BY DEF Init
<1>2. part = "chunks" /\ [Next]_all => [Chunks!Next]_(Chunks!vars) /\ (part = "chunks")'
  BY DEF Next, all, chunkVars, Chunks!vars
<1>3. ~(part = "chunks") /\ [Next]_all => (~(part = "chunks"))'
  BY DEF Next, all
<1> QED
  BY <1>1, <1>2, <1>3, PTL DEF Spec, Chunks!Spec

-----------------------------------------------------------------------------
(***************************************************************************)
(* The gateway.                                                            *)
(*                                                                         *)
(* The invariant dates each token: an entry of the cache expires, by the   *)
(* clock, a margin before its token does, but for the time the exchange    *)
(* took (GateCached); a handler that has fetched one has waited no longer  *)
(* than the timeout (GateWaiting); and no time passes between finding a    *)
(* token and sending it.  Whose token an entry is depends only on its key. *)
(***************************************************************************)
\* A token is good enough at time t.
GateLasts(token, t) ==
    LET left == token.exp - t + GateFetchTimeout IN left >= GateMargin \/ left >= token.life

GateCached ==
    \A t \in Gate!Bearers :
        gateCache[t].expires > 0 =>
            /\ gateCache[t].token.sub = t.sub
            /\ gateCache[t].expires <= gateCache[t].token.exp + GateFetchTimeout - GateMargin

GateWaiting(r) ==
    /\ gateRequest[r].pc \in {"look", "delete", "fetch", "issued"} => gateSetup.mode = "jwt"
    /\ gateRequest[r].pc \in {"delete", "fetch", "issued"} =>
         gateRequest[r].since <= gateNow /\ gateNow <= gateRequest[r].since + GateFetchTimeout
    /\ gateRequest[r].pc = "issued" =>
         /\ gateRequest[r].swapped.sub = gateRequest[r].token.sub
         /\ gateRequest[r].swapped.exp >= gateRequest[r].since + gateRequest[r].swapped.life

GateSubject(req) ==
    IF gateSetup.mode = "anonymous" THEN Gate!Nobody
    ELSE IF gateSetup.mode = "proxy" THEN req.user
    ELSE req.token.sub

\* A request that goes on with its caller's identity.
GateVouched(req, t) ==
    /\ req.auth # "inbound"
    /\ req.subject = GateSubject(req)
    /\ gateSetup.exchange => req.swapped.sub = req.token.sub /\ GateLasts(req.swapped, t)

GateAdmitted(r) ==
    /\ gateRequest[r].pc = "handle" /\ Gate!Projected(r) => GateVouched(gateRequest[r], gateNow)
    /\ gateRequest[r].pc = "sent" /\ Gate!Projected(r) => GateVouched(gateRequest[r], gateRequest[r].since)
    /\ gateRequest[r].pc = "sent" /\ ~Gate!Projected(r) => gateRequest[r].auth = "none" /\ gateRequest[r].subject = Gate!Nobody

GateIInv == Gate!TypeOK /\ GateCached /\ \A r \in GateSlots : GateWaiting(r) /\ GateAdmitted(r)

GateRequests == [pc : Gate!PCs, route : Gate!Routes, token : Gate!Bearers, user : Gate!People, subject : Gate!People,
             auth : Gate!Authorizations, swapped : Gate!Swapped, since : Nat]

-----------------------------------------------------------------------------
LEMMA GateValues ==
    /\ Gate!Idle \in GateRequests /\ Gate!Idle.pc = "idle" /\ Gate!None \in Gate!Swapped /\ Gate!Nobody \in Gate!People
    /\ \A t \in Gate!Bearers : t.sub \in Gate!People
BY DEF Gate!Idle, GateRequests, Gate!PCs, Gate!Routes, Gate!Exempt, Gate!Copied, Gate!Forwarded, Gate!Bearers, Gate!NoToken, Gate!People, Gate!Nobody,
       Gate!Authorizations, Gate!Swapped, Gate!None

\* One handler goes on, and the others do not see it.
LEMMA GateHandlerKeeps ==
    ASSUME GateIInv, NEW r \in GateSlots, NEW new \in GateRequests,
           gateRequest' = [gateRequest EXCEPT ![r] = new],
           UNCHANGED << gateSetup, gateNow >>, gateArrivals' \in 0..GateMaxArrivals,
           gateCache' \in [Gate!Bearers -> [token : Gate!Swapped, expires : Nat]], GateCached',
           GateWaiting(r)', GateAdmitted(r)'
    PROVE  GateIInv'
<1>1. /\ gateRequest' \in [GateSlots -> GateRequests] /\ \A x \in GateSlots : x # r => gateRequest'[x] = gateRequest[x]
  BY DEF GateIInv, Gate!TypeOK, GateRequests
<1>2. \A x \in GateSlots : x # r => GateWaiting(x)' /\ GateAdmitted(x)'
  BY <1>1 DEF GateIInv, GateWaiting, GateAdmitted, Gate!Projected, GateVouched, GateSubject, GateLasts
<1>3. Gate!TypeOK'
  BY <1>1 DEF GateIInv, Gate!TypeOK, GateRequests
<1> QED
  BY <1>2, <1>3 DEF GateIInv

\* A handler that has answered its client.
LEMMA GateAnswerKeeps ==
    ASSUME GateIInv, NEW r \in GateSlots, Gate!Answer(r), UNCHANGED << gateSetup, gateCache, gateNow, gateArrivals >>
    PROVE  GateIInv'
<1>1. gateRequest'[r] = Gate!Idle /\ Gate!Idle \in GateRequests /\ Gate!Idle.pc = "idle"
  BY GateValues DEF Gate!Answer, GateIInv, Gate!TypeOK
<1>2. GateWaiting(r)' /\ GateAdmitted(r)'
  BY <1>1 DEF GateWaiting, GateAdmitted
<1>3. GateCached' /\ gateCache' \in [Gate!Bearers -> [token : Gate!Swapped, expires : Nat]] /\ gateArrivals' \in 0..GateMaxArrivals
  BY DEF GateIInv, Gate!TypeOK, GateCached
<1> QED
  BY <1>1, <1>2, <1>3, GateHandlerKeeps DEF Gate!Answer

\* A handler that has been let through, with an identity and perhaps a token.
LEMMA GateAdmitKeeps ==
    ASSUME GateIInv, NEW r \in GateSlots, NEW subject \in Gate!People, NEW swapped \in Gate!Swapped,
           Gate!Admit(r, subject, swapped), UNCHANGED << gateSetup, gateNow, gateArrivals >>,
           subject = GateSubject(gateRequest[r]),
           gateSetup.exchange => swapped.sub = gateRequest[r].token.sub /\ GateLasts(swapped, gateNow),
           gateCache' \in [Gate!Bearers -> [token : Gate!Swapped, expires : Nat]], GateCached'
    PROVE  GateIInv'
<1> DEFINE new == [Gate!ProjectAuthorization(Gate!Identified(gateRequest[r], subject), swapped) EXCEPT !.pc = "handle"]
<1>1. gateRequest[r] \in GateRequests /\ gateRequest' = [gateRequest EXCEPT ![r] = new]
  BY DEF GateIInv, Gate!TypeOK, GateRequests, Gate!Admit
<1>2. /\ new \in GateRequests /\ new.pc = "handle" /\ new.auth # "inbound" /\ new.subject = subject
      /\ new.swapped = swapped /\ new.token = gateRequest[r].token /\ new.user = gateRequest[r].user
  BY <1>1 DEF Gate!ProjectAuthorization, Gate!Identified, Gate!StripCanonicalHeaders, GateRequests, Gate!PCs, Gate!Authorizations
<1> HIDE DEF new
<1>3. gateRequest'[r] = new
  BY <1>1 DEF GateIInv, Gate!TypeOK
<1>4. GateVouched(new, gateNow)
  BY <1>2 DEF GateVouched, GateSubject
<1>5. GateWaiting(r)' /\ GateAdmitted(r)'
  BY <1>2, <1>3, <1>4 DEF GateWaiting, GateAdmitted, GateVouched, GateSubject, GateLasts
<1>6. gateArrivals' \in 0..GateMaxArrivals
  BY DEF GateIInv, Gate!TypeOK
<1> QED
  BY <1>1, <1>2, <1>5, <1>6, GateHandlerKeeps

LEMMA GateInitially ==
    ASSUME GateParameters, Gate!Init
    PROVE  GateIInv
<1>1. Gate!TypeOK
  <2>1. gateNow \in 0..GateMaxTime /\ gateArrivals \in 0..GateMaxArrivals
    BY DEF Gate!Init, GateParameters
  <2>2. gateRequest \in [GateSlots -> GateRequests]
    BY GateValues DEF Gate!Init
  <2>3. gateCache \in [Gate!Bearers -> [token : Gate!Swapped, expires : Nat]]
    BY GateValues DEF Gate!Init
  <2> QED
    BY <2>1, <2>2, <2>3 DEF Gate!Init, Gate!TypeOK, GateRequests
<1>2. GateCached
  BY DEF Gate!Init, GateCached
<1>3. \A r \in GateSlots : GateWaiting(r) /\ GateAdmitted(r)
  BY GateValues DEF Gate!Init, GateWaiting, GateAdmitted
<1> QED
  BY <1>1, <1>2, <1>3 DEF GateIInv

LEMMA GateIInvKept ==
    ASSUME GateParameters, GateIInv, [Gate!Next]_(Gate!vars)
    PROVE  GateIInv'
<1> DEFINE CacheType == [Gate!Bearers -> [token : Gate!Swapped, expires : Nat]]
<1>0. ASSUME NEW r \in GateSlots
      PROVE  /\ gateRequest \in [GateSlots -> GateRequests] /\ gateRequest[r] \in GateRequests /\ gateNow \in Nat /\ gateCache \in CacheType
             /\ GateCached /\ gateArrivals \in 0..GateMaxArrivals /\ gateArrivals \in Nat
             /\ gateRequest[r].token \in Gate!Bearers /\ gateRequest[r].token.sub \in Gate!People /\ gateRequest[r].user \in Gate!People
             /\ gateRequest[r].since \in Nat /\ gateRequest[r].swapped \in Gate!Swapped
  <2>1. gateRequest[r] \in GateRequests
    BY DEF GateIInv, Gate!TypeOK, GateRequests
  <2> QED
    BY <2>1, GateValues DEF GateIInv, Gate!TypeOK, GateRequests, GateParameters
<1>1. ASSUME NEW r \in GateSlots, NEW input \in GateInputs, Gate!Arrive(r, input) PROVE GateIInv'
  <2> DEFINE new == [Gate!Idle EXCEPT
                       !.pc = "auth", !.route = input.route, !.token = input.token, !.user = input.user,
                       !.subject = input.subject, !.auth = IF input.token = Gate!NoToken THEN "none" ELSE "inbound"]
  <2>1. new \in GateRequests /\ new.pc = "auth"
    BY GateValues DEF Gate!Idle, GateRequests, Gate!PCs, Gate!Authorizations, GateParameters
  <2>2. gateRequest' = [gateRequest EXCEPT ![r] = new] /\ UNCHANGED << gateSetup, gateCache, gateNow >>
    BY <1>1 DEF Gate!Arrive
  <2> HIDE DEF new
  <2>3. GateWaiting(r)' /\ GateAdmitted(r)'
    BY <1>0, <2>1, <2>2 DEF GateWaiting, GateAdmitted
  <2>4. gateArrivals' \in 0..GateMaxArrivals
    BY <1>0, <1>1 DEF Gate!Arrive, GateParameters
  <2>5. GateCached' /\ gateCache' \in CacheType
    BY <1>0, <2>2 DEF GateCached
  <2> QED
    BY <2>1, <2>2, <2>3, <2>4, <2>5, GateHandlerKeeps
<1>2. ASSUME NEW r \in GateSlots, Gate!Bypass(r) PROVE GateIInv'
  <2> DEFINE new == [Gate!StripCanonicalHeaders(gateRequest[r]) EXCEPT !.pc = "handle"]
  <2>1. new \in GateRequests /\ new.pc = "handle" /\ new.route \in Gate!Exempt
    BY <1>0, <1>2, GateValues DEF Gate!Bypass, Gate!StripCanonicalHeaders, GateRequests, Gate!PCs
  <2>2. gateRequest' = [gateRequest EXCEPT ![r] = new] /\ UNCHANGED << gateSetup, gateCache, gateNow, gateArrivals >>
    BY <1>2 DEF Gate!Bypass
  <2> HIDE DEF new
  <2>3. gateRequest'[r] = new
    BY <1>0, <2>2
  <2>4. GateWaiting(r)' /\ GateAdmitted(r)'
    BY <2>1, <2>3 DEF GateWaiting, GateAdmitted, Gate!Projected, Gate!Exempt, Gate!Copied, Gate!Forwarded
  <2>5. GateCached' /\ gateCache' \in CacheType /\ gateArrivals' \in 0..GateMaxArrivals
    BY <1>0, <2>2 DEF GateCached
  <2> QED
    BY <2>1, <2>2, <2>4, <2>5, GateHandlerKeeps
<1>3. ASSUME NEW r \in GateSlots, Gate!Anonymous(r) \/ Gate!ByProxy(r) \/ \E known \in BOOLEAN : Gate!ByToken(r, known)
      PROVE  GateIInv'
  <2>1. UNCHANGED << gateSetup, gateCache, gateNow, gateArrivals >>
    BY <1>3 DEF Gate!Anonymous, Gate!ByProxy, Gate!ByToken
  <2>2. GateCached' /\ gateCache' \in CacheType /\ gateArrivals' \in 0..GateMaxArrivals
    BY <1>0, <2>1 DEF GateCached
  <2>3. CASE Gate!Answer(r)
    BY <2>1, <2>3, GateAnswerKeeps
  <2>4. CASE Gate!Admit(r, GateSubject(gateRequest[r]), Gate!None) /\ ~gateSetup.exchange
    <3>1. GateSubject(gateRequest[r]) \in Gate!People /\ Gate!None \in Gate!Swapped
      BY <1>0, GateValues DEF GateSubject
    <3> QED
      BY <2>1, <2>2, <2>4, <3>1, GateAdmitKeeps
  <2>5. CASE Gate!Goto(r, "look") /\ gateSetup.mode = "jwt"
    <3> DEFINE new == [gateRequest[r] EXCEPT !.pc = "look"]
    <3>1. new \in GateRequests /\ new.pc = "look" /\ gateRequest' = [gateRequest EXCEPT ![r] = new]
      BY <1>0, <2>5 DEF Gate!Goto, GateRequests, Gate!PCs
    <3> HIDE DEF new
    <3>2. GateWaiting(r)' /\ GateAdmitted(r)'
      BY <1>0, <2>1, <2>5, <3>1 DEF GateWaiting, GateAdmitted
    <3> QED
      BY <2>1, <2>2, <3>1, <3>2, GateHandlerKeeps
  <2>6. gateSetup.exchange => gateSetup.mode = "jwt"
    BY DEF GateParameters, GateIInv, Gate!TypeOK
  <2> QED
    BY <1>3, <2>3, <2>4, <2>5, <2>6 DEF Gate!Anonymous, Gate!ByProxy, Gate!ByToken, GateSubject
<1>4. ASSUME NEW r \in GateSlots, Gate!Look(r) PROVE GateIInv'
  <2> DEFINE entry == gateCache[gateRequest[r].token]
  <2>1. UNCHANGED << gateSetup, gateCache, gateNow, gateArrivals >> /\ gateSetup.mode = "jwt" /\ Gate!At(r, "look")
    BY <1>4 DEF Gate!Look, GateIInv, GateWaiting, Gate!At
  <2>2. GateCached' /\ gateCache' \in CacheType /\ gateArrivals' \in 0..GateMaxArrivals
    BY <1>0, <2>1 DEF GateCached
  <2>3. entry.token \in Gate!Swapped /\ entry.expires \in Nat
    BY <1>0
  <2>4. CASE gateNow < entry.expires
    <3>1. /\ entry.token.sub = gateRequest[r].token.sub
          /\ entry.expires <= entry.token.exp + GateFetchTimeout - GateMargin
      BY <1>0, <2>3, <2>4 DEF GateCached
    <3>2. entry.token.exp \in Nat
      BY <2>3 DEF Gate!Swapped
    <3>3. GateLasts(entry.token, gateNow)
      BY <1>0, <2>3, <2>4, <3>1, <3>2 DEF GateLasts, GateParameters
    <3>4. Gate!Admit(r, gateRequest[r].token.sub, entry.token)
      BY <1>4, <2>4 DEF Gate!Look, Gate!Entry
    <3>5. gateRequest[r].token.sub = GateSubject(gateRequest[r])
      BY <2>1 DEF GateSubject
    <3> QED
      BY <1>0, <2>1, <2>2, <2>3, <3>1, <3>3, <3>4, <3>5, GateAdmitKeeps
  <2>5. CASE ~(gateNow < entry.expires)
    <3> DEFINE new == [gateRequest[r] EXCEPT !.since = gateNow, !.pc = IF entry.token = Gate!None THEN "fetch" ELSE "delete"]
    <3>1. /\ new \in GateRequests /\ new.pc \in {"fetch", "delete"} /\ new.since = gateNow
          /\ gateRequest' = [gateRequest EXCEPT ![r] = new]
      BY <1>0, <1>4, <2>5 DEF Gate!Look, Gate!Entry, GateRequests, Gate!PCs
    <3> HIDE DEF new
    <3>2. GateWaiting(r)' /\ GateAdmitted(r)'
      BY <1>0, <2>1, <3>1 DEF GateWaiting, GateAdmitted, GateParameters
    <3> QED
      BY <2>1, <2>2, <3>1, <3>2, GateHandlerKeeps
  <2> QED
    BY <2>4, <2>5
<1>5. ASSUME NEW r \in GateSlots, Gate!Delete(r) PROVE GateIInv'
  <2> DEFINE new == [gateRequest[r] EXCEPT !.pc = "fetch"]
  <2>1. /\ new \in GateRequests /\ new.pc = "fetch" /\ new.since = gateRequest[r].since
        /\ gateRequest' = [gateRequest EXCEPT ![r] = new] /\ UNCHANGED << gateSetup, gateNow, gateArrivals >>
    BY <1>0, <1>5 DEF Gate!Delete, Gate!Goto, GateRequests, Gate!PCs
  <2> HIDE DEF new
  <2>2. GateWaiting(r) /\ gateRequest[r].pc = "delete"
    BY <1>5 DEF GateIInv, Gate!Delete, Gate!At
  <2>3. GateWaiting(r)' /\ GateAdmitted(r)'
    BY <1>0, <2>1, <2>2 DEF GateWaiting, GateAdmitted
  <2>4. gateCache' = [gateCache EXCEPT ![gateRequest[r].token] = [token |-> Gate!None, expires |-> 0]]
    BY <1>5 DEF Gate!Delete
  <2>5. GateCached' /\ gateCache' \in CacheType
    BY <1>0, <2>4, GateValues DEF GateCached
  <2>6. gateArrivals' \in 0..GateMaxArrivals
    BY <1>0, <2>1
  <2> QED
    BY <2>1, <2>3, <2>5, <2>6, GateHandlerKeeps
<1>6. ASSUME NEW r \in GateSlots, NEW ttl \in GateTTLs, Gate!Issue(r, ttl) PROVE GateIInv'
  <2> DEFINE token == [sub |-> gateRequest[r].token.sub, exp |-> gateNow + ttl, life |-> ttl]
             new == [gateRequest[r] EXCEPT !.pc = "issued", !.swapped = token]
  <2>1. ttl \in Nat /\ gateNow + ttl \in Nat
    BY <1>0 DEF GateParameters
  <2>2. token \in Gate!Swapped /\ token.sub = gateRequest[r].token.sub /\ token.exp = gateNow + ttl /\ token.life = ttl
    BY <1>0, <2>1 DEF Gate!Swapped
  <2> HIDE DEF token
  <2>3. /\ new \in GateRequests /\ new.pc = "issued" /\ new.since = gateRequest[r].since /\ new.swapped = token
        /\ new.token = gateRequest[r].token
    BY <1>0, <2>2 DEF GateRequests, Gate!PCs
  <2>4. gateRequest' = [gateRequest EXCEPT ![r] = new] /\ UNCHANGED << gateSetup, gateCache, gateNow, gateArrivals >>
    BY <1>6 DEF Gate!Issue, token
  <2> HIDE DEF new
  <2>5. GateWaiting(r) /\ gateRequest[r].pc = "fetch" /\ gateRequest'[r] = new
    BY <1>0, <1>6, <2>4 DEF GateIInv, Gate!Issue, Gate!At
  <2>6. GateWaiting(r)' /\ GateAdmitted(r)'
    BY <1>0, <2>1, <2>2, <2>3, <2>4, <2>5 DEF GateWaiting, GateAdmitted
  <2>7. GateCached' /\ gateCache' \in CacheType /\ gateArrivals' \in 0..GateMaxArrivals
    BY <1>0, <2>4 DEF GateCached
  <2> QED
    BY <2>3, <2>4, <2>6, <2>7, GateHandlerKeeps
<1>7. ASSUME NEW r \in GateSlots, Gate!Store(r) PROVE GateIInv'
  <2> DEFINE new == gateRequest[r].swapped
             ttl == Gate!CacheTTL(new.life)
  <2>1. /\ Gate!At(r, "issued") /\ UNCHANGED << gateSetup, gateNow, gateArrivals >>
        /\ Gate!Admit(r, gateRequest[r].token.sub, new)
        /\ gateCache' = IF ttl > 0
                      THEN [gateCache EXCEPT ![gateRequest[r].token] = [token |-> new, expires |-> gateNow + ttl]]
                      ELSE gateCache
    BY <1>7 DEF Gate!Store
  <2>2. /\ gateSetup.mode = "jwt" /\ new.sub = gateRequest[r].token.sub
        /\ gateNow <= gateRequest[r].since + GateFetchTimeout /\ new.exp >= gateRequest[r].since + new.life
    BY <2>1 DEF GateIInv, GateWaiting, Gate!At
  <2>3. new \in Gate!Swapped /\ new.life \in Nat /\ new.exp \in Nat
    BY <1>0 DEF Gate!Swapped
  <2>4. ttl \in Int /\ ttl <= new.life - GateMargin
    BY <2>3 DEF Gate!CacheTTL, GateParameters
  <2> HIDE DEF new, ttl
  <2>5. GateLasts(new, gateNow)
    BY <1>0, <2>2, <2>3 DEF GateLasts, GateParameters
  <2>6. gateNow + ttl <= new.exp + GateFetchTimeout - GateMargin
    BY <1>0, <2>2, <2>3, <2>4 DEF GateParameters
  <2>7. GateCached' /\ gateCache' \in CacheType
    <3>1. CASE ttl > 0
      <4>1. gateNow + ttl \in Nat
        BY <1>0, <2>4, <3>1
      <4> DEFINE e == [token |-> new, expires |-> gateNow + ttl]
      <4>2. e \in [token : Gate!Swapped, expires : Nat] /\ e.token = new /\ e.expires = gateNow + ttl
        BY <2>3, <4>1
      <4> HIDE DEF e
      <4>3. gateCache' = [gateCache EXCEPT ![gateRequest[r].token] = e]
        BY <2>1, <3>1 DEF e
      <4> QED
        BY <1>0, <2>2, <2>6, <4>2, <4>3 DEF GateCached
    <3>2. CASE ~(ttl > 0)
      BY <1>0, <2>1, <3>2 DEF GateCached
    <3> QED
      BY <3>1, <3>2
  <2>8. gateRequest[r].token.sub = GateSubject(gateRequest[r])
    BY <2>2 DEF GateSubject
  <2> QED
    BY <1>0, <2>1, <2>2, <2>3, <2>5, <2>7, <2>8, GateAdmitKeeps
<1>8. ASSUME NEW r \in GateSlots, Gate!FetchFails(r) \/ Gate!Respond(r) PROVE GateIInv'
  BY <1>8, GateAnswerKeeps DEF Gate!FetchFails, Gate!Respond
<1>9. ASSUME NEW r \in GateSlots, Gate!Send(r) PROVE GateIInv'
  <2> DEFINE headers == IF Gate!Projected(r) THEN gateRequest[r]
                        ELSE [gateRequest[r] EXCEPT !.subject = Gate!Nobody, !.auth = "none", !.swapped = Gate!None]
             new == [headers EXCEPT !.pc = "sent", !.since = gateNow]
  <2>1. gateRequest' = [gateRequest EXCEPT ![r] = new] /\ UNCHANGED << gateSetup, gateCache, gateNow, gateArrivals >>
    BY <1>9 DEF Gate!Send
  <2>2. GateAdmitted(r) /\ gateRequest[r].pc = "handle"
    BY <1>9 DEF GateIInv, Gate!Send, Gate!At
  <2>3. /\ headers \in GateRequests /\ headers.route = gateRequest[r].route
        /\ Gate!Projected(r) => headers = gateRequest[r]
        /\ ~Gate!Projected(r) => headers.auth = "none" /\ headers.subject = Gate!Nobody
    BY <1>0, GateValues DEF GateRequests, Gate!Authorizations
  <2> HIDE DEF headers
  <2>4. /\ new \in GateRequests /\ new.pc = "sent" /\ new.since = gateNow /\ new.route = headers.route
        /\ new.auth = headers.auth /\ new.subject = headers.subject /\ new.swapped = headers.swapped
        /\ new.token = headers.token /\ new.user = headers.user
    BY <1>0, <2>3 DEF GateRequests, Gate!PCs
  <2> HIDE DEF new
  <2>5. gateRequest'[r] = new
    BY <1>0, <2>1
  <2>6. GateWaiting(r)' /\ GateAdmitted(r)'
    BY <2>1, <2>2, <2>3, <2>4, <2>5 DEF GateWaiting, GateAdmitted, Gate!Projected, GateVouched, GateSubject, GateLasts
  <2>7. GateCached' /\ gateCache' \in CacheType /\ gateArrivals' \in 0..GateMaxArrivals
    BY <1>0, <2>1 DEF GateCached
  <2> QED
    BY <2>1, <2>4, <2>6, <2>7, GateHandlerKeeps
<1>10. CASE Gate!Tick
  <2>1. UNCHANGED << gateSetup, gateRequest, gateCache, gateArrivals >> /\ gateNow' = gateNow + 1 /\ gateNow < GateMaxTime /\ gateNow \in 0..GateMaxTime
    BY <1>10 DEF Gate!Tick, GateIInv, Gate!TypeOK
  <2>2. Gate!TypeOK' /\ GateCached'
    BY <2>1 DEF GateIInv, Gate!TypeOK, GateCached, GateParameters
  <2>3. ASSUME NEW r \in GateSlots PROVE GateWaiting(r)' /\ GateAdmitted(r)'
    <3>1. /\ gateRequest[r].pc \in {"idle", "fetch", "issued", "sent"}
          /\ gateRequest[r].pc \in {"fetch", "issued"} => gateNow < gateRequest[r].since + GateFetchTimeout
      BY <1>10 DEF Gate!Tick
    <3>2. GateWaiting(r) /\ GateAdmitted(r)
      BY DEF GateIInv
    <3>3. GateWaiting(r)'
      BY <1>0, <2>1, <3>1, <3>2 DEF GateWaiting, GateParameters
    <3>4. GateAdmitted(r)'
      BY <2>1, <3>1, <3>2 DEF GateAdmitted, Gate!Projected, GateVouched, GateSubject, GateLasts
    <3> QED
      BY <3>3, <3>4
  <2> QED
    BY <2>2, <2>3 DEF GateIInv
<1>11. CASE UNCHANGED Gate!vars
  BY <1>11 DEF Gate!vars, GateIInv, Gate!TypeOK, GateCached, GateWaiting, GateAdmitted, Gate!Projected, GateVouched, GateSubject, GateLasts
<1> QED
  BY <1>1, <1>2, <1>3, <1>4, <1>5, <1>6, <1>7, <1>8, <1>9, <1>10, <1>11 DEF Gate!Next

LEMMA GateInvariance ==
    ASSUME GateParameters
    PROVE  Gate!Spec => []GateIInv
<1>1. Gate!Init => GateIInv
  BY GateInitially
<1>2. GateIInv /\ [Gate!Next]_(Gate!vars) => GateIInv'
  BY GateIInvKept
<1> QED
  BY <1>1, <1>2, PTL DEF Gate!Spec

\* The handlers' records, the cache and the clock keep their types.
THEOREM GateTypeCorrect ==
    ASSUME GateParameters
    PROVE  Gate!Spec => []Gate!TypeOK
<1>1. GateIInv => Gate!TypeOK
  BY DEF GateIInv
<1> QED
  BY <1>1, GateInvariance, PTL

\* Whatever the order in which concurrent handlers find, delete and refresh cached tokens,
\* the gateway sends on no Authorization of the client's, the caller's identity and no
\* other, and an exchanged token of this caller with its margin left.
THEOREM GateCallersAreAlwaysVouchedFor ==
    ASSUME GateParameters
    PROVE  Gate!Spec => []Gate!CallersAreVouchedFor
<1>1. GateIInv => Gate!CallersAreVouchedFor
  BY DEF GateIInv, GateAdmitted, GateVouched, GateSubject, GateLasts, Gate!CallersAreVouchedFor, Gate!At
<1> QED
  BY <1>1, GateInvariance, PTL

-----------------------------------------------------------------------------
(***************************************************************************)
(* Streams and uploads.                                                    *)
(*                                                                         *)
(* The relay has passed on what its reader has scanned but the line on     *)
(* offer; it stops at [DONE] or with the reader, which stops with the      *)
(* response.  The agent of an upload has the parts before the next one,    *)
(* each checked, the first file by the handler and not by the copy.        *)
(***************************************************************************)
StreamWrote == Len(streamRelay.wrote)

StreamTyped ==
    /\ streamLines \in [lines : Nat, done : Nat, end : {"open", "closed", "broken"}]
    /\ streamReader \in [pc : {"scan", "offer", "ended"}, line : Nat]
    /\ streamRelay \in [pc : {"select", "returned"}, wrote : Seq(Nat)]
    /\ streamRelay.wrote = [i \in 1..StreamWrote |-> i]
    /\ streamLines.done <= streamLines.lines
    /\ streamReader.line <= streamLines.lines
    /\ StreamWrote <= streamLines.lines

\* As long as the relay waits it has passed on what was scanned, and [DONE] was not there.
StreamRelayed ==
    streamRelay.pc = "select" =>
        /\ streamReader.pc = "offer" => StreamWrote = streamReader.line - 1
        /\ streamReader.pc # "offer" => StreamWrote = streamReader.line
        /\ streamLines.done > 0 => StreamWrote < streamLines.done
        /\ streamReader.pc = "ended" =>
              streamLines.end # "open" /\ (streamLines.end = "closed" => streamReader.line = streamLines.lines)

\* It returns after [DONE], or with the response.
StreamReturned ==
    streamRelay.pc = "returned" =>
        \/ streamLines.done > 0 /\ StreamWrote = streamLines.done
        \/ /\ streamLines.end # "open"
           /\ streamLines.done > 0 => StreamWrote < streamLines.done
           /\ streamLines.end = "closed" => StreamWrote = streamLines.lines /\ streamLines.done = 0

StreamRelayInv == StreamTyped /\ StreamRelayed /\ StreamReturned

StreamSent(n) ==
    /\ streamAgent.has = [i \in 1..n |-> i]
    /\ \A i \in 1..n : Streams!Allowed(i) /\ ~Streams!TooLarge(i)

StreamUploadTyped ==
    /\ streamUpload \in StreamUploads
    /\ streamAgent \in [has : Seq(Nat), boundary : BOOLEAN, whole : BOOLEAN, answered : BOOLEAN]
    /\ streamCopier \in [pc : {"idle", "copy", "ended", "failed", "large", "refused"}, next : Nat]
    /\ streamCopier.next \in 1..(Len(streamUpload.parts) + 1)
    /\ streamCopier.pc = "idle" => streamCopier.next = 1 /\ streamAgent.has = << >> /\ ~streamAgent.answered
    /\ streamCopier.pc # "idle" => Streams!Allowed(Streams!FirstFile)

StreamCopied ==
    /\ streamCopier.pc = "copy" /\ ~streamAgent.answered => StreamSent(streamCopier.next - 1)
    /\ streamAgent.whole => streamAgent.boundary /\ streamCopier.pc = "ended" /\ StreamSent(Len(streamUpload.parts))
    /\ streamAnswer = "200" => streamAgent.whole

StreamUploadInv == StreamUploadTyped /\ StreamCopied

\* The numbers up to n, in order.
StreamUpTo(n) == [i \in 1..n |-> i]

LEMMA StreamNumbers ==
    ASSUME NEW n \in Nat
    PROVE  /\ StreamUpTo(n) \in Seq(Nat) /\ Len(StreamUpTo(n)) = n
           /\ Append(StreamUpTo(n), n + 1) = StreamUpTo(n + 1)
           /\ n = 0 => StreamUpTo(n) = << >>
<1>1. ASSUME NEW m \in Nat PROVE StreamUpTo(m) \in Seq(Nat) /\ Len(StreamUpTo(m)) = m
  BY <1>1 DEF StreamUpTo
<1>2. /\ Append(StreamUpTo(n), n + 1) \in Seq(Nat) /\ Len(Append(StreamUpTo(n), n + 1)) = n + 1
      /\ \A i \in 1..n : Append(StreamUpTo(n), n + 1)[i] = StreamUpTo(n)[i]
      /\ Append(StreamUpTo(n), n + 1)[n + 1] = n + 1
  <2>1. n + 1 \in Nat /\ StreamUpTo(n) \in Seq(Nat) /\ Len(StreamUpTo(n)) = n
    BY <1>1
  <2>2. /\ Append(StreamUpTo(n), n + 1) \in Seq(Nat)
        /\ Len(Append(StreamUpTo(n), n + 1)) = Len(StreamUpTo(n)) + 1
        /\ \A i \in 1..Len(StreamUpTo(n)) : Append(StreamUpTo(n), n + 1)[i] = StreamUpTo(n)[i]
        /\ Append(StreamUpTo(n), n + 1)[Len(StreamUpTo(n)) + 1] = n + 1
    BY <2>1, AppendProperties
  <2> QED
    BY <2>1, <2>2
<1>3. StreamUpTo(n + 1) \in Seq(Nat) /\ Len(StreamUpTo(n + 1)) = n + 1
  BY <1>1
<1>4. \A i \in 1..n : StreamUpTo(n)[i] = i
  BY DEF StreamUpTo
<1>5. \A i \in 1..(n + 1) : StreamUpTo(n + 1)[i] = i
  BY DEF StreamUpTo
<1> DEFINE p == Append(StreamUpTo(n), n + 1)
           q == StreamUpTo(n + 1)
<1>6. \A i \in 1..(n + 1) : p[i] = q[i]
  <2> SUFFICES ASSUME NEW i \in 1..(n + 1) PROVE p[i] = q[i]
    OBVIOUS
  <2>1. CASE i = n + 1
    <3>1. p[i] = n + 1
      BY <2>1, <1>2
    <3>2. q[i] = i
      BY <1>5
    <3> QED
      BY <2>1, <3>1, <3>2
  <2>2. CASE i \in 1..n
    <3>1. p[i] = i
      BY <2>2, <1>2, <1>4
    <3>2. q[i] = i
      BY <1>5
    <3> QED
      BY <3>1, <3>2
  <2>3. i = n + 1 \/ i \in 1..n
    OBVIOUS
  <2> QED
    BY <2>1, <2>2, <2>3, Zenon
<1>7. p \in Seq(Nat) /\ q \in Seq(Nat) /\ Len(p) = Len(q) /\ \A i \in 1..Len(p) : p[i] = q[i]
  BY <1>2, <1>3, <1>6
<1> HIDE DEF p, q
<1>8. p = q
  BY <1>7, SeqEqual
<1>9. n = 0 => StreamUpTo(n) = << >>
  BY <1>1
<1> QED
  BY <1>1, <1>8, <1>9 DEF p, q

-----------------------------------------------------------------------------
LEMMA StreamStarts == Streams!Init => StreamRelayInv /\ StreamUploadInv
<1> SUFFICES ASSUME Streams!Init PROVE StreamRelayInv /\ StreamUploadInv
  OBVIOUS
<1>1. StreamRelayInv
  <2>1. /\ streamLines = [lines |-> 0, done |-> 0, end |-> "open"]
        /\ streamReader = [pc |-> "scan", line |-> 0] /\ streamRelay = [pc |-> "select", wrote |-> << >>]
    BY DEF Streams!Init, Streams!RelayInit
  <2>2. StreamWrote = 0 /\ << >> \in Seq(Nat)
    BY <2>1 DEF StreamWrote
  <2>3. streamRelay.wrote = [i \in 1..StreamWrote |-> i]
    BY <2>1, <2>2, StreamNumbers DEF StreamUpTo
  <2>4. StreamTyped
    BY <2>1, <2>2, <2>3 DEF StreamTyped
  <2> QED
    BY <2>1, <2>2, <2>4 DEF StreamRelayInv, StreamRelayed, StreamReturned
<1>2. StreamUploadInv
  <2>1. /\ streamUpload \in StreamUploads /\ streamCopier = [pc |-> "idle", next |-> 1]
        /\ streamAgent = [has |-> << >>, boundary |-> FALSE, whole |-> FALSE, answered |-> FALSE] /\ streamAnswer = "none"
    BY DEF Streams!Init, Streams!UploadInit
  <2>2. Len(streamUpload.parts) \in Nat
    BY <2>1, StreamAssumption
  <2>3. StreamUploadTyped
    BY <2>1, <2>2 DEF StreamUploadTyped
  <2> QED
    BY <2>1, <2>3 DEF StreamUploadInv, StreamCopied
<1> QED
  BY <1>1, <1>2

-----------------------------------------------------------------------------
(* The relay.                                                              *)

LEMMA StreamTypes ==
    ASSUME StreamTyped
    PROVE  /\ streamLines.lines \in Nat /\ streamLines.done \in Nat /\ streamLines.end \in {"open", "closed", "broken"}
           /\ streamReader.line \in Nat /\ streamReader.pc \in {"scan", "offer", "ended"}
           /\ streamRelay.pc \in {"select", "returned"} /\ streamRelay.wrote \in Seq(Nat) /\ StreamWrote \in Nat
  BY DEF StreamTyped, StreamWrote

LEMMA StreamLineWritten ==
    ASSUME StreamRelayInv, NEW kind, Streams!WriteLine(kind)
    PROVE  StreamRelayInv'
<1> DEFINE done == IF kind = "done" THEN streamLines.lines + 1 ELSE streamLines.done
<1>1. /\ streamLines.end = "open" /\ (kind = "done" => streamLines.done = 0)
      /\ streamLines' = [streamLines EXCEPT !.lines = @ + 1, !.done = done]
      /\ streamReader' = streamReader /\ streamRelay' = streamRelay
  BY DEF Streams!WriteLine
<1>2. streamLines \in [lines : Nat, done : Nat, end : {"open", "closed", "broken"}]
  BY DEF StreamRelayInv, StreamTyped
<1>3. done \in Nat /\ (done = streamLines.done \/ (streamLines.done = 0 /\ done = streamLines.lines + 1))
  BY <1>1, <1>2
<1> HIDE DEF done
<1> DEFINE more == streamLines.lines + 1
<1>3a. more \in Nat /\ streamLines' = [streamLines EXCEPT !.lines = more, !.done = done]
  BY <1>1, <1>2
<1> HIDE DEF more
<1>3b. /\ streamLines' \in [lines : Nat, done : Nat, end : {"open", "closed", "broken"}]
      /\ streamLines'.lines = more /\ streamLines'.done = done /\ streamLines'.end = streamLines.end
  BY <1>3a, <1>2, <1>3
<1>4. /\ streamLines' \in [lines : Nat, done : Nat, end : {"open", "closed", "broken"}]
      /\ streamLines'.lines = streamLines.lines + 1 /\ streamLines'.done = done /\ streamLines'.end = "open"
  BY <1>3b, <1>1 DEF more
<1>5. StreamWrote' = StreamWrote
  BY <1>1 DEF StreamWrote
<1>6. StreamTyped'
  BY <1>1, <1>2, <1>3, <1>4, <1>5, StreamTypes DEF StreamRelayInv, StreamTyped
<1>7. StreamRelayed'
  BY <1>1, <1>2, <1>3, <1>4, <1>5, StreamTypes DEF StreamRelayInv, StreamTyped, StreamRelayed
<1>8. StreamReturned'
  BY <1>1, <1>2, <1>3, <1>4, <1>5, StreamTypes DEF StreamRelayInv, StreamTyped, StreamReturned
<1> QED
  BY <1>6, <1>7, <1>8 DEF StreamRelayInv

LEMMA StreamRelayStep ==
    ASSUME StreamRelayInv, Streams!RelayNext
    PROVE  StreamRelayInv'
<1>0. /\ streamLines \in [lines : Nat, done : Nat, end : {"open", "closed", "broken"}]
      /\ streamReader \in [pc : {"scan", "offer", "ended"}, line : Nat]
      /\ streamRelay \in [pc : {"select", "returned"}, wrote : Seq(Nat)]
      /\ StreamWrote \in Nat /\ streamRelay.wrote = [i \in 1..StreamWrote |-> i]
  BY StreamTypes DEF StreamRelayInv, StreamTyped
<1>1. CASE \E kind \in {"data", "done"} : Streams!WriteLine(kind)
  BY <1>1, StreamLineWritten
<1>2. CASE \E how \in {"closed", "broken"} : Streams!EndStream(how)
  <2>1. PICK how \in {"closed", "broken"} :
            /\ streamLines.end = "open" /\ streamLines' = [streamLines EXCEPT !.end = how]
            /\ streamReader' = streamReader /\ streamRelay' = streamRelay
    BY <1>2 DEF Streams!EndStream
  <2>2. /\ streamLines' \in [lines : Nat, done : Nat, end : {"open", "closed", "broken"}]
        /\ streamLines'.lines = streamLines.lines /\ streamLines'.done = streamLines.done /\ streamLines'.end = how
    BY <1>0, <2>1
  <2>3. StreamWrote' = StreamWrote
    BY <2>1 DEF StreamWrote
  <2> QED
    BY <1>0, <2>1, <2>2, <2>3 DEF StreamRelayInv, StreamTyped, StreamRelayed, StreamReturned
<1>3. CASE Streams!Scan
  <2>1. /\ streamReader.pc = "scan" /\ streamLines' = streamLines /\ streamRelay' = streamRelay
        /\ streamReader' = IF streamReader.line < streamLines.lines /\ streamRelay.pc # "returned"
                             THEN [pc |-> "offer", line |-> streamReader.line + 1]
                             ELSE [streamReader EXCEPT !.pc = "ended"]
        /\ streamReader.line < streamLines.lines \/ streamLines.end # "open" \/ streamRelay.pc = "returned"
    BY <1>3 DEF Streams!Scan, Streams!BodyClosed
  <2>2. StreamWrote' = StreamWrote
    BY <2>1 DEF StreamWrote
  <2>3. CASE streamReader.line < streamLines.lines /\ streamRelay.pc # "returned"
    <3>1. streamReader'.pc = "offer" /\ streamReader'.line = streamReader.line + 1
      BY <2>1, <2>3
    <3>2. streamReader' \in [pc : {"scan", "offer", "ended"}, line : Nat]
      BY <1>0, <2>1, <2>3
    <3> QED
      BY <1>0, <2>1, <2>2, <2>3, <3>1, <3>2 DEF StreamRelayInv, StreamTyped, StreamRelayed, StreamReturned
  <2>4. CASE ~(streamReader.line < streamLines.lines /\ streamRelay.pc # "returned")
    <3>1. /\ streamReader'.pc = "ended" /\ streamReader'.line = streamReader.line
          /\ streamReader' \in [pc : {"scan", "offer", "ended"}, line : Nat]
      BY <1>0, <2>1, <2>4
    <3> QED
      BY <1>0, <2>1, <2>2, <2>4, <3>1 DEF StreamRelayInv, StreamTyped, StreamRelayed, StreamReturned
  <2> QED
    BY <2>3, <2>4
<1>4. CASE Streams!ScanFails
  <2>1. /\ streamReader.pc = "scan" /\ streamLines.end = "broken" /\ streamLines' = streamLines
        /\ streamRelay' = streamRelay /\ streamReader' = [streamReader EXCEPT !.pc = "ended"]
    BY <1>4 DEF Streams!ScanFails
  <2>2. StreamWrote' = StreamWrote
    BY <2>1 DEF StreamWrote
  <2>3. /\ streamReader'.pc = "ended" /\ streamReader'.line = streamReader.line
        /\ streamReader' \in [pc : {"scan", "offer", "ended"}, line : Nat]
    BY <1>0, <2>1
  <2> QED
    BY <1>0, <2>1, <2>2, <2>3 DEF StreamRelayInv, StreamTyped, StreamRelayed, StreamReturned
<1>5. CASE Streams!Relay
  <2> DEFINE n == StreamWrote
             pc == Streams!AfterLine(streamReader.line)
  <2>1. /\ streamReader.pc = "offer" /\ streamRelay.pc = "select" /\ streamLines' = streamLines
        /\ streamReader' = [streamReader EXCEPT !.pc = "scan"]
        /\ streamRelay' = [pc |-> pc, wrote |-> Append(streamRelay.wrote, streamReader.line)]
    BY <1>5 DEF Streams!Relay
  <2>2. n = streamReader.line - 1 /\ (streamLines.done > 0 => n < streamLines.done)
    BY <2>1 DEF StreamRelayInv, StreamRelayed
  <2>3. streamReader.line = n + 1
    BY <1>0, <2>2
  <2>4. streamRelay.wrote = StreamUpTo(n)
    BY <1>0 DEF StreamUpTo
  <2>5. streamRelay'.wrote = StreamUpTo(n + 1) /\ streamRelay'.wrote \in Seq(Nat) /\ Len(streamRelay'.wrote) = n + 1
    <3>1. n \in Nat /\ n + 1 \in Nat
      BY <1>0
    <3>2. streamRelay'.wrote = Append(StreamUpTo(n), n + 1)
      BY <2>1, <2>3, <2>4
    <3> HIDE DEF n
    <3> QED
      BY <3>1, <3>2, StreamNumbers
  <2>6. StreamWrote' = n + 1
    BY <2>5 DEF StreamWrote
  <2>7. /\ (pc = "returned" /\ streamLines.done = n + 1) \/ (pc = "select" /\ streamLines.done # n + 1)
        /\ streamRelay'.pc = pc
    BY <2>1, <2>3 DEF Streams!AfterLine
  <2>8. /\ streamReader'.pc = "scan" /\ streamReader'.line = streamReader.line
        /\ streamReader' \in [pc : {"scan", "offer", "ended"}, line : Nat]
    BY <1>0, <2>1
  <2>9. streamRelay' \in [pc : {"select", "returned"}, wrote : Seq(Nat)]
    BY <2>1, <2>5, <2>7
  <2>10. streamRelay'.wrote = [i \in 1..StreamWrote' |-> i]
    BY <2>5, <2>6 DEF StreamUpTo
  <2> HIDE DEF n, pc
  <2>11. n \in Nat
    BY <1>0 DEF n
  <2>12. StreamTyped'
    BY <1>0, <2>1, <2>3, <2>6, <2>8, <2>9, <2>10, <2>11 DEF StreamRelayInv, StreamTyped
  <2>13. StreamRelayed' /\ StreamReturned'
    BY <1>0, <2>1, <2>2, <2>3, <2>6, <2>7, <2>8, <2>11 DEF StreamRelayed, StreamReturned
  <2> QED
    BY <2>12, <2>13 DEF StreamRelayInv
<1>6. CASE Streams!RelayEnds
  <2>1. /\ streamReader.pc = "ended" /\ streamRelay.pc = "select" /\ streamLines' = streamLines
        /\ streamReader' = streamReader /\ streamRelay' = [streamRelay EXCEPT !.pc = "returned"]
    BY <1>6 DEF Streams!RelayEnds
  <2>2. /\ streamRelay'.pc = "returned" /\ streamRelay'.wrote = streamRelay.wrote
        /\ streamRelay' \in [pc : {"select", "returned"}, wrote : Seq(Nat)]
    BY <1>0, <2>1
  <2>3. StreamWrote' = StreamWrote
    BY <2>2 DEF StreamWrote
  <2> QED
    BY <1>0, <2>1, <2>2, <2>3 DEF StreamRelayInv, StreamTyped, StreamRelayed, StreamReturned
<1>7. CASE Streams!Abandon
  <2>1. /\ streamReader.pc = "offer" /\ streamRelay.pc = "returned" /\ streamLines' = streamLines
        /\ streamReader' = [streamReader EXCEPT !.pc = "ended"] /\ streamRelay' = streamRelay
    BY <1>7 DEF Streams!Abandon
  <2>2. /\ streamReader'.pc = "ended" /\ streamReader'.line = streamReader.line
        /\ streamReader' \in [pc : {"scan", "offer", "ended"}, line : Nat]
    BY <1>0, <2>1
  <2>3. StreamWrote' = StreamWrote
    BY <2>1 DEF StreamWrote
  <2> QED
    BY <1>0, <2>1, <2>2, <2>3 DEF StreamRelayInv, StreamTyped, StreamRelayed, StreamReturned
<1> QED
  BY <1>1, <1>2, <1>3, <1>4, <1>5, <1>6, <1>7 DEF Streams!RelayNext

LEMMA StreamRelayStays ==
    ASSUME StreamRelayInv, UNCHANGED << streamLines, streamReader, streamRelay >>
    PROVE  StreamRelayInv'
  BY DEF StreamRelayInv, StreamTyped, StreamRelayed, StreamReturned, StreamWrote

-----------------------------------------------------------------------------
(* The upload.                                                             *)

LEMMA StreamUploadTypes ==
    ASSUME StreamUploadTyped
    PROVE  Len(streamUpload.parts) \in Nat /\ streamCopier.next \in Nat
  BY StreamAssumption DEF StreamUploadTyped

\* The request does not change, and so what is allowed in it.
LEMMA StreamSameUpload ==
    ASSUME streamUpload' = streamUpload
    PROVE  /\ \A i : Streams!Allowed(i)' <=> Streams!Allowed(i)
           /\ \A i : Streams!TooLarge(i)' <=> Streams!TooLarge(i)
           /\ Streams!Allowed(Streams!FirstFile)' <=> Streams!Allowed(Streams!FirstFile)
<1>1. \A i : Streams!Allowed(i)' <=> Streams!Allowed(i)
  BY DEF Streams!Allowed, Streams!Parts
<1>2. \A i : Streams!TooLarge(i)' <=> Streams!TooLarge(i)
  BY Zenon DEF Streams!TooLarge, Streams!Bytes
<1>3. Streams!Allowed(Streams!FirstFile)' <=> Streams!Allowed(Streams!FirstFile)
  BY Zenon DEF Streams!Allowed, Streams!FirstFile, Streams!Parts
<1> QED
  BY <1>1, <1>2, <1>3

LEMMA StreamStillSent ==
    ASSUME NEW n, StreamSent(n), streamUpload' = streamUpload, streamAgent'.has = streamAgent.has
    PROVE  StreamSent(n)'
  BY StreamSameUpload DEF StreamSent

\* Steps that send nothing.
LEMMA StreamUploadKeeps ==
    ASSUME StreamUploadInv, streamUpload' = streamUpload, streamAgent'.has = streamAgent.has,
           streamAgent' \in [has : Seq(Nat), boundary : BOOLEAN, whole : BOOLEAN, answered : BOOLEAN],
           streamCopier' \in [pc : {"idle", "copy", "ended", "failed", "large", "refused"}, next : Nat],
           streamCopier'.next = streamCopier.next, streamCopier'.pc # "idle",
           Streams!Allowed(Streams!FirstFile),
           streamCopier'.pc = "copy" /\ ~streamAgent'.answered => StreamSent(streamCopier.next - 1),
           streamAgent'.whole => streamAgent'.boundary /\ streamCopier'.pc = "ended" /\ StreamSent(Len(streamUpload.parts)),
           streamAnswer' = "200" => streamAgent'.whole
    PROVE  StreamUploadInv'
<1>1. StreamUploadTyped'
  BY StreamSameUpload DEF StreamUploadInv, StreamUploadTyped
<1>2. \A n : StreamSent(n) => StreamSent(n)'
  BY StreamStillSent
<1>3. StreamCopied'
  BY <1>2 DEF StreamCopied
<1> QED
  BY <1>1, <1>3 DEF StreamUploadInv

\* What Receive lets through starts with a file of an allowed type.
LEMMA StreamRefusals ==
    /\ Streams!Refusal \in {"413", "400", "415", "none"}
    /\ Streams!Refusal = "none" => Streams!Allowed(Streams!FirstFile)
  BY DEF Streams!Refusal

LEMMA StreamReceives ==
    ASSUME StreamUploadInv, Streams!Receive
    PROVE  StreamUploadInv'
<1>1. /\ streamCopier.pc = "idle" /\ streamAnswer' = Streams!Refusal
      /\ streamCopier' = IF Streams!Refusal = "none" THEN [streamCopier EXCEPT !.pc = "copy"] ELSE streamCopier
      /\ streamUpload' = streamUpload /\ streamAgent' = streamAgent
  BY DEF Streams!Receive
<1>2. StreamUploadTyped /\ StreamCopied
  BY DEF StreamUploadInv
<1>3. streamCopier.next = 1 /\ streamAgent.has = << >> /\ ~streamAgent.answered /\ ~streamAgent.whole
  BY <1>1, <1>2 DEF StreamUploadTyped, StreamCopied
<1>4. streamAnswer' # "200"
  BY <1>1, StreamRefusals
<1>5. CASE Streams!Refusal = "none"
  <2>1. /\ streamCopier'.pc = "copy" /\ streamCopier'.next = streamCopier.next
        /\ streamCopier' \in [pc : {"idle", "copy", "ended", "failed", "large", "refused"}, next : Nat]
    BY <1>1, <1>2, <1>5 DEF StreamUploadTyped
  <2>2. StreamSent(streamCopier.next - 1)
    <3>1. StreamUpTo(0) = << >>
      BY StreamNumbers
    <3>2. streamCopier.next - 1 = 0
      BY <1>3
    <3> QED
      BY <1>3, <3>1, <3>2 DEF StreamSent, StreamUpTo
  <2>3. streamAgent' \in [has : Seq(Nat), boundary : BOOLEAN, whole : BOOLEAN, answered : BOOLEAN]
    BY <1>1, <1>2 DEF StreamUploadTyped
  <2>4. Streams!Allowed(Streams!FirstFile)
    BY <1>5, StreamRefusals
  <2> QED
    BY <1>1, <1>3, <1>4, <2>1, <2>2, <2>3, <2>4, StreamUploadKeeps
<1>6. CASE Streams!Refusal # "none"
  <2>1. streamCopier' = streamCopier
    BY <1>1, <1>6
  <2>2. StreamUploadTyped'
    BY <1>1, <1>2, <2>1, StreamSameUpload DEF StreamUploadTyped
  <2>3. StreamCopied'
    BY <1>1, <1>3, <1>4, <2>1 DEF StreamCopied
  <2> QED
    BY <2>2, <2>3 DEF StreamUploadInv
<1> QED
  BY <1>5, <1>6

\* Only the closing boundary is sent.
StreamBroken ==
    /\ streamAgent' \in [has : Seq(Nat), boundary : BOOLEAN, whole : BOOLEAN, answered : BOOLEAN]
    /\ streamAgent'.has = streamAgent.has /\ streamAgent'.whole = streamAgent.whole
    /\ streamAgent'.answered = streamAgent.answered

LEMMA StreamBreaks ==
    ASSUME streamAgent \in [has : Seq(Nat), boundary : BOOLEAN, whole : BOOLEAN, answered : BOOLEAN],
           streamAgent' = [streamAgent EXCEPT !.boundary = ~streamAgent.answered]
    PROVE  StreamBroken
<1>1. PICK boundary \in BOOLEAN : boundary = ~streamAgent.answered
  OBVIOUS
<1>2. streamAgent' = [streamAgent EXCEPT !.boundary = boundary]
  BY <1>1
<1> QED
  BY <1>2 DEF StreamBroken

LEMMA StreamCopies ==
    ASSUME StreamUploadInv, Streams!Copy
    PROVE  StreamUploadInv'
<1> DEFINE n == streamCopier.next
           passes == Streams!Passes(n) /\ ~Streams!TooLarge(n)
           failed == IF Streams!TooLarge(n) THEN "large" ELSE "refused"
<1>1. /\ streamCopier.pc = "copy" /\ n <= Len(streamUpload.parts)
      /\ streamUpload' = streamUpload /\ streamAnswer' = streamAnswer
      /\ passes => /\ streamAgent' = IF streamAgent.answered THEN streamAgent
                                     ELSE [streamAgent EXCEPT !.has = Append(@, n)]
                   /\ streamCopier' = [pc |-> IF streamAgent.answered THEN "ended" ELSE "copy", next |-> n + 1]
      /\ ~passes => /\ streamCopier' = [streamCopier EXCEPT !.pc = failed]
                    /\ streamAgent' = [streamAgent EXCEPT !.boundary = ~streamAgent.answered]
  BY DEF Streams!Copy, Streams!FailCopy, Streams!Parts
<1>2. StreamUploadTyped /\ StreamCopied /\ n \in Nat /\ n >= 1 /\ n + 1 \in Nat /\ Len(streamUpload.parts) \in Nat
  BY StreamUploadTypes DEF StreamUploadInv, StreamUploadTyped
<1>3. Streams!Allowed(Streams!FirstFile) /\ ~streamAgent.whole /\ streamAnswer # "200"
  BY <1>1, <1>2 DEF StreamUploadTyped, StreamCopied
<1>4. /\ streamAgent \in [has : Seq(Nat), boundary : BOOLEAN, whole : BOOLEAN, answered : BOOLEAN]
      /\ streamCopier \in [pc : {"idle", "copy", "ended", "failed", "large", "refused"}, next : Nat]
  BY <1>2 DEF StreamUploadTyped
<1>5. CASE ~passes
  <2>1. failed \in {"large", "refused"}
    OBVIOUS
  <2> HIDE DEF failed
  <2>2. /\ streamCopier'.pc \in {"large", "refused"} /\ streamCopier'.next = n
        /\ streamCopier' \in [pc : {"idle", "copy", "ended", "failed", "large", "refused"}, next : Nat]
    BY <1>1, <1>4, <1>5, <2>1
  <2>3. streamAgent' = [streamAgent EXCEPT !.boundary = ~streamAgent.answered]
    BY <1>1, <1>5
  <2>4. StreamBroken
    BY <1>4, <2>3, StreamBreaks
  <2> QED
    BY <1>1, <1>3, <2>2, <2>4, StreamUploadKeeps DEF StreamBroken
<1>6. CASE passes
  <2>1. Streams!Allowed(n) /\ ~Streams!TooLarge(n)
    BY <1>3, <1>6 DEF Streams!Passes
  <2>2. /\ streamAgent' = IF streamAgent.answered THEN streamAgent ELSE [streamAgent EXCEPT !.has = Append(@, n)]
        /\ streamCopier' = [pc |-> IF streamAgent.answered THEN "ended" ELSE "copy", next |-> n + 1]
    BY <1>1, <1>6
  <2> HIDE DEF passes, n
  <2>3. /\ streamCopier' \in [pc : {"idle", "copy", "ended", "failed", "large", "refused"}, next : Nat]
        /\ streamCopier'.next = n + 1 /\ streamCopier'.next \in 1..(Len(streamUpload.parts) + 1)
        /\ streamCopier'.pc = IF streamAgent.answered THEN "ended" ELSE "copy"
    BY <1>1, <1>2, <2>2
  <2>4. Append(streamAgent.has, n) \in Seq(Nat)
    BY <1>2, <1>4, AppendProperties
  <2>5. /\ streamAgent' \in [has : Seq(Nat), boundary : BOOLEAN, whole : BOOLEAN, answered : BOOLEAN]
        /\ streamAgent'.answered = streamAgent.answered /\ ~streamAgent'.whole
        /\ ~streamAgent.answered => streamAgent'.has = Append(streamAgent.has, n)
    BY <1>3, <1>4, <2>2, <2>4
  <2>6. StreamUploadTyped'
    BY <1>1, <1>2, <1>3, <2>3, <2>5, StreamSameUpload DEF StreamUploadTyped
  <2>7. ASSUME ~streamAgent.answered PROVE StreamSent(streamCopier.next - 1)'
    <3>1. StreamSent(n - 1)
      BY <1>1, <1>2, <2>7 DEF StreamCopied, n
    <3>2. streamAgent.has = StreamUpTo(n - 1)
      BY <3>1 DEF StreamSent, StreamUpTo
    <3>3. Append(StreamUpTo(n - 1), (n - 1) + 1) = StreamUpTo((n - 1) + 1)
      <4>1. n - 1 \in Nat
        BY <1>2
      <4> QED
        BY <4>1, StreamNumbers
    <3>4. (n - 1) + 1 = n
      BY <1>2
    <3>5. streamAgent'.has = StreamUpTo(n)
      BY <2>5, <2>7, <3>2, <3>3, <3>4, Zenon
    <3>6. \A i \in 1..n : Streams!Allowed(i) /\ ~Streams!TooLarge(i)
      <4>1. \A i \in 1..n : i \in 1..(n - 1) \/ i = n
        BY <1>2
      <4> QED
        BY <2>1, <3>1, <4>1 DEF StreamSent
    <3>7. streamCopier'.next - 1 = n
      BY <1>2, <2>3
    <3>8. \A i \in 1..n : Streams!Allowed(i)' /\ ~Streams!TooLarge(i)'
      BY <1>1, <3>6, StreamSameUpload
    <3> QED
      BY <3>5, <3>7, <3>8 DEF StreamSent, StreamUpTo
  <2>8. StreamCopied'
    BY <1>1, <1>2, <1>3, <2>3, <2>5, <2>7 DEF StreamCopied
  <2> QED
    BY <2>6, <2>8 DEF StreamUploadInv
<1> QED
  BY <1>5, <1>6

LEMMA StreamUploadStep ==
    ASSUME StreamUploadInv, Streams!UploadNext
    PROVE  StreamUploadInv'
<1>1. StreamUploadTyped /\ StreamCopied
  BY DEF StreamUploadInv
<1>2. /\ streamAgent \in [has : Seq(Nat), boundary : BOOLEAN, whole : BOOLEAN, answered : BOOLEAN]
      /\ streamCopier \in [pc : {"idle", "copy", "ended", "failed", "large", "refused"}, next : Nat]
      /\ streamCopier.pc # "idle" => Streams!Allowed(Streams!FirstFile)
  BY <1>1 DEF StreamUploadTyped
<1>3. /\ streamCopier.pc = "copy" /\ ~streamAgent.answered => StreamSent(streamCopier.next - 1)
      /\ streamAgent.whole => streamAgent.boundary /\ streamCopier.pc = "ended" /\ StreamSent(Len(streamUpload.parts))
      /\ streamAnswer = "200" => streamAgent.whole
  BY <1>1 DEF StreamCopied
<1>4. CASE Streams!Receive
  BY <1>4, StreamReceives
<1>5. CASE Streams!Copy
  BY <1>5, StreamCopies
<1>6. CASE Streams!Close
  <2>1. /\ streamCopier.pc = "copy" /\ streamCopier.next = Len(streamUpload.parts) + 1
        /\ streamCopier' = [streamCopier EXCEPT !.pc = "ended"]
        /\ streamAgent' = [streamAgent EXCEPT !.boundary = ~streamAgent.answered, !.whole = ~streamAgent.answered]
        /\ streamUpload' = streamUpload /\ streamAnswer' = streamAnswer
    BY <1>6 DEF Streams!Close, Streams!Parts
  <2>2. PICK boundary \in BOOLEAN : boundary = ~streamAgent.answered
    OBVIOUS
  <2>a. streamAgent' = [streamAgent EXCEPT !.boundary = boundary, !.whole = boundary]
    BY <2>1, <2>2
  <2>3. /\ streamAgent' \in [has : Seq(Nat), boundary : BOOLEAN, whole : BOOLEAN, answered : BOOLEAN]
        /\ streamAgent'.has = streamAgent.has /\ (streamAgent'.whole <=> ~streamAgent.answered)
        /\ streamAgent'.answered = streamAgent.answered /\ streamAgent'.boundary = streamAgent'.whole
    BY <1>2, <2>2, <2>a
  <2>4. /\ streamCopier' \in [pc : {"idle", "copy", "ended", "failed", "large", "refused"}, next : Nat]
        /\ streamCopier'.pc = "ended" /\ streamCopier'.next = streamCopier.next
    BY <1>2, <2>1
  <2>5. streamCopier.next - 1 = Len(streamUpload.parts)
    BY <1>1, <2>1, StreamUploadTypes
  <2>6. streamAgent'.whole => StreamSent(Len(streamUpload.parts))
    BY <1>3, <2>1, <2>3, <2>5
  <2> QED
    BY <1>2, <1>3, <2>1, <2>3, <2>4, <2>6, StreamUploadKeeps
<1>7. CASE Streams!ClientFails
  <2>1. /\ streamCopier.pc = "copy" /\ streamCopier' = [streamCopier EXCEPT !.pc = "failed"]
        /\ streamAgent' = [streamAgent EXCEPT !.boundary = ~streamAgent.answered]
        /\ streamUpload' = streamUpload /\ streamAnswer' = streamAnswer
    BY <1>7 DEF Streams!ClientFails, Streams!FailCopy
  <2>2. /\ streamCopier' \in [pc : {"idle", "copy", "ended", "failed", "large", "refused"}, next : Nat]
        /\ streamCopier'.pc = "failed" /\ streamCopier'.next = streamCopier.next
    BY <1>2, <2>1
  <2>3. StreamBroken /\ ~streamAgent.whole
    BY <1>2, <1>3, <2>1, StreamBreaks
  <2> QED
    BY <1>2, <1>3, <2>1, <2>2, <2>3, StreamUploadKeeps DEF StreamBroken
<1>8. CASE Streams!PipeFails
  <2>1. /\ streamCopier.pc \in {"failed", "large", "refused"} /\ streamAnswer' # "200"
        /\ streamCopier' = streamCopier /\ streamAgent' = streamAgent /\ streamUpload' = streamUpload
    BY <1>8 DEF Streams!PipeFails
  <2> QED
    BY <1>2, <1>3, <2>1, StreamUploadKeeps
<1>9. CASE \E early \in BOOLEAN : Streams!AgentAnswers(early)
  <2>1. PICK early \in BOOLEAN : Streams!AgentAnswers(early)
    BY <1>9
  <2>2. /\ streamCopier.pc # "idle" /\ (early \/ streamAgent.whole) /\ ~streamAgent.answered
        /\ streamAgent' = [streamAgent EXCEPT !.answered = TRUE]
        /\ streamAnswer' = IF early THEN "400" ELSE "200"
        /\ streamUpload' = streamUpload /\ streamCopier' = streamCopier
    BY <2>1 DEF Streams!AgentAnswers
  <2>3. /\ streamAgent' \in [has : Seq(Nat), boundary : BOOLEAN, whole : BOOLEAN, answered : BOOLEAN]
        /\ streamAgent'.has = streamAgent.has /\ streamAgent'.whole = streamAgent.whole /\ streamAgent'.answered
        /\ streamAgent'.boundary = streamAgent.boundary
    BY <1>2, <2>2
  <2>4. streamAnswer' = "200" => streamAgent'.whole
    BY <2>2, <2>3
  <2> QED
    BY <1>2, <1>3, <2>2, <2>3, <2>4, StreamUploadKeeps
<1>10. CASE \E status \in {"502", "504"} : Streams!RequestFails(status)
  <2>1. /\ streamCopier.pc # "idle" /\ streamAgent' = [streamAgent EXCEPT !.answered = TRUE]
        /\ streamAnswer' \in {"502", "504"} /\ streamUpload' = streamUpload /\ streamCopier' = streamCopier
    BY <1>10 DEF Streams!RequestFails
  <2>2. /\ streamAgent' \in [has : Seq(Nat), boundary : BOOLEAN, whole : BOOLEAN, answered : BOOLEAN]
        /\ streamAgent'.has = streamAgent.has /\ streamAgent'.whole = streamAgent.whole /\ streamAgent'.answered
        /\ streamAgent'.boundary = streamAgent.boundary
    BY <1>2, <2>1
  <2> QED
    BY <1>2, <1>3, <2>1, <2>2, StreamUploadKeeps
<1> QED
  BY <1>4, <1>5, <1>6, <1>7, <1>8, <1>9, <1>10 DEF Streams!UploadNext

LEMMA StreamUploadStays ==
    ASSUME StreamUploadInv, UNCHANGED << streamUpload, streamCopier, streamAgent, streamAnswer >>
    PROVE  StreamUploadInv'
<1>1. StreamUploadTyped'
  BY StreamSameUpload DEF StreamUploadInv, StreamUploadTyped
<1>2. \A n : StreamSent(n) => StreamSent(n)'
  BY StreamStillSent
<1> QED
  BY <1>1, <1>2 DEF StreamUploadInv, StreamCopied

LEMMA StreamSteps == StreamRelayInv /\ StreamUploadInv /\ [Streams!Next]_(Streams!vars) => (StreamRelayInv /\ StreamUploadInv)'
<1> SUFFICES ASSUME StreamRelayInv, StreamUploadInv, [Streams!Next]_(Streams!vars)
             PROVE  (StreamRelayInv /\ StreamUploadInv)'
  OBVIOUS
<1>1. CASE Streams!RelayNext
  <2>1. UNCHANGED << streamUpload, streamCopier, streamAgent, streamAnswer >>
    BY <1>1 DEF Streams!RelayNext, Streams!uploadVars, Streams!WriteLine, Streams!EndStream, Streams!Scan,
                Streams!ScanFails, Streams!Relay, Streams!RelayEnds, Streams!Abandon
  <2> QED
    BY <1>1, <2>1, StreamRelayStep, StreamUploadStays
<1>2. CASE Streams!UploadNext
  <2>1. UNCHANGED << streamLines, streamReader, streamRelay >>
    BY <1>2 DEF Streams!UploadNext, Streams!streamVars, Streams!Receive, Streams!Copy, Streams!Close,
                Streams!ClientFails, Streams!AgentAnswers, Streams!PipeFails, Streams!RequestFails
  <2> QED
    BY <1>2, <2>1, StreamRelayStays, StreamUploadStep
<1>3. CASE UNCHANGED Streams!vars
  BY <1>3, StreamRelayStays, StreamUploadStays DEF Streams!vars
<1> QED
  BY <1>1, <1>2, <1>3 DEF Streams!Next

LEMMA StreamsStayWhole == Streams!Spec => []Streams!StreamsAreWhole
<1>1. StreamRelayInv /\ StreamUploadInv => Streams!StreamsAreWhole
  <2> SUFFICES ASSUME StreamRelayInv, StreamUploadInv PROVE Streams!StreamsAreWhole
    OBVIOUS
  <2> DEFINE last == IF streamLines.done > 0 THEN streamLines.done ELSE streamLines.lines
  <2>1. streamRelay.wrote = [i \in 1..Len(streamRelay.wrote) |-> i]
    BY DEF StreamRelayInv, StreamTyped, StreamWrote
  <2>2. /\ Len(streamRelay.wrote) <= last
        /\ streamRelay.pc = "returned" /\ streamLines.end # "broken" => Len(streamRelay.wrote) = last
    BY StreamTypes DEF StreamRelayInv, StreamTyped, StreamRelayed, StreamReturned, StreamWrote
  <2>3. streamUpload.parts \in Seq([file : BOOLEAN, allowed : BOOLEAN, size : Nat])
    BY StreamAssumption DEF StreamUploadInv, StreamUploadTyped
  <2>4. DOMAIN streamUpload.parts = 1..Len(streamUpload.parts)
    BY <2>3
  <2>5. /\ streamAgent.whole => streamAgent.boundary /\ StreamSent(Len(streamUpload.parts))
        /\ streamAnswer = "200" => streamAgent.whole
    BY DEF StreamUploadInv, StreamCopied
  <2> QED
    BY <2>1, <2>2, <2>4, <2>5 DEF Streams!StreamsAreWhole, StreamSent, Streams!Parts
<1> QED
  BY <1>1, StreamStarts, StreamSteps, PTL DEF Streams!Spec

-----------------------------------------------------------------------------
(* Types of streams and uploads.                                           *)

StreamBounded == streamLines.lines <= StreamMaxLines
StreamHeard ==
    /\ streamAgent.has \in Seq(1..Len(streamUpload.parts))
    /\ streamAnswer \in {"none", "200", "400", "413", "415", "502", "504"}

LEMMA StreamStaysBounded ==
    ASSUME StreamRelayInv, StreamBounded, [Streams!Next]_(Streams!vars)
    PROVE  StreamBounded'
<1>1. streamLines \in [lines : Nat, done : Nat, end : {"open", "closed", "broken"}]
  BY DEF StreamRelayInv, StreamTyped
<1>2. UNCHANGED streamLines \/ (\E kind : Streams!WriteLine(kind)) \/ \E how : Streams!EndStream(how)
  BY DEF Streams!Next, Streams!vars, Streams!RelayNext, Streams!UploadNext, Streams!streamVars, Streams!Scan, Streams!ScanFails,
         Streams!Relay, Streams!RelayEnds, Streams!Abandon, Streams!Receive, Streams!Copy, Streams!Close,
         Streams!ClientFails, Streams!AgentAnswers, Streams!PipeFails, Streams!RequestFails
<1>3. CASE UNCHANGED streamLines
  BY <1>3 DEF StreamBounded
<1>4. ASSUME NEW kind, Streams!WriteLine(kind) PROVE StreamBounded'
  <2>1. PICK done : streamLines' = [streamLines EXCEPT !.lines = @ + 1, !.done = done]
    BY <1>4 DEF Streams!WriteLine
  <2>2. streamLines'.lines = streamLines.lines + 1
    BY <1>1, <2>1
  <2> QED
    BY <1>1, <1>4, <2>2, StreamAssumption DEF Streams!WriteLine, StreamBounded
<1>5. ASSUME NEW how, Streams!EndStream(how) PROVE StreamBounded'
  BY <1>1, <1>5 DEF Streams!EndStream, StreamBounded
<1> QED
  BY <1>2, <1>3, <1>4, <1>5

LEMMA StreamStaysHeard ==
    ASSUME StreamUploadInv, StreamHeard, [Streams!Next]_(Streams!vars)
    PROVE  StreamHeard'
<1> DEFINE n == Len(streamUpload.parts)
<1>1. /\ streamAgent \in [has : Seq(Nat), boundary : BOOLEAN, whole : BOOLEAN, answered : BOOLEAN]
      /\ streamCopier.next \in 1..(n + 1) /\ n \in Nat
  BY StreamUploadTypes DEF StreamUploadInv, StreamUploadTyped
<1>2. UNCHANGED streamUpload
  BY DEF Streams!Next, Streams!vars, Streams!RelayNext, Streams!UploadNext, Streams!uploadVars, Streams!WriteLine,
         Streams!EndStream, Streams!Scan, Streams!ScanFails,
         Streams!Relay, Streams!RelayEnds, Streams!Abandon, Streams!Receive, Streams!Copy, Streams!Close,
         Streams!ClientFails, Streams!AgentAnswers, Streams!PipeFails, Streams!RequestFails
<1>3. streamAgent'.has \in Seq(1..n)
  <2>1. CASE UNCHANGED streamAgent
    BY <2>1 DEF StreamHeard
  <2>2. CASE Streams!Close
    BY <1>1, <2>2 DEF Streams!Close, StreamHeard
  <2>3. CASE \E answered : streamAgent' = [streamAgent EXCEPT !.answered = answered]
    BY <1>1, <2>3 DEF StreamHeard
  <2>5. CASE \E boundary : streamAgent' = [streamAgent EXCEPT !.boundary = boundary]
    BY <1>1, <2>5 DEF StreamHeard
  <2>4. CASE Streams!Copy
    <3> DEFINE i == streamCopier.next
    <3>1. \/ streamAgent' = streamAgent \/ streamAgent' = [streamAgent EXCEPT !.has = Append(@, i)]
          \/ \E boundary : streamAgent' = [streamAgent EXCEPT !.boundary = boundary]
      BY <2>4 DEF Streams!Copy, Streams!FailCopy
    <3>2. i \in 1..n
      BY <1>1, <2>4 DEF Streams!Copy, Streams!Parts
    <3> HIDE DEF i, n
    <3>3. streamAgent.has \in Seq(1..n) /\ Append(streamAgent.has, i) \in Seq(1..n)
      BY <3>2, AppendProperties DEF StreamHeard, n
    <3> QED
      BY <1>1, <3>1, <3>3
  <2> QED
    BY <2>1, <2>2, <2>3, <2>4, <2>5
    DEF Streams!Next, Streams!vars, Streams!RelayNext, Streams!UploadNext, Streams!uploadVars, Streams!WriteLine,
        Streams!EndStream, Streams!Scan, Streams!ScanFails, Streams!Relay, Streams!RelayEnds, Streams!Abandon, Streams!Receive,
        Streams!ClientFails, Streams!FailCopy, Streams!AgentAnswers, Streams!PipeFails, Streams!RequestFails
<1>4. streamAnswer' \in {"none", "200", "400", "413", "415", "502", "504"}
  BY StreamRefusals
  DEF StreamHeard, Streams!Next, Streams!vars, Streams!RelayNext, Streams!UploadNext, Streams!uploadVars, Streams!WriteLine,
      Streams!EndStream, Streams!Scan, Streams!ScanFails, Streams!Relay, Streams!RelayEnds, Streams!Abandon, Streams!Receive,
      Streams!Copy, Streams!Close, Streams!ClientFails, Streams!AgentAnswers, Streams!PipeFails, Streams!RequestFails
<1> QED
  BY <1>2, <1>3, <1>4 DEF StreamHeard

LEMMA StreamTypeCorrect == Streams!Spec => []Streams!TypeOK
<1>1. Streams!Init => StreamBounded /\ StreamHeard
  BY StreamAssumption DEF Streams!Init, Streams!RelayInit, Streams!UploadInit, StreamBounded, StreamHeard
<1>2. StreamRelayInv /\ StreamUploadInv /\ StreamBounded /\ StreamHeard => Streams!TypeOK
  <2> SUFFICES ASSUME StreamRelayInv, StreamUploadInv, StreamBounded, StreamHeard
               PROVE  Streams!TypeOK
    OBVIOUS
  <2>1. /\ streamLines \in [lines : 0..StreamMaxLines, done : 0..StreamMaxLines, end : {"open", "closed", "broken"}]
        /\ streamReader \in [pc : {"scan", "offer", "ended"}, line : 0..StreamMaxLines]
    BY StreamAssumption DEF StreamRelayInv, StreamTyped, StreamBounded
  <2>2. /\ streamRelay.pc \in {"select", "returned"} /\ streamRelay.wrote = [i \in 1..StreamWrote |-> i]
        /\ StreamWrote \in Nat /\ StreamWrote <= StreamMaxLines
    BY StreamAssumption, StreamTypes DEF StreamRelayInv, StreamTyped, StreamBounded
  <2>3. streamRelay.wrote \in Seq(1..StreamMaxLines)
    <3> DEFINE w == StreamWrote
    <3>1. w \in Nat /\ streamRelay.wrote = [i \in 1..w |-> i]
      BY <2>2
    <3>2. \A i \in 1..w : i \in 1..StreamMaxLines
      BY <2>2, StreamAssumption
    <3> HIDE DEF w
    <3>3. streamRelay.wrote \in [1..w -> 1..StreamMaxLines]
      BY <3>1, <3>2
    <3>4. ASSUME NEW S, NEW k \in Nat PROVE [1..k -> S] \subseteq Seq(S)
      OBVIOUS
    <3> QED
      BY <3>1, <3>3, <3>4
  <2> QED
    BY <2>1, <2>2, <2>3 DEF Streams!TypeOK, StreamUploadInv, StreamUploadTyped, StreamHeard
<1>3. StreamRelayInv /\ StreamUploadInv /\ StreamBounded /\ StreamHeard /\ [Streams!Next]_(Streams!vars)
        => (StreamBounded /\ StreamHeard)'
  BY StreamStaysBounded, StreamStaysHeard
<1> QED
  BY <1>1, <1>2, <1>3, StreamStarts, StreamSteps, PTL DEF Streams!Spec

-----------------------------------------------------------------------------
(***************************************************************************)
(* The times of a schedule.                                                *)
(*                                                                         *)
(* A field of a time depends on its hour, its day or its month alone, and  *)
(* a skip stays within the one whose field does not match: no minute that  *)
(* it passes can match.  The months need the calendar to grow, and to      *)
(* reach as far as a scan.                                                 *)
(***************************************************************************)

LEMMA CronDivides ==
    ASSUME NEW t \in Nat, NEW d \in Nat \ {0}
    PROVE  t \div d \in Nat /\ (t \div d) * d <= t /\ t < (t \div d + 1) * d
<1>1. t \div d \in Nat
  OBVIOUS
<1>2. t = (t \div d) * d + (t % d) /\ t % d \in 0..(d - 1)
  OBVIOUS
<1> DEFINE q == t \div d
<1>3. (q + 1) * d = q * d + d
  BY <1>1
<1> QED
  BY <1>1, <1>2, <1>3

LEMMA CronProductsGrow ==
    ASSUME NEW p \in Nat, NEW q \in Nat, p <= q, NEW d \in Nat
    PROVE  p * d <= q * d
<1>1. q * d = p * d + (q - p) * d
  OBVIOUS
<1>2. (q - p) * d \in Nat /\ p * d \in Nat
  OBVIOUS
<1> QED
  BY <1>1, <1>2

\* A time before a multiple, and one that is not.
LEMMA CronBefore ==
    ASSUME NEW t \in Nat, NEW d \in Nat \ {0}, NEW k \in Nat
    PROVE  /\ t < k * d => t \div d < k
           /\ k * d <= t => k <= t \div d
<1> DEFINE q == t \div d
<1>1. q \in Nat /\ q * d <= t /\ t < (q + 1) * d
  BY CronDivides
<1> HIDE DEF q
<1>2. k <= q => k * d <= q * d
  BY <1>1, CronProductsGrow
<1>3. q + 1 <= k => (q + 1) * d <= k * d
  BY <1>1, CronProductsGrow
<1>4. k * d \in Nat /\ q * d \in Nat /\ (q + 1) * d \in Nat
  BY <1>1
<1>5. t < k * d => q < k
  BY <1>1, <1>2, <1>4
<1>6. k * d <= t => k <= q
  BY <1>1, <1>3, <1>4
<1> QED
  BY <1>5, <1>6 DEF q

\* The times of one hour, or of one day.
LEMMA CronSameQuotient ==
    ASSUME NEW t \in Nat, NEW d \in Nat \ {0}, NEW u \in t..((t \div d + 1) * d - 1)
    PROVE  u \in Nat /\ u \div d = t \div d
<1> DEFINE q == t \div d
<1>1. q \in Nat /\ q * d <= t /\ q * d \in Nat /\ (q + 1) * d \in Nat
  BY CronDivides
<1>2. u \in Nat /\ q * d <= u /\ u < (q + 1) * d
  BY <1>1
<1>3. u \div d \in Nat
  BY <1>2, CronDivides
<1>4. q <= u \div d /\ u \div d < q + 1
  BY <1>1, <1>2, CronBefore
<1> QED
  BY <1>1, <1>2, <1>3, <1>4

LEMMA CronDays ==
    /\ Cron!Day \in Nat \ {0} /\ Cron!Hour \in Nat \ {0}
    /\ Len(CronCalendar) \in Nat /\ DOMAIN CronCalendar = 1..Len(CronCalendar) /\ Len(CronCalendar) >= 1
    /\ \A i \in 1..Len(CronCalendar) : CronCalendar[i] \in Nat
<1>1. CronMinutes * CronHours \in Nat \ {0}
  BY CronAssumption
<1>2. Len(CronCalendar) \in Nat /\ DOMAIN CronCalendar = 1..Len(CronCalendar) /\ Len(CronCalendar) # 0
  BY CronAssumption, EmptySeq
<1> QED
  BY <1>1, <1>2, CronAssumption DEF Cron!Day, Cron!Hour

\* The months are in order.
LEMMA CronMonthsGrow ==
    ASSUME NEW i \in DOMAIN CronCalendar, NEW j \in DOMAIN CronCalendar, i <= j
    PROVE  CronCalendar[i] \in Nat /\ CronCalendar[j] \in Nat /\ CronCalendar[i] <= CronCalendar[j]
<1>1. CronCalendar[i] \in Nat /\ CronCalendar[j] \in Nat /\ i \in Nat /\ j \in Nat
  BY CronDays
<1>2. i < j => CronCalendar[i] < CronCalendar[j]
  <2>1. \A x, y \in DOMAIN CronCalendar : x < y => CronCalendar[x] < CronCalendar[y]
    BY CronAssumption
  <2> QED
    BY <2>1
<1>3. CASE i = j
  BY <1>1, <1>3
<1>4. CASE i < j
  BY <1>1, <1>2, <1>4
<1> QED
  BY <1>1, <1>3, <1>4

\* The month of a day.
CronMonth(i, day) == CronCalendar[i] <= day /\ day < CronCalendar[i + 1]

LEMMA CronMonthIsOne ==
    ASSUME NEW day \in Nat, NEW i \in 1..(Len(CronCalendar) - 1), NEW j \in 1..(Len(CronCalendar) - 1),
           CronMonth(i, day), CronMonth(j, day)
    PROVE  i = j
<1>1. /\ i \in DOMAIN CronCalendar /\ j \in DOMAIN CronCalendar /\ i + 1 \in DOMAIN CronCalendar /\ j + 1 \in DOMAIN CronCalendar
      /\ i \in Nat /\ j \in Nat
  BY CronDays
<1>2. \A k \in DOMAIN CronCalendar : CronCalendar[k] \in Nat
  BY CronDays
<1>3. CASE i < j
  <2>1. i + 1 <= j
    BY <1>1, <1>3
  <2>2. CronCalendar[i + 1] <= CronCalendar[j]
    BY <1>1, <2>1, CronMonthsGrow
  <2> QED
    BY <1>1, <1>2, <2>2 DEF CronMonth
<1>4. CASE j < i
  <2>1. j + 1 <= i
    BY <1>1, <1>4
  <2>2. CronCalendar[j + 1] <= CronCalendar[i]
    BY <1>1, <2>1, CronMonthsGrow
  <2> QED
    BY <1>1, <1>2, <2>2 DEF CronMonth
<1> QED
  BY <1>1, <1>3, <1>4

LEMMA CronMonthExists ==
    ASSUME NEW day \in Nat, day < CronCalendar[Len(CronCalendar)]
    PROVE  \E i \in 1..(Len(CronCalendar) - 1) : CronMonth(i, day)
<1> DEFINE T == {k \in DOMAIN CronCalendar : day < CronCalendar[k]}
<1>1. T \subseteq Nat /\ T # {}
  <2>1. Len(CronCalendar) \in T
    BY CronDays
  <2> QED
    BY <2>1, CronDays
<1>2. PICK k \in T : \A j \in T : k <= j
  BY <1>1, ChunkFirstExists
<1>3. k \in 1..Len(CronCalendar) /\ day < CronCalendar[k]
  BY CronDays
<1>4. k # 1
  BY <1>3, CronAssumption
<1>5. k - 1 \in 1..(Len(CronCalendar) - 1) /\ k - 1 \in DOMAIN CronCalendar /\ (k - 1) + 1 = k /\ k - 1 \in Nat /\ ~(k <= k - 1)
  BY <1>3, <1>4, CronDays
<1>6. ~(day < CronCalendar[k - 1])
  BY <1>2, <1>5
<1>7. CronCalendar[k - 1] \in Nat
  BY <1>5, CronDays
<1> QED
  BY <1>3, <1>5, <1>6, <1>7 DEF CronMonth

\* Within the calendar.
CronReach == CronCalendar[Len(CronCalendar)] * Cron!Day

LEMMA CronMonthOf ==
    ASSUME NEW t \in Nat, t < CronReach
    PROVE  /\ Cron!DayOf(t) \in Nat
           /\ Cron!MonthIndex(t) \in 1..(Len(CronCalendar) - 1) /\ CronMonth(Cron!MonthIndex(t), Cron!DayOf(t))
           /\ \A i \in 1..(Len(CronCalendar) - 1) : CronMonth(i, Cron!DayOf(t)) => i = Cron!MonthIndex(t)
<1>1. Cron!DayOf(t) \in Nat
  BY CronDays, CronDivides DEF Cron!DayOf
<1>2. Cron!DayOf(t) < CronCalendar[Len(CronCalendar)]
  <2>1. CronCalendar[Len(CronCalendar)] \in Nat /\ Cron!Day \in Nat \ {0}
    BY CronDays
  <2> QED
    BY <2>1, CronBefore DEF Cron!DayOf, CronReach
<1>3. \E i \in 1..(Len(CronCalendar) - 1) : CronMonth(i, Cron!DayOf(t))
  BY <1>1, <1>2, CronMonthExists
<1>4. Cron!MonthIndex(t) \in 1..(Len(CronCalendar) - 1) /\ CronMonth(Cron!MonthIndex(t), Cron!DayOf(t))
  BY <1>3 DEF Cron!MonthIndex, CronMonth
<1> QED
  BY <1>1, <1>4, CronMonthIsOne

\* Each skip: the time moves on, and the field that decided it stays what it is.
LEMMA CronHourSkip ==
    ASSUME NEW t \in Nat, NEW u \in t..(Cron!AdvanceHour(t) - 1)
    PROVE  u \in Nat /\ Cron!Component("hour", u) = Cron!Component("hour", t)
<1>1. u \in Nat /\ u \div Cron!Hour = t \div Cron!Hour
  BY CronDays, CronSameQuotient DEF Cron!AdvanceHour
<1> QED
  BY <1>1 DEF Cron!Component

LEMMA CronDaySkip ==
    ASSUME NEW t \in Nat, NEW u \in t..(Cron!AdvanceDay(t) - 1)
    PROVE  /\ u \in Nat
           /\ Cron!Component("dom", u) = Cron!Component("dom", t)
           /\ Cron!Component("dow", u) = Cron!Component("dow", t)
<1>1. u \in Nat /\ Cron!DayOf(u) = Cron!DayOf(t)
  BY CronDays, CronSameQuotient DEF Cron!AdvanceDay, Cron!DayOf
<1>2. Cron!MonthIndex(u) = Cron!MonthIndex(t)
  BY <1>1 DEF Cron!MonthIndex
<1> QED
  BY <1>1, <1>2 DEF Cron!Component

LEMMA CronMonthSkip ==
    ASSUME NEW t \in Nat, t < CronReach, NEW u \in t..(Cron!AdvanceMonth(t) - 1)
    PROVE  u \in Nat /\ Cron!Component("month", u) = Cron!Component("month", t)
<1> DEFINE i == Cron!MonthIndex(t)
<1>1. /\ Cron!DayOf(t) \in Nat /\ i \in 1..(Len(CronCalendar) - 1) /\ CronMonth(i, Cron!DayOf(t))
  BY CronMonthOf
<1>2. i + 1 \in 1..Len(CronCalendar) /\ CronCalendar[i + 1] \in Nat /\ CronCalendar[Len(CronCalendar)] \in Nat
      /\ CronCalendar[i] \in Nat /\ Cron!Day \in Nat \ {0}
  BY <1>1, CronDays
<1>3. CronCalendar[i + 1] <= CronCalendar[Len(CronCalendar)]
  <2>1. i + 1 \in DOMAIN CronCalendar /\ Len(CronCalendar) \in DOMAIN CronCalendar /\ i + 1 <= Len(CronCalendar)
    BY <1>2, CronDays
  <2> QED
    BY <2>1, CronMonthsGrow
<1> DEFINE stop == CronCalendar[i + 1] * Cron!Day
<1>4. stop \in Nat /\ CronReach \in Nat /\ stop <= CronReach
  BY <1>2, <1>3, CronProductsGrow DEF CronReach
<1>5. u \in Nat /\ t <= u /\ u < stop /\ u < CronReach
  BY <1>4 DEF Cron!AdvanceMonth
<1>6. Cron!DayOf(u) < CronCalendar[i + 1]
  BY <1>2, <1>5, CronBefore DEF Cron!DayOf
<1>7. CronCalendar[i] <= Cron!DayOf(u)
  <2> DEFINE start == CronCalendar[i] * Cron!Day
  <2>1. start <= Cron!DayOf(t) * Cron!Day
    BY <1>1, <1>2, CronProductsGrow DEF CronMonth
  <2>2. Cron!DayOf(t) * Cron!Day <= t /\ Cron!DayOf(t) * Cron!Day \in Nat /\ start \in Nat
    BY <1>1, <1>2, CronDivides DEF Cron!DayOf
  <2>3. start <= u
    BY <1>5, <2>1, <2>2
  <2> QED
    BY <1>2, <1>5, <2>3, CronBefore DEF Cron!DayOf
<1>8. i = Cron!MonthIndex(u)
  <2>1. CronMonth(i, Cron!DayOf(u))
    BY <1>6, <1>7 DEF CronMonth
  <2> QED
    BY <1>1, <1>5, <2>1, CronMonthOf
<1> QED
  BY <1>5, <1>8 DEF Cron!Component

LEMMA CronSkipMovesOn ==
    ASSUME NEW t \in Nat, t < CronReach
    PROVE  Cron!Skip(t) \in Nat /\ t < Cron!Skip(t)
<1>1. Cron!AdvanceHour(t) \in Nat /\ t < Cron!AdvanceHour(t)
  BY CronDays, CronDivides DEF Cron!AdvanceHour
<1>2. Cron!AdvanceDay(t) \in Nat /\ t < Cron!AdvanceDay(t)
  BY CronDays, CronDivides DEF Cron!AdvanceDay, Cron!DayOf
<1>3. Cron!AdvanceMonth(t) \in Nat /\ t < Cron!AdvanceMonth(t)
  <2> DEFINE i == Cron!MonthIndex(t)
  <2>1. Cron!DayOf(t) \in Nat /\ i \in 1..(Len(CronCalendar) - 1) /\ Cron!DayOf(t) < CronCalendar[i + 1]
    BY CronMonthOf DEF CronMonth
  <2>2. CronCalendar[i + 1] \in Nat /\ Cron!Day \in Nat \ {0}
    BY <2>1, CronDays
  <2>3. (Cron!DayOf(t) + 1) * Cron!Day <= CronCalendar[i + 1] * Cron!Day
    BY <2>1, <2>2, CronProductsGrow
  <2>4. t < (Cron!DayOf(t) + 1) * Cron!Day
    BY <2>2, CronDivides DEF Cron!DayOf
  <2>5. (Cron!DayOf(t) + 1) * Cron!Day \in Nat /\ CronCalendar[i + 1] * Cron!Day \in Nat
    BY <2>1, <2>2
  <2> QED
    BY <2>3, <2>4, <2>5 DEF Cron!AdvanceMonth
<1> QED
  BY <1>1, <1>2, <1>3 DEF Cron!Skip

\* No minute is passed that matches.
LEMMA CronSkipPassesNone ==
    ASSUME NEW t \in Nat, t < CronReach, ~Cron!Matches(t), NEW u \in t..(Cron!Skip(t) - 1)
    PROVE  ~Cron!Matches(u)
<1>1. CASE ~Cron!FieldMatches("month", t)
  BY <1>1, CronMonthSkip DEF Cron!Skip, Cron!Matches, Cron!FieldMatches, Cron!Fields
<1>2. CASE Cron!FieldMatches("month", t) /\ ~(Cron!FieldMatches("dom", t) /\ Cron!FieldMatches("dow", t))
  BY <1>2, CronDaySkip DEF Cron!Skip, Cron!Matches, Cron!FieldMatches, Cron!Fields
<1>3. CASE /\ Cron!FieldMatches("month", t) /\ Cron!FieldMatches("dom", t) /\ Cron!FieldMatches("dow", t)
           /\ ~Cron!FieldMatches("hour", t)
  BY <1>3, CronHourSkip DEF Cron!Skip, Cron!Matches, Cron!FieldMatches, Cron!Fields
<1>4. CASE /\ Cron!FieldMatches("month", t) /\ Cron!FieldMatches("dom", t) /\ Cron!FieldMatches("dow", t)
           /\ Cron!FieldMatches("hour", t)
  <2>1. u = t
    BY <1>4 DEF Cron!Skip
  <2> QED
    BY <2>1
<1> QED
  BY <1>1, <1>2, <1>3, <1>4

CronInv ==
    /\ cronNow \in 0..CronMaxTime /\ cronFired \in 0..cronNow
    /\ cronSource \in [pc : {"next", "scan", "sleep", "busy", "raised"}, from : 0..cronNow, dt : Nat]
    /\ cronSource.pc \in {"scan", "sleep", "raised"} =>
         /\ cronFired <= cronSource.from /\ cronSource.from < cronSource.dt
         /\ \A t \in (cronSource.from + 1)..(cronSource.dt - 1) : ~Cron!Matches(t)
    /\ cronSource.pc = "sleep" => Cron!Matches(cronSource.dt)

LEMMA CronInit ==
    ASSUME Cron!Init
    PROVE  CronInv
<1>1. cronNow = 0 /\ cronSource = [pc |-> "next", from |-> 0, dt |-> 0] /\ cronFired = 0
  BY DEF Cron!Init
<1> QED
  BY <1>1, CronAssumption DEF CronInv

\* The fields of the expression stay, and so does what they match.
LEMMA CronSameFields ==
    ASSUME UNCHANGED cronFields, NEW t
    PROVE  Cron!Matches(t)' <=> Cron!Matches(t)
BY DEF Cron!Matches, Cron!FieldMatches

LEMMA CronScans ==
    ASSUME CronInv, Cron!Scan
    PROVE  CronInv'
<1> DEFINE from == cronSource.from
           dt == cronSource.dt
<1>1. /\ cronSource.pc = "scan" /\ dt <= from + CronMaxScan /\ UNCHANGED << cronFields, cronNow, cronFired >>
      /\ cronSource' = IF Cron!Matches(dt) THEN [cronSource EXCEPT !.pc = "sleep"] ELSE [cronSource EXCEPT !.dt = Cron!Skip(dt)]
  BY DEF Cron!Scan, Cron!At
<1>2. /\ cronSource \in [pc : {"next", "scan", "sleep", "busy", "raised"}, from : 0..cronNow, dt : Nat]
      /\ from \in Nat /\ dt \in Nat /\ from <= cronNow /\ cronNow <= CronMaxTime /\ cronNow \in Nat
      /\ cronFired <= from /\ from < dt /\ cronNow \in 0..CronMaxTime /\ cronFired \in 0..cronNow
      /\ \A t \in (from + 1)..(dt - 1) : ~Cron!Matches(t)
  BY <1>1, CronAssumption DEF CronInv
<1>3. CASE Cron!Matches(dt)
  <2>1. cronSource' = [cronSource EXCEPT !.pc = "sleep"]
    BY <1>1, <1>3
  <2>2. /\ cronSource' \in [pc : {"next", "scan", "sleep", "busy", "raised"}, from : 0..cronNow, dt : Nat]
        /\ cronSource'.pc = "sleep" /\ cronSource'.from = from /\ cronSource'.dt = dt
    BY <1>2, <2>1
  <2>3. \A t : Cron!Matches(t)' <=> Cron!Matches(t)
    BY <1>1, CronSameFields
  <2>4. Cron!Matches(cronSource.dt)'
    BY <1>1, <1>3, <2>2 DEF Cron!Matches, Cron!FieldMatches
  <2>5. (\A t \in (cronSource.from + 1)..(cronSource.dt - 1) : ~Cron!Matches(t))'
    BY <1>2, <2>2, <2>3
  <2> QED
    BY <1>1, <1>2, <2>2, <2>4, <2>5 DEF CronInv
<1>4. CASE ~Cron!Matches(dt)
  <2>1. cronSource' = [cronSource EXCEPT !.dt = Cron!Skip(dt)]
    BY <1>1, <1>4
  <2>2. dt < CronReach
    <3>1. CronReach \in Nat /\ CronMaxTime + CronMaxScan < CronReach /\ CronMaxTime \in Nat /\ CronMaxScan \in Nat
      <4>1. Len(CronCalendar) \in 1..Len(CronCalendar)
        BY CronDays
      <4>2. CronCalendar[Len(CronCalendar)] \in Nat /\ Cron!Day \in Nat
        BY <4>1, CronDays
      <4> QED
        BY <4>2, CronAssumption DEF CronReach
    <3> QED
      BY <1>1, <1>2, <3>1
  <2>3. PICK more \in Nat : more = Cron!Skip(dt) /\ dt < more
    BY <1>2, <2>2, CronSkipMovesOn
  <2>4. /\ cronSource' \in [pc : {"next", "scan", "sleep", "busy", "raised"}, from : 0..cronNow, dt : Nat]
        /\ cronSource'.pc = "scan" /\ cronSource'.from = from /\ cronSource'.dt = more
    BY <1>1, <1>2, <2>1, <2>3
  <2>5. \A t \in dt..(more - 1) : ~Cron!Matches(t)
    BY <1>2, <1>4, <2>2, <2>3, CronSkipPassesNone
  <2>6. \A t \in (from + 1)..(more - 1) : t \in (from + 1)..(dt - 1) \/ t \in dt..(more - 1)
    BY <1>2, <2>3
  <2>7. \A t : Cron!Matches(t)' <=> Cron!Matches(t)
    BY <1>1, CronSameFields
  <2>8. (\A t \in (cronSource.from + 1)..(cronSource.dt - 1) : ~Cron!Matches(t))'
    BY <1>2, <2>4, <2>5, <2>6, <2>7
  <2>9. from < more
    BY <1>2, <2>3
  <2> QED
    BY <1>1, <1>2, <2>4, <2>8, <2>9 DEF CronInv
<1> QED
  BY <1>3, <1>4

LEMMA CronNext ==
    ASSUME CronInv, [Cron!Next]_(Cron!vars)
    PROVE  CronInv'
<1> DEFINE sources(n) == [pc : {"next", "scan", "sleep", "busy", "raised"}, from : 0..n, dt : Nat]
<1>0. /\ cronNow \in Nat /\ cronFired \in Nat /\ cronNow <= CronMaxTime /\ cronFired <= cronNow /\ CronMaxTime \in Nat
      /\ cronSource \in sources(cronNow) /\ cronSource.from \in Nat /\ cronSource.from <= cronNow /\ cronSource.dt \in Nat
  BY CronAssumption DEF CronInv
<1>1. CASE Cron!StartScan
  <2>1. /\ cronSource' = [pc |-> "scan", from |-> cronNow, dt |-> cronNow + 1] /\ UNCHANGED << cronFields, cronNow, cronFired >>
    BY <1>1 DEF Cron!StartScan
  <2>2. cronSource' \in sources(cronNow) /\ cronSource'.pc = "scan" /\ cronSource'.from = cronNow /\ cronSource'.dt = cronNow + 1
    BY <1>0, <2>1
  <2>3. (cronNow + 1)..((cronNow + 1) - 1) = {} /\ cronNow < cronNow + 1
    BY <1>0
  <2> QED
    BY <1>0, <2>1, <2>2, <2>3 DEF CronInv
<1>2. CASE Cron!ScanRaises \/ Cron!Continue
  <2>1. /\ UNCHANGED << cronFields, cronNow, cronFired >>
        /\ \/ cronSource' = [cronSource EXCEPT !.pc = "raised"] /\ cronSource.pc = "scan"
           \/ cronSource' = [cronSource EXCEPT !.pc = "next"]
    BY <1>2 DEF Cron!ScanRaises, Cron!Continue, Cron!At
  <2>2. /\ cronSource' \in sources(cronNow) /\ cronSource'.from = cronSource.from /\ cronSource'.dt = cronSource.dt
        /\ cronSource'.pc = "next" \/ (cronSource'.pc = "raised" /\ cronSource.pc = "scan")
    BY <1>0, <2>1
  <2>3. \A t : Cron!Matches(t)' <=> Cron!Matches(t)
    BY <2>1, CronSameFields
  <2>4. cronSource'.pc = "raised" => (\A t \in (cronSource.from + 1)..(cronSource.dt - 1) : ~Cron!Matches(t))'
    BY <2>2, <2>3 DEF CronInv
  <2>5. cronSource'.pc = "raised" => (cronFired <= cronSource.from /\ cronSource.from < cronSource.dt)'
    BY <2>1, <2>2 DEF CronInv
  <2> QED
    BY <1>0, <2>1, <2>2, <2>4, <2>5 DEF CronInv
<1>3. CASE Cron!Fire
  <2>1. /\ cronSource' = [cronSource EXCEPT !.pc = "busy"] /\ cronFired' = cronSource.dt /\ UNCHANGED << cronFields, cronNow >>
        /\ cronNow >= cronSource.dt
    BY <1>3 DEF Cron!Fire
  <2>2. cronSource' \in sources(cronNow) /\ cronSource'.pc = "busy"
    BY <1>0, <2>1
  <2> QED
    BY <1>0, <2>1, <2>2 DEF CronInv
<1>4. CASE Cron!Tick
  <2>1. /\ cronNow < CronMaxTime /\ cronNow' = cronNow + 1 /\ UNCHANGED << cronFields, cronSource, cronFired >>
    BY <1>4 DEF Cron!Tick
  <2>2. cronNow' \in 0..CronMaxTime /\ cronFired' \in 0..cronNow' /\ cronSource' \in sources(cronNow')
    BY <1>0, <2>1
  <2>3. \A t : Cron!Matches(t)' <=> Cron!Matches(t)
    BY <2>1, CronSameFields
  <2>4. cronSource.pc = "sleep" => Cron!Matches(cronSource.dt)'
    BY <2>1 DEF CronInv, Cron!Matches, Cron!FieldMatches
  <2>5. cronSource'.pc \in {"scan", "sleep", "raised"} =>
          /\ (cronFired <= cronSource.from /\ cronSource.from < cronSource.dt)'
          /\ (\A t \in (cronSource.from + 1)..(cronSource.dt - 1) : ~Cron!Matches(t))'
    BY <2>1, <2>3 DEF CronInv
  <2> QED
    BY <2>1, <2>2, <2>4, <2>5 DEF CronInv
<1>5. CASE UNCHANGED Cron!vars
  <2>1. UNCHANGED << cronFields, cronNow, cronSource, cronFired >>
    BY <1>5 DEF Cron!vars
  <2> QED
    BY <2>1 DEF CronInv, Cron!Matches, Cron!FieldMatches
<1> QED
  BY <1>1, <1>2, <1>3, <1>4, <1>5, CronScans DEF Cron!Next

\* Alone.
THEOREM NothingIsEverSkipped == Cron!Spec => []Cron!NothingIsSkipped
<1>1. Cron!Init => CronInv
  BY CronInit
<1>2. CronInv /\ [Cron!Next]_(Cron!vars) => CronInv'
  BY CronNext
<1>3. CronInv => Cron!NothingIsSkipped
  <2> SUFFICES ASSUME CronInv PROVE Cron!NothingIsSkipped
    OBVIOUS
  <2>1. cronSource.pc = "sleep" => cronFired < cronSource.dt
    <3>1. cronFired \in Nat /\ cronSource.from \in Nat /\ cronSource.dt \in Nat
      BY CronAssumption DEF CronInv
    <3> QED
      BY <3>1 DEF CronInv
  <2>2. \A t : Cron!Matches(t) => Cron!PosixMatches(t)
    BY DEF Cron!Matches, Cron!PosixMatches, Cron!Fields
  <2>3. \A t : Cron!PosixMatches(t) => Cron!Matches(t) \/ (Cron!Restricts("dom") /\ Cron!Restricts("dow"))
    BY DEF Cron!Matches, Cron!PosixMatches, Cron!Fields
  <2> QED
    BY <2>1, <2>2, <2>3 DEF CronInv, Cron!NothingIsSkipped, Cron!At
<1> QED
  BY <1>1, <1>2, <1>3, PTL DEF Cron!Spec

-----------------------------------------------------------------------------
(* Types of a schedule: what is parsed stays within the bounds of its      *)
(* field, and no day of the week is 7.                                     *)

CronWithin ==
    /\ cronFields \in [Cron!Fields -> SUBSET Nat]
    /\ cronFields["dow"] \subseteq 0..(CronWeekdays - 1)

LEMMA CronRanges ==
    ASSUME NEW f \in Cron!Fields
    PROVE  \E x \in Nat, y \in Int : Cron!Bounds(f) = x..y
<1>1. /\ CronMinutes - 1 \in Int /\ CronHours - 1 \in Int /\ CronMonthsPerYear \in Int /\ CronWeekdays \in Int
      /\ 31 \in Int /\ 0 \in Nat /\ 1 \in Nat
  BY CronAssumption
<1>2. /\ f = "minute" => Cron!Bounds(f) = 0..(CronMinutes - 1)
      /\ f = "hour" => Cron!Bounds(f) = 0..(CronHours - 1)
      /\ f = "dom" => Cron!Bounds(f) = 1..31
      /\ f = "month" => Cron!Bounds(f) = 1..CronMonthsPerYear
      /\ f = "dow" => Cron!Bounds(f) = 0..CronWeekdays
  BY DEF Cron!Bounds
<1>3. f \in {"minute", "hour", "dom", "month", "dow"}
  BY DEF Cron!Fields
<1> QED
  BY <1>1, <1>2, <1>3, Zenon

LEMMA CronTokenWithin ==
    ASSUME NEW f \in Cron!Fields, NEW t, t.kind \in {"any", "range", "value"}, Cron!WellFormed(t, Cron!Bounds(f))
    PROVE  Cron!ParseToken(t, Cron!Bounds(f)) \subseteq Cron!Bounds(f)
<1> DEFINE bounds == Cron!Bounds(f)
<1>1. bounds \subseteq Nat /\ (\A x, y \in bounds : x..y \subseteq bounds)
  <2>1. PICK x \in Nat, y \in Int : bounds = x..y
    BY CronRanges
  <2> QED
    BY <2>1
<1> HIDE DEF bounds
<1>2. t.kind # "any" => t.lo \in bounds
  BY DEF Cron!WellFormed, bounds
<1>3. t.kind = "range" => t.lo..t.hi \subseteq bounds
  BY <1>1, <1>2 DEF Cron!WellFormed, bounds
<1>4. \A S : Cron!EveryNth(S, t.step) \subseteq S
  BY DEF Cron!EveryNth
<1>5. CASE t.kind = "any"
  BY <1>4, <1>5 DEF Cron!ParseToken, bounds
<1>6. CASE t.kind = "range"
  <2>1. Cron!ParseToken(t, bounds) = Cron!EveryNth(t.lo..t.hi, t.step)
    BY <1>6 DEF Cron!ParseToken
  <2> QED
    BY <1>3, <1>4, <1>6, <2>1 DEF bounds
<1>7. CASE t.kind = "value"
  <2>1. Cron!ParseToken(t, bounds) = {t.lo}
    BY <1>7 DEF Cron!ParseToken
  <2> QED
    BY <1>2, <1>7, <2>1 DEF bounds
<1> QED
  BY <1>5, <1>6, <1>7

LEMMA CronStartsWithin == Cron!Init => CronWithin
<1> SUFFICES ASSUME Cron!Init PROVE CronWithin
  OBVIOUS
<1>1. PICK fields \in CronExpressions :
          /\ \A f \in Cron!Fields : \A t \in fields[f] : Cron!WellFormed(t, Cron!Bounds(f))
          /\ cronFields = Cron!Parsed(fields)
  BY DEF Cron!Init
<1>2. ASSUME NEW f \in Cron!Fields PROVE Cron!ParseField(f, fields[f]) \subseteq Cron!Bounds(f)
  BY <1>1, CronAssumption, CronTokenWithin DEF Cron!ParseField
<1>3. \A f \in Cron!Fields : Cron!Bounds(f) \subseteq Nat
  BY CronRanges
<1>4. Cron!Bounds("dow") = 0..CronWeekdays /\ "dow" \in Cron!Fields
  BY DEF Cron!Bounds, Cron!Fields
<1>5. Cron!SundayIsZero(Cron!ParseField("dow", fields["dow"])) \subseteq 0..(CronWeekdays - 1)
  <2> DEFINE days == Cron!ParseField("dow", fields["dow"])
  <2>1. days \subseteq 0..CronWeekdays
    BY <1>2, <1>4
  <2> HIDE DEF days
  <2>2. 0 \in 0..(CronWeekdays - 1) /\ \A d \in 0..CronWeekdays : d # CronWeekdays => d \in 0..(CronWeekdays - 1)
    BY CronAssumption
  <2>3. Cron!SundayIsZero(days) \subseteq 0..(CronWeekdays - 1)
    BY <2>1, <2>2 DEF Cron!SundayIsZero
  <2> QED
    BY <2>3 DEF days
<1>6. cronFields = [f \in Cron!Fields |-> IF f = "dow" THEN Cron!SundayIsZero(Cron!ParseField(f, fields[f]))
                                          ELSE Cron!ParseField(f, fields[f])]
  BY <1>1 DEF Cron!Parsed
<1>7. cronFields["dow"] \subseteq 0..(CronWeekdays - 1)
  BY <1>4, <1>5, <1>6
<1>8. \A f \in Cron!Fields : (IF f = "dow" THEN Cron!SundayIsZero(Cron!ParseField(f, fields[f]))
                              ELSE Cron!ParseField(f, fields[f])) \in SUBSET Nat
  <2>1. 0..(CronWeekdays - 1) \subseteq Nat
    BY CronAssumption
  <2> QED
    BY <1>2, <1>3, <1>5, <2>1
<1>9. cronFields \in [Cron!Fields -> SUBSET Nat]
  BY <1>6, <1>8
<1> QED
  BY <1>7, <1>9 DEF CronWithin

LEMMA CronTypeCorrect == Cron!Spec => []Cron!TypeOK
<1>1. CronWithin /\ [Cron!Next]_(Cron!vars) => CronWithin'
  BY DEF CronWithin, Cron!Next, Cron!vars, Cron!StartScan, Cron!Scan, Cron!ScanRaises, Cron!Fire, Cron!Continue, Cron!Tick
<1>2. CronInv /\ CronWithin => Cron!TypeOK
  <2> SUFFICES ASSUME CronInv, CronWithin PROVE Cron!TypeOK
    OBVIOUS
  <2>1. cronNow \in Nat /\ cronFired \in Nat /\ 0..cronNow \subseteq Nat
    BY CronAssumption DEF CronInv
  <2>2. cronSource \in [pc : {"next", "scan", "sleep", "busy", "raised"}, from : Nat, dt : Nat]
    BY <2>1 DEF CronInv
  <2> QED
    BY <2>1, <2>2 DEF CronInv, CronWithin, Cron!TypeOK
<1>3. Cron!Init => CronInv /\ CronWithin
  BY CronInit, CronStartsWithin
<1>4. CronInv /\ [Cron!Next]_(Cron!vars) => CronInv'
  BY CronNext
<1> QED
  BY <1>1, <1>2, <1>3, <1>4, PTL DEF Cron!Spec

-----------------------------------------------------------------------------
(***************************************************************************)
(* The events of a source.                                                 *)
(*                                                                         *)
(* What a source is told covers whatever it has given out, so nothing that *)
(* was given out may be open when it is told: the loop holds one event at  *)
(* a time, and takes the next when that one is saved or reported, or when  *)
(* a restart has dropped it.                                               *)
(***************************************************************************)

EventTyped ==
    /\ eventArrived \in Nat /\ eventPosition \in Nat
    /\ eventBroker \in [committed : Nat \cup {Pipeline!NotCommitted}, pending : SUBSET Nat]
    /\ eventLoop \in [pc : {"consume", "turn", "save", "emit", "ack", "report", "reported", "dead"}, event : Nat, attempt : Nat]
    /\ eventOutcome \in [saved : SUBSET Nat, reported : SUBSET Nat, acked : SUBSET Nat, answered : SUBSET Nat]

\* The event in hand is not dealt with yet.
EventOpen == eventLoop.pc \in {"turn", "save", "report", "dead"}

EventInv ==
    /\ EventTyped /\ Pipeline!OutcomesAreTrue
    /\ eventLoop.pc \in {"emit", "ack"} => eventLoop.event \in eventOutcome.saved
    /\ eventLoop.pc = "reported" => eventLoop.event \in eventOutcome.reported
    /\ \A e \in 1..eventPosition : e \in Pipeline!Handled \cup eventLost \/ (EventOpen /\ e = eventLoop.event)

\* A step on the event in hand: what is dealt with stays so.
LEMMA EventMoves ==
    ASSUME EventInv, EventTyped', eventPosition' = eventPosition,
           eventOutcome'.saved = eventOutcome.saved \/ eventOutcome'.saved = eventOutcome.saved \cup {eventLoop.event},
           eventOutcome'.reported = eventOutcome.reported \/ eventOutcome'.reported = eventOutcome.reported \cup {eventLoop.event},
           eventOutcome'.acked \subseteq eventOutcome.acked \cup Pipeline!Handled',
           eventOutcome'.answered \subseteq eventOutcome.answered \cup eventOutcome.saved',
           eventLost' = eventLost,
           eventBroker'.committed = eventBroker.committed \/ (~EventOpen /\ eventBroker'.committed = eventPosition),
           eventLoop'.pc \in {"emit", "ack"} => eventLoop'.event \in eventOutcome'.saved,
           eventLoop'.pc = "reported" => eventLoop'.event \in eventOutcome'.reported,
           EventOpen => \/ eventLoop.event \in Pipeline!Handled'
                        \/ EventOpen' /\ eventLoop'.event = eventLoop.event
    PROVE  EventInv'
<1>1. Pipeline!Handled \subseteq Pipeline!Handled' /\ eventOutcome.saved \subseteq eventOutcome'.saved
  BY DEF Pipeline!Handled
<1>2. (\A e \in 1..eventPosition : e \in Pipeline!Handled \cup eventLost \/ (EventOpen /\ e = eventLoop.event))'
  <2> SUFFICES ASSUME NEW e \in 1..eventPosition
               PROVE  e \in Pipeline!Handled' \cup eventLost' \/ (EventOpen' /\ e = eventLoop'.event)
    OBVIOUS
  <2>1. e \in Pipeline!Handled \cup eventLost \/ (EventOpen /\ e = eventLoop.event)
    BY DEF EventInv
  <2> QED
    BY <1>1, <2>1
<1>3. Pipeline!OutcomesAreTrue'
  <2>1. eventOutcome'.acked \subseteq Pipeline!Handled' /\ eventOutcome'.answered \subseteq eventOutcome'.saved
    BY <1>1 DEF EventInv, Pipeline!OutcomesAreTrue
  <2>2. 1..eventBroker'.committed \subseteq Pipeline!Handled' \cup eventLost'
    <3>1. CASE eventBroker'.committed = eventBroker.committed
      BY <1>1, <3>1 DEF EventInv, Pipeline!OutcomesAreTrue
    <3>2. CASE ~EventOpen /\ eventBroker'.committed = eventPosition
      BY <1>1, <3>2 DEF EventInv
    <3> QED
      BY <3>1, <3>2
  <2> QED
    BY <2>1, <2>2 DEF Pipeline!OutcomesAreTrue
<1> QED
  BY <1>2, <1>3 DEF EventInv

\* What the broker may be told at the end of an event.
LEMMA EventTold ==
    ASSUME EventInv
    PROVE  /\ Pipeline!Told \in [committed : Nat \cup {Pipeline!NotCommitted}, pending : SUBSET Nat]
           /\ Pipeline!Told.committed \in {eventBroker.committed, eventPosition}
<1>1. /\ eventBroker \in [committed : Nat \cup {Pipeline!NotCommitted}, pending : SUBSET Nat] /\ eventPosition \in Nat
  BY DEF EventInv, EventTyped
<1>2. /\ Pipeline!Committed \in [committed : Nat \cup {Pipeline!NotCommitted}, pending : SUBSET Nat]
      /\ Pipeline!Committed.committed = eventPosition
  BY <1>1 DEF Pipeline!Committed
<1>3. /\ Pipeline!Acked \in [committed : Nat \cup {Pipeline!NotCommitted}, pending : SUBSET Nat]
      /\ Pipeline!Acked.committed = eventBroker.committed
  BY <1>1 DEF Pipeline!Acked
<1> QED
  BY <1>1, <1>2, <1>3 DEF Pipeline!Told

LEMMA EventInit ==
    ASSUME Pipeline!Init
    PROVE  EventInv
<1>1. /\ eventArrived = 0 /\ eventPosition = 0 /\ eventLost = {}
      /\ eventBroker = [committed |-> Pipeline!NotCommitted, pending |-> {}]
      /\ eventLoop = [pc |-> "consume", event |-> 0, attempt |-> 0]
      /\ eventOutcome = [saved |-> {}, reported |-> {}, acked |-> {}, answered |-> {}]
  BY DEF Pipeline!Init, Pipeline!Consuming
<1>2. EventTyped
  BY <1>1 DEF EventTyped
<1>3. 1..eventBroker.committed = {} /\ 1..eventPosition = {}
  BY <1>1 DEF Pipeline!NotCommitted
<1> QED
  BY <1>1, <1>2, <1>3 DEF EventInv, Pipeline!OutcomesAreTrue

\* The next event is in hand, or the loop has died of it.
LEMMA EventTaken ==
    ASSUME EventInv, Pipeline!Read, eventBroker'.committed = eventBroker.committed, EventTyped'
    PROVE  EventInv'
<1>1. /\ eventLoop.pc = "consume" /\ eventPosition' = eventPosition + 1 /\ UNCHANGED << eventOutcome, eventLost >>
      /\ eventLoop'.pc \in {"turn", "dead"} /\ eventLoop'.event = eventPosition + 1
  BY DEF Pipeline!Read, Pipeline!Given, Pipeline!At
<1>2. EventOpen' /\ ~EventOpen /\ Pipeline!Handled' = Pipeline!Handled /\ eventPosition \in Nat
  BY <1>1 DEF EventOpen, EventInv, EventTyped, Pipeline!Handled
<1>3. \A e \in 1..eventPosition' : e \in 1..eventPosition \/ e = eventLoop'.event
  BY <1>1, <1>2
<1>4. Pipeline!OutcomesAreTrue'
  BY <1>1, <1>2 DEF EventInv, Pipeline!OutcomesAreTrue
<1> QED
  BY <1>1, <1>2, <1>3, <1>4 DEF EventInv

LEMMA EventRestarts ==
    ASSUME EventInv, Pipeline!Restart
    PROVE  EventInv'
<1>1. /\ eventPosition' = Pipeline!Resumed /\ UNCHANGED << eventArrived, eventBroker, eventOutcome >>
      /\ eventLost' = eventLost \cup {e \in 1..Pipeline!Resumed : e > eventPosition \/ (e = eventLoop.event /\ e \notin eventOutcome.acked)}
      /\ eventLoop' = [pc |-> "consume", event |-> 0, attempt |-> 0]
  BY DEF Pipeline!Restart, Pipeline!Consuming
<1>2. Pipeline!Resumed \in Nat
  BY DEF Pipeline!Resumed, EventInv, EventTyped
<1>3. EventTyped'
  BY <1>1, <1>2 DEF EventInv, EventTyped
<1>4. Pipeline!Handled' = Pipeline!Handled /\ eventOutcome.acked \subseteq Pipeline!Handled
  BY <1>1 DEF Pipeline!Handled, EventInv, Pipeline!OutcomesAreTrue
<1>5. ASSUME NEW e \in 1..eventPosition' PROVE e \in Pipeline!Handled' \cup eventLost'
  <2>1. e \in 1..eventPosition \/ e > eventPosition
    BY <1>1, <1>2 DEF EventInv, EventTyped
  <2>2. CASE e > eventPosition
    BY <1>1, <2>2
  <2>3. CASE e \in 1..eventPosition
    BY <1>1, <1>4, <2>3 DEF EventInv
  <2> QED
    BY <2>1, <2>2, <2>3
<1>6. Pipeline!OutcomesAreTrue'
  BY <1>1, <1>4 DEF EventInv, Pipeline!OutcomesAreTrue
<1> QED
  BY <1>1, <1>3, <1>5, <1>6 DEF EventInv

\* What may have been done when a step raises.
LEMMA EventMayBeDone ==
    ASSUME EventInv, Pipeline!MayBeDone, Pipeline!Raises
    PROVE  /\ eventBroker' \in [committed : Nat \cup {Pipeline!NotCommitted}, pending : SUBSET Nat]
           /\ eventBroker'.committed = eventBroker.committed \/ (~EventOpen /\ eventBroker'.committed = eventPosition)
<1>1. eventBroker' = eventBroker \/ (eventLoop.pc = "ack" /\ eventBroker' = Pipeline!Told)
  BY DEF Pipeline!MayBeDone, Pipeline!At
<1> QED
  BY <1>1, EventTold DEF EventInv, EventTyped, EventOpen

LEMMA EventNext ==
    ASSUME EventInv, [Pipeline!Next]_(Pipeline!vars)
    PROVE  EventInv'
<1> DEFINE pcs == {"consume", "turn", "save", "emit", "ack", "report", "reported", "dead"}
<1>0. /\ eventLoop \in [pc : pcs, event : Nat, attempt : Nat] /\ eventLoop.event \in Nat /\ eventPosition \in Nat
      /\ eventOutcome \in [saved : SUBSET Nat, reported : SUBSET Nat, acked : SUBSET Nat, answered : SUBSET Nat]
      /\ eventBroker \in [committed : Nat \cup {Pipeline!NotCommitted}, pending : SUBSET Nat] /\ eventArrived \in Nat
  BY DEF EventInv, EventTyped
<1>1. CASE Pipeline!Arrive
  <2>1. eventArrived' = eventArrived + 1 /\ UNCHANGED << eventBroker, eventPosition, eventLoop, eventOutcome, eventLost >>
    BY <1>1 DEF Pipeline!Arrive, Pipeline!Produce, Pipeline!AcceptWebhook, Pipeline!TimerFires, Pipeline!Arrives
  <2> QED
    BY <2>1 DEF EventInv, EventTyped, EventOpen, Pipeline!OutcomesAreTrue, Pipeline!Handled
<1>2. CASE Pipeline!Take
  <2>1. /\ Pipeline!Read
        /\ eventBroker' = eventBroker \/ eventBroker' = [eventBroker EXCEPT !.pending = @ \cup {eventPosition + 1}]
    BY <1>2 DEF Pipeline!Take, Pipeline!TakeRecord, Pipeline!TakeEntry, Pipeline!TakeQueued
  <2>2. /\ eventBroker' \in [committed : Nat \cup {Pipeline!NotCommitted}, pending : SUBSET Nat]
        /\ eventBroker'.committed = eventBroker.committed
    BY <1>0, <2>1
  <2>3. EventTyped'
    BY <1>0, <2>1, <2>2 DEF EventTyped, Pipeline!Read, Pipeline!Given
  <2> QED
    BY <2>1, <2>2, <2>3, EventTaken
<1>3. CASE Pipeline!ConsumeFails
  <2>1. /\ eventLoop' = [eventLoop EXCEPT !.pc = "dead"] /\ eventLoop.pc = "consume"
        /\ UNCHANGED << eventArrived, eventBroker, eventPosition, eventOutcome, eventLost >>
    BY <1>3 DEF Pipeline!ConsumeFails, Pipeline!Goto, Pipeline!At
  <2>2. eventLoop' \in [pc : pcs, event : Nat, attempt : Nat] /\ eventLoop'.pc = "dead"
    BY <1>0, <2>1
  <2>3. EventTyped'
    BY <1>0, <2>1, <2>2 DEF EventTyped
  <2> QED
    BY <2>1, <2>2, <2>3, EventMoves DEF EventOpen
<1>4. CASE Pipeline!Turn
  <2>1. /\ eventLoop' = [eventLoop EXCEPT !.pc = "save"] /\ eventLoop.pc = "turn"
        /\ UNCHANGED << eventArrived, eventBroker, eventPosition, eventOutcome, eventLost >>
    BY <1>4 DEF Pipeline!Turn, Pipeline!Goto, Pipeline!At
  <2>2. eventLoop' \in [pc : pcs, event : Nat, attempt : Nat] /\ eventLoop'.pc = "save" /\ eventLoop'.event = eventLoop.event
    BY <1>0, <2>1
  <2>3. EventTyped'
    BY <1>0, <2>1, <2>2 DEF EventTyped
  <2> QED
    BY <2>1, <2>2, <2>3, EventMoves DEF EventOpen
<1>5. CASE Pipeline!SaveTurn
  <2>1. /\ eventLoop' = [eventLoop EXCEPT !.pc = "emit"] /\ eventLoop.pc = "save"
        /\ eventOutcome' = [eventOutcome EXCEPT !["saved"] = @ \cup {eventLoop.event}]
        /\ UNCHANGED << eventArrived, eventBroker, eventPosition, eventLost >>
    BY <1>5 DEF Pipeline!SaveTurn, Pipeline!Goto, Pipeline!At, Pipeline!Note
  <2>2. eventLoop' \in [pc : pcs, event : Nat, attempt : Nat] /\ eventLoop'.pc = "emit" /\ eventLoop'.event = eventLoop.event
    BY <1>0, <2>1
  <2>3. /\ eventOutcome' \in [saved : SUBSET Nat, reported : SUBSET Nat, acked : SUBSET Nat, answered : SUBSET Nat]
        /\ eventOutcome'.saved = eventOutcome.saved \cup {eventLoop.event}
        /\ eventOutcome'.reported = eventOutcome.reported /\ eventOutcome'.acked = eventOutcome.acked
        /\ eventOutcome'.answered = eventOutcome.answered
    BY <1>0, <2>1
  <2>4. EventTyped'
    BY <1>0, <2>1, <2>2, <2>3 DEF EventTyped
  <2>5. eventLoop.event \in Pipeline!Handled'
    BY <2>3 DEF Pipeline!Handled
  <2> QED
    BY <2>1, <2>2, <2>3, <2>4, <2>5, EventMoves DEF EventOpen
<1>6. ASSUME NEW delivered \in BOOLEAN, Pipeline!Emit(delivered) PROVE EventInv'
  <2>1. /\ eventLoop' = [eventLoop EXCEPT !.pc = "ack"] /\ eventLoop.pc = "emit"
        /\ eventOutcome' = eventOutcome \/ eventOutcome' = [eventOutcome EXCEPT !["answered"] = @ \cup {eventLoop.event}]
        /\ UNCHANGED << eventArrived, eventBroker, eventPosition, eventLost >>
    BY <1>6 DEF Pipeline!Emit, Pipeline!Goto, Pipeline!At, Pipeline!Note
  <2>2. /\ eventLoop' \in [pc : pcs, event : Nat, attempt : Nat] /\ eventLoop'.pc = "ack" /\ eventLoop'.event = eventLoop.event
        /\ eventLoop.event \in eventOutcome.saved
    BY <1>0, <2>1 DEF EventInv
  <2>3. /\ eventOutcome' \in [saved : SUBSET Nat, reported : SUBSET Nat, acked : SUBSET Nat, answered : SUBSET Nat]
        /\ eventOutcome'.saved = eventOutcome.saved /\ eventOutcome'.reported = eventOutcome.reported
        /\ eventOutcome'.acked = eventOutcome.acked
        /\ eventOutcome'.answered \subseteq eventOutcome.answered \cup {eventLoop.event}
    BY <1>0, <2>1
  <2>4. EventTyped'
    BY <1>0, <2>1, <2>2, <2>3 DEF EventTyped
  <2>5. eventOutcome'.answered \subseteq eventOutcome.answered \cup eventOutcome'.saved /\ ~EventOpen
    BY <2>1, <2>2, <2>3 DEF EventOpen
  <2> QED
    BY <2>1, <2>2, <2>3, <2>4, <2>5, EventMoves
<1>7. CASE Pipeline!Acknowledge
  <2>1. /\ eventLoop' = [pc |-> "consume", event |-> 0, attempt |-> 0] /\ eventLoop.pc \in {"ack", "reported"}
        /\ eventBroker' = Pipeline!Told
        /\ eventOutcome' = [eventOutcome EXCEPT !["acked"] = @ \cup {eventLoop.event}]
        /\ UNCHANGED << eventArrived, eventPosition, eventLost >>
    BY <1>7 DEF Pipeline!Acknowledge, Pipeline!At, Pipeline!Note, Pipeline!Consuming
  <2>2. eventLoop' \in [pc : pcs, event : Nat, attempt : Nat] /\ eventLoop'.pc = "consume"
    BY <2>1
  <2>3. /\ eventOutcome' \in [saved : SUBSET Nat, reported : SUBSET Nat, acked : SUBSET Nat, answered : SUBSET Nat]
        /\ eventOutcome'.saved = eventOutcome.saved /\ eventOutcome'.reported = eventOutcome.reported
        /\ eventOutcome'.acked = eventOutcome.acked \cup {eventLoop.event} /\ eventOutcome'.answered = eventOutcome.answered
    BY <1>0, <2>1
  <2>4. EventTyped'
    BY <1>0, <2>1, <2>2, <2>3, EventTold DEF EventTyped
  <2>5. eventLoop.event \in Pipeline!Handled' /\ ~EventOpen
    BY <2>1, <2>3 DEF EventInv, EventOpen, Pipeline!Handled
  <2>6. eventOutcome'.acked \subseteq eventOutcome.acked \cup Pipeline!Handled'
    BY <2>3, <2>5
  <2>7. eventBroker'.committed = eventBroker.committed \/ eventBroker'.committed = eventPosition
    BY <2>1, EventTold
  <2> QED
    BY <2>1, <2>2, <2>3, <2>4, <2>5, <2>6, <2>7, EventMoves
<1>8. CASE Pipeline!Report
  <2>1. /\ eventLoop' = [eventLoop EXCEPT !.pc = "reported"] /\ eventLoop.pc = "report"
        /\ eventOutcome' = [eventOutcome EXCEPT !["reported"] = @ \cup {eventLoop.event}]
        /\ UNCHANGED << eventArrived, eventBroker, eventPosition, eventLost >>
    BY <1>8 DEF Pipeline!Report, Pipeline!Goto, Pipeline!At, Pipeline!Note
  <2>2. eventLoop' \in [pc : pcs, event : Nat, attempt : Nat] /\ eventLoop'.pc = "reported" /\ eventLoop'.event = eventLoop.event
    BY <1>0, <2>1
  <2>3. /\ eventOutcome' \in [saved : SUBSET Nat, reported : SUBSET Nat, acked : SUBSET Nat, answered : SUBSET Nat]
        /\ eventOutcome'.saved = eventOutcome.saved /\ eventOutcome'.reported = eventOutcome.reported \cup {eventLoop.event}
        /\ eventOutcome'.acked = eventOutcome.acked /\ eventOutcome'.answered = eventOutcome.answered
    BY <1>0, <2>1
  <2>4. EventTyped'
    BY <1>0, <2>1, <2>2, <2>3 DEF EventTyped
  <2>5. eventLoop.event \in Pipeline!Handled'
    BY <2>3 DEF Pipeline!Handled
  <2> QED
    BY <2>1, <2>2, <2>3, <2>4, <2>5, EventMoves DEF EventOpen
<1>9. CASE Pipeline!Retry
  <2>1. /\ eventLoop' = [eventLoop EXCEPT !.pc = "turn", !.attempt = @ + 1] /\ Pipeline!Raises /\ Pipeline!MayBeDone
        /\ UNCHANGED << eventArrived, eventPosition, eventOutcome, eventLost >>
    BY <1>9 DEF Pipeline!Retry
  <2>2. eventLoop' \in [pc : pcs, event : Nat, attempt : Nat] /\ eventLoop'.pc = "turn" /\ eventLoop'.event = eventLoop.event
    <3>1. PICK more \in Nat : more = eventLoop.attempt + 1
      BY <1>0
    <3>2. eventLoop' = [eventLoop EXCEPT !.pc = "turn", !.attempt = more]
      BY <1>0, <2>1, <3>1
    <3> QED
      BY <1>0, <3>2
  <2>3. EventTyped'
    BY <1>0, <2>1, <2>2, EventMayBeDone DEF EventTyped
  <2> QED
    BY <2>1, <2>2, <2>3, EventMayBeDone, EventMoves DEF EventOpen
<1>10. CASE Pipeline!GiveUp
  <2>1. /\ eventLoop' = [eventLoop EXCEPT !.pc = "report"] /\ Pipeline!Raises /\ Pipeline!MayBeDone
        /\ UNCHANGED << eventArrived, eventPosition, eventOutcome, eventLost >>
    BY <1>10 DEF Pipeline!GiveUp, Pipeline!Goto
  <2>2. eventLoop' \in [pc : pcs, event : Nat, attempt : Nat] /\ eventLoop'.pc = "report" /\ eventLoop'.event = eventLoop.event
    BY <1>0, <2>1
  <2>3. EventTyped'
    BY <1>0, <2>1, <2>2, EventMayBeDone DEF EventTyped
  <2> QED
    BY <2>1, <2>2, <2>3, EventMayBeDone, EventMoves DEF EventOpen
<1>11. CASE Pipeline!ReportFails
  <2>1. /\ eventLoop' = [eventLoop EXCEPT !.pc = "dead"] /\ eventLoop.pc = "reported" /\ eventBroker' \in {eventBroker, Pipeline!Told}
        /\ UNCHANGED << eventArrived, eventPosition, eventOutcome, eventLost >>
    BY <1>11 DEF Pipeline!ReportFails, Pipeline!Goto, Pipeline!At
  <2>2. eventLoop' \in [pc : pcs, event : Nat, attempt : Nat] /\ eventLoop'.pc = "dead"
    BY <1>0, <2>1
  <2>3. EventTyped'
    BY <1>0, <2>1, <2>2, EventTold DEF EventTyped
  <2>4. ~EventOpen /\ (eventBroker'.committed = eventBroker.committed \/ eventBroker'.committed = eventPosition)
    BY <2>1, EventTold DEF EventOpen
  <2> QED
    BY <2>1, <2>2, <2>3, <2>4, EventMoves
<1>12. CASE UNCHANGED Pipeline!vars
  <2>1. UNCHANGED << eventArrived, eventBroker, eventPosition, eventLoop, eventOutcome, eventLost >>
    BY <1>12 DEF Pipeline!vars
  <2> QED
    BY <2>1 DEF EventInv, EventTyped, EventOpen, Pipeline!OutcomesAreTrue, Pipeline!Handled
<1> QED
  BY <1>1, <1>2, <1>3, <1>4, <1>5, <1>6, <1>7, <1>8, <1>9, <1>10, <1>11, <1>12, EventRestarts
  DEF Pipeline!Next, Pipeline!Handle

\* Alone.
THEOREM OutcomesAreAlwaysTrue == Pipeline!Spec => []Pipeline!OutcomesAreTrue
<1>1. Pipeline!Init => EventInv
  BY EventInit
<1>2. EventInv /\ [Pipeline!Next]_(Pipeline!vars) => EventInv'
  BY EventNext
<1>3. EventInv => Pipeline!OutcomesAreTrue
  BY DEF EventInv
<1> QED
  BY <1>1, <1>2, <1>3, PTL DEF Pipeline!Spec

-----------------------------------------------------------------------------
(* Types of events: the broker and the consumer know of no event that has  *)
(* not arrived.                                                            *)

EventBounded ==
    /\ Pipeline!TypeOK
    /\ eventPosition <= eventArrived /\ eventBroker.committed <= eventArrived
    /\ eventLoop.pc \notin {"consume", "dead"} => eventLoop.event \in Pipeline!Events

EventBrokers == [committed : {Pipeline!NotCommitted} \cup 0..EventMaxEvents, pending : SUBSET Pipeline!Events]
EventLoops ==
    [pc : {"consume", "turn", "save", "emit", "ack", "report", "reported", "dead"},
     event : 0..EventMaxEvents, attempt : 0..(EventMaxAttempts - 1)]
EventOutcomes ==
    [saved : SUBSET Pipeline!Events, reported : SUBSET Pipeline!Events,
     acked : SUBSET Pipeline!Events, answered : SUBSET Pipeline!Events]

LEMMA EventBoundedTypes ==
    ASSUME EventBounded
    PROVE  /\ eventSource \in Pipeline!Configurations /\ eventArrived \in Nat /\ eventArrived <= EventMaxEvents
           /\ eventPosition \in Nat /\ eventPosition <= eventArrived
           /\ eventBroker \in EventBrokers /\ eventBroker.committed <= eventArrived
           /\ eventLoop \in EventLoops /\ eventOutcome \in EventOutcomes /\ eventTurns \in [Pipeline!Events -> Nat]
           /\ eventLost \subseteq Pipeline!Events /\ eventRestarts \in Nat /\ eventRestarts <= EventMaxRestarts
           /\ EventMaxEvents \in Nat /\ EventMaxAttempts \in Nat \ {0} /\ EventMaxRestarts \in Nat
BY EventAssumption DEF EventBounded, Pipeline!TypeOK, EventBrokers, EventLoops, EventOutcomes

LEMMA EventBoundedStep ==
    ASSUME eventSource' \in Pipeline!Configurations, eventArrived' \in 0..EventMaxEvents,
           eventPosition' \in 0..EventMaxEvents, eventPosition' <= eventArrived',
           eventBroker' \in EventBrokers, eventBroker'.committed <= eventArrived',
           eventLoop' \in EventLoops, eventLoop'.pc \notin {"consume", "dead"} => eventLoop'.event \in Pipeline!Events,
           eventOutcome' \in EventOutcomes, eventTurns' \in [Pipeline!Events -> Nat],
           eventLost' \subseteq Pipeline!Events, eventRestarts' \in 0..EventMaxRestarts
    PROVE  EventBounded'
BY DEF EventBounded, Pipeline!TypeOK, EventBrokers, EventLoops, EventOutcomes

LEMMA EventStartsBounded == Pipeline!Init => EventBounded
<1> SUFFICES ASSUME Pipeline!Init PROVE EventBounded
  OBVIOUS
<1>1. eventBroker \in EventBrokers /\ eventBroker.committed <= 0
  BY DEF Pipeline!Init, EventBrokers, Pipeline!NotCommitted
<1>2. eventLoop \in EventLoops /\ eventLoop.pc = "consume"
  BY EventAssumption DEF Pipeline!Init, Pipeline!Consuming, EventLoops
<1>3. eventOutcome \in EventOutcomes
  BY DEF Pipeline!Init, EventOutcomes
<1> QED
  BY <1>1, <1>2, <1>3, EventAssumption
  DEF Pipeline!Init, EventBounded, Pipeline!TypeOK, EventBrokers, EventLoops, EventOutcomes

\* What the broker is told.
LEMMA EventToldBounded ==
    ASSUME EventBounded
    PROVE  Pipeline!Told \in EventBrokers /\ Pipeline!Told.committed <= eventArrived
<1>1. eventBroker \in EventBrokers /\ eventBroker.committed <= eventArrived /\ eventPosition <= eventArrived
      /\ eventPosition \in 0..EventMaxEvents
  BY EventBoundedTypes DEF EventBounded, Pipeline!TypeOK
<1>2. Pipeline!Committed \in EventBrokers /\ Pipeline!Committed.committed = eventPosition
  BY <1>1 DEF Pipeline!Committed, EventBrokers
<1>3. Pipeline!Acked \in EventBrokers /\ Pipeline!Acked.committed = eventBroker.committed
  BY <1>1 DEF Pipeline!Acked, EventBrokers
<1> QED
  BY <1>1, <1>2, <1>3 DEF Pipeline!Told

LEMMA EventBoundedNext ==
    ASSUME EventBounded, [Pipeline!Next]_(Pipeline!vars)
    PROVE  EventBounded'
<1> USE DEF Pipeline!At, Pipeline!Goto, Pipeline!Note
<1>0. /\ eventSource \in Pipeline!Configurations /\ eventArrived \in 0..EventMaxEvents
      /\ eventPosition \in 0..EventMaxEvents /\ eventPosition <= eventArrived
      /\ eventBroker \in EventBrokers /\ eventBroker.committed <= eventArrived
      /\ eventLoop \in EventLoops /\ eventOutcome \in EventOutcomes /\ eventTurns \in [Pipeline!Events -> Nat]
      /\ eventLost \subseteq Pipeline!Events /\ eventRestarts \in 0..EventMaxRestarts
      /\ EventMaxEvents \in Nat /\ EventMaxAttempts \in Nat \ {0} /\ EventMaxRestarts \in Nat
      /\ eventLoop.pc \notin {"consume", "dead"} => eventLoop.event \in Pipeline!Events
  BY EventBoundedTypes DEF EventBounded
\* The parts of a step that changes nothing of what has arrived and is given out.
<1>a. ASSUME UNCHANGED << eventSource, eventArrived, eventPosition, eventLost, eventRestarts >>,
             eventBroker' \in {eventBroker, Pipeline!Told}, eventLoop' \in EventLoops,
             eventLoop'.pc \notin {"consume", "dead"} => eventLoop'.event \in Pipeline!Events,
             eventOutcome' \in EventOutcomes, eventTurns' \in [Pipeline!Events -> Nat]
      PROVE  EventBounded'
  BY <1>0, <1>a, EventToldBounded, EventBoundedStep
<1>b. ASSUME NEW pc \in {"turn", "save", "emit", "ack", "report", "reported", "dead"},
             eventLoop' = [eventLoop EXCEPT !.pc = pc], pc = "dead" \/ eventLoop.pc \notin {"consume", "dead"}
      PROVE  eventLoop' \in EventLoops /\ (eventLoop'.pc \notin {"consume", "dead"} => eventLoop'.event \in Pipeline!Events)
  BY <1>0, <1>b DEF EventLoops
<1>c. ASSUME eventLoop.event \in Pipeline!Events, NEW what \in {"saved", "reported", "acked", "answered"},
             eventOutcome' = [eventOutcome EXCEPT ![what] = @ \cup {eventLoop.event}]
      PROVE  eventOutcome' \in EventOutcomes
  BY <1>0, <1>c DEF EventOutcomes
<1>d. ASSUME eventLoop.event \in Pipeline!Events, eventTurns' = [eventTurns EXCEPT ![eventLoop.event] = @ + 1]
      PROVE  eventTurns' \in [Pipeline!Events -> Nat]
  BY <1>0, <1>d
<1>e. ASSUME Pipeline!MayBeDone, Pipeline!Raises
      PROVE  /\ eventBroker' \in {eventBroker, Pipeline!Told} /\ eventTurns' \in [Pipeline!Events -> Nat]
             /\ eventLoop.pc \notin {"consume", "dead"}
  BY <1>0, <1>d, <1>e DEF Pipeline!MayBeDone, Pipeline!Raises
<1>1. CASE Pipeline!Arrive
  <2>1. /\ eventArrived < EventMaxEvents /\ eventArrived' = eventArrived + 1
        /\ UNCHANGED << eventSource, eventBroker, eventPosition, eventLoop, eventOutcome, eventTurns, eventLost, eventRestarts >>
    BY <1>1 DEF Pipeline!Arrive, Pipeline!Produce, Pipeline!AcceptWebhook, Pipeline!TimerFires, Pipeline!Arrives
  <2>2. eventArrived' \in 0..EventMaxEvents /\ eventPosition <= eventArrived'
    BY <1>0, <2>1
  <2>3. eventBroker.committed \in Int
    BY <1>0 DEF EventBrokers, Pipeline!NotCommitted
  <2>4. eventBroker.committed <= eventArrived'
    BY <1>0, <2>1, <2>3
  <2> QED
    BY <1>0, <2>1, <2>2, <2>4, EventBoundedStep
<1>2. CASE Pipeline!Take
  <2>1. /\ Pipeline!Read
        /\ eventBroker' = eventBroker \/ eventBroker' = [eventBroker EXCEPT !.pending = @ \cup {eventPosition + 1}]
    BY <1>2 DEF Pipeline!Take, Pipeline!TakeRecord, Pipeline!TakeEntry, Pipeline!TakeQueued
  <2>2. /\ eventPosition < eventArrived /\ eventPosition' = eventPosition + 1
        /\ \E pc \in {"turn", "dead"} : eventLoop' = [pc |-> pc, event |-> eventPosition + 1, attempt |-> 0]
        /\ UNCHANGED << eventSource, eventArrived, eventOutcome, eventTurns, eventLost, eventRestarts >>
    BY <2>1 DEF Pipeline!Read, Pipeline!Given
  <2>3. PICK next \in Pipeline!Events : next = eventPosition + 1 /\ next <= eventArrived
    BY <1>0, <2>2 DEF Pipeline!Events
  <2>4. eventPosition' \in 0..EventMaxEvents /\ eventPosition' <= eventArrived
    BY <1>0, <2>2, <2>3
  <2>5. eventBroker' \in EventBrokers /\ eventBroker'.committed = eventBroker.committed
    BY <1>0, <2>1, <2>3 DEF EventBrokers
  <2>6. eventLoop' \in EventLoops /\ eventLoop'.event \in Pipeline!Events
    BY <1>0, <2>2, <2>3 DEF EventLoops, Pipeline!Events
  <2> QED
    BY <1>0, <2>2, <2>4, <2>5, <2>6, EventBoundedStep
<1>3. CASE Pipeline!ConsumeFails
  BY <1>0, <1>3, <1>a, <1>b DEF Pipeline!ConsumeFails
<1>4. CASE Pipeline!Turn
  BY <1>0, <1>4, <1>a, <1>b, <1>d DEF Pipeline!Turn
<1>5. CASE Pipeline!SaveTurn
  BY <1>0, <1>5, <1>a, <1>b, <1>c DEF Pipeline!SaveTurn
<1>6. ASSUME NEW delivered \in BOOLEAN, Pipeline!Emit(delivered) PROVE EventBounded'
  BY <1>0, <1>6, <1>a, <1>b, <1>c DEF Pipeline!Emit
<1>7. CASE Pipeline!Acknowledge
  <2>1. eventLoop' \in EventLoops /\ eventLoop'.pc = "consume"
    BY <1>0, <1>7 DEF Pipeline!Acknowledge, Pipeline!Consuming, EventLoops
  <2> QED
    BY <1>0, <1>7, <1>a, <1>c, <2>1 DEF Pipeline!Acknowledge
<1>8. CASE Pipeline!Report
  BY <1>0, <1>8, <1>a, <1>b, <1>c DEF Pipeline!Report
<1>9. CASE Pipeline!Retry
  <2>1. /\ eventLoop.attempt + 1 < EventMaxAttempts /\ eventLoop' = [eventLoop EXCEPT !.pc = "turn", !.attempt = @ + 1]
        /\ Pipeline!Raises /\ Pipeline!MayBeDone
        /\ UNCHANGED << eventSource, eventArrived, eventPosition, eventOutcome, eventLost, eventRestarts >>
    BY <1>9 DEF Pipeline!Retry
  <2>2. eventLoop.attempt \in Nat
    BY <1>0 DEF EventLoops
  <2>3. PICK more \in 0..(EventMaxAttempts - 1) : more = eventLoop.attempt + 1
    BY <1>0, <2>1, <2>2
  <2>4. eventLoop' = [eventLoop EXCEPT !.pc = "turn", !.attempt = more]
    BY <1>0, <2>1, <2>3 DEF EventLoops
  <2>5. eventLoop' \in EventLoops /\ eventLoop'.event = eventLoop.event
    BY <1>0, <2>4 DEF EventLoops
  <2> QED
    BY <1>0, <1>a, <1>e, <2>1, <2>5
<1>10. CASE Pipeline!GiveUp
  BY <1>0, <1>10, <1>a, <1>b, <1>e DEF Pipeline!GiveUp
<1>11. CASE Pipeline!ReportFails
  BY <1>0, <1>11, <1>a, <1>b DEF Pipeline!ReportFails
<1>12. CASE Pipeline!Restart
  <2>1. /\ eventRestarts < EventMaxRestarts /\ eventRestarts' = eventRestarts + 1 /\ eventPosition' = Pipeline!Resumed
        /\ eventLost' = eventLost \cup {e \in 1..Pipeline!Resumed : e > eventPosition \/ (e = eventLoop.event /\ e \notin eventOutcome.acked)}
        /\ eventLoop' = Pipeline!Consuming
        /\ UNCHANGED << eventSource, eventArrived, eventBroker, eventOutcome, eventTurns >>
    BY <1>12 DEF Pipeline!Restart
  <2>2. Pipeline!Resumed \in 0..EventMaxEvents /\ Pipeline!Resumed <= eventArrived
    <3>1. eventBroker.committed # Pipeline!NotCommitted => eventBroker.committed \in 0..EventMaxEvents
      BY <1>0 DEF EventBrokers
    <3> QED
      BY <1>0, <3>1 DEF Pipeline!Resumed
  <2>3. 1..Pipeline!Resumed \subseteq Pipeline!Events
    BY <1>0, <2>2 DEF Pipeline!Events
  <2>4. eventLoop' \in EventLoops /\ eventLoop'.pc = "consume"
    BY <1>0, <2>1 DEF Pipeline!Consuming, EventLoops
  <2>5. eventLost' \subseteq Pipeline!Events /\ eventRestarts' \in 0..EventMaxRestarts
    BY <1>0, <2>1, <2>3
  <2> QED
    BY <1>0, <2>1, <2>2, <2>4, <2>5, EventBoundedStep
<1>13. CASE UNCHANGED Pipeline!vars
  BY <1>0, <1>13, <1>a DEF Pipeline!vars
<1> QED
  BY <1>1, <1>2, <1>3, <1>4, <1>5, <1>6, <1>7, <1>8, <1>9, <1>10, <1>11, <1>12, <1>13 DEF Pipeline!Next, Pipeline!Handle

LEMMA EventTypeCorrect == Pipeline!Spec => []Pipeline!TypeOK
<1>1. EventBounded => Pipeline!TypeOK
  BY DEF EventBounded
<1> QED
  BY <1>1, EventStartsBounded, EventBoundedNext, PTL DEF Pipeline!Spec

-----------------------------------------------------------------------------
(***************************************************************************)
(* Feedback.                                                               *)
(*                                                                         *)
(* A row that no other request and no housekeeping touches is what its     *)
(* PATCH left until the PATCH reads it.  Both stores begin a week on       *)
(* Monday, a multiple of a week after the first: so a rating is in the     *)
(* one week that its own Monday begins.                                    *)
(***************************************************************************)

FeedbackRow ==
    [kind : {"row"}, user : FeedbackUsers, rating : {"up", "down"}, comment : {"better", "worse"}, created : Nat]
FeedbackRowOrNone == FeedbackRow \cup {Feedback!NoRow}

FeedbackPatch ==
    [at : {"wrote", "answered"}, id : FeedbackRecords, body : Feedback!Bodies, before : FeedbackRowOrNone,
     touched : BOOLEAN, answer : FeedbackRowOrNone]

FeedbackTyped ==
    /\ feedbackBackend \in FeedbackBackends
    /\ feedbackRows \in [FeedbackRecords -> FeedbackRowOrNone]
    /\ feedbackPatch \in [FeedbackPatches -> FeedbackPatch \cup {Feedback!Idle}]
    /\ feedbackHour \in 0..FeedbackMaxHour
    /\ \A f \in FeedbackRecords : feedbackRows[f] # Feedback!NoRow => feedbackRows[f].created <= feedbackHour

\* What a PATCH leaves of the row it found.
FeedbackLeft(q) == IF q.before = Feedback!NoRow THEN Feedback!NoRow ELSE Feedback!Patched(q.before, q.body)

FeedbackKept(p) ==
    LET q == feedbackPatch[p] IN
    /\ q.at = "wrote" /\ ~q.touched => feedbackRows[q.id] = FeedbackLeft(q)
    /\ q.at = "answered" /\ ~q.touched => q.answer = FeedbackLeft(q)

FeedbackInv == FeedbackTyped /\ \A p \in FeedbackPatches : FeedbackKept(p)

LEMMA FeedbackPatched ==
    ASSUME NEW row \in FeedbackRow, NEW body \in Feedback!Bodies
    PROVE  /\ Feedback!Patched(row, body) \in FeedbackRow
           /\ Feedback!Patched(row, body).created = row.created
           /\ Feedback!Asked(body) = {} => Feedback!Patched(row, body) = row
<1>1. /\ body.rating \in {"up", Feedback!Unset} /\ body.comment \in {"better", Feedback!Unset}
  BY DEF Feedback!Bodies
<1>2. Feedback!Patched(row, body) \in FeedbackRow /\ Feedback!Patched(row, body).created = row.created
  BY <1>1 DEF Feedback!Patched, FeedbackRow
<1>3. ASSUME Feedback!Asked(body) = {}
      PROVE  Feedback!Patched(row, body) = row
  <2>1. body.rating = Feedback!Unset /\ body.comment = Feedback!Unset
    BY <1>3 DEF Feedback!Asked
  <2> QED
    BY <2>1 DEF Feedback!Patched, FeedbackRow
<1> QED
  BY <1>2, <1>3

\* A row is not NoRow, and a request that has begun is not Idle.
LEMMA FeedbackDifferent ==
    /\ \A row \in FeedbackRow : row # Feedback!NoRow
    /\ \A q \in FeedbackPatch : q # Feedback!Idle /\ q.at # "idle"
    /\ Feedback!Idle.at = "idle"
BY DEF FeedbackRow, FeedbackPatch, Feedback!NoRow, Feedback!Idle

LEMMA FeedbackInit == Feedback!Init => FeedbackInv
<1> SUFFICES ASSUME Feedback!Init PROVE FeedbackInv
  OBVIOUS
<1>1. FeedbackTyped
  BY FeedbackAssumption DEF Feedback!Init, FeedbackTyped, FeedbackRowOrNone
<1>2. \A p \in FeedbackPatches : FeedbackKept(p)
  BY FeedbackDifferent DEF Feedback!Init, FeedbackKept
<1> QED
  BY <1>1, <1>2 DEF FeedbackInv

LEMMA FeedbackCreates ==
    ASSUME FeedbackInv, NEW f \in FeedbackRecords, NEW user \in FeedbackUsers, NEW rating \in {"up", "down"},
           Feedback!Create(f, user, rating, "worse")
    PROVE  FeedbackInv'
<1> DEFINE row == [kind |-> "row", user |-> user, rating |-> rating, comment |-> "worse", created |-> feedbackHour]
<1>1. /\ feedbackRows' = [feedbackRows EXCEPT ![f] = row]
      /\ UNCHANGED << feedbackBackend, feedbackPatch, feedbackHour >>
      /\ \A p \in FeedbackPatches : feedbackPatch[p].at # "idle" => feedbackPatch[p].id # f
  BY DEF Feedback!Create
<1>2. row \in FeedbackRow /\ row.created = feedbackHour
  BY DEF FeedbackInv, FeedbackTyped, FeedbackRow
<1> HIDE DEF row
<1>3. FeedbackTyped'
  BY <1>1, <1>2, FeedbackAssumption DEF FeedbackInv, FeedbackTyped, FeedbackRowOrNone
<1>4. ASSUME NEW p \in FeedbackPatches
      PROVE  FeedbackKept(p)'
  BY <1>1, <1>2 DEF FeedbackInv, FeedbackTyped, FeedbackKept, FeedbackLeft
<1> QED
  BY <1>3, <1>4 DEF FeedbackInv

\* Whoever changes rows tells the requests that wait to read them.
LEMMA FeedbackTouches ==
    ASSUME FeedbackInv, NEW ids \in SUBSET FeedbackRecords, NEW p \in FeedbackPatches,
           feedbackPatch'[p] = Feedback!Touch(ids)[p],
           \A f \in FeedbackRecords \ ids : feedbackRows'[f] = feedbackRows[f]
    PROVE  FeedbackKept(p)' /\ feedbackPatch'[p] \in FeedbackPatch \cup {Feedback!Idle}
<1> DEFINE q == feedbackPatch[p]
<1>1. q \in FeedbackPatch \cup {Feedback!Idle} /\ FeedbackKept(p)
  BY DEF FeedbackInv, FeedbackTyped
<1>2. feedbackPatch'[p] = IF q.at = "wrote" /\ q.id \in ids THEN [q EXCEPT !.touched = TRUE] ELSE q
  BY DEF Feedback!Touch
<1>3. CASE q.at = "wrote" /\ q.id \in ids
  <2>1. q \in FeedbackPatch
    BY <1>1, <1>3, FeedbackDifferent DEF Feedback!Idle
  <2>2. feedbackPatch'[p] = [q EXCEPT !.touched = TRUE]
    BY <1>2, <1>3
  <2> HIDE DEF q
  <2>3. feedbackPatch'[p] \in FeedbackPatch /\ feedbackPatch'[p].touched /\ feedbackPatch'[p].at = q.at
    BY <2>1, <2>2 DEF FeedbackPatch
  <2> QED
    BY <2>3, <1>3 DEF FeedbackKept
<1>4. CASE ~(q.at = "wrote" /\ q.id \in ids)
  <2>1. feedbackPatch'[p] = q
    BY <1>2, <1>4
  <2>2. CASE q \in FeedbackPatch
    <3>1. q.id \in FeedbackRecords
      BY <2>2 DEF FeedbackPatch
    <3> QED
      BY <1>1, <1>4, <2>1, <3>1 DEF FeedbackKept, FeedbackLeft
  <2>3. CASE q = Feedback!Idle
    BY <2>1, <2>3, FeedbackDifferent DEF FeedbackKept
  <2> QED
    BY <1>1, <2>2, <2>3
<1> QED
  BY <1>3, <1>4

LEMMA FeedbackWrites ==
    ASSUME FeedbackInv, NEW p \in FeedbackPatches, NEW f \in FeedbackRecords, NEW body \in Feedback!Bodies,
           Feedback!PatchWrite(p, f, body)
    PROVE  FeedbackInv'
<1> DEFINE At(pc) == [at |-> pc, id |-> f, body |-> body, before |-> feedbackRows[f], touched |-> FALSE,
                      answer |-> Feedback!NoRow]
           asked == Feedback!Asked(body)
<1>1. UNCHANGED << feedbackBackend, feedbackHour >> /\ FeedbackTyped /\ feedbackRows[f] \in FeedbackRowOrNone
  BY DEF Feedback!PatchWrite, FeedbackInv, FeedbackTyped
<1>2. /\ At("answered") \in FeedbackPatch /\ At("wrote") \in FeedbackPatch
      /\ At("answered").before = feedbackRows[f] /\ At("wrote").before = feedbackRows[f]
      /\ FeedbackLeft(At("wrote")) = IF feedbackRows[f] = Feedback!NoRow THEN Feedback!NoRow
                                     ELSE Feedback!Patched(feedbackRows[f], body)
      /\ FeedbackLeft(At("answered")) = FeedbackLeft(At("wrote"))
  BY <1>1 DEF FeedbackPatch, FeedbackLeft, FeedbackRowOrNone
<1>3. CASE asked # {} /\ feedbackRows[f] = Feedback!NoRow
  <2>1. feedbackPatch' = [feedbackPatch EXCEPT ![p] = At("answered")] /\ feedbackRows' = feedbackRows
    BY <1>3 DEF Feedback!PatchWrite
  <2>2. At("answered").at = "answered" /\ At("answered").answer = FeedbackLeft(At("answered"))
    BY <1>2, <1>3
  <2> HIDE DEF At
  <2>3. FeedbackTyped'
    BY <1>1, <1>2, <2>1 DEF FeedbackTyped
  <2>4. ASSUME NEW r \in FeedbackPatches
        PROVE  FeedbackKept(r)'
    <3>1. CASE r = p
      <4>1. feedbackPatch'[r] = At("answered")
        BY <1>1, <2>1, <3>1 DEF FeedbackTyped
      <4> QED
        BY <2>2, <4>1 DEF FeedbackKept, FeedbackLeft
    <3>2. CASE r # p
      <4>1. feedbackPatch'[r] = feedbackPatch[r]
        BY <2>1, <3>2, <1>1 DEF FeedbackTyped
      <4> QED
        BY <2>1, <4>1 DEF FeedbackInv, FeedbackKept, FeedbackLeft
    <3> QED
      BY <3>1, <3>2
  <2> QED
    BY <2>3, <2>4 DEF FeedbackInv
<1>4. CASE asked = {} \/ feedbackRows[f] # Feedback!NoRow
  <2> DEFINE ids == IF asked = {} THEN {} ELSE {f}
  <2>1. /\ feedbackPatch' = [Feedback!Touch(ids) EXCEPT ![p] = At("wrote")]
        /\ feedbackRows' = IF asked = {} THEN feedbackRows
                           ELSE [feedbackRows EXCEPT ![f] = Feedback!Patched(@, body)]
    BY <1>4 DEF Feedback!PatchWrite
  <2>2. /\ feedbackRows[f] # Feedback!NoRow =>
             /\ Feedback!Patched(feedbackRows[f], body) \in FeedbackRow
             /\ Feedback!Patched(feedbackRows[f], body).created = feedbackRows[f].created
             /\ asked = {} => Feedback!Patched(feedbackRows[f], body) = feedbackRows[f]
    BY <1>1, FeedbackPatched DEF FeedbackRowOrNone
  <2>3. At("wrote").at = "wrote" /\ At("wrote").id = f
    OBVIOUS
  <2> HIDE DEF At
  <2>4. feedbackRows' \in [FeedbackRecords -> FeedbackRowOrNone] /\ feedbackRows'[f] = FeedbackLeft(At("wrote"))
    BY <1>1, <1>2, <1>4, <2>1, <2>2 DEF FeedbackTyped, FeedbackRowOrNone
  <2>5. \A g \in FeedbackRecords : feedbackRows'[g] # Feedback!NoRow => feedbackRows'[g].created <= feedbackHour
    BY <1>1, <1>4, <2>1, <2>2 DEF FeedbackTyped
  <2>6. ids \in SUBSET FeedbackRecords /\ \A g \in FeedbackRecords \ ids : feedbackRows'[g] = feedbackRows[g]
    BY <1>1, <2>1 DEF FeedbackTyped
  <2> HIDE DEF ids
  <2>7. /\ DOMAIN Feedback!Touch(ids) = FeedbackPatches /\ DOMAIN feedbackPatch' = FeedbackPatches
        /\ feedbackPatch' = [r \in FeedbackPatches |-> feedbackPatch'[r]]
        /\ feedbackPatch'[p] = At("wrote")
        /\ \A r \in FeedbackPatches : r # p => feedbackPatch'[r] = Feedback!Touch(ids)[r]
    BY <2>1 DEF Feedback!Touch
  <2>8. \A r \in FeedbackPatches : r # p =>
           FeedbackKept(r)' /\ feedbackPatch'[r] \in FeedbackPatch \cup {Feedback!Idle}
    BY <2>6, <2>7, FeedbackTouches
  <2>9. FeedbackKept(p)'
    BY <2>3, <2>4, <2>7 DEF FeedbackKept, FeedbackLeft
  <2>10. feedbackPatch' \in [FeedbackPatches -> FeedbackPatch \cup {Feedback!Idle}]
    BY <1>2, <2>7, <2>8
  <2>11. FeedbackTyped'
    BY <1>1, <2>4, <2>5, <2>10 DEF FeedbackTyped
  <2> QED
    BY <2>8, <2>9, <2>11 DEF FeedbackInv
<1> QED
  BY <1>3, <1>4

LEMMA FeedbackReads ==
    ASSUME FeedbackInv, NEW p \in FeedbackPatches, Feedback!PatchRead(p)
    PROVE  FeedbackInv'
<1> DEFINE q == feedbackPatch[p]
           now == [q EXCEPT !.at = "answered", !.answer = feedbackRows[q.id]]
<1>1. /\ q.at = "wrote" /\ feedbackPatch' = [feedbackPatch EXCEPT ![p] = now]
      /\ UNCHANGED << feedbackBackend, feedbackRows, feedbackHour >>
      /\ FeedbackTyped /\ FeedbackKept(p)
  BY DEF Feedback!PatchRead, FeedbackInv
<1>2. q \in FeedbackPatch
  BY <1>1, FeedbackDifferent DEF FeedbackTyped, Feedback!Idle
<1>3. q.id \in FeedbackRecords /\ feedbackRows[q.id] \in FeedbackRowOrNone
  BY <1>1, <1>2 DEF FeedbackTyped, FeedbackPatch
<1>4. /\ now \in FeedbackPatch /\ now.at = "answered" /\ now.touched = q.touched /\ now.answer = feedbackRows[q.id]
      /\ now.before = q.before /\ now.body = q.body
  BY <1>2, <1>3 DEF FeedbackPatch
<1> HIDE DEF now
<1>5. FeedbackTyped'
  BY <1>1, <1>4 DEF FeedbackTyped
<1>6. ASSUME NEW r \in FeedbackPatches
      PROVE  FeedbackKept(r)'
  <2>1. CASE r = p
    <3>1. feedbackPatch'[r] = now
      BY <1>1, <2>1 DEF FeedbackTyped
    <3> QED
      BY <1>1, <1>4, <3>1 DEF FeedbackKept, FeedbackLeft
  <2>2. CASE r # p
    <3>1. feedbackPatch'[r] = feedbackPatch[r]
      BY <1>1, <2>2 DEF FeedbackTyped
    <3> QED
      BY <1>1, <3>1 DEF FeedbackInv, FeedbackKept, FeedbackLeft
  <2> QED
    BY <2>1, <2>2
<1> QED
  BY <1>5, <1>6 DEF FeedbackInv

LEMMA FeedbackIsRemoved ==
    ASSUME FeedbackInv, NEW cutoff \in Nat, Feedback!DeleteBefore(cutoff)
    PROVE  FeedbackInv'
<1> DEFINE old == {f \in FeedbackRecords : feedbackRows[f] # Feedback!NoRow /\ feedbackRows[f].created < cutoff}
<1>1. /\ feedbackRows' = [f \in FeedbackRecords |-> IF f \in old THEN Feedback!NoRow ELSE feedbackRows[f]]
      /\ feedbackPatch' = Feedback!Touch(old)
      /\ UNCHANGED << feedbackBackend, feedbackHour >> /\ FeedbackTyped
  BY DEF Feedback!DeleteBefore, FeedbackInv
<1>2. old \in SUBSET FeedbackRecords
  OBVIOUS
<1> HIDE DEF old
<1>3. \A p \in FeedbackPatches : FeedbackKept(p)' /\ feedbackPatch'[p] \in FeedbackPatch \cup {Feedback!Idle}
  BY <1>1, <1>2, FeedbackTouches
<1>4. feedbackPatch' \in [FeedbackPatches -> FeedbackPatch \cup {Feedback!Idle}]
  <2>1. feedbackPatch' = [p \in FeedbackPatches |-> feedbackPatch'[p]]
    BY <1>1 DEF Feedback!Touch
  <2> QED
    BY <1>3, <2>1
<1>5. FeedbackTyped'
  BY <1>1, <1>4 DEF FeedbackTyped, FeedbackRowOrNone
<1> QED
  BY <1>3, <1>5 DEF FeedbackInv

LEMMA FeedbackNext == FeedbackInv /\ [Feedback!Next]_(Feedback!vars) => FeedbackInv'
<1> SUFFICES ASSUME FeedbackInv, [Feedback!Next]_(Feedback!vars) PROVE FeedbackInv'
  OBVIOUS
<1>1. CASE UNCHANGED << feedbackBackend, feedbackRows, feedbackPatch >> /\ feedbackHour' \in feedbackHour..FeedbackMaxHour
  <2>1. FeedbackTyped'
    <3>1. \A f \in FeedbackRecords : feedbackRows[f] # Feedback!NoRow =>
             feedbackRows[f].created <= feedbackHour /\ feedbackRows[f].created \in Nat
      BY DEF FeedbackInv, FeedbackTyped, FeedbackRowOrNone, FeedbackRow
    <3>2. \A f \in FeedbackRecords : feedbackRows[f] # Feedback!NoRow => feedbackRows[f].created <= feedbackHour'
      BY <1>1, <3>1, FeedbackAssumption DEF FeedbackInv, FeedbackTyped
    <3> QED
      BY <1>1, <3>2, FeedbackAssumption DEF FeedbackInv, FeedbackTyped
  <2>2. ASSUME NEW p \in FeedbackPatches PROVE FeedbackKept(p)'
    BY <1>1 DEF FeedbackInv, FeedbackKept, FeedbackLeft
  <2> QED
    BY <2>1, <2>2 DEF FeedbackInv
<1>2. Feedback!Tick \/ UNCHANGED Feedback!vars =>
         UNCHANGED << feedbackBackend, feedbackRows, feedbackPatch >> /\ feedbackHour' \in feedbackHour..FeedbackMaxHour
  BY FeedbackAssumption DEF FeedbackInv, FeedbackTyped, Feedback!Tick, Feedback!vars
<1>3. \A cutoff \in 1..feedbackHour : cutoff \in Nat
  BY DEF FeedbackInv, FeedbackTyped
<1> QED
  BY <1>1, <1>2, <1>3, FeedbackCreates, FeedbackWrites, FeedbackReads, FeedbackIsRemoved DEF Feedback!Next

\* A PATCH that nobody disturbed answers with the row it found and its own columns in it.
LEMMA FeedbackAnswers == FeedbackInv => Feedback!PatchesAnswerThemselves
BY FeedbackDifferent DEF FeedbackInv, FeedbackKept, FeedbackLeft, Feedback!PatchesAnswerThemselves

(* Windows. *)

LEMMA FeedbackQuotient ==
    ASSUME NEW t \in Nat, NEW d \in Nat \ {0}, NEW k \in Nat, k * d <= t, t < (k + 1) * d
    PROVE  t \div d = k /\ t % d = t - k * d
<1> DEFINE q == t \div d
<1>1. q \in Nat
  BY CronDivides
<1>2. k <= q /\ q < k + 1
  BY CronBefore
<1>3. q = k
  BY <1>1, <1>2
<1>4. t = q * d + (t % d) /\ t % d \in 0..(d - 1) /\ k * d \in Nat
  OBVIOUS
<1> HIDE DEF q
<1>5. t % d = t - k * d
  BY <1>3, <1>4
<1> QED
  BY <1>3, <1>5 DEF q

\* Sunday is the last day of both stores' weeks.
LEMMA FeedbackMondays ==
    ASSUME NEW w \in Nat \ {0}, NEW r \in 0..(w - 1)
    PROVE  /\ (w - r) % w = IF r = 0 THEN 0 ELSE w - r
           /\ (r + w - 1) % w = IF r = 0 THEN w - 1 ELSE r - 1
<1>1. 0 * w = 0 /\ 1 * w = w /\ (0 + 1) * w = w /\ (1 + 1) * w = w + w
  OBVIOUS
<1>2. w % w = 0
  BY <1>1, FeedbackQuotient
<1>3. \A t \in 0..(w - 1) : t % w = t
  BY <1>1, FeedbackQuotient
<1>4. ASSUME r # 0
      PROVE  (r + w - 1) % w = r - 1
  <2>1. r + w - 1 \in Nat /\ w <= r + w - 1 /\ r + w - 1 < w + w
    BY <1>4
  <2>2. ASSUME NEW t \in Nat, w <= t, t < w + w
        PROVE  t % w = t - w
    <3>1. 1 * w <= t /\ t < (1 + 1) * w
      BY <1>1, <2>2
    <3>2. t % w = t - 1 * w
      BY <3>1, FeedbackQuotient
    <3> QED
      BY <1>1, <3>2
  <2>3. r + w - 1 - w = r - 1
    OBVIOUS
  <2> QED
    BY <2>1, <2>2, <2>3
<1>5. CASE r = 0
  <2>1. w - r = w /\ r + w - 1 = w - 1 /\ w - 1 \in 0..(w - 1)
    BY <1>5
  <2> QED
    BY <1>2, <1>3, <1>5, <2>1
<1>6. CASE r # 0
  <2>1. w - r \in 0..(w - 1)
    BY <1>6
  <2> QED
    BY <1>3, <1>4, <1>6, <2>1
<1> QED
  BY <1>5, <1>6

FeedbackMonday(d) ==
    d - (IF d % FeedbackDaysPerWeek = 0 THEN FeedbackDaysPerWeek - 1 ELSE (d % FeedbackDaysPerWeek) - 1)

\* Each store's window begins where the other's does.
LEMMA FeedbackAlike ==
    ASSUME NEW h \in Nat
    PROVE  /\ Feedback!Day(h) \in Nat
           /\ FeedbackMonday(Feedback!Day(h)) \in Int
           /\ Feedback!PgWindow("hour", h) = h /\ Feedback!SqliteWindow("hour", h) = h
           /\ Feedback!PgWindow("day", h) = Feedback!Day(h) * FeedbackHoursPerDay
           /\ Feedback!SqliteWindow("day", h) = Feedback!Day(h) * FeedbackHoursPerDay
           /\ Feedback!PgWindow("week", h) = FeedbackMonday(Feedback!Day(h)) * FeedbackHoursPerDay
           /\ Feedback!SqliteWindow("week", h) = FeedbackMonday(Feedback!Day(h)) * FeedbackHoursPerDay
<1> DEFINE d == Feedback!Day(h) w == FeedbackDaysPerWeek r == d % w
<1>1. d \in Nat
  BY CronDivides, FeedbackAssumption DEF Feedback!Day
<1>2. r \in 0..(w - 1) /\ w \in Nat \ {0}
  BY <1>1, FeedbackAssumption
<1>3. /\ (w - r) % w = IF r = 0 THEN 0 ELSE w - r
      /\ (r + w - 1) % w = IF r = 0 THEN w - 1 ELSE r - 1
  BY <1>2, FeedbackMondays
<1>4. Feedback!PgWindow("week", h) = (d - ((r + w - 1) % w)) * FeedbackHoursPerDay
  BY Zenon DEF Feedback!PgWindow, Feedback!Weekday
<1>5. PICK sunday : /\ sunday = d + ((w - r) % w)
                    /\ Feedback!SqliteWindow("week", h) = (sunday - (w - 1)) * FeedbackHoursPerDay
  BY Zenon DEF Feedback!SqliteWindow, Feedback!Weekday
<1>6. FeedbackMonday(d) = d - (IF r = 0 THEN w - 1 ELSE r - 1)
  BY DEF FeedbackMonday
<1>7. /\ Feedback!PgWindow("hour", h) = h /\ Feedback!SqliteWindow("hour", h) = h
      /\ Feedback!PgWindow("day", h) = d * FeedbackHoursPerDay
      /\ Feedback!SqliteWindow("day", h) = d * FeedbackHoursPerDay
  BY DEF Feedback!PgWindow, Feedback!SqliteWindow
<1> HIDE DEF d, w, r
<1>8. d - ((r + w - 1) % w) = FeedbackMonday(d) /\ FeedbackMonday(d) \in Int
  BY <1>1, <1>2, <1>3, <1>6
<1>9. sunday - (w - 1) = FeedbackMonday(d)
  BY <1>1, <1>2, <1>3, <1>6, <1>5
<1> QED
  BY <1>1, <1>4, <1>7, <1>8, <1>9, <1>5 DEF d

\* The weeks of two times are the same or apart.
LEMMA FeedbackWeeksApart ==
    ASSUME NEW d \in Nat, NEW e \in Nat
    PROVE  FeedbackMonday(d) <= e /\ e < FeedbackMonday(d) + FeedbackDaysPerWeek <=> FeedbackMonday(e) = FeedbackMonday(d)
<1> DEFINE w == FeedbackDaysPerWeek
           Since(t) == IF t % w = 0 THEN w - 1 ELSE (t % w) - 1
           Week(t) == IF t % w = 0 THEN t \div w - 1 ELSE t \div w
<1>1. w \in Nat \ {0}
  BY FeedbackAssumption
<1>2. ASSUME NEW t \in Nat
      PROVE  /\ Week(t) \in Int /\ Since(t) \in 0..(w - 1) /\ FeedbackMonday(t) = t - Since(t)
             /\ FeedbackMonday(t) = Week(t) * w + 1
  <2>1. t \div w \in Nat /\ t % w \in 0..(w - 1) /\ t = (t \div w) * w + (t % w)
    BY <1>1
  <2>2. FeedbackMonday(t) = t - Since(t)
    BY DEF FeedbackMonday
  <2>3. PICK q \in Nat, r \in 0..(w - 1) : q = t \div w /\ r = t % w
    BY <2>1
  <2>4. t = q * w + r /\ Week(t) = (IF r = 0 THEN q - 1 ELSE q) /\ Since(t) = (IF r = 0 THEN w - 1 ELSE r - 1)
    BY <2>1, <2>3
  <2>5. (q - 1) * w = q * w - w /\ q * w \in Nat
    BY <1>1
  <2> HIDE DEF w, Since, Week
  <2>6. t - Since(t) = Week(t) * w + 1 /\ Week(t) \in Int /\ Since(t) \in 0..(w - 1)
    BY <1>1, <2>4, <2>5
  <2> QED
    BY <2>2, <2>6
<1> HIDE DEF w, Since, Week
<1>3. PICK m \in Int, n \in Int : m = FeedbackMonday(d) /\ n = FeedbackMonday(e)
  BY <1>2, <1>1
<1>4. PICK i \in Int, j \in Int : i = Week(d) /\ j = Week(e)
  BY <1>2
<1>5. m = i * w + 1 /\ n = j * w + 1 /\ m <= d /\ d < m + w /\ n <= e /\ e < n + w
  BY <1>1, <1>2, <1>3, <1>4
<1>6. i < j => m + w <= n
  <2>1. SUFFICES ASSUME i < j PROVE m + w <= n
    OBVIOUS
  <2>2. j * w = i * w + (j - i) * w
    BY <1>1
  <2>3. 1 * w <= (j - i) * w /\ 1 * w = w
    BY <1>1, <2>1, CronProductsGrow
  <2>4. i * w \in Int /\ (j - i) * w \in Int
    BY <1>1
  <2> QED
    BY <1>1, <1>5, <2>2, <2>3, <2>4
<1>7. j < i => n + w <= m
  <2>1. SUFFICES ASSUME j < i PROVE n + w <= m
    OBVIOUS
  <2>2. i * w = j * w + (i - j) * w
    BY <1>1
  <2>3. 1 * w <= (i - j) * w /\ 1 * w = w
    BY <1>1, <2>1, CronProductsGrow
  <2>4. j * w \in Int /\ (i - j) * w \in Int
    BY <1>1
  <2> QED
    BY <1>1, <1>5, <2>2, <2>3, <2>4
<1>8. i = j => m = n
  BY <1>5
<1>9. m <= e /\ e < m + w <=> n = m
  BY <1>1, <1>5, <1>6, <1>7, <1>8
<1> QED
  BY <1>3, <1>9 DEF w

\* A time is in the window that begins at s if and only if its own window begins there.
LEMMA FeedbackOneWindow ==
    ASSUME NEW window \in Feedback!Windows, NEW h \in Nat, NEW k \in Nat, NEW s, s = Feedback!PgWindow(window, h)
    PROVE  s <= k /\ k < Feedback!WindowEnd(window, s) <=> Feedback!PgWindow(window, k) = s
<1> DEFINE H == FeedbackHoursPerDay w == FeedbackDaysPerWeek
           d == Feedback!Day(h) e == Feedback!Day(k)
<1>1. H \in Nat \ {0} /\ w \in Nat \ {0}
  BY FeedbackAssumption
<1>2. d \in Nat /\ e \in Nat /\ e = k \div H /\ FeedbackMonday(d) \in Int /\ FeedbackMonday(e) \in Int
  BY FeedbackAlike DEF Feedback!Day
<1>3. /\ e * H <= k /\ k < (e + 1) * H
      /\ \A c \in Nat : (k < c * H => e < c) /\ (c * H <= k => c <= e)
  BY <1>1, <1>2, CronDivides, CronBefore
\* Whole days hold the hours of their days.
<1>4. ASSUME NEW a \in Int, NEW b \in Nat
      PROVE  a * H <= k /\ k < b * H <=> a <= e /\ e < b
  <2>1. k < b * H <=> e < b
    <3>1. ASSUME e < b PROVE k < b * H
      <4>1. (e + 1) * H <= b * H
        BY <1>1, <1>2, <3>1, CronProductsGrow
      <4>2. (e + 1) * H \in Int /\ b * H \in Int
        BY <1>1, <1>2
      <4> HIDE DEF e, H
      <4> QED
        BY <1>3, <4>1, <4>2
    <3> QED
      BY <1>3, <3>1
  <2>2. CASE a >= 0
    <3>1. ASSUME a <= e PROVE a * H <= k
      <4>1. a * H <= e * H
        BY <1>1, <1>2, <2>2, <3>1, CronProductsGrow
      <4>2. a * H \in Int /\ e * H \in Int
        BY <1>1, <1>2
      <4> HIDE DEF e, H
      <4> QED
        BY <1>3, <4>1, <4>2
    <3> QED
      BY <1>3, <2>1, <2>2, <3>1
  <2>3. CASE a < 0
    <3>1. (0 - a) * H \in Nat /\ a * H + (0 - a) * H = 0 /\ a * H \in Int
      BY <1>1, <2>3
    <3>2. a * H <= k
      BY <3>1
    <3> QED
      BY <1>2, <2>1, <2>3, <3>2
  <2> QED
    BY <2>2, <2>3
<1>5. CASE window = "hour"
  <2>1. s = h /\ Feedback!PgWindow(window, k) = k /\ Feedback!WindowEnd(window, s) = s + 1
    BY <1>5, FeedbackAlike DEF Feedback!WindowEnd
  <2> QED
    BY <2>1
<1>6. CASE window = "day"
  <2>1. s = d * H /\ Feedback!PgWindow(window, k) = e * H /\ Feedback!WindowEnd(window, s) = s + H
    BY <1>6, FeedbackAlike DEF Feedback!WindowEnd
  <2>2. (d + 1) * H = d * H + H /\ d + 1 \in Nat
    BY <1>1, <1>2
  <2>3. s <= k /\ k < Feedback!WindowEnd(window, s) <=> d = e
    BY <1>2, <1>4, <2>1, <2>2
  <2>4. e * H = d * H => d = e
    <3>1. d <= e /\ e < d + 1 <=> d * H <= k /\ k < (d + 1) * H
      BY <1>2, <1>4, <2>2
    <3>2. (e + 1) * H = e * H + H
      BY <1>1, <1>2
    <3> HIDE DEF d, e, H
    <3> QED
      BY <1>2, <1>3, <2>2, <3>1, <3>2
  <2> QED
    BY <2>1, <2>3, <2>4
<1>7. CASE window = "week"
  <2>1. PICK m \in Int, n \in Int : m = FeedbackMonday(d) /\ n = FeedbackMonday(e)
    BY <1>2
  <2>2. s = m * H /\ Feedback!PgWindow(window, k) = n * H /\ Feedback!WindowEnd(window, s) = s + w * H
    BY <1>7, <2>1, FeedbackAlike DEF Feedback!WindowEnd
  <2>3. (m + w) * H = m * H + w * H
    BY <1>1
  <2>4. m <= d /\ d < m + w /\ n <= e /\ e < n + w
    BY <1>2, <2>1, FeedbackWeeksApart
  <2>5. m + w \in Nat /\ n + w \in Nat
    BY <1>1, <1>2, <2>4
  <2>6. m <= e /\ e < m + w <=> n = m
    BY <1>2, <2>1, FeedbackWeeksApart
  <2>7. s <= k /\ k < Feedback!WindowEnd(window, s) <=> n = m
    BY <1>4, <2>2, <2>3, <2>5, <2>6
  <2>8. n * H = m * H => n = m
    <3>1. n * H <= k /\ k < (n + w) * H
      BY <1>4, <2>4, <2>5
    <3>2. (n + w) * H = n * H + w * H
      BY <1>1
    <3>3. m * H <= k /\ k < (m + w) * H <=> n = m
      BY <1>4, <2>5, <2>6
    <3> HIDE DEF H, w
    <3> QED
      BY <2>3, <3>1, <3>2, <3>3
  <2> QED
    BY <2>2, <2>7, <2>8
<1> QED
  BY <1>5, <1>6, <1>7 DEF Feedback!Windows

\* A window of the summary, with the ratings `at' that are counted in it.
FeedbackWindow(window, s, at) ==
    [start |-> s, end |-> Feedback!WindowEnd(window, s),
     up |-> Feedback!Cardinality({f \in at : feedbackRows[f].rating = "up"}),
     down |-> Feedback!Cardinality({f \in at : feedbackRows[f].rating = "down"}),
     total |-> Feedback!Cardinality(at)]

FeedbackCounted == Feedback!Query("all", 0, FeedbackMaxHour + 1)
FeedbackAt(window, s) == {f \in FeedbackCounted : Feedback!PgWindow(window, feedbackRows[f].created) = s}
FeedbackStarts(window) == {Feedback!PgWindow(window, feedbackRows[f].created) : f \in FeedbackCounted}

LEMMA FeedbackStats ==
    ASSUME FeedbackInv, NEW window \in Feedback!Windows
    PROVE  /\ Feedback!PgStats(window, 0, FeedbackMaxHour + 1)
                = {FeedbackWindow(window, s, FeedbackAt(window, s)) : s \in FeedbackStarts(window)}
           /\ Feedback!SqliteStats(window, 0, FeedbackMaxHour + 1)
                = {FeedbackWindow(window, s, FeedbackAt(window, s)) : s \in FeedbackStarts(window)}
           /\ \A f \in FeedbackCounted : f \in FeedbackRecords /\ feedbackRows[f] \in FeedbackRow
<1> DEFINE At(s) == {f \in FeedbackCounted : Feedback!SqliteWindow(window, feedbackRows[f].created) = s}
           starts == {Feedback!SqliteWindow(window, feedbackRows[f].created) : f \in FeedbackCounted}
<1>1. \A f \in FeedbackCounted : f \in FeedbackRecords /\ feedbackRows[f] \in FeedbackRow /\ feedbackRows[f].created \in Nat
  BY DEF FeedbackInv, FeedbackTyped, FeedbackRowOrNone, FeedbackRow, FeedbackCounted, Feedback!Query
<1>2. \A f \in FeedbackCounted :
         Feedback!SqliteWindow(window, feedbackRows[f].created) = Feedback!PgWindow(window, feedbackRows[f].created)
  BY <1>1, FeedbackAlike DEF Feedback!Windows
<1>3. starts = FeedbackStarts(window) /\ \A s : At(s) = FeedbackAt(window, s)
  BY <1>2 DEF FeedbackStarts, FeedbackAt
<1>4. Feedback!PgStats(window, 0, FeedbackMaxHour + 1)
        = {FeedbackWindow(window, s, FeedbackAt(window, s)) : s \in FeedbackStarts(window)}
  BY DEF Feedback!PgStats, Feedback!Grouped, FeedbackWindow, FeedbackAt, FeedbackStarts, FeedbackCounted
<1>5. Feedback!SqliteStats(window, 0, FeedbackMaxHour + 1) = {FeedbackWindow(window, s, At(s)) : s \in starts}
  BY DEF Feedback!SqliteStats, Feedback!Grouped, FeedbackWindow, FeedbackCounted
<1> HIDE DEF At, starts
<1>6. {FeedbackWindow(window, s, At(s)) : s \in starts}
        = {FeedbackWindow(window, s, FeedbackAt(window, s)) : s \in FeedbackStarts(window)}
  BY <1>3
<1> QED
  BY <1>1, <1>4, <1>5, <1>6

LEMMA FeedbackCardinality == \A S : Feedback!Cardinality(S) = Cardinality(S)
BY DEF Feedback!Cardinality, Cardinality

\* Each rating is counted in one window, the one it is in, and the two stores count alike.
LEMMA FeedbackCounts == FeedbackInv => Feedback!StatsCountOnce
<1> SUFFICES ASSUME FeedbackInv, NEW window \in Feedback!Windows
             PROVE  LET summary == Feedback!Stats(window, 0, FeedbackMaxHour + 1)
                        counted == FeedbackCounted
                        In(s) == {f \in counted : s.start <= feedbackRows[f].created /\ feedbackRows[f].created < s.end}
                    IN /\ Feedback!SqliteStats(window, 0, FeedbackMaxHour + 1)
                             = Feedback!PgStats(window, 0, FeedbackMaxHour + 1)
                       /\ \A s \in summary : s.total = Feedback!Cardinality(In(s)) /\ s.up + s.down = s.total
                       /\ \A f \in counted : Feedback!Cardinality({s \in summary : f \in In(s)}) = 1
  BY DEF Feedback!StatsCountOnce, FeedbackCounted
<1> DEFINE summary == Feedback!Stats(window, 0, FeedbackMaxHour + 1)
           In(s) == {f \in FeedbackCounted : s.start <= feedbackRows[f].created /\ feedbackRows[f].created < s.end}
           Begin(f) == Feedback!PgWindow(window, feedbackRows[f].created)
<1>1. /\ summary = {FeedbackWindow(window, s, FeedbackAt(window, s)) : s \in FeedbackStarts(window)}
      /\ Feedback!SqliteStats(window, 0, FeedbackMaxHour + 1) = Feedback!PgStats(window, 0, FeedbackMaxHour + 1)
  BY FeedbackStats DEF Feedback!Stats
<1>2. \A f \in FeedbackCounted : /\ f \in FeedbackRecords /\ feedbackRows[f].created \in Nat
                                 /\ feedbackRows[f].rating \in {"up", "down"}
  BY FeedbackStats DEF FeedbackRow
<1>3. IsFiniteSet(FeedbackCounted)
  BY <1>2, FeedbackAssumption, FS_Subset
<1>4. ASSUME NEW w \in summary
      PROVE  /\ \E g \in FeedbackCounted : w.start = Begin(g)
             /\ w = FeedbackWindow(window, w.start, FeedbackAt(window, w.start))
             /\ w.end = Feedback!WindowEnd(window, w.start)
             /\ In(w) = FeedbackAt(window, w.start)
  <2>1. PICK g \in FeedbackCounted : w = FeedbackWindow(window, Begin(g), FeedbackAt(window, Begin(g)))
    BY <1>1 DEF FeedbackStarts
  <2>2. w.start = Begin(g) /\ w.end = Feedback!WindowEnd(window, w.start)
    BY <2>1 DEF FeedbackWindow
  <2>3. \A f \in FeedbackCounted :
           w.start <= feedbackRows[f].created /\ feedbackRows[f].created < w.end <=> Begin(f) = w.start
    BY <1>2, <2>2, FeedbackOneWindow
  <2>4. In(w) = FeedbackAt(window, w.start)
    BY <2>3 DEF FeedbackAt
  <2> QED
    BY <2>1, <2>2, <2>4
<1>5. ASSUME NEW w \in summary
      PROVE  w.total = Feedback!Cardinality(In(w)) /\ w.up + w.down = w.total
  <2> DEFINE at == FeedbackAt(window, w.start)
             Rated(r) == {f \in at : feedbackRows[f].rating = r}
  <2>1. /\ w.total = Feedback!Cardinality(at) /\ w.up = Feedback!Cardinality(Rated("up"))
        /\ w.down = Feedback!Cardinality(Rated("down"))
    <3> DEFINE s == w.start
    <3>1. w = FeedbackWindow(window, s, FeedbackAt(window, s))
      BY <1>4
    <3> HIDE DEF s
    <3>2. /\ w.total = Feedback!Cardinality(FeedbackAt(window, s))
          /\ w.up = Feedback!Cardinality({f \in FeedbackAt(window, s) : feedbackRows[f].rating = "up"})
          /\ w.down = Feedback!Cardinality({f \in FeedbackAt(window, s) : feedbackRows[f].rating = "down"})
      BY <3>1 DEF FeedbackWindow
    <3> QED
      BY <3>2 DEF s
  <2>2. \A f \in at : feedbackRows[f].rating \in {"up", "down"}
    BY <1>2 DEF FeedbackAt
  <2>3. IsFiniteSet(at)
    BY <1>3, FS_Subset DEF FeedbackAt
  <2> HIDE DEF at
  <2>4. /\ IsFiniteSet(Rated("up")) /\ IsFiniteSet(Rated("down"))
        /\ Rated("up") \cup Rated("down") = at /\ Rated("up") \cap Rated("down") = {}
    BY <2>2, <2>3, FS_Subset
  <2> HIDE DEF Rated
  <2>5. Cardinality(Rated("up") \cap Rated("down")) = 0
    BY <2>4, FS_EmptySet
  <2>6. Cardinality(at) = Cardinality(Rated("up")) + Cardinality(Rated("down")) - 0
    BY <2>4, <2>5, FS_Union
  <2>7. Cardinality(Rated("up")) \in Nat /\ Cardinality(Rated("down")) \in Nat
    BY <2>4, FS_CardinalityType
  <2>8. w.up + w.down = w.total
    BY <2>1, <2>6, <2>7, FeedbackCardinality
  <2> QED
    BY <1>4, <2>1, <2>8 DEF at
<1>6. ASSUME NEW f \in FeedbackCounted
      PROVE  Feedback!Cardinality({s \in summary : f \in In(s)}) = 1
  <2> DEFINE w == FeedbackWindow(window, Begin(f), FeedbackAt(window, Begin(f)))
  <2>1. w \in summary
    BY <1>1 DEF FeedbackStarts
  <2>2. w.start = Begin(f)
    BY DEF FeedbackWindow
  <2>3. f \in In(w)
    BY <1>4, <2>1, <2>2 DEF FeedbackAt
  <2>4. ASSUME NEW s \in summary, f \in In(s) PROVE s = w
    <3>1. f \in FeedbackAt(window, s.start)
      BY <1>4, <2>4
    <3>2. s.start = Begin(f)
      BY <3>1 DEF FeedbackAt
    <3> QED
      BY <1>4, <3>2
  <2> HIDE DEF w, summary, In
  <2>5. {s \in summary : f \in In(s)} = {w}
    BY <2>1, <2>3, <2>4
  <2>6. Cardinality({w}) = 1
    BY FS_Singleton
  <2> QED
    BY <2>5, <2>6, FeedbackCardinality
<1> QED
  BY <1>1, <1>5, <1>6

\* Of its own behaviours.
THEOREM FeedbackIsAlwaysTrue == Feedback!Spec => []Feedback!FeedbackIsTrue
<1>1. FeedbackInv => Feedback!FeedbackIsTrue
  BY FeedbackAnswers, FeedbackCounts DEF Feedback!FeedbackIsTrue
<1> QED
  BY <1>1, FeedbackInit, FeedbackNext, PTL DEF Feedback!Spec

\* Types of the feedback.
LEMMA FeedbackTypeCorrect == Feedback!Spec => []Feedback!TypeOK
<1>1. FeedbackInv => Feedback!TypeOK
  <2> SUFFICES ASSUME FeedbackInv PROVE Feedback!TypeOK
    OBVIOUS
  <2>1. ASSUME NEW f \in FeedbackRecords, feedbackRows[f] # Feedback!NoRow
        PROVE  /\ feedbackRows[f].rating \in {"up", "down"} /\ feedbackRows[f].comment \in {"better", "worse"}
               /\ feedbackRows[f].user \in FeedbackUsers /\ feedbackRows[f].created \in 0 .. feedbackHour
    <3>1. feedbackRows[f] \in FeedbackRow
      BY <2>1 DEF FeedbackInv, FeedbackTyped, FeedbackRowOrNone
    <3>2. feedbackRows[f].created \in Nat /\ feedbackRows[f].created <= feedbackHour /\ feedbackHour \in Nat
      BY <2>1, <3>1, FeedbackAssumption DEF FeedbackInv, FeedbackTyped, FeedbackRow
    <3> QED
      BY <3>1, <3>2 DEF FeedbackRow
  <2>2. ASSUME NEW p \in FeedbackPatches PROVE feedbackPatch[p].at \in {"idle", "wrote", "answered"}
    <3>1. feedbackPatch[p] \in FeedbackPatch \cup {Feedback!Idle}
      BY DEF FeedbackInv, FeedbackTyped
    <3> QED
      BY <3>1 DEF FeedbackPatch, Feedback!Idle
  <2> QED
    BY <2>1, <2>2 DEF FeedbackInv, FeedbackTyped, Feedback!TypeOK
<1> QED
  BY <1>1, FeedbackInit, FeedbackNext, PTL DEF Feedback!Spec

-----------------------------------------------------------------------------
(* What the components promise side by side.                               *)

\* A checked-out row of the SQLite store has an actor, a lease and a version, and a checkout
\* that no other statement disturbed was atomic.
THEOREM ThePoolIsSound == Spec => []PoolIsSound
<1>1. Sqlite!Spec => []Sqlite!HeldRowsWellFormed /\ []Sqlite!CheckoutIsAtomicAlone
  BY SqliteAssumption, SqliteHeldRowsStayWellFormed, SqliteCheckoutsAreAtomicAlone
<1>2. /\ Sqlite!HeldRowsWellFormed /\ Sqlite!CheckoutIsAtomicAlone => PoolIsSound
      /\ ~(part = "sqlite") => PoolIsSound
  BY DEF PoolIsSound
<1> QED
  BY <1>1, <1>2, SqliteRuns, PTL

\* Nothing of a text is lost when it is cut into chunks, and every chunk knows its headings.  A
\* chunk exceeds the size only when just one of its units is new, be it too long by itself or
\* behind an overlap (chunker.py:250-262).
THEOREM TextsAreAlwaysWhole == Spec => []TextsAreWhole
<1>1. Chunks!Spec => []Chunks!ChunksHoldTheText
  BY ChunkAssumption, ChunksAlwaysHoldTheText
<1>2. /\ Chunks!ChunksHoldTheText => TextsAreWhole
      /\ ~(part = "chunks") => TextsAreWhole
  BY DEF TextsAreWhole
<1> QED
  BY <1>1, <1>2, ChunkRuns, PTL

\* Who a request comes from, and with which token it goes on.
THEOREM CallersAreAlwaysVouchedFor == Spec => []CallersAreVouchedFor
<1>1. Gate!Spec => []Gate!CallersAreVouchedFor
  BY GateAssumption, GateCallersAreAlwaysVouchedFor
<1>2. /\ Gate!CallersAreVouchedFor => CallersAreVouchedFor
      /\ ~(part = "gateway") => CallersAreVouchedFor
  BY DEF CallersAreVouchedFor
<1> QED
  BY <1>1, <1>2, GateRuns, PTL

\* A workflow walks along its edges, keeps what its nodes returned in the order of the path,
\* and stays within its attempts and requests.
THEOREM WorkflowsAlwaysKeepToTheirGraph == Spec => []WorkflowsKeepToTheirGraph
<1>1. Flow!Spec => []Flow!WorkflowsKeepToTheirGraph
  BY FlowAssumption, WorkflowsAlwaysKeepToTheirGraphAlone
<1>2. /\ Flow!WorkflowsKeepToTheirGraph => WorkflowsKeepToTheirGraph
      /\ ~(part = "workflow") => WorkflowsKeepToTheirGraph
  BY DEF WorkflowsKeepToTheirGraph
<1> QED
  BY <1>1, <1>2, FlowRuns, PTL

\* As long as nothing disturbs the count of a chain of agents, the chain is within the limit
\* of each of its calls; a server runs one turn at a time; nobody waits for a frame that is over.
THEOREM CountedChainsAreAlwaysCapped == Spec => []CountedChainsAreCapped
<1>1. Chain!Spec => []Chain!CountedChainsAreCapped
  <2>1. ChainInv => Chain!CountedChainsAreCapped
    BY ChainCapped
  <2> QED
    BY <2>1, ChainInit, ChainNext, PTL DEF Chain!Spec
<1>2. Chain!CountedChainsAreCapped => CountedChainsAreCapped
  BY DEF CountedChainsAreCapped
<1>3. ~(part = "delegation") => CountedChainsAreCapped
  BY DEF CountedChainsAreCapped
<1> QED
  BY <1>1, <1>2, <1>3, ChainRuns, PTL

\* A checkpoint has the turns of the history, and what was cut off a history stays off.
THEOREM SessionsAlwaysAgree == Spec => []SessionsAgree
<1>1. Recovery!StateFollowsHistory /\ History!HistoriesStayCut => SessionsAgree
  BY DEF SessionsAgree
<1>2. Recovery!StateFollowsHistory /\ ~(part = "history") => SessionsAgree
  BY DEF SessionsAgree
<1>3. ~(part = "recovery") /\ History!HistoriesStayCut => SessionsAgree
  BY DEF SessionsAgree
<1>4. ~(part = "recovery") /\ ~(part = "history") => SessionsAgree
  BY DEF SessionsAgree
<1> QED
  BY <1>1, <1>2, <1>3, <1>4, StatesAlwaysFollow, HistoriesAlwaysStayCut, RecoveryRuns, HistoryRuns, PTL

\* A scan for the next time of a schedule ends at the first minute at which all the fields match,
\* one that POSIX promises, and passes one that POSIX promises only where the expression restricts
\* both days; minutes that go by while the source does not scan are another matter
\* (cron.py:next_fire_time).  Whatever a source was told of an event has happened.
THEOREM EventsAreAlwaysAccountedFor == Spec => []EventsAreAccountedFor
<1>1. /\ Cron!NothingIsSkipped /\ ~(part = "events") => EventsAreAccountedFor
      /\ ~(part = "cron") /\ Pipeline!OutcomesAreTrue => EventsAreAccountedFor
      /\ Cron!NothingIsSkipped /\ Pipeline!OutcomesAreTrue => EventsAreAccountedFor
      /\ ~(part = "cron") /\ ~(part = "events") => EventsAreAccountedFor
  BY DEF EventsAreAccountedFor
<1> QED
  BY <1>1, CronAssumption, NothingIsEverSkipped, OutcomesAreAlwaysTrue, CronRuns, EventRuns, PTL

\* What is recorded of a turn tells what happened in it: spans nest, no two steps begin in one
\* round, and a call is in the step of its round, or in that of an earlier round with a call that
\* was skipped for want of a name, whose step goes on.  Feedback is answered and counted as it
\* was given (server/collector.py, server/tracing.py, server/feedback.py); and what the client is
\* sent of the model's words is left to the run.
THEOREM RecordsAreAlwaysTrue == Spec => [](part # "words" => RecordsAreTrue)
<1>1. Traces!TracesAreWhole /\ Feedback!FeedbackIsTrue => (part # "words" => RecordsAreTrue)
  BY DEF RecordsAreTrue
<1>2. Traces!TracesAreWhole /\ ~(part = "feedback") => (part # "words" => RecordsAreTrue)
  BY DEF RecordsAreTrue
<1>3. ~(part = "traces") /\ Feedback!FeedbackIsTrue => (part # "words" => RecordsAreTrue)
  BY DEF RecordsAreTrue
<1>4. ~(part = "traces") /\ ~(part = "feedback") => (part # "words" => RecordsAreTrue)
  BY DEF RecordsAreTrue
<1> QED
  BY <1>1, <1>2, <1>3, <1>4, TracesAreAlwaysWhole, FeedbackIsAlwaysTrue, TraceRuns, FeedbackRuns, PTL

\* Where only streams are used, and as long as no bill is lost, a session or a tenant overspends
\* by no more than what was in flight together.
THEOREM OverspendingIsAlwaysBounded == Spec => []OverspendingIsBounded
<1>1. Accounts!Spec => []Accounts!OverspendingIsBounded
  BY AccountInit, AccountNext, AccountBounded, PTL DEF Accounts!Spec
<1>2. Accounts!OverspendingIsBounded => OverspendingIsBounded
  BY DEF OverspendingIsBounded
<1>3. ~(part = "accounts") => OverspendingIsBounded
  BY DEF OverspendingIsBounded
<1> QED
  BY <1>1, <1>2, <1>3, AccountRuns, PTL

\* What was told of the agent's stage is so; a demotion whose quarantine goes through leaves no
\* skill outside its domains at work, which it never does where the directory of the skills is
\* relative and the agent has no base_dir (tools/work_items.py:_drain_trust_events); and
\* no version of a skill is lost, unless a header did not parse.
THEOREM AutonomyIsAlwaysAccountedFor == Spec => []AutonomyIsAccountedFor
<1>1. SkillInv => Learning!AutonomyIsAccountedFor
  BY DEF SkillInv, SkillTold, SkillScoped, SkillNumbered, Learning!AutonomyIsAccountedFor
<1>2. Learning!Spec => []Learning!AutonomyIsAccountedFor
  BY <1>1, SkillStarts, SkillSteps, PTL DEF Learning!Spec
<1>3. /\ Learning!AutonomyIsAccountedFor => AutonomyIsAccountedFor
      /\ ~(part = "skills") => AutonomyIsAccountedFor
  BY DEF AutonomyIsAccountedFor
<1> QED
  BY <1>2, <1>3, SkillRuns, PTL

\* Streams and uploads arrive whole and in order or are known to be cut, and the connections
\* to tools survive their reconnections.
THEOREM TransportsAreAlwaysSound == Spec => []TransportsAreSound
<1>1. Mcp!Spec => []Mcp!ConnectionsAreSound
  BY McpAssumption, Mcp!ConnectionsStaySound
<1>2. Streams!StreamsAreWhole /\ Mcp!ConnectionsAreSound => TransportsAreSound
  BY DEF TransportsAreSound
<1>3. Streams!StreamsAreWhole /\ ~(part = "mcp") => TransportsAreSound
  BY DEF TransportsAreSound
<1>4. ~(part = "streams") /\ Mcp!ConnectionsAreSound => TransportsAreSound
  BY DEF TransportsAreSound
<1>5. ~(part = "streams") /\ ~(part = "mcp") => TransportsAreSound
  BY DEF TransportsAreSound
<1> QED
  BY <1>1, <1>2, <1>3, <1>4, <1>5, StreamsStayWhole, StreamRuns, McpRuns, PTL

-----------------------------------------------------------------------------
(* Types, group by group.                                                  *)

StoreTypes ==
    /\ part = "recovery" => Recovery!TypeOK
    /\ part = "accounts" => Accounts!TypeOK
    /\ part = "history" => History!TypeOK
    /\ part = "sqlite" => Sqlite!TypeOK
    /\ part = "chunks" => Chunks!TypeOK

AgentTypes ==
    /\ part = "workflow" => Flow!TypeOK
    /\ part = "delegation" => Chain!TypeOK
    /\ part = "skills" => Learning!TypeOK
    /\ part = "traces" => Traces!TypeOK

EventTypes ==
    /\ part = "cron" => Cron!TypeOK
    /\ part = "events" => Pipeline!TypeOK
    /\ part = "feedback" => Feedback!TypeOK

TransportTypes ==
    /\ part = "gateway" => Gate!TypeOK
    /\ part = "streams" => Streams!TypeOK
    /\ part = "mcp" => Mcp!TypeOK

LEMMA StoreTypesKept == Spec => []StoreTypes
<1>1. Recovery!Spec => []Recovery!TypeOK
  BY RecoveryTypeCorrect
<1>2. Accounts!Spec => []Accounts!TypeOK
  BY AccountTypeCorrect
<1>3. History!Spec => []History!TypeOK
  BY HistoryTypeCorrect
<1>4. Sqlite!Spec => []Sqlite!TypeOK
  BY SqliteAssumption, SqliteTypeCorrect
<1>5. Chunks!Spec => []Chunks!TypeOK
  BY ChunkTypeCorrect
<1> QED
  BY <1>1, <1>2, <1>3, <1>4, <1>5, RecoveryRuns, AccountRuns, HistoryRuns, SqliteRuns, ChunkRuns, PTL DEF StoreTypes

LEMMA AgentTypesKept == Spec => []AgentTypes
<1>1. Flow!Spec => []Flow!TypeOK
  BY FlowTypeCorrect
<1>2. Chain!Spec => []Chain!TypeOK
  BY ChainTypeCorrect
<1>3. Learning!Spec => []Learning!TypeOK
  BY SkillTypeCorrect
<1>4. Traces!Spec => []Traces!TypeOK
  BY TraceTypeCorrect
<1> QED
  BY <1>1, <1>2, <1>3, <1>4, FlowRuns, ChainRuns, SkillRuns, TraceRuns, PTL DEF AgentTypes

LEMMA EventTypesKept == Spec => []EventTypes
<1>1. Cron!Spec => []Cron!TypeOK
  BY CronTypeCorrect
<1>2. Pipeline!Spec => []Pipeline!TypeOK
  BY EventTypeCorrect
<1>3. Feedback!Spec => []Feedback!TypeOK
  BY FeedbackTypeCorrect
<1> QED
  BY <1>1, <1>2, <1>3, CronRuns, EventRuns, FeedbackRuns, PTL DEF EventTypes

LEMMA TransportTypesKept == Spec => []TransportTypes
<1>1. Gate!Spec => []Gate!TypeOK
  BY GateAssumption, GateTypeCorrect
<1>2. Streams!Spec => []Streams!TypeOK
  BY StreamTypeCorrect
<1>3. Mcp!Spec => []Mcp!TypeOK
  BY McpAssumption, Mcp!TypeCorrect
<1> QED
  BY <1>1, <1>2, <1>3, GateRuns, StreamRuns, McpRuns, PTL DEF TransportTypes

\* The state of every part has the types its module declares, but for the model's words: what
\* their recursive parser leaves is left to the run.
THEOREM TypesAreAlwaysKept == Spec => [](part # "words" => TypeOK)
<1>1. StoreTypes /\ AgentTypes /\ EventTypes /\ TransportTypes => (part # "words" => TypeOK)
  BY DEF StoreTypes, AgentTypes, EventTypes, TransportTypes, TypeOK
<1> QED
  BY <1>1, StoreTypesKept, AgentTypesKept, EventTypesKept, TransportTypesKept, PTL
=============================================================================
