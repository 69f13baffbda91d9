------------------------ MODULE McpConnectionsProofs ------------------------
(***************************************************************************)
(* McpConnections for any servers, names, calls, tokens and clients.       *)
(*                                                                         *)
(* The invariant follows one client from its connection to its closing:    *)
(* until it is replaced it is the last one made for its server (InSetup),  *)
(* it is closed only by the call that has the lock (Locked), and whoever   *)
(* is left without a client has the lock or has lost the server (Reached). *)
(***************************************************************************)
EXTENDS McpConnections, SequenceTheorems, TLAPS

NamesIn(k) == {s.name : s \in k.servers}

\* What agent.yaml says: setup() connects a server once.
Parameters ==
    /\ MaxTokens \in Nat /\ MaxClients \in Nat
    /\ "free" \notin Calls
    /\ \A k \in Configs :
          /\ k.order \in Seq(NamesIn(k))
          /\ \A i, j \in DOMAIN k.order : i # j => k.order[i] # k.order[j]

Down == todo = << "down" >>

References == [client : 0..MaxClients, made : 0..MaxClients, header : 0..MaxTokens,
               lock : Calls \cup {"free"}]

Places == {"unused", "sent", "running", "waiting", "hook", "closing", "connecting", "done", "failed"}
Over == {"unused", "done", "failed"}
Whys == {"none", "auth", "error", "closed", "refresh", "cancelled"}
Uses == [at : Places, name : Names \cup {"none"}, server : Servers \cup {"none"}, client : 0..MaxClients,
         tries : 0..2, ran : 0..2, seemed : BOOLEAN, why : Whys]

Shape ==
    /\ TypeOK
    /\ idp \in [issued : 0..MaxTokens, oldest : 1..MaxTokens + 1]
    /\ ref \in [Servers -> References]
    /\ call \in [Calls -> Uses]
    /\ history \in [leaked : SUBSET (Servers \X {1}), lost : SUBSET Servers]

\* Whose turn it is in setup(), and what it has left behind.
InSetup ==
    /\ ~Down =>
         /\ todo \in Seq(Servers)
         /\ \A i, j \in DOMAIN todo : i # j => todo[i] # todo[j]
         /\ \A i \in DOMAIN todo : ref[todo[i]].client = 0
         /\ \A s \in Servers : ref[s].client = ref[s].made
         /\ \A n \in Names : owner[n] # "none" => ref[owner[n]].client # 0
    /\ todo # << >> => \A c \in Calls : call[c].at \in Over

Reconnects(c) == call[c].at \in {"hook", "closing", "connecting"}
Connecting(c, s) == call[c].at = "connecting" /\ call[c].server = s

Locked ==
    /\ \A c \in Calls : Reconnects(c) => ref[call[c].server].lock = c
    /\ \A s \in Servers, c \in Calls : ref[s].lock = c => Reconnects(c) /\ call[c].server = s

Reached ==
    /\ \A s \in Servers, n \in 1..MaxClients :
          << s, n >> \in open => << s, n >> \in history.leaked \/ n = ref[s].client
    /\ \A c \in Calls, s \in Servers : Connecting(c, s) => << s, ref[s].client >> \notin open
    /\ \A s \in Servers : ref[s].client # 0 /\ s \notin history.lost =>
          << s, ref[s].client >> \in open \/ \E c \in Calls : Connecting(c, s)

\* A call is tried once more after a refusal, which is before it has run or seemed to be one.
Tried(c) ==
    LET u == call[c] IN
    /\ u.at = "unused" => u = Unused
    /\ u.at \in {"sent", "running"} => u.tries \in {1, 2}
    /\ u.at \in {"waiting", "hook", "closing", "connecting"} => u.tries = 1
    /\ u.at = "sent" => u.ran < u.tries
    /\ u.at = "running" => u.ran <= u.tries
    /\ u.at \in {"waiting", "hook", "closing", "connecting"} => u.ran <= 1
    /\ (u.ran = 2 \/ (u.ran = 1 /\ u.at \in {"sent", "waiting", "hook", "closing", "connecting"})) => u.seemed

Explained(c) ==
    /\ call[c].at \notin Over =>
          call[c].server \in Servers /\ call[c].client # 0 /\ call[c].why # "closed"
    /\ call[c].at \notin Over \/ call[c].why = "closed" =>
          call[c].server \in Servers /\ call[c].client <= ref[call[c].server].made
    /\ call[c].why = "closed" =>
          LET s == call[c].server IN
          ref[s].made > call[c].client \/ s \in history.lost \/ (\E d \in Calls : Connecting(d, s)) \/ Down

IInv == Shape /\ InSetup /\ Locked /\ Reached /\ \A c \in Calls : Tried(c) /\ Explained(c)

-----------------------------------------------------------------------------
LEMMA Initially ==
    ASSUME Parameters PROVE Init => IInv
<1> SUFFICES ASSUME Init PROVE IInv
  OBVIOUS
<1>1. /\ todo \in Seq(Servers)
      /\ \A i, j \in DOMAIN todo : i # j => todo[i] # todo[j]
      /\ \A i \in DOMAIN todo : todo[i] \in Servers
  <2>1. NamesIn(cfg) = Servers
    BY DEF NamesIn, Servers
  <2>2. /\ todo \in Seq(NamesIn(cfg))
        /\ \A i, j \in DOMAIN todo : i # j => todo[i] # todo[j]
    BY DEF Init, Parameters
  <2> QED
    BY <2>1, <2>2
<1>2. Shape
  <2>1. MaxTokens \in Nat /\ MaxClients \in Nat
    BY DEF Parameters
  <2>2. Unused \in Uses /\ Unconnected(0) \in References
    BY <2>1 DEF Unused, Uses, Places, Whys, Unconnected, References
  <2>3. call \in [Calls -> Uses] /\ ref \in [Servers -> References]
    BY <2>2 DEF Init
  <2>4. history \in [leaked : SUBSET (Servers \X {1}), lost : SUBSET Servers]
    BY DEF Init
  <2>5. TypeOK
    BY <2>1 DEF Init, TypeOK, Unused, Unconnected
  <2> QED
    BY <2>1, <2>3, <2>4, <2>5 DEF Init, Shape
<1>3. InSetup
  BY <1>1 DEF Init, InSetup, Unconnected, Unused, Over
<1>4. Locked
  BY DEF Init, Parameters, Locked, Reconnects, Unconnected, Unused
<1>5. Reached
  BY DEF Init, Reached, Unconnected, Connecting, Unused
<1>6. \A c \in Calls : Tried(c) /\ Explained(c)
  BY DEF Init, Tried, Explained, Unused, Over
<1> QED
  BY <1>2, <1>3, <1>4, <1>5, <1>6 DEF IInv

-----------------------------------------------------------------------------
(* One call goes on, and nothing else changes.                             *)
LEMMA CallKeeps ==
    ASSUME IInv, NEW c \in Calls, NEW new \in Uses, Changed(c, new),
           UNCHANGED << cfg, todo, env, idp, ref, open, owner, history >>,
           ~Reconnects(c), new.at \notin {"hook", "closing", "connecting"},
           new.at \notin Over => todo = << >>,
           Tried(c)', Explained(c)'
    PROVE  IInv'
<1>1. /\ call' \in [Calls -> Uses] /\ call'[c] = new
      /\ \A x \in Calls : x # c => call'[x] = call[x]
  BY DEF IInv, Shape, Changed
<1>2. Uses' = Uses /\ References' = References /\ Servers' = Servers /\ Down' = Down
  BY DEF Uses, References, Servers, Down
<1>3. Shape'
  <2>1. TypeOK'
    BY <1>1, <1>2 DEF IInv, Shape, TypeOK, Uses
  <2> QED
    BY <1>1, <1>2, <2>1 DEF IInv, Shape
<1>4. InSetup'
  BY <1>1, <1>2 DEF IInv, InSetup
<1>5. Locked'
  BY <1>1, <1>2 DEF IInv, Locked, Reconnects
<1>6. \A d \in Calls, s \in Servers : Connecting(d, s)' <=> Connecting(d, s)
  BY <1>1, <1>2 DEF Connecting, Reconnects
<1>7. Reached'
  BY <1>1, <1>2, <1>6 DEF IInv, Reached
<1>8. ASSUME NEW x \in Calls, x # c PROVE Tried(x)' /\ Explained(x)'
  <2>1. Tried(x) /\ Explained(x) /\ call'[x] = call[x]
    BY <1>1, <1>8 DEF IInv
  <2>2. Tried(x)'
    BY <2>1 DEF Tried
  <2>3. Explained(x)'
    BY <2>1, <1>2, <1>6 DEF Explained
  <2> QED
    BY <2>2, <2>3
<1> QED
  BY <1>2, <1>3, <1>4, <1>5, <1>7, <1>8 DEF IInv

-----------------------------------------------------------------------------
(* What becomes of a call.                                                 *)
LEMMA Placed ==
    ASSUME NEW u \in Uses, NEW place \in Places
    PROVE  LET v == [u EXCEPT !.at = place] IN
           v \in Uses /\ v.at = place
           /\ v.tries = u.tries /\ v.ran = u.ran /\ v.seemed = u.seemed /\ v.why = u.why
           /\ v.server = u.server /\ v.client = u.client
BY DEF Uses

LEMMA Named ==
    ASSUME NEW u \in Uses, NEW n \in Names
    PROVE  LET v == [u EXCEPT !.name = n] IN
           v \in Uses /\ v.tries = u.tries /\ v.ran = u.ran /\ v.seemed = u.seemed /\ v.why = u.why
BY DEF Uses

LEMMA Sending ==
    ASSUME NEW u \in Uses, NEW s \in Servers, NEW k \in 0..MaxClients, u.tries \in {0, 1}
    PROVE  LET v == Sent(u, s, k) IN
           v \in Uses /\ v.at = "sent" /\ v.tries = u.tries + 1
           /\ v.ran = u.ran /\ v.seemed = u.seemed /\ v.why = u.why
           /\ v.server = s /\ v.client = k
<1>1. u.tries + 1 \in 0..2
  OBVIOUS
<1> QED
  BY <1>1 DEF Uses, Sent, Places

LEMMA Running ==
    ASSUME NEW u \in Uses, u.ran \in {0, 1}
    PROVE  LET v == [u EXCEPT !.at = "running", !.ran = @ + 1] IN
           v \in Uses /\ v.at = "running" /\ v.ran = u.ran + 1
           /\ v.tries = u.tries /\ v.seemed = u.seemed /\ v.why = u.why
           /\ v.server = u.server /\ v.client = u.client
<1>1. u.ran + 1 \in 0..2
  OBVIOUS
<1> QED
  BY <1>1 DEF Uses, Places

LEMMA Refusing ==
    ASSUME NEW c \in Calls, call[c] \in Uses, NEW refused \in BOOLEAN
    PROVE  LET u == call[c]
               v == Refused(c, refused) IN
           /\ v \in Uses /\ v.at \in {"waiting", "failed"} /\ v.why \in {"auth", "error"}
           /\ v.at = "waiting" => refused /\ u.tries = 1
           /\ v.tries = u.tries /\ v.ran = u.ran /\ v.seemed = u.seemed
           /\ v.server = u.server /\ v.client = u.client
BY DEF Uses, Places, Whys, Refused

LEMMA Seeming ==
    ASSUME NEW u \in Uses
    PROVE  LET v == [u EXCEPT !.seemed = TRUE] IN
           v \in Uses /\ v.at = u.at /\ v.tries = u.tries /\ v.ran = u.ran /\ v.seemed = TRUE
           /\ v.why = u.why /\ v.server = u.server /\ v.client = u.client
BY DEF Uses

LEMMA Failing ==
    ASSUME NEW u \in Uses, NEW why \in Whys
    PROVE  LET v == [u EXCEPT !.at = "failed", !.why = why] IN
           v \in Uses /\ v.at = "failed" /\ v.why = why
           /\ v.tries = u.tries /\ v.ran = u.ran /\ v.seemed = u.seemed
           /\ v.server = u.server /\ v.client = u.client
BY DEF Uses, Places

LEMMA Dropping ==
    ASSUME NEW c \in Calls, call[c] \in Uses
    PROVE  LET u == call[c]
               v == [Refused(c, FALSE) EXCEPT !.why = "closed"] IN
           v \in Uses /\ v.at = "failed" /\ v.why = "closed"
           /\ v.tries = u.tries /\ v.ran = u.ran /\ v.seemed = u.seemed
           /\ v.server = u.server /\ v.client = u.client
BY DEF Uses, Places, Whys, Refused

\* The moves of a call that leave its server alone.
LEMMA CallMoves ==
    ASSUME IInv, NEW c \in Calls,
           (\E n \in Names : Call(c, n)) \/ Execute(c) \/ Reject(c) \/ Answer(c) \/ Dropped(c)
    PROVE  IInv'
<1>1. /\ call[c] \in Uses /\ call \in [Calls -> Uses]
      /\ Tried(c) /\ Explained(c) /\ (todo # << >> => call[c].at \in Over)
  BY DEF IInv, Shape, InSetup
<1>2. ASSUME NEW new \in Uses, Changed(c, new)
      PROVE  call'[c] = new
  BY <1>1, <1>2 DEF Changed
<1>3. ASSUME NEW new \in Uses, Changed(c, new),
             UNCHANGED << cfg, todo, env, idp, ref, open, owner, history >>,
             new.server = call[c].server, new.client = call[c].client,
             new.why = call[c].why \/ new.why # "closed", At(c, "sent") \/ At(c, "running"),
             new.at \notin {"hook", "closing", "connecting"}, Tried(c)'
      PROVE  IInv'
  <2>1. ~Reconnects(c) /\ call[c].at \notin Over
    BY <1>3 DEF At, Reconnects, Over
  <2>2. \A d \in Calls, s \in Servers : Connecting(d, s) => Connecting(d, s)'
    BY <1>1, <1>2, <1>3, <2>1 DEF Connecting, Reconnects, Changed
  <2>3. Explained(c)'
    BY <1>1, <1>2, <1>3, <2>1, <2>2 DEF Explained, Down, Over, Servers
  <2> QED
    BY <1>1, <1>3, <2>1, <2>3, CallKeeps
<1>4. ASSUME NEW n \in Names, Call(c, n) PROVE IInv'
  <2> DEFINE s == owner[n]
             u == [call[c] EXCEPT !.name = n]
             new == Sent(u, s, ref[s].client)
  <2>1. /\ Changed(c, new) /\ todo = << >> /\ owner[n] # "none" /\ At(c, "unused")
        /\ UNCHANGED << cfg, todo, env, idp, ref, open, owner, history >>
    BY <1>4 DEF Call
  <2>2. s \in Servers /\ ref[s] \in References /\ ref[s].client # 0 /\ ref[s].client \in 0..MaxClients
    BY <2>1 DEF IInv, Shape, TypeOK, InSetup, Down, References
  <2>3. /\ call[c].tries = 0 /\ call[c].ran = 0 /\ call[c].why = "none"
        /\ ~Reconnects(c)
    BY <1>1, <2>1 DEF At, Tried, Unused, Reconnects
  <2>4. /\ new \in Uses /\ new.at = "sent" /\ new.tries = 1 /\ new.ran = 0 /\ new.why = "none"
        /\ new.server = s /\ new.client = ref[s].client
    <3>1. u \in Uses /\ u.tries = 0 /\ u.ran = 0 /\ u.why = "none"
      BY <1>1, <2>3, Named
    <3> HIDE DEF u
    <3> QED
      BY <2>2, <3>1, Sending
  <2>5. ref[s].client = ref[s].made /\ ref[s].made \in Nat
    BY <2>1, <2>2 DEF IInv, Shape, InSetup, Down, References
  <2> HIDE DEF new
  <2>6. Tried(c)' /\ Explained(c)'
    BY <2>1, <2>2, <2>4, <2>5, <1>2 DEF Tried, Explained, Over, Servers
  <2> QED
    BY <2>1, <2>3, <2>4, <2>6, CallKeeps
<1>5. CASE Execute(c)
  <2> DEFINE new == [call[c] EXCEPT !.at = "running", !.ran = @ + 1]
  <2>1. /\ At(c, "sent") /\ Changed(c, new)
        /\ UNCHANGED << cfg, todo, env, idp, ref, open, owner, history >>
    BY <1>5 DEF Execute
  <2>2. call[c].ran \in {0, 1} /\ call[c].tries \in {1, 2} /\ call[c].ran < call[c].tries
        /\ (call[c].ran = 1 => call[c].seemed)
    BY <1>1, <2>1 DEF At, Tried, Uses
  <2>3. /\ new \in Uses /\ new.at = "running" /\ new.ran = call[c].ran + 1
        /\ new.tries = call[c].tries /\ new.seemed = call[c].seemed /\ new.why = call[c].why
        /\ new.server = call[c].server /\ new.client = call[c].client
    BY <1>1, <2>2, Running
  <2> HIDE DEF new
  <2>4. Tried(c)'
    BY <1>2, <2>1, <2>2, <2>3 DEF Tried
  <2> QED
    BY <1>3, <2>1, <2>3, <2>4
<1>6. CASE Reject(c)
  <2> DEFINE new == Refused(c, TRUE)
  <2>1. /\ At(c, "sent") /\ Changed(c, new)
        /\ UNCHANGED << cfg, todo, env, idp, ref, open, owner, history >>
    BY <1>6 DEF Reject
  <2>2. /\ new \in Uses /\ new.at \in {"waiting", "failed"} /\ new.why # "closed"
        /\ new.at = "waiting" => call[c].tries = 1
        /\ new.tries = call[c].tries /\ new.ran = call[c].ran /\ new.seemed = call[c].seemed
        /\ new.server = call[c].server /\ new.client = call[c].client
    BY <1>1, Refusing
  <2> HIDE DEF new
  <2>3. Tried(c)'
    BY <1>1, <1>2, <2>1, <2>2 DEF Tried, At, Uses
  <2> QED
    BY <1>3, <2>1, <2>2, <2>3
<1>7. CASE Answer(c)
  <2>1. /\ At(c, "running")
        /\ UNCHANGED << cfg, todo, env, idp, ref, open, owner, history >>
    BY <1>7 DEF Answer
  <2>2. CASE Changed(c, [call[c] EXCEPT !.at = "done"])
    <3> DEFINE new == [call[c] EXCEPT !.at = "done"]
    <3>1. /\ new \in Uses /\ new.at = "done"
          /\ new.tries = call[c].tries /\ new.ran = call[c].ran /\ new.seemed = call[c].seemed
          /\ new.why = call[c].why /\ new.server = call[c].server /\ new.client = call[c].client
      BY <1>1, Placed DEF Places
    <3>2. Changed(c, new)
      BY <2>2
    <3> HIDE DEF new
    <3>3. Tried(c)'
      BY <1>1, <1>2, <2>1, <3>1, <3>2 DEF Tried, At, Uses
    <3> QED
      BY <1>3, <2>1, <3>1, <3>2, <3>3
  <2>3. CASE Changed(c, Refused(c, FALSE))
    <3> DEFINE new == Refused(c, FALSE)
    <3>1. /\ new \in Uses /\ new.at = "failed" /\ new.why # "closed"
          /\ new.tries = call[c].tries /\ new.ran = call[c].ran /\ new.seemed = call[c].seemed
          /\ new.server = call[c].server /\ new.client = call[c].client
      BY <1>1, Refusing
    <3>2. Changed(c, new)
      BY <2>3
    <3> HIDE DEF new
    <3>3. Tried(c)'
      BY <1>1, <1>2, <2>1, <3>1, <3>2 DEF Tried, At, Uses
    <3> QED
      BY <1>3, <2>1, <3>1, <3>2, <3>3
  <2>4. CASE Changed(c, [Refused(c, TRUE) EXCEPT !.seemed = TRUE])
    <3> DEFINE u == Refused(c, TRUE)
               new == [u EXCEPT !.seemed = TRUE]
    <3>1. /\ u \in Uses /\ u.at \in {"waiting", "failed"} /\ u.why # "closed"
          /\ u.at = "waiting" => call[c].tries = 1
          /\ u.tries = call[c].tries /\ u.ran = call[c].ran
          /\ u.server = call[c].server /\ u.client = call[c].client
      BY <1>1, Refusing
    <3>2. Changed(c, new)
      BY <2>4
    <3> HIDE DEF u
    <3>3. /\ new \in Uses /\ new.at = u.at /\ new.why = u.why
          /\ new.tries = u.tries /\ new.ran = u.ran /\ new.seemed = TRUE
          /\ new.server = u.server /\ new.client = u.client
      BY <3>1, Seeming
    <3> HIDE DEF new
    <3>4. Tried(c)'
      BY <1>1, <1>2, <2>1, <3>1, <3>2, <3>3 DEF Tried, At, Uses
    <3> QED
      BY <1>3, <2>1, <3>1, <3>2, <3>3, <3>4
  <2> QED
    BY <1>7, <2>2, <2>3, <2>4 DEF Answer
<1>8. CASE Dropped(c)
  <2> DEFINE new == [Refused(c, FALSE) EXCEPT !.why = "closed"]
  <2>1. /\ call[c].at \in {"sent", "running"} /\ ~Alive(c) /\ Changed(c, new)
        /\ UNCHANGED << cfg, todo, env, idp, ref, open, owner, history >>
    BY <1>8 DEF Dropped
  <2>2. /\ new \in Uses /\ new.at = "failed" /\ new.why = "closed"
        /\ new.tries = call[c].tries /\ new.ran = call[c].ran /\ new.seemed = call[c].seemed
        /\ new.server = call[c].server /\ new.client = call[c].client
    BY <1>1, Dropping
  <2> HIDE DEF new
  <2>3. Tried(c)' /\ ~Reconnects(c) /\ call[c].at \notin Over
    BY <1>1, <1>2, <2>1, <2>2 DEF Tried, Uses, Reconnects, Over
  <2>4. call[c].server \in Servers /\ call[c].client # 0 /\ call[c].client <= ref[call[c].server].made
    BY <1>1, <2>3 DEF Explained
  <2>5. \/ ref[call[c].server].made > call[c].client \/ call[c].server \in history.lost \/ Down
        \/ \E d \in Calls : Connecting(d, call[c].server)
    <3> DEFINE s == call[c].server
    <3>1. ref[s].made \in Nat /\ call[c].client \in Nat
      BY <1>1, <2>4 DEF IInv, Shape, References, Uses
    <3>2. Down \/ ref[s].client = ref[s].made
      BY <2>4 DEF IInv, InSetup
    <3>3. ref[s].client = call[c].client => s \in history.lost \/ \E d \in Calls : Connecting(d, s)
      BY <2>1, <2>4 DEF IInv, Reached, Alive
    <3> QED
      BY <2>4, <3>1, <3>2, <3>3
  <2>6. \A d \in Calls, s \in Servers : Connecting(d, s) => Connecting(d, s)'
    BY <1>1, <2>1, <2>3 DEF Connecting, Reconnects, Changed
  <2>7. Explained(c)'
    BY <1>2, <2>1, <2>2, <2>4, <2>5, <2>6 DEF Explained, Down, Over, Servers
  <2> QED
    BY <1>1, <2>1, <2>2, <2>3, <2>7, CallKeeps
<1> QED
  BY <1>4, <1>5, <1>6, <1>7, <1>8

-----------------------------------------------------------------------------
(* A call that reconnects, or gives up.                                    *)
LEMMA Busy ==
    ASSUME IInv, NEW c \in Calls, call[c].at \notin Over
    PROVE  LET s == call[c].server IN
           /\ call[c] \in Uses /\ Tried(c)
           /\ todo = << >> /\ ~Down
           /\ s \in Servers /\ ref[s] \in References
           /\ ref[s].client = ref[s].made /\ ref[s].made \in Nat
           /\ call[c].client \in Nat /\ call[c].client # 0 /\ call[c].client <= ref[s].made
           /\ call[c].why # "closed"
<1>1. call[c] \in Uses /\ Tried(c) /\ todo = << >> /\ ~Down
  <2>1. call[c] \in Uses /\ Tried(c) /\ todo = << >>
    BY DEF IInv, Shape, InSetup
  <2>2. << "down" >> # << >>
    OBVIOUS
  <2> QED
    BY <2>1, <2>2 DEF Down
<1>2. /\ call[c].server \in Servers /\ call[c].client # 0 /\ call[c].client <= ref[call[c].server].made
      /\ call[c].why # "closed"
  BY DEF IInv, Explained
<1>3. ref[call[c].server] \in References /\ ref[call[c].server].client = ref[call[c].server].made
  BY <1>1, <1>2 DEF IInv, Shape, InSetup
<1> QED
  BY <1>1, <1>2, <1>3 DEF References, Uses

\* The lock is the call's while it reconnects, and free when it stops.
LockMoves(c, place, before, after) ==
    IF place \in {"hook", "closing", "connecting"} THEN after = c /\ before \in {"free", c}
    ELSE after = IF Reconnects(c) THEN "free" ELSE before

\* Nothing changes but for one server.
Elsewhere(s) ==
    /\ UNCHANGED << cfg, todo, owner >>
    /\ open' \subseteq Servers \X (1..MaxClients)
    /\ \A x \in Servers, n \in 0..MaxClients : x # s => (<< x, n >> \in open' <=> << x, n >> \in open)
    /\ history' \in [leaked : SUBSET (Servers \X {1}), lost : SUBSET Servers]
    /\ history'.leaked = history.leaked
    /\ \A x \in Servers : x # s => (x \in history'.lost <=> x \in history.lost)

\* Tokens may have been issued.
Tokens ==
    /\ idp' \in [issued : 0..MaxTokens, oldest : 1..MaxTokens + 1]
    /\ idp.issued <= idp'.issued /\ env' \in 0..idp'.issued

\* A server whose reference has become r, and what its calls can be told.
Reaches(s, r) ==
    /\ \A n \in 1..MaxClients : << s, n >> \in open' => << s, n >> \in history.leaked \/ n = r.client
    /\ \A d \in Calls : Connecting(d, s)' => << s, r.client >> \notin open'
    /\ r.client # 0 /\ s \notin history'.lost => << s, r.client >> \in open' \/ \E d \in Calls : Connecting(d, s)'
    /\ s \in history.lost \/ (\E d \in Calls : Connecting(d, s)) =>
          r.made > ref[s].made \/ s \in history'.lost \/ (\E d \in Calls : Connecting(d, s)')

\* One server has another reference, and one of its calls has moved.
LEMMA ServerKeeps ==
    ASSUME "free" \notin Calls, IInv, NEW c \in Calls, call[c].at \notin Over, NEW s \in Servers, s = call[c].server,
           NEW new \in Uses, Changed(c, new), new.server = s,
           NEW r \in References, ref' = [ref EXCEPT ![s] = r],
           r.client = r.made, r.made >= ref[s].made, r.header \in 0..idp'.issued,
           Elsewhere(s), Tokens, Reaches(s, r), LockMoves(c, new.at, ref[s].lock, r.lock),
           Tried(c)', Explained(c)'
    PROVE  IInv'
<1> USE DEF Elsewhere, Tokens, Reaches
<1>1. /\ call' \in [Calls -> Uses] /\ call'[c] = new
      /\ \A x \in Calls : x # c => call'[x] = call[x]
  BY DEF IInv, Shape, Changed
<1>2. Uses' = Uses /\ References' = References /\ Servers' = Servers /\ Down' = Down
  BY DEF Uses, References, Servers, Down
<1>3. /\ s \in Servers /\ todo = << >> /\ ~Down /\ ref[s] \in References
      /\ ref[s].client = ref[s].made /\ ref[s].made \in Nat
  BY Busy
<1>4. /\ ref' \in [Servers -> References] /\ ref'[s] = r
      /\ \A x \in Servers : x # s => ref'[x] = ref[x]
  BY <1>3 DEF IInv, Shape
<1>5. Shape'
  <2>1. \A x \in Servers : /\ ref'[x].client \in 0..ref'[x].made /\ ref'[x].made \in 0..MaxClients
                            /\ ref'[x].header \in 0..idp'.issued /\ ref'[x].lock \in Calls \cup {"free"}
    <3>1. ASSUME NEW x \in Servers, x # s
          PROVE /\ ref'[x].client \in 0..ref'[x].made /\ ref'[x].made \in 0..MaxClients
                /\ ref'[x].header \in 0..idp'.issued /\ ref'[x].lock \in Calls \cup {"free"}
      BY <1>4, <3>1 DEF IInv, Shape, TypeOK
    <3>2. /\ r.client \in 0..r.made /\ r.made \in 0..MaxClients /\ r.lock \in Calls \cup {"free"}
      BY DEF References
    <3> QED
      BY <1>4, <3>1, <3>2
  <2>2. \A x \in Calls : call'[x].tries \in 0..2 /\ call'[x].ran \in 0..2
    BY <1>1 DEF Uses
  <2>3. idp'.issued \in 0..MaxTokens /\ idp'.oldest \in 1..MaxTokens + 1
    OBVIOUS
  <2>4. cfg' \in Configs /\ owner' \in [Names -> Servers \cup {"none"}]
    BY DEF IInv, Shape, TypeOK
  <2>5. TypeOK'
    BY <1>2, <2>1, <2>2, <2>3, <2>4 DEF TypeOK
  <2> QED
    BY <1>1, <1>2, <1>4, <2>5 DEF Shape
<1>6. InSetup'
  BY <1>2, <1>3, <1>4 DEF IInv, InSetup, Shape, References
<1>7. Locked'
  <2>1. ASSUME NEW d \in Calls, Reconnects(d)' PROVE ref'[call'[d].server].lock = d
    <3>1. CASE d = c
      BY <1>1, <1>4, <2>1, <3>1 DEF Reconnects, LockMoves
    <3>2. CASE d # c
      <4>1. call'[d] = call[d] /\ Reconnects(d) /\ ref[call[d].server].lock = d
        BY <1>1, <2>1, <3>2 DEF IInv, Locked, Reconnects
      <4>2. call[d].server \in Servers
        BY <4>1 DEF IInv, Explained, Reconnects, Over
      <4>3. Reconnects(c) => ref[s].lock = c
        BY DEF IInv, Locked
      <4> QED
        BY <1>4, <3>2, <4>1, <4>2, <4>3 DEF LockMoves
    <3> QED
      BY <3>1, <3>2
  <2>2. ASSUME NEW x \in Servers, NEW d \in Calls, ref'[x].lock = d
        PROVE  Reconnects(d)' /\ call'[d].server = x
    <3>1. CASE d = c /\ x = s
      BY <1>1, <1>3, <1>4, <2>2, <3>1 DEF IInv, Locked, Reconnects, LockMoves
    <3>2. CASE d = c /\ x # s
      BY <1>4, <2>2, <3>2 DEF IInv, Locked
    <3>3. CASE d # c
      <4>1. ref[x].lock = d
        BY <1>3, <1>4, <2>2, <3>3 DEF LockMoves
      <4> QED
        BY <1>1, <3>3, <4>1 DEF IInv, Locked, Reconnects
    <3> QED
      BY <3>1, <3>2, <3>3
  <2> QED
    BY <1>2, <2>1, <2>2 DEF Locked
<1>8. ASSUME NEW d \in Calls, NEW x \in Servers, x # s
      PROVE  Connecting(d, x)' <=> Connecting(d, x)
  BY <1>1, <1>8 DEF Connecting
<1>9. Reached'
  <2>1. ASSUME NEW x \in Servers, NEW n \in 1..MaxClients, << x, n >> \in open'
        PROVE  << x, n >> \in history'.leaked \/ n = ref'[x].client
    BY <1>4, <2>1 DEF IInv, Reached
  <2>2. ASSUME NEW d \in Calls, NEW x \in Servers, Connecting(d, x)'
        PROVE  << x, ref'[x].client >> \notin open'
    <3>1. CASE x = s
      BY <1>4, <2>2, <3>1
    <3>2. CASE x # s
      <4>1. Connecting(d, x) /\ ref'[x] = ref[x] /\ ref[x].client \in 0..MaxClients
        BY <1>4, <1>8, <2>2, <3>2 DEF References
      <4> QED
        BY <3>2, <4>1 DEF IInv, Reached
    <3> QED
      BY <3>1, <3>2
  <2>3. ASSUME NEW x \in Servers, ref'[x].client # 0, x \notin history'.lost
        PROVE  << x, ref'[x].client >> \in open' \/ \E d \in Calls : Connecting(d, x)'
    <3>1. CASE x = s
      BY <1>4, <2>3, <3>1
    <3>2. CASE x # s
      <4>1. ref'[x] = ref[x] /\ ref[x].client \in 0..MaxClients /\ x \notin history.lost
        BY <1>4, <2>3, <3>2 DEF References
      <4> QED
        BY <1>8, <2>3, <3>2, <4>1 DEF IInv, Reached
    <3> QED
      BY <3>1, <3>2
  <2> QED
    BY <1>2, <2>1, <2>2, <2>3 DEF Reached
<1>10. ASSUME NEW x \in Calls, x # c PROVE Tried(x)' /\ Explained(x)'
  <2>1. Tried(x) /\ Explained(x) /\ call'[x] = call[x] /\ call[x] \in Uses
    BY <1>1, <1>10 DEF IInv, Shape
  <2>2. Tried(x)'
    BY <2>1 DEF Tried
  <2>3. Explained(x)'
    <3> DEFINE t == call[x].server
    <3>1. CASE t = s
      <4>1. ref[s].made \in Nat /\ r.made \in Nat /\ call[x].client \in Nat
        BY <1>3, <2>1 DEF References, Uses
      <4> QED
        BY <1>2, <1>3, <1>4, <2>1, <3>1, <4>1 DEF Explained
    <3>2. CASE t # s
      BY <1>2, <1>4, <1>8, <2>1, <3>2 DEF Explained
    <3> QED
      BY <3>1, <3>2
  <2> QED
    BY <2>2, <2>3
<1> QED
  BY <1>5, <1>6, <1>7, <1>9, <1>10 DEF IInv

LEMMA Locking ==
    ASSUME NEW r \in References, NEW l \in Calls \cup {"free"}
    PROVE  LET q == [r EXCEPT !.lock = l] IN
           q \in References /\ q.lock = l /\ q.client = r.client /\ q.made = r.made /\ q.header = r.header
BY DEF References

\* The call's lock and place have changed, and no client has been closed or opened.
LEMMA PlaceKeeps ==
    ASSUME "free" \notin Calls, IInv, NEW c \in Calls, call[c].at \notin Over \cup {"connecting"},
           NEW s \in Servers, s = call[c].server,
           NEW new \in Uses, Changed(c, new), new.server = s, new.client = call[c].client,
           new.at # "connecting", new.why # "closed",
           NEW r \in References, ref' = [ref EXCEPT ![s] = r],
           r.client = ref[s].client, r.made = ref[s].made, r.header = ref[s].header,
           UNCHANGED << cfg, todo, open, owner, history >>,
           Tokens,
           LockMoves(c, new.at, ref[s].lock, r.lock),
           Tried(c)'
    PROVE  IInv'
<1>1. /\ call' \in [Calls -> Uses] /\ call'[c] = new
      /\ \A x \in Calls : x # c => call'[x] = call[x]
  BY DEF IInv, Shape, Changed
<1>2. call[c].at \notin Over
  OBVIOUS
<1>3. /\ s \in Servers /\ ref[s] \in References /\ Servers' = Servers
      /\ ref[s].client = ref[s].made /\ ref[s].made \in Nat
      /\ call[c].client \in Nat /\ call[c].client # 0 /\ call[c].client <= ref[s].made
  BY <1>2, Busy DEF Servers
<1>4. \A d \in Calls : Connecting(d, s)' <=> Connecting(d, s)
  BY <1>1 DEF Connecting
<1>5. ref'[s] = r
  BY <1>3 DEF IInv, Shape
<1>6. Explained(c)'
  BY <1>1, <1>3, <1>5 DEF Explained
<1>7. r.header \in 0..idp'.issued
  BY <1>3 DEF IInv, Shape, TypeOK, Tokens
<1>8. Elsewhere(s)
  BY DEF IInv, Shape, TypeOK, Elsewhere
<1>9. Reaches(s, r)
  BY <1>3, <1>4 DEF IInv, Reached, Reaches
<1>10. r.client = r.made /\ r.made >= ref[s].made
  BY <1>3
<1> QED
  BY <1>2, <1>6, <1>7, <1>8, <1>9, <1>10, ServerKeeps

LEMMA TakeLockKeeps ==
    ASSUME "free" \notin Calls, IInv, NEW c \in Calls, TakeLock(c)
    PROVE  IInv'
<1> DEFINE s == call[c].server
           new == [call[c] EXCEPT !.at = "hook"]
           r == [ref[s] EXCEPT !.lock = c]
<1>1. call[c].at = "waiting" /\ call[c].at \notin Over /\ ~Reconnects(c)
  BY DEF TakeLock, At, Over, Reconnects
<1>2. call[c] \in Uses /\ Tried(c) /\ s \in Servers /\ ref[s] \in References
  BY <1>1, Busy
<1>3. /\ new \in Uses /\ new.at = "hook" /\ new.server = s /\ new.client = call[c].client
      /\ new.tries = call[c].tries /\ new.ran = call[c].ran /\ new.seemed = call[c].seemed
      /\ new.why = call[c].why
  BY <1>2, Placed DEF Places
<1>4. /\ r \in References /\ r.lock = c /\ r.client = ref[s].client /\ r.made = ref[s].made
      /\ r.header = ref[s].header
  BY <1>2, Locking
<1>5. Changed(c, new) /\ ref[s].lock = "free" /\ ref' = [ref EXCEPT ![s] = r]
  BY DEF TakeLock
<1> HIDE DEF new, r
<1>6. call[c].why # "closed"
  BY <1>1, Busy
<1>7. Tried(c)'
  BY <1>1, <1>2, <1>3, <1>5 DEF Tried, Changed, IInv, Shape
<1>8. UNCHANGED << cfg, todo, env, idp, open, owner, history >>
  BY DEF TakeLock
<1>9. Tokens
  BY <1>8 DEF IInv, Shape, TypeOK, Tokens
<1>10. LockMoves(c, new.at, ref[s].lock, r.lock)
  BY <1>3, <1>4, <1>5 DEF LockMoves
<1> QED
  BY <1>1, <1>2, <1>3, <1>4, <1>5, <1>6, <1>7, <1>8, <1>9, <1>10, PlaceKeeps

LEMMA Fetching ==
    ASSUME MaxTokens \in Nat, IInv, NEW token \in Fetched, FetchToken(token)
    PROVE  /\ Tokens /\ env' = token
           /\ token \in 0..idp'.issued /\ \A x \in 0..idp.issued : x \in 0..idp'.issued
<1> USE DEF Tokens
<1>1. /\ idp \in [issued : 0..MaxTokens, oldest : 1..MaxTokens + 1] /\ env \in 0..idp.issued
  BY DEF IInv, Shape, TypeOK
<1>2. token = env \/ (token = idp.issued + 1 /\ idp.issued < MaxTokens)
  BY DEF Fetched
<1>3. CASE token = env
  BY <1>1, <1>3 DEF FetchToken
<1>4. CASE token = idp.issued + 1 /\ idp.issued < MaxTokens
  <2>1. idp' = [idp EXCEPT !.issued = token] /\ token \in 0..MaxTokens
    BY <1>1, <1>4 DEF FetchToken
  <2> QED
    BY <1>1, <1>4, <2>1 DEF FetchToken
<1> QED
  BY <1>2, <1>3, <1>4

LEMMA FireHookKeeps ==
    ASSUME MaxTokens \in Nat, "free" \notin Calls, IInv, NEW c \in Calls, FireHook(c)
    PROVE  IInv'
<1> DEFINE s == call[c].server
           new == [call[c] EXCEPT !.at = "closing"]
<1>1. call[c].at = "hook" /\ call[c].at \notin Over /\ Reconnects(c)
  BY DEF FireHook, At, Over, Reconnects
<1>2. call[c] \in Uses /\ Tried(c) /\ s \in Servers /\ ref[s] \in References /\ call[c].why # "closed"
  BY <1>1, Busy
<1>3. /\ new \in Uses /\ new.at = "closing" /\ new.server = s /\ new.client = call[c].client
      /\ new.tries = call[c].tries /\ new.ran = call[c].ran /\ new.seemed = call[c].seemed
      /\ new.why = call[c].why
  BY <1>2, Placed DEF Places
<1>4. Changed(c, new) /\ UNCHANGED << cfg, todo, ref, open, owner, history >>
  BY DEF FireHook
<1>5. ref[s].lock = c /\ ref' = [ref EXCEPT ![s] = ref[s]]
  BY <1>1, <1>4 DEF IInv, Locked, Shape
<1>6. PICK token \in Fetched : FetchToken(token)
  BY DEF FireHook
<1> HIDE DEF new
<1>7. Tried(c)'
  BY <1>1, <1>2, <1>3, <1>4 DEF Tried, Changed, IInv, Shape
<1>8. Tokens
  BY <1>6, Fetching
<1>9. /\ ref[s] \in References /\ call[c].at \notin Over \cup {"connecting"}
      /\ new.at # "connecting" /\ new.why # "closed"
      /\ LockMoves(c, new.at, ref[s].lock, ref[s].lock)
  BY <1>1, <1>2, <1>3, <1>5 DEF LockMoves
<1> QED
  BY <1>2, <1>3, <1>4, <1>5, <1>7, <1>8, <1>9, PlaceKeeps

\* One call at a time reconnects a server.
LEMMA OneReconnects ==
    ASSUME IInv, NEW c \in Calls, Reconnects(c), NEW d \in Calls, Connecting(d, call[c].server)
    PROVE  d = c
BY DEF IInv, Locked, Reconnects, Connecting

\* A reconnection that has closed the client, or has been cancelled before it had another.
LEMMA UnlockKeeps ==
    ASSUME "free" \notin Calls, IInv, NEW c \in Calls, Reconnects(c),
           NEW why \in {"refresh", "cancelled"}, Unlock(c, why),
           UNCHANGED << cfg, todo, env, idp, owner >>,
           open' = open \/ open' = open \ {<< call[c].server, ref[call[c].server].client >>}
    PROVE  IInv'
<1> DEFINE s == call[c].server
           new == [call[c] EXCEPT !.at = "failed", !.why = why]
           r == [ref[s] EXCEPT !.lock = "free"]
<1>1. call[c].at \notin Over
  BY DEF Reconnects, Over
<1>2. /\ call[c] \in Uses /\ Tried(c) /\ s \in Servers /\ ref[s] \in References
      /\ ref[s].client = ref[s].made /\ ref[s].made \in Nat
      /\ call[c].client \in Nat /\ call[c].client <= ref[s].made
  BY <1>1, Busy
<1>3. /\ new \in Uses /\ new.at = "failed" /\ new.server = s /\ new.client = call[c].client
      /\ new.tries = call[c].tries /\ new.ran = call[c].ran /\ new.seemed = call[c].seemed
      /\ new.why = why
  <2>1. why \in Whys
    BY DEF Whys
  <2> QED
    BY <1>2, <2>1, Failing
<1>4. /\ r \in References /\ r.lock = "free" /\ r.client = ref[s].client /\ r.made = ref[s].made
      /\ r.header = ref[s].header
  BY <1>2, Locking
<1>5. /\ Changed(c, new) /\ ref' = [ref EXCEPT ![s] = r]
      /\ history' = [history EXCEPT !.lost = @ \cup {s}]
  BY DEF Unlock
<1> HIDE DEF new, r
<1>6. /\ call' \in [Calls -> Uses] /\ call'[c] = new /\ ref'[s] = r /\ Servers' = Servers
      /\ \A x \in Calls : x # c => call'[x] = call[x]
  BY <1>2, <1>3, <1>4, <1>5 DEF IInv, Shape, Changed, Servers
<1>7. Tried(c)'
  BY <1>1, <1>2, <1>3, <1>6 DEF Tried, Over, Reconnects
<1>8. Explained(c)'
  BY <1>2, <1>3, <1>4, <1>6 DEF Explained, Over
<1>9. \A d \in Calls : ~Connecting(d, s)'
  BY <1>3, <1>6, OneReconnects DEF Connecting
<1>10. Elsewhere(s) /\ s \in history'.lost
  BY <1>2, <1>5 DEF IInv, Shape, TypeOK, Elsewhere
<1>11. Reaches(s, r)
  BY <1>2, <1>4, <1>9, <1>10 DEF IInv, Reached, Reaches
<1>12. Tokens /\ r.header \in 0..idp'.issued
  BY <1>2, <1>4 DEF IInv, Shape, TypeOK, Tokens
<1>13. r.client = r.made /\ r.made >= ref[s].made
  BY <1>2, <1>4
<1>14. LockMoves(c, new.at, ref[s].lock, r.lock)
  BY <1>3, <1>4 DEF LockMoves
<1> QED
  BY <1>1, <1>2, <1>3, <1>4, <1>5, <1>7, <1>8, <1>10, <1>11, <1>12, <1>13, <1>14, ServerKeeps

LEMMA CloseOldKeeps ==
    ASSUME "free" \notin Calls, IInv, NEW c \in Calls, CloseOld(c)
    PROVE  IInv'
<1> DEFINE s == call[c].server
           new == [call[c] EXCEPT !.at = "connecting"]
<1>1. call[c].at = "closing" /\ call[c].at \notin Over /\ Reconnects(c)
  BY DEF CloseOld, At, Over, Reconnects
<1>2. /\ UNCHANGED << cfg, todo, env, idp, owner >>
      /\ open' = open \ {<< s, ref[s].client >>}
  BY DEF CloseOld
<1>3. CASE Unlock(c, "refresh")
  BY <1>1, <1>2, <1>3, UnlockKeeps
<1>4. CASE Changed(c, new) /\ UNCHANGED << ref, history >>
  <2>1. /\ call[c] \in Uses /\ Tried(c) /\ s \in Servers /\ ref[s] \in References
        /\ ref[s].client = ref[s].made /\ ref[s].made \in Nat
        /\ call[c].client # 0 /\ call[c].client <= ref[s].made /\ call[c].why # "closed"
    BY <1>1, Busy
  <2>2. /\ new \in Uses /\ new.at = "connecting" /\ new.server = s /\ new.client = call[c].client
        /\ new.tries = call[c].tries /\ new.ran = call[c].ran /\ new.seemed = call[c].seemed
        /\ new.why = call[c].why
    BY <2>1, Placed DEF Places
  <2>3. ref[s].lock = c /\ ref' = [ref EXCEPT ![s] = ref[s]]
    BY <1>1, <1>4 DEF IInv, Locked, Shape
  <2>4. Changed(c, new)
    BY <1>4
  <2> HIDE DEF new
  <2>5. call'[c] = new /\ ref'[s] = ref[s] /\ Servers' = Servers
    BY <1>2, <1>4, <2>4 DEF IInv, Shape, Changed, Servers
  <2>6. Tried(c)' /\ Explained(c)'
    BY <1>1, <2>1, <2>2, <2>5 DEF Tried, Explained, Over
  <2>7. Connecting(c, s)'
    BY <2>2, <2>5 DEF Connecting
  <2>8. Elsewhere(s)
    BY <1>2, <1>4, <2>1 DEF IInv, Shape, TypeOK, Elsewhere
  <2>9. Reaches(s, ref[s])
    BY <1>2, <1>4, <2>1, <2>7 DEF IInv, Reached, Reaches
  <2>10. Tokens /\ ref[s].header \in 0..idp'.issued
    BY <1>2, <2>1 DEF IInv, Shape, TypeOK, Tokens
  <2>11. LockMoves(c, new.at, ref[s].lock, ref[s].lock) /\ ref[s].made >= ref[s].made
    BY <2>1, <2>2, <2>3 DEF LockMoves
  <2> QED
    BY <1>1, <2>1, <2>2, <2>3, <2>4, <2>6, <2>8, <2>9, <2>10, <2>11, ServerKeeps
<1> QED
  BY <1>3, <1>4 DEF CloseOld

LEMMA ReconnectKeeps ==
    ASSUME MaxTokens \in Nat, MaxClients \in Nat, "free" \notin Calls, IInv, NEW c \in Calls, Reconnect(c)
    PROVE  IInv'
<1> DEFINE s == call[c].server
           k == ref[s].made + 1
           token == Header(s, env)
           new == Sent(call[c], s, k)
           r == [ref[s] EXCEPT !.client = k, !.made = k, !.header = token, !.lock = "free"]
<1>1. call[c].at = "connecting" /\ call[c].at \notin Over /\ Reconnects(c)
  BY DEF Reconnect, At, Over, Reconnects
<1>2. UNCHANGED << cfg, todo, env, idp, owner >>
  BY DEF Reconnect
<1>3. CASE Unlock(c, "refresh") /\ UNCHANGED open
  BY <1>1, <1>2, <1>3, UnlockKeeps
<1>4. CASE /\ MayConnect(s, token) /\ With(s, token) /\ Changed(c, new)
           /\ history' = [history EXCEPT !.lost = @ \ {s}]
  <2>1. /\ call[c] \in Uses /\ Tried(c) /\ s \in Servers /\ ref[s] \in References
        /\ ref[s].client = ref[s].made /\ ref[s].made \in Nat
        /\ call[c].client # 0 /\ call[c].client <= ref[s].made /\ call[c].why # "closed"
    BY <1>1, Busy
  <2>2. k \in 1..MaxClients /\ k > ref[s].made
    BY <1>4, <2>1 DEF MayConnect
  <2>3. token \in 0..idp.issued /\ idp.issued \in 0..MaxTokens
    BY <2>1 DEF Header, IInv, Shape, TypeOK
  <2>4. /\ new \in Uses /\ new.at = "sent" /\ new.server = s /\ new.client = k
        /\ new.tries = 2 /\ new.ran = call[c].ran /\ new.seemed = call[c].seemed
        /\ new.why = call[c].why
    <3>1. call[c].tries = 1 /\ k \in 0..MaxClients
      BY <1>1, <2>1, <2>2 DEF Tried
    <3> QED
      BY <2>1, <3>1, Sending
  <2>5. /\ ref' = [ref EXCEPT ![s] = r] /\ open' = open \cup {<< s, k >>}
        /\ Changed(c, new)
        /\ history' = [history EXCEPT !.lost = @ \ {s}]
    BY <1>4 DEF With
  <2>6. /\ r \in References /\ r.client = k /\ r.made = k /\ r.header = token /\ r.lock = "free"
    <3>1. k \in 0..MaxClients
      BY <2>2
    <3> HIDE DEF k, token
    <3>2. token \in 0..MaxTokens
      BY <2>3
    <3> QED
      BY <2>1, <3>1, <3>2 DEF References
  <2> HIDE DEF new, r, token
  <2>7. /\ call'[c] = new /\ ref'[s] = r /\ Servers' = Servers
        /\ \A x \in Calls : x # c => call'[x] = call[x]
    BY <1>2, <2>1, <2>4, <2>5, <2>6 DEF IInv, Shape, Changed, Servers
  <2>8. Tried(c)'
    BY <1>1, <2>1, <2>4, <2>7 DEF Tried, Uses
  <2>9. Explained(c)'
    BY <2>1, <2>2, <2>4, <2>6, <2>7 DEF Explained
  <2>10. \A d \in Calls : ~Connecting(d, s)'
    BY <1>1, <2>4, <2>7, OneReconnects DEF Connecting
  <2>11. Elsewhere(s)
    BY <1>2, <2>1, <2>2, <2>5 DEF IInv, Shape, TypeOK, Elsewhere
  <2>12. Reaches(s, r)
    <3>1. << s, ref[s].client >> \notin open
      BY <1>1, <2>1 DEF IInv, Reached, Connecting
    <3> QED
      BY <2>1, <2>2, <2>5, <2>6, <2>10, <3>1 DEF IInv, Reached, Reaches
  <2>13. Tokens /\ r.header \in 0..idp'.issued
    BY <1>2, <2>3, <2>6 DEF IInv, Shape, TypeOK, Tokens
  <2>14. LockMoves(c, new.at, ref[s].lock, r.lock) /\ r.client = r.made /\ r.made >= ref[s].made
    BY <1>1, <2>1, <2>2, <2>4, <2>6 DEF LockMoves
  <2> QED
    BY <1>1, <2>1, <2>4, <2>5, <2>6, <2>8, <2>9, <2>11, <2>12, <2>13, <2>14, ServerKeeps
<1> QED
  BY <1>3, <1>4 DEF Reconnect

LEMMA CancelKeeps ==
    ASSUME "free" \notin Calls, IInv, NEW c \in Calls, Cancel(c)
    PROVE  IInv'
<1> DEFINE s == call[c].server
           new == [call[c] EXCEPT !.at = "failed", !.why = "cancelled"]
           r == IF ref[s].lock = c THEN [ref[s] EXCEPT !.lock = "free"] ELSE ref[s]
<1>1. call[c].at \notin Over /\ UNCHANGED << cfg, todo, env, idp, open, owner >>
  BY DEF Cancel, Over
<1>2. /\ call[c] \in Uses /\ Tried(c) /\ s \in Servers /\ ref[s] \in References
  BY <1>1, Busy
<1>3. CASE At(c, "connecting")
  <2>1. Unlock(c, "cancelled") /\ Reconnects(c)
    BY <1>3 DEF Cancel, At, Reconnects
  <2> QED
    BY <1>1, <2>1, UnlockKeeps
<1>4. CASE ~At(c, "connecting")
  <2>1. /\ Changed(c, new) /\ UNCHANGED history
        /\ ref' = IF ref[s].lock = c THEN [ref EXCEPT ![s].lock = "free"] ELSE ref
    BY <1>4 DEF Cancel
  <2>2. /\ new \in Uses /\ new.at = "failed" /\ new.server = s /\ new.client = call[c].client
        /\ new.tries = call[c].tries /\ new.ran = call[c].ran /\ new.seemed = call[c].seemed
        /\ new.why = "cancelled"
    BY <1>2, Failing DEF Whys
  <2>3. /\ r \in References /\ r.client = ref[s].client /\ r.made = ref[s].made /\ r.header = ref[s].header
        /\ r.lock = IF ref[s].lock = c THEN "free" ELSE ref[s].lock
    BY <1>2, Locking
  <2>4. ref' = [ref EXCEPT ![s] = r]
    BY <1>2, <2>1 DEF IInv, Shape
  <2> HIDE DEF new, r
  <2>5. call'[c] = new
    BY <2>1, <2>2 DEF Changed, IInv, Shape
  <2>6. Tried(c)'
    BY <1>1, <1>2, <2>2, <2>5 DEF Tried, Uses, Over
  <2>7. Tokens
    BY <1>1 DEF IInv, Shape, TypeOK, Tokens
  <2>8. LockMoves(c, new.at, ref[s].lock, r.lock)
    BY <1>2, <2>2, <2>3 DEF LockMoves, IInv, Locked
  <2>9. call[c].at \notin Over \cup {"connecting"}
    BY <1>1, <1>4 DEF At
  <2> QED
    BY <1>1, <1>2, <2>1, <2>2, <2>3, <2>4, <2>6, <2>7, <2>8, <2>9, PlaceKeeps
<1> QED
  BY <1>3, <1>4

-----------------------------------------------------------------------------
(* What happens beside the calls.                                          *)
LEMMA ExpireKeeps ==
    ASSUME MaxTokens \in Nat, IInv, Expire
    PROVE  IInv'
<1>1. /\ UNCHANGED << cfg, todo, env, ref, open, owner, call, history >>
      /\ idp.oldest <= idp.issued /\ idp' = [idp EXCEPT !.oldest = @ + 1]
  BY DEF Expire
<1>2. Servers' = Servers /\ References' = References /\ Uses' = Uses /\ Down' = Down
  BY <1>1 DEF Servers, References, Uses, Down
<1>3. Shape'
  <2>1. /\ idp \in [issued : 0..MaxTokens, oldest : 1..MaxTokens + 1]
    BY DEF IInv, Shape
  <2>2. idp.oldest + 1 \in 1..MaxTokens + 1
    BY <1>1, <2>1
  <2>3. idp' \in [issued : 0..MaxTokens, oldest : 1..MaxTokens + 1] /\ idp'.issued = idp.issued
    BY <1>1, <2>1, <2>2
  <2>4. TypeOK'
    BY <1>1, <1>2, <2>3 DEF IInv, Shape, TypeOK
  <2> QED
    BY <1>1, <1>2, <2>3, <2>4 DEF IInv, Shape
<1>4. InSetup'
  BY <1>1, <1>2 DEF IInv, InSetup
<1>5. Locked' /\ \A d \in Calls, x \in Servers : Connecting(d, x)' <=> Connecting(d, x)
  BY <1>1, <1>2 DEF IInv, Locked, Reconnects, Connecting
<1>6. Reached'
  BY <1>1, <1>2, <1>5 DEF IInv, Reached
<1>7. ASSUME NEW c \in Calls PROVE Tried(c)' /\ Explained(c)'
  BY <1>1, <1>2, <1>5 DEF IInv, Tried, Explained
<1> QED
  BY <1>3, <1>4, <1>5, <1>6, <1>7 DEF IInv

\* While setup() runs, and after shutdown(), no call does.
LEMMA NoneReconnects ==
    ASSUME IInv, \A c \in Calls : call[c].at \in Over
    PROVE  \A c \in Calls : ~Reconnects(c) /\ \A s \in Servers : ~Connecting(c, s) /\ ref[s].lock # c
BY DEF IInv, Locked, Over, Reconnects, Connecting

LEMMA ShutdownKeeps ==
    ASSUME MaxClients \in Nat, "free" \notin Calls, IInv, Shutdown
    PROVE  IInv'
<1>1. /\ \A c \in Calls : call[c].at \in Over
      /\ todo = << >> /\ todo' = << "down" >> /\ UNCHANGED << cfg, env, idp, call >>
      /\ open' = open \ {<< s, ref[s].client >> : s \in Servers}
      /\ ref' = [s \in Servers |-> [ref[s] EXCEPT !.client = 0]]
      /\ owner' = [n \in Names |-> IF n \in Prompts THEN "none" ELSE owner[n]]
      /\ history' = [history EXCEPT !.lost = {}]
  BY DEF Shutdown, Over
<1>2. Servers' = Servers /\ References' = References /\ Uses' = Uses /\ Down'
  BY <1>1 DEF Servers, References, Uses, Down
<1>3. /\ ref' \in [Servers -> References]
      /\ \A s \in Servers : /\ ref'[s].client = 0 /\ ref'[s].made = ref[s].made
                            /\ ref'[s].header = ref[s].header /\ ref'[s].lock = ref[s].lock
  <2>1. ASSUME NEW s \in Servers
        PROVE  /\ ref'[s] \in References /\ ref'[s].client = 0 /\ ref'[s].made = ref[s].made
               /\ ref'[s].header = ref[s].header /\ ref'[s].lock = ref[s].lock
    <3>1. ref[s] \in References /\ 0 \in 0..MaxClients
      BY DEF IInv, Shape, References
    <3>2. ref'[s] = [ref[s] EXCEPT !.client = 0]
      BY <1>1
    <3> QED
      BY <3>1, <3>2 DEF References
  <2> QED
    BY <1>1, <2>1
<1>4. Shape'
  <2>1. \A s \in Servers : ref'[s].client \in 0..ref'[s].made
    BY <1>3 DEF IInv, Shape, TypeOK
  <2>2. owner' \in [Names -> Servers \cup {"none"}] /\ open' \subseteq open
    BY <1>1 DEF IInv, Shape, TypeOK
  <2>3. TypeOK'
    BY <1>1, <1>2, <1>3, <2>1, <2>2 DEF IInv, Shape, TypeOK
  <2> QED
    BY <1>1, <1>2, <1>3, <2>3 DEF IInv, Shape
<1>5. InSetup'
  BY <1>1, <1>2 DEF InSetup
<1>6. Locked'
  BY <1>1, <1>2, <1>3, NoneReconnects DEF Locked, Reconnects
<1>7. Reached'
  <2>1. \A d \in Calls, x \in Servers : ~Connecting(d, x)'
    BY <1>1, NoneReconnects DEF Connecting
  <2>2. ASSUME NEW s \in Servers, NEW n \in 1..MaxClients, << s, n >> \in open'
        PROVE  << s, n >> \in history'.leaked
    BY <1>1, <2>2 DEF IInv, Shape, Reached
  <2> QED
    BY <1>2, <1>3, <2>1, <2>2 DEF Reached
<1>8. ASSUME NEW c \in Calls PROVE Tried(c)' /\ Explained(c)'
  <2>1. call[c] \in Uses /\ Tried(c) /\ Explained(c) /\ call[c].at \in Over
    BY <1>1 DEF IInv, Shape
  <2> QED
    BY <1>1, <1>2, <1>3, <2>1 DEF Tried, Explained
<1> QED
  BY <1>4, <1>5, <1>6, <1>7, <1>8 DEF IInv

\* What setup() does with a server: r is its reference afterwards.
Prepares(s, r) ==
    /\ owner' \in [Names -> Servers \cup {"none"}]
    /\ \A n \in Names : owner'[n] # owner[n] => owner'[n] = s /\ r.client # 0
    /\ open \subseteq open' /\ open' \subseteq Servers \X (1..MaxClients)
    /\ \A x \in Servers, n \in 1..MaxClients :
          << x, n >> \in open' \ open => x = s /\ (<< x, n >> \in history'.leaked \/ n = r.client)
    /\ r.client # ref[s].client => << s, r.client >> \in open'
    /\ history' \in [leaked : SUBSET (Servers \X {1}), lost : SUBSET Servers]
    /\ history.leaked \subseteq history'.leaked /\ history'.lost = history.lost

\* setup() has gone on by one server, and connected it or not.
LEMMA SetupKeeps ==
    ASSUME IInv, todo # << >>, ~Down, todo' = Tail(todo), UNCHANGED << cfg, call >>,
           Tokens, NEW s \in Servers, s = Head(todo),
           NEW r \in References, ref' = [ref EXCEPT ![s] = r],
           r.client = r.made, r.made >= ref[s].made, r.header \in 0..idp'.issued, r.lock = ref[s].lock,
           Prepares(s, r)
    PROVE  IInv'
<1> USE DEF Prepares
<1>1. /\ \A c \in Calls : call[c].at \in Over
      /\ Servers' = Servers /\ References' = References /\ Uses' = Uses
  BY DEF IInv, InSetup, Servers, References, Uses
<1>2. /\ todo \in Seq(Servers)
      /\ \A i, j \in DOMAIN todo : i # j => todo[i] # todo[j]
      /\ \A i \in DOMAIN todo : ref[todo[i]].client = 0
      /\ \A x \in Servers : ref[x].client = ref[x].made
      /\ \A n \in Names : owner[n] # "none" => ref[owner[n]].client # 0
  BY DEF IInv, InSetup
<1>3. ref[s].client = 0 /\ s = todo[1] /\ 1 \in DOMAIN todo
  BY <1>2
<1>4. /\ ref' \in [Servers -> References] /\ ref'[s] = r
      /\ \A x \in Servers : x # s => ref'[x] = ref[x]
  BY DEF IInv, Shape
<1>5. Shape'
  <2>1. \A x \in Servers : /\ ref'[x].client \in 0..ref'[x].made /\ ref'[x].made \in 0..MaxClients
                            /\ ref'[x].header \in 0..idp'.issued /\ ref'[x].lock \in Calls \cup {"free"}
    <3>1. ASSUME NEW x \in Servers, x # s
          PROVE /\ ref'[x].client \in 0..ref'[x].made /\ ref'[x].made \in 0..MaxClients
                /\ ref'[x].header \in 0..idp'.issued /\ ref'[x].lock \in Calls \cup {"free"}
      BY <1>4, <3>1 DEF IInv, Shape, TypeOK, Tokens
    <3>2. /\ r.client \in 0..r.made /\ r.made \in 0..MaxClients /\ r.lock \in Calls \cup {"free"}
      BY DEF References
    <3> QED
      BY <1>4, <3>1, <3>2
  <2>2. TypeOK'
    BY <1>1, <2>1 DEF IInv, Shape, TypeOK, Tokens
  <2> QED
    BY <1>1, <1>4, <2>2 DEF IInv, Shape, Tokens
<1>6. InSetup'
  <2>1. /\ Tail(todo) \in Seq(Servers)
        /\ \A i \in DOMAIN Tail(todo) : i \in Nat /\ i + 1 \in DOMAIN todo /\ i + 1 # 1 /\ Tail(todo)[i] = todo[i + 1]
    BY <1>2
  <2>2. \A i, j \in DOMAIN Tail(todo) : i # j => Tail(todo)[i] # Tail(todo)[j]
    BY <1>2, <2>1
  <2>3. \A i \in DOMAIN Tail(todo) : Tail(todo)[i] \in Servers /\ ref'[Tail(todo)[i]].client = 0
    <3> TAKE i \in DOMAIN Tail(todo)
    <3>1. todo[i + 1] # s /\ todo[i + 1] \in Servers /\ ref[todo[i + 1]].client = 0
      BY <1>2, <1>3, <2>1
    <3> QED
      BY <1>4, <2>1, <3>1
  <2>4. \A x \in Servers : ref'[x].client = ref'[x].made
    BY <1>2, <1>4
  <2>5. ASSUME NEW n \in Names, owner'[n] # "none" PROVE ref'[owner'[n]].client # 0
    <3>1. CASE owner'[n] # owner[n]
      BY <1>4, <3>1
    <3>2. CASE owner'[n] = owner[n]
      <4>1. owner[n] \in Servers /\ ref[owner[n]].client # 0 /\ owner[n] # s
        BY <1>2, <1>3, <2>5, <3>2 DEF IInv, Shape, TypeOK
      <4> QED
        BY <1>4, <3>2, <4>1
    <3> QED
      BY <3>1, <3>2
  <2> QED
    BY <1>1, <2>1, <2>2, <2>3, <2>4, <2>5 DEF InSetup
<1>7. Locked'
  BY <1>1, <1>4, NoneReconnects DEF Locked, Reconnects
<1>8. Reached'
  <2>1. \A d \in Calls, x \in Servers : ~Connecting(d, x)' /\ ~Connecting(d, x)
    BY <1>1, NoneReconnects DEF Connecting
  <2>2. ASSUME NEW x \in Servers, NEW n \in 1..MaxClients, << x, n >> \in open'
        PROVE  << x, n >> \in history'.leaked \/ n = ref'[x].client
    <3>1. CASE << x, n >> \in open
      <4>1. << x, n >> \in history.leaked \/ n = ref[x].client
        BY <3>1 DEF IInv, Reached
      <4>2. n = ref[x].client => x # s
        BY <1>3
      <4> QED
        BY <1>4, <4>1, <4>2
    <3>2. CASE << x, n >> \notin open
      BY <1>4, <2>2, <3>2
    <3> QED
      BY <3>1, <3>2
  <2>3. ASSUME NEW x \in Servers, ref'[x].client # 0, x \notin history'.lost
        PROVE  << x, ref'[x].client >> \in open'
    BY <1>3, <1>4, <2>1, <2>3 DEF IInv, Reached
  <2> QED
    BY <1>1, <2>1, <2>2, <2>3 DEF Reached
<1>9. ASSUME NEW c \in Calls PROVE Tried(c)' /\ Explained(c)'
  <2>1. call[c] \in Uses /\ Tried(c) /\ Explained(c) /\ call[c].at \in Over
    BY <1>1 DEF IInv, Shape
  <2>2. \A x \in Servers : ref[x].made \in Nat /\ ref'[x].made \in Nat /\ ref'[x].made >= ref[x].made
    BY <1>4 DEF IInv, Shape, References
  <2>3. call[c].client \in Nat /\ \A d \in Calls, x \in Servers : ~Connecting(d, x)
    BY <1>1, <2>1, NoneReconnects DEF Uses
  <2>4. Explained(c)'
    BY <1>1, <2>1, <2>2, <2>3 DEF Explained
  <2> QED
    BY <2>1, <2>4 DEF Tried
<1> QED
  BY <1>1, <1>5, <1>6, <1>7, <1>8, <1>9 DEF IInv

\* The server that setup() connects next.
LEMMA NextServer ==
    ASSUME IInv, todo # << >>, ~Down
    PROVE  LET s == Head(todo) IN
           /\ s \in Servers /\ ref[s] \in References
           /\ ref[s].client = 0 /\ ref[s].made = 0 /\ ref[s].lock = "free"
           /\ ref[s].header \in 0..idp.issued
<1>1. todo \in Seq(Servers) /\ \A i \in DOMAIN todo : ref[todo[i]].client = 0
  BY DEF IInv, InSetup
<1>2. Head(todo) = todo[1] /\ 1 \in DOMAIN todo
  BY <1>1
<1>3. Head(todo) \in Servers /\ ref[Head(todo)].client = 0
  BY <1>1, <1>2
<1>4. \A c \in Calls : call[c].at \in Over
  BY DEF IInv, InSetup
<1>5. ASSUME NEW s \in Servers, ref[s].client = 0
      PROVE  /\ ref[s] \in References /\ ref[s].made = 0 /\ ref[s].lock = "free"
             /\ ref[s].header \in 0..idp.issued
  BY <1>4, <1>5, NoneReconnects DEF IInv, Shape, TypeOK, InSetup, References
<1> QED
  BY <1>3, <1>5

LEMMA UnconnectedKeeps ==
    ASSUME IInv, todo # << >>, ~Down, todo' = Tail(todo), UNCHANGED << cfg, call, ref, owner >>, Tokens,
           NEW s \in Servers, s = Head(todo),
           NEW leaked \in SUBSET {<< s, 1 >>}, MaxClients \in Nat, leaked # {} => MaxClients >= 1,
           open' = open \cup leaked, history' = [history EXCEPT !.leaked = @ \cup leaked]
    PROVE  IInv'
<1>1. /\ ref[s] \in References /\ ref[s].client = 0 /\ ref[s].made = 0
      /\ ref[s].header \in 0..idp.issued
  BY NextServer
<1>2. /\ open \subseteq Servers \X (1..MaxClients)
      /\ history \in [leaked : SUBSET (Servers \X {1}), lost : SUBSET Servers]
      /\ owner \in [Names -> Servers \cup {"none"}]
      /\ ref' = [ref EXCEPT ![s] = ref[s]]
  BY DEF IInv, Shape, TypeOK
<1>3. ref[s].header \in 0..idp'.issued
  BY <1>1 DEF Tokens, IInv, Shape
<1>4. leaked \subseteq Servers \X {1} /\ leaked \subseteq Servers \X (1..MaxClients)
  BY DEF Servers
<1>5. /\ history' \in [leaked : SUBSET (Servers \X {1}), lost : SUBSET Servers]
      /\ history'.leaked = history.leaked \cup leaked /\ history'.lost = history.lost
  BY <1>2, <1>4
<1>6. /\ open \subseteq open' /\ open' \subseteq Servers \X (1..MaxClients)
      /\ \A x \in Servers, n \in 1..MaxClients :
             << x, n >> \in open' \ open => x = s /\ (<< x, n >> \in history'.leaked \/ n = ref[s].client)
  BY <1>2, <1>4, <1>5
<1>7. Prepares(s, ref[s]) /\ UNCHANGED << cfg, call >>
  BY <1>2, <1>5, <1>6 DEF Prepares
<1>8. ref[s].client = ref[s].made /\ ref[s].made >= ref[s].made
  BY <1>1
<1> QED
  BY <1>1, <1>2, <1>3, <1>7, <1>8, SetupKeeps

LEMMA ConnectedKeeps ==
    ASSUME IInv, todo # << >>, ~Down, todo' = Tail(todo), UNCHANGED << cfg, call, history >>, Tokens,
           NEW s \in Servers, s = Head(todo), MaxTokens \in Nat, MaxClients \in Nat,
           NEW h \in 0..idp'.issued, MayConnect(s, h), With(s, h),
           NEW offered, owner' = Register(s, offered)
    PROVE  IInv'
<1> DEFINE r == [ref[s] EXCEPT !.client = 1, !.made = 1, !.header = h, !.lock = "free"]
<1>1. /\ ref[s] \in References /\ ref[s].client = 0 /\ ref[s].made = 0 /\ ref[s].lock = "free"
  BY NextServer
<1>2. /\ open \subseteq Servers \X (1..MaxClients)
      /\ history \in [leaked : SUBSET (Servers \X {1}), lost : SUBSET Servers]
      /\ owner \in [Names -> Servers \cup {"none"}]
  BY DEF IInv, Shape, TypeOK
<1>3. 1 \in 0..MaxClients /\ 1 \in 1..MaxClients /\ h \in 0..MaxTokens
  BY <1>1 DEF MayConnect, Tokens
<1>4. ref' = [ref EXCEPT ![s] = r] /\ open' = open \cup {<< s, 1 >>}
  BY <1>1 DEF With
<1>5. r \in References /\ r.client = 1 /\ r.made = 1 /\ r.header = h /\ r.lock = "free"
  BY <1>1, <1>3 DEF References
<1>6. /\ owner' \in [Names -> Servers \cup {"none"}]
      /\ \A n \in Names : owner'[n] # owner[n] => owner'[n] = s
  BY <1>2 DEF Register
<1> HIDE DEF r
<1>7. /\ open \subseteq open' /\ open' \subseteq Servers \X (1..MaxClients)
      /\ \A x \in Servers, n \in 1..MaxClients :
             << x, n >> \in open' \ open => x = s /\ (<< x, n >> \in history'.leaked \/ n = r.client)
      /\ << s, r.client >> \in open'
  BY <1>2, <1>3, <1>4, <1>5
<1>8. r.client = r.made /\ r.made >= ref[s].made /\ r.lock = ref[s].lock /\ r.header \in 0..idp'.issued
      /\ r.client # 0
  BY <1>1, <1>5
<1>9. Prepares(s, r) /\ UNCHANGED << cfg, call >>
  BY <1>2, <1>6, <1>7, <1>8 DEF Prepares
<1> QED
  BY <1>4, <1>5, <1>8, <1>9, SetupKeeps

LEMMA ConnectKeeps ==
    ASSUME MaxTokens \in Nat, MaxClients \in Nat, IInv, ~Down, Connect
    PROVE  IInv'
<1> PICK s : s = Head(todo)
  OBVIOUS
<1>1. todo # << >> /\ todo' = Tail(todo) /\ UNCHANGED << cfg, call >>
  BY DEF Connect
<1>2. s \in Servers /\ ref[s].header \in 0..idp.issued /\ ref[s].made = 0
  BY <1>1, NextServer
<1>3. PICK token, fate, h :
        /\ token \in Fetched
        /\ fate \in {"connected", "refused", "unlisted", "no prompts"}
        /\ h = IF cfg.hooks THEN Header(s, token) ELSE ref[s].header
        /\ FetchToken(token)
        /\ fate # "refused" => MayConnect(s, h)
        /\ CASE fate = "refused" -> UNCHANGED << ref, open, owner, history >>
             [] fate = "unlisted" ->
                  /\ open' = open \cup {<< s, 1 >>}
                  /\ history' = [history EXCEPT !.leaked = @ \cup {<< s, 1 >>}]
                  /\ UNCHANGED << ref, owner >>
             [] OTHER ->
                  /\ With(s, h)
                  /\ owner' = Register(s, Config(s).offers \cap (IF fate = "no prompts" THEN Tools ELSE Names))
                  /\ UNCHANGED history
  BY DEF Connect
<1>4. /\ Tokens /\ env' = token
      /\ token \in 0..idp'.issued /\ \A x \in 0..idp.issued : x \in 0..idp'.issued
  BY <1>3, Fetching
<1>5. h = token \/ h = ref[s].header
  BY <1>3 DEF Header
<1>6. h \in 0..idp'.issued
  BY <1>2, <1>4, <1>5
<1>7. CASE fate = "refused"
  <2>1. UNCHANGED << ref, open, owner, history >>
    BY <1>3, <1>7
  <2>2. history' = [history EXCEPT !.leaked = @ \cup {}] /\ open' = open \cup {}
    BY <2>1 DEF IInv, Shape
  <2>3. UNCHANGED << cfg, call, ref, owner >>
    BY <1>1, <2>1
  <2> QED
    BY <1>1, <1>2, <1>4, <2>2, <2>3, UnconnectedKeeps
<1>8. CASE fate = "unlisted"
  <2>1. /\ open' = open \cup {<< s, 1 >>}
        /\ history' = [history EXCEPT !.leaked = @ \cup {<< s, 1 >>}]
        /\ UNCHANGED << cfg, call, ref, owner >>
    BY <1>1, <1>3, <1>8
  <2>2. MaxClients >= 1
    BY <1>2, <1>3, <1>8 DEF MayConnect
  <2> QED
    BY <1>1, <1>2, <1>4, <2>1, <2>2, UnconnectedKeeps
<1>9. CASE fate \in {"connected", "no prompts"}
  <2>1. /\ With(s, h) /\ UNCHANGED << cfg, call, history >> /\ MayConnect(s, h)
        /\ owner' = Register(s, Config(s).offers \cap (IF fate = "no prompts" THEN Tools ELSE Names))
    BY <1>1, <1>3, <1>9
  <2> QED
    BY <1>1, <1>2, <1>4, <1>6, <2>1, ConnectedKeeps
<1> QED
  BY <1>3, <1>7, <1>8, <1>9

-----------------------------------------------------------------------------
LEMMA IInvKept ==
    ASSUME Parameters, IInv, [Next]_vars
    PROVE  IInv'
<1>1. MaxTokens \in Nat /\ MaxClients \in Nat /\ "free" \notin Calls
  BY DEF Parameters
<1>2. CASE todo # << "down" >> /\ Connect
  BY <1>1, <1>2, ConnectKeeps DEF Down
<1>3. CASE Expire
  BY <1>1, <1>3, ExpireKeeps
<1>4. CASE Shutdown
  BY <1>1, <1>4, ShutdownKeeps
<1>5. ASSUME NEW c \in Calls, Progress(c) \/ Cancel(c) \/ \E n \in Names : Call(c, n)
      PROVE  IInv'
  BY <1>1, <1>5, CallMoves, TakeLockKeeps, FireHookKeeps, CloseOldKeeps, ReconnectKeeps, CancelKeeps
     DEF Progress
<1>6. CASE UNCHANGED vars
  BY <1>6 DEF vars, IInv, Shape, TypeOK, References, Uses, Servers, InSetup, Down, Locked, Reconnects,
     Reached, Connecting, Tried, Explained
<1> QED
  BY <1>2, <1>3, <1>4, <1>5, <1>6 DEF Next

LEMMA Invariance ==
    ASSUME Parameters PROVE Spec => []IInv
<1>1. Init => IInv
  BY Initially
<1>2. IInv /\ [Next]_vars => IInv'
  BY IInvKept
<1> QED
  BY <1>1, <1>2, PTL DEF Spec

\* References, clients, names and calls keep their types.
THEOREM TypeCorrect ==
    ASSUME Parameters PROVE Spec => []TypeOK
<1>1. IInv => TypeOK
  BY DEF IInv, Shape
<1> QED
  BY <1>1, Invariance, PTL

\* For any number of servers and of calls that are refused, cancelled or retried at the same
\* time: tools run once, clients are not leaked, a server stays in reach until a reconnection
\* has failed, and a call finds its client closed only where another call has reconnected.
THEOREM ConnectionsStaySound ==
    ASSUME Parameters PROVE Spec => []ConnectionsAreSound
<1>1. ASSUME IInv PROVE ConnectionsAreSound
  <2>1. ToolsRunOnce
    BY <1>1 DEF IInv, Tried, ToolsRunOnce
  <2>2. ClientsAreTakenCareOf
    <3>1. ASSUME NEW s \in Servers PROVE Reconnecting(s) = {ref[s].lock} \ {"free"}
      <4>1. ref[s].lock \in Calls \cup {"free"} /\ "free" \notin Calls
        BY <1>1 DEF IInv, Shape, TypeOK, Parameters
      <4>2. \A c \in Calls : c \in Reconnecting(s) <=> ref[s].lock = c
        BY <1>1 DEF IInv, Locked, Reconnects, Reconnecting
      <4>3. Reconnecting(s) \subseteq Calls
        BY DEF Reconnecting
      <4> QED
        BY <4>1, <4>2, <4>3
    <3>2. open \ history.leaked \subseteq {<< s, ref[s].client >> : s \in Servers}
      BY <1>1 DEF IInv, Shape, TypeOK, Reached
    <3> QED
      BY <3>1, <3>2 DEF ClientsAreTakenCareOf
  <2>3. ServersStayInReach
    BY <1>1 DEF IInv, Reached, Connecting, ServersStayInReach, Reconnecting, At
  <2>4. DropsAreExplained
    BY <1>1 DEF IInv, Explained, Connecting, DropsAreExplained, Reconnecting, Down
  <2> QED
    BY <2>1, <2>2, <2>3, <2>4 DEF ConnectionsAreSound
<1> QED
  BY <1>1, Invariance, PTL
=============================================================================
